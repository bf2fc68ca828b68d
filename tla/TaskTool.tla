------------------------------- MODULE TaskTool -------------------------------
(***************************************************************************)
(* The task tool: delegations to SubAgents, run by concurrent tool threads *)
(* over one shared ledger (TodoLedger), one fixer counter table and one    *)
(* verifier-evidence cache.                                                *)
(*                                                                         *)
(* A delegation follows _run_wrapped: resolve the role, check the fixer's  *)
(* hard cap, glue the cached evidence onto a fixer's description, run the  *)
(* role between _on_start and _on_end, and for a coder that reports        *)
(* COMPLETED run the verifier/fixer chain and mark the verdict.  Each      *)
(* access to state other threads share is a step of its own.               *)
(*                                                                         *)
(* A description is kept as the first TASK-NN id in it (None: no id).  The *)
(* role's LLM loop is external: a run returns any outcome.                 *)
(***************************************************************************)
EXTENDS Naturals, Sequences, FiniteSets

CONSTANTS Ids, None, Workers, TodoLists, LedgerTools, PanelAttached,  \* see TodoLedger
          GateKey,       \* _FIXER_GATE_CAP_KEY: counts fixers that name no task
          NoEvidence,    \* the evidence cache holds no text
          AgentTypes,    \* the agent_type values the orchestrator uses
          Mentions,      \* ids (or None) a role's report may name first
          Quotable,      \* the marks ("[Task COMPLETED", PASSED) a report may quote
          Clipped,       \* per id, the ids it reads as when a text is cut inside it
          MaxAttempts,   \* _AUTO_VERIFY_MAX_ATTEMPTS
          HardCap,       \* _FIXER_HARD_CAP
          CountCeiling   \* fixer counts are not told apart from here on

Roles == {"planner", "coder", "reviewer", "fixer", "researcher", "verifier"}
Keys  == Ids \cup {GateKey}

ASSUME TypesAssumption    == AgentTypes \subseteq (Roles \cup {"auto"})
ASSUME MentionsAssumption == Mentions \subseteq (Ids \cup {None})
ASSUME QuotableAssumption == Quotable \subseteq {"COMPLETED", "PASSED"}
ASSUME ClippedAssumption  == Clipped \in [Ids -> SUBSET Ids]
ASSUME AttemptsAssumption == MaxAttempts \in Nat \ {0}
ASSUME CapAssumption      == HardCap \in Nat /\ CountCeiling \in Nat /\ HardCap < CountCeiling
ASSUME KeysAssumption     == None \notin Ids /\ GateKey \notin Ids
                               /\ NoEvidence \notin Ids \cup {None}

VARIABLES items, order, panel, call,   \* the ledger
          dlg,        \* per thread: the delegation it runs
          attempts,   \* _fixer_attempts
          evidence    \* _last_verifier_evidence, as the first id in its text

L == INSTANCE TodoLedger

ASSUME LedgerAssumption   == /\ None \notin L!Statuses /\ PanelAttached \in BOOLEAN
                             /\ TodoLists \subseteq (Seq(L!Row) \ {<<>>})

ledgerVars == <<items, order, panel, call>>
vars == <<items, order, panel, call, dlg, attempts, evidence>>

(***************************************************************************)
(* What a role run returns.                                                *)
(***************************************************************************)

\* The status tag, and for a verifier: whether it ran execute at all, whether
\* some execute failed, whether that output is longer than the 800 characters
\* the formatted result keeps of it (execute prints its marker last), and
\* whether its own summary or a command it ran quotes a failure marker.  Any
\* report may also quote a mark of the harness's own.
Results(role) ==
  [tag    : {"COMPLETED", "INCOMPLETE", "FAILED"},
   ran    : IF role = "verifier" THEN BOOLEAN ELSE {FALSE},
   failed : IF role = "verifier" THEN BOOLEAN ELSE {FALSE},
   cut    : IF role = "verifier" THEN BOOLEAN ELSE {FALSE},
   quoted : IF role = "verifier" THEN BOOLEAN ELSE {FALSE},
   quotes : SUBSET Quotable]

\* _verifier_signals_success, on the structured result.
SignalsSuccess(r) == r.ran /\ ~ r.failed

\* An _EXECUTE_FAILURE_MARKERS substring in _format_verifier_output's text.
MarkerInText(r) == r.quoted \/ (r.ran /\ r.failed /\ ~ r.cut)

\* "[Task COMPLETED" in the formatted text, whatever the status was.
TagInText(r) == r.tag = "COMPLETED" \/ "COMPLETED" \in r.quotes

\* What later steps look at: the tag, the structured verdict, and what the text
\* says: that it completed, and for a verifier that it passed.
Outcome(r) == [tag |-> r.tag, green |-> SignalsSuccess(r), says |-> TagInText(r),
               pass |-> TagInText(r) /\ ~ MarkerInText(r)]

NoOutcome == [tag |-> "NONE", green |-> FALSE, says |-> FALSE, pass |-> FALSE]
Outcomes  == [tag : {"NONE", "COMPLETED", "INCOMPLETE", "FAILED"},
              green : BOOLEAN, says : BOOLEAN, pass : BOOLEAN]

\* (History) A report that speaks for the task: of a role other than the coder,
\* read as completed, and not of a verifier whose text shows a failed execute.
\* A text with the PASSED marker in it is taken for one, whoever wrote it.
SpeaksFor(role, r) ==
  \/ "PASSED" \in r.quotes
  \/ role # "coder" /\ TagInText(r) /\ ~ (r.ran /\ r.failed /\ ~ r.cut)

(***************************************************************************)
(* Delegations.                                                            *)
(***************************************************************************)
Pcs == {"idle", "cap", "evidence", "start", "count", "store", "run", "end",
        "ended", "verdict", "finish"}

NoDelegation ==
  [pc |-> "idle", resolved |-> None, type |-> None, role |-> None, id |-> None,
   descId |-> None, attempt |-> 0, out |-> NoOutcome, count |-> 0, passed |-> FALSE,
   vouched |-> FALSE]

Delegations ==
  [pc       : Pcs,
   resolved : Roles \cup {None},               \* the wrapper's role
   type     : Roles \cup {"auto", None},       \* agent_type of the inner call
   role     : Roles \cup {None},               \* the inner call's role
   id       : Ids \cup {None},                 \* first id of the caller's description
   descId   : Ids \cup {None},                 \* first id of the inner call's description
   attempt  : 0 .. MaxAttempts,                \* chain round, 0: not in the chain
   out      : Outcomes,
   count    : 0 .. CountCeiling,
   passed   : BOOLEAN,                         \* the PASSED marker is in the result text
   vouched  : BOOLEAN]                         \* (history) some report spoke for the task

Goto(w, pc) == dlg' = [dlg EXCEPT ![w].pc = pc]
CapKey(i)   == IF i = None THEN GateKey ELSE i
FirstId(i, j) == IF i # None THEN i ELSE j

\* The first id of a text that was cut to a length: kept, lost or clipped.
CutText(i) == IF i \in Ids THEN {i, None} \cup Clipped[i] ELSE {None}
Bump(n) == IF n < CountCeiling THEN n + 1 ELSE n

\* An _auto_advance_todo call: nothing without a task id, else the ledger's
\* own steps, which the delegation waits for.
Advance(w, i, s) ==
  IF i = None THEN UNCHANGED ledgerVars
              ELSE L!AdvanceSkipped(w, i, s) \/ L!AdvanceRead(w, i, s)

\* resolve_role_name: a role's name is the role; "auto" is classified, by
\* keyword or by an LLM, into any role.  (An unknown name counts as "coder".)
ResolvesTo(type, role) == type = "auto" \/ type = role

\* The wrapper is called and resolves the role.
Delegate(w, type, role, i) ==
  /\ dlg[w].pc = "idle"
  /\ ResolvesTo(type, role)
  /\ dlg' = [dlg EXCEPT ![w] =
               [NoDelegation EXCEPT !.pc = IF role = "fixer" THEN "cap" ELSE "start",
                                    !.type = type, !.resolved = role, !.role = role,
                                    !.id = i, !.descId = i]]
  /\ UNCHANGED <<ledgerVars, attempts, evidence>>

\* A fixer past the hard cap gets an INCOMPLETE answer and does not run.
FixerCapped(w) ==
  /\ dlg[w].pc = "cap"
  /\ attempts[CapKey(dlg[w].id)] >= HardCap
  /\ dlg' = [dlg EXCEPT ![w] = NoDelegation]
  /\ UNCHANGED <<ledgerVars, attempts, evidence>>

\* Fault: off by one.
FixerAllowedAtCap(w) ==
  /\ dlg[w].pc = "cap"
  /\ attempts[CapKey(dlg[w].id)] <= HardCap
  /\ Goto(w, "evidence")
  /\ UNCHANGED <<ledgerVars, attempts, evidence>>

FixerAllowed(w) ==
  /\ dlg[w].pc = "cap"
  /\ attempts[CapKey(dlg[w].id)] < HardCap
  /\ Goto(w, "evidence")
  /\ UNCHANGED <<ledgerVars, attempts, evidence>>

\* Fault: an empty cache is glued on like any other text.
AttachAnyEvidence(w) ==
  /\ dlg[w].pc = "evidence"
  /\ dlg' = [dlg EXCEPT ![w].pc = "start", ![w].descId = evidence]
  /\ UNCHANGED <<ledgerVars, attempts, evidence>>

\* _prepend_verifier_evidence: the evidence, cut at its cap, comes first in the
\* description, so an id it names is the first one found.
AttachEvidence(w) ==
  /\ dlg[w].pc = "evidence"
  /\ \E shown \in CutText(evidence) :
       dlg' = [dlg EXCEPT ![w].pc = "start", ![w].descId = FirstId(shown, dlg[w].id)]
  /\ UNCHANGED <<ledgerVars, attempts, evidence>>

\* The inner tool resolves the role again (for "auto" from the description as
\* it is now) and calls _on_start.
OnStart(w, role) ==
  /\ dlg[w].pc = "start" /\ L!Idle(w)
  /\ ResolvesTo(dlg[w].type, role)
  /\ dlg' = [dlg EXCEPT ![w].pc = IF role = "fixer" THEN "count" ELSE "run",
                        ![w].role = role]
  /\ Advance(w, dlg[w].descId, "in_progress")
  /\ UNCHANGED <<attempts, evidence>>

\* _fixer_attempts[key] = _fixer_attempts.get(key, 0) + 1, which no lock guards.
CountRead(w) ==
  /\ dlg[w].pc = "count" /\ L!Idle(w)
  /\ dlg' = [dlg EXCEPT ![w].pc = "store", ![w].count = attempts[CapKey(dlg[w].descId)]]
  /\ UNCHANGED <<ledgerVars, attempts, evidence>>

CountStore(w) ==
  /\ dlg[w].pc = "store"
  /\ attempts' = [attempts EXCEPT ![CapKey(dlg[w].descId)] = Bump(dlg[w].count)]
  /\ dlg' = [dlg EXCEPT ![w].pc = "run", ![w].count = 0]
  /\ UNCHANGED <<ledgerVars, evidence>>

\* Only the planner's allowlist has write_todos.
PlannerWrites(w, todos) ==
  /\ dlg[w].pc = "run" /\ dlg[w].role = "planner"
  /\ L!WriteTodos(w, todos) \/ L!WriteRejected(w, todos)
  /\ UNCHANGED <<dlg, attempts, evidence>>

\* The role is done.  _on_end first caches a verifier's formatted output, which
\* names some task first, none, or is empty.  Every text of a coder's delegation
\* goes into its result (of a passed chain: the PASSED marker does anyway).
RoleReturns(w, r, named) ==
  /\ dlg[w].pc = "run" /\ L!Idle(w)
  /\ dlg' = [dlg EXCEPT ![w].pc = "end", ![w].out = Outcome(r),
                        ![w].passed = @ \/ (dlg[w].resolved = "coder" /\ "PASSED" \in r.quotes),
                        ![w].vouched = @ \/ SpeaksFor(dlg[w].role, r)]
  /\ evidence' = IF dlg[w].role = "verifier" /\ r.tag \in {"COMPLETED", "INCOMPLETE"}
                 THEN named ELSE evidence
  /\ UNCHANGED <<ledgerVars, attempts>>

\* inner_func raises: the chain gives up, a direct delegation ends.
RoleRaises(w) ==
  /\ dlg[w].pc = "run" /\ L!Idle(w)
  /\ IF dlg[w].attempt > 0
     THEN Goto(w, "verdict")
     ELSE dlg' = [dlg EXCEPT ![w] = NoDelegation]
  /\ UNCHANGED <<ledgerVars, attempts, evidence>>

\* The rest of _on_end.
Attests(d) ==
  /\ d.out.tag = "COMPLETED"
  /\ d.role # "coder"
  /\ d.role = "verifier" => d.out.green

\* Fault: every COMPLETED report advances the row, the coder's too.
OnEndTrusting(w) ==
  /\ dlg[w].pc = "end"
  /\ IF dlg[w].out.tag = "COMPLETED" THEN Advance(w, dlg[w].descId, "completed")
                                     ELSE UNCHANGED ledgerVars
  /\ Goto(w, "ended")
  /\ UNCHANGED <<attempts, evidence>>

OnEnd(w) ==
  /\ dlg[w].pc = "end"
  /\ IF Attests(dlg[w]) THEN Advance(w, dlg[w].descId, "completed")
                        ELSE UNCHANGED ledgerVars
  /\ Goto(w, "ended")
  /\ UNCHANGED <<attempts, evidence>>

(***************************************************************************)
(* _run_wrapped after inner_func, and _auto_verify_chain.                  *)
(***************************************************************************)
Returned(w) == dlg[w].pc = "ended" /\ L!Idle(w)
EntersChain(d) == d.attempt = 0 /\ d.resolved = "coder" /\ d.out.says

\* The first id of a chain call's description: the head of the coder's
\* description, then the tail of a report.
ChainIds(i) == {FirstId(head, named) : head \in CutText(i), named \in Mentions}

ChainCall(w, role, attempt, first) ==
  dlg' = [dlg EXCEPT ![w] =
            [@ EXCEPT !.pc = "start", !.type = role, !.role = role, !.attempt = attempt,
                      !.descId = first, !.out = NoOutcome]]

Return(w) ==
  /\ Returned(w)
  /\ dlg[w].attempt = 0 /\ ~ EntersChain(dlg[w])
  /\ dlg' = [dlg EXCEPT ![w] = NoDelegation]
  /\ UNCHANGED <<ledgerVars, attempts, evidence>>

\* Fault: a round is not counted after the first.
ChainVerifyUncounted(w, first) ==
  /\ Returned(w)
  /\ \/ EntersChain(dlg[w])
     \/ dlg[w].attempt > 0 /\ dlg[w].role = "fixer"
  /\ ChainCall(w, "verifier", 1, first)
  /\ UNCHANGED <<ledgerVars, attempts, evidence>>

ChainVerify(w, first) ==
  /\ Returned(w)
  /\ \/ EntersChain(dlg[w])
     \/ dlg[w].attempt > 0 /\ dlg[w].role = "fixer"
  /\ ChainCall(w, "verifier", dlg[w].attempt + 1, first)
  /\ UNCHANGED <<ledgerVars, attempts, evidence>>

ChainFix(w, first) ==
  /\ Returned(w)
  /\ dlg[w].attempt > 0 /\ dlg[w].role = "verifier" /\ ~ dlg[w].out.pass
  /\ dlg[w].attempt < MaxAttempts
  /\ ChainCall(w, "fixer", dlg[w].attempt, first)
  /\ UNCHANGED <<ledgerVars, attempts, evidence>>

\* PASSED, or FAILED after the last round.
ChainEnds(w) ==
  /\ Returned(w)
  /\ dlg[w].attempt > 0 /\ dlg[w].role = "verifier"
  /\ dlg[w].out.pass \/ dlg[w].attempt = MaxAttempts
  /\ dlg' = [dlg EXCEPT ![w].pc = "verdict", ![w].passed = @ \/ dlg[w].out.pass]
  /\ UNCHANGED <<ledgerVars, attempts, evidence>>

\* Fault: only a passed chain is marked.
MarkPassedOnly(w) ==
  /\ dlg[w].pc = "verdict"
  /\ IF dlg[w].passed THEN Advance(w, dlg[w].id, "completed") ELSE UNCHANGED ledgerVars
  /\ Goto(w, "finish")
  /\ UNCHANGED <<attempts, evidence>>

\* The PASSED marker is looked for first, anywhere in the text: the chain's own
\* or one a report quotes.  Then the delegation returns.
MarkVerdict(w) ==
  /\ dlg[w].pc = "verdict"
  /\ Advance(w, dlg[w].id, IF dlg[w].passed THEN "completed" ELSE "verify_failed")
  /\ Goto(w, "finish")
  /\ UNCHANGED <<attempts, evidence>>

Finish(w) ==
  /\ dlg[w].pc = "finish" /\ L!Idle(w)
  /\ dlg' = [dlg EXCEPT ![w] = NoDelegation]
  /\ UNCHANGED <<ledgerVars, attempts, evidence>>

LedgerStep(w) == L!Resume(w) /\ UNCHANGED <<dlg, attempts, evidence>>

-----------------------------------------------------------------------------
Init ==
  /\ L!Init
  /\ dlg = [w \in Workers |-> NoDelegation]
  /\ attempts = [k \in Keys |-> 0]
  /\ evidence = NoEvidence

RoleEnds(w) ==
  \/ \E r \in Results(dlg[w].role), named \in Mentions \cup {NoEvidence} : RoleReturns(w, r, named)
  \/ RoleRaises(w)

\* Steps of a delegation under way; the planner's writes are the LLM's choice.
Proceed(w) ==
  \/ FixerCapped(w) \/ FixerAllowed(w) \/ AttachEvidence(w)
  \/ \E role \in Roles : OnStart(w, role)
  \/ CountRead(w) \/ CountStore(w)
  \/ RoleEnds(w)
  \/ OnEnd(w) \/ Return(w)
  \/ \E first \in ChainIds(dlg[w].id) : ChainVerify(w, first) \/ ChainFix(w, first)
  \/ ChainEnds(w) \/ MarkVerdict(w) \/ Finish(w)
  \/ LedgerStep(w)

Next ==
  \E w \in Workers :
    \/ \E type \in AgentTypes, role \in Roles, i \in Ids \cup {None} : Delegate(w, type, role, i)
    \/ \E todos \in TodoLists : PlannerWrites(w, todos)
    \/ Proceed(w)

\* A delegation runs on.  A role run ends however often its LLM calls tools:
\* orchestrator_factory gives every role a watchdog timeout.
Spec ==
  /\ Init /\ [][Next]_vars
  /\ \A w \in Workers : WF_vars(Proceed(w)) /\ SF_vars(RoleEnds(w))

-----------------------------------------------------------------------------
\* Types of the delegations, the counters and the evidence cache.
TypeOK ==
  /\ L!TypeOK
  /\ dlg \in [Workers -> Delegations]
  /\ attempts \in [Keys -> 0 .. CountCeiling]
  /\ evidence \in Ids \cup {None, NoEvidence}

\* A planner's write_todos is registered in this step.
PlannerRegisters == \E w \in Workers : L!Idle(w) /\ call'[w].pc = "deliver"

\* Thread w's update of a row is this step.
Updates(w) == call[w].pc = "update" /\ call'[w].pc # "update"

\* "The CLI's check mark must not lie": apart from the planner's own list, the
\* thread whose update turns a row completed runs a delegation in which some
\* role other than the coder has reported completion, and not a verifier whose
\* report shows a failed execute.  The coder's own word does not do, whatever the
\* roles, the chain's rounds and the other threads' advances.
CompletedNeedsEvidence ==
  [][\A i \in Ids :
       items[i] # "completed" /\ items'[i] = "completed" /\ ~ PlannerRegisters
         => \E w \in Workers : Updates(w) /\ dlg[w].vouched]_vars

\* (build_task_tool's docstring: "Fixer is NOT auto-advanced -- fix success/failure
\* is judged by the next verifier round") No row turns completed on the end of a
\* fixer's run.
FixerIsNotAdvanced ==
  [][\A i \in Ids, w \in Workers :
       items[i] # "completed" /\ items'[i] = "completed" /\ Updates(w)
         => ~ (dlg[w].pc = "ended" /\ dlg[w].role = "fixer")]_vars

\* A coder delegation that ran the chain leaves its task decided when it
\* returns: a passed chain leaves the row completed, a failed one terminal, so
\* that the nudge loop does not find it unfinished.
CoderSettlesRow ==
  \A w \in Workers :
    LET d == dlg[w] IN
    d.pc = "finish" /\ L!Idle(w) /\ d.id # None /\ items[d.id] # None
      => IF d.passed THEN items[d.id] = "completed" ELSE items[d.id] \in L!Terminal

\* The hard cap holds for the fixers the wrapper sees coming: one that it let
\* through, and that runs on the task it was asked for, is at most the
\* HardCap-th of that task, however many chain fixers and reclassified "auto"
\* calls were counted on the same key.
CapStopsDirectFixers ==
  \A w \in Workers :
    LET d == dlg[w] IN
    d.pc = "run" /\ d.role = "fixer" /\ d.resolved = "fixer" /\ d.descId = d.id
      => attempts[CapKey(d.id)] <= HardCap

\* Every delegation returns: the chain's rounds are bounded and no ledger call
\* waits for another thread.
DelegationsReturn == \A w \in Workers : (dlg[w].pc # "idle") ~> (dlg[w].pc = "idle")

\* (test_chain_failed_marker_advances_to_verify_failed) A chain that ends with
\* the FAILED marker leaves the row verify_failed.
FailedChainIsShown ==
  \A w \in Workers :
    LET d == dlg[w] IN
    d.pc = "finish" /\ L!Idle(w) /\ ~ d.passed /\ d.id # None /\ items[d.id] # None
      => items[d.id] = "verify_failed"

\* (task_tool.py in _auto_verify_chain) the textual PASS is the verdict of
\* _verifier_signals_success.
PassMeansGreen ==
  \A w \in Workers : dlg[w].pc = "verdict" /\ dlg[w].out.pass => dlg[w].out.green
=============================================================================
