------------------------------ MODULE AgentLoop ------------------------------
(***************************************************************************)
(* The orchestrator's graph: turns of concurrent conversations, each       *)
(* walking the nodes agent -> tools -> check_progress -> agent ... with    *)
(* the error handler, the todo nudge, the decomposition gate, the          *)
(* sufficiency loop and the safe stop.                                     *)
(*                                                                         *)
(* One action is one node or one routing decision: the event loop may run  *)
(* another conversation in between.  A conversation's checkpointed state   *)
(* is conv[s]; the web server pins it to the session, the CLI begins every *)
(* turn with a fresh one.  The error counter and the todo ledger belong to *)
(* the process.                                                            *)
(*                                                                         *)
(* The ledger is kept as row counts (TodoLedger has the rows), a reply of  *)
(* the LLM as the kinds of tool calls it makes.  Tools run in threads that *)
(* nothing stops: those of a turn or a role that was given up still write  *)
(* the ledger.  The LLM, the SubAgents and ProgressGuard are external:     *)
(* they may answer anything.                                               *)
(***************************************************************************)
EXTENDS Integers, Sequences, FiniteSets

CONSTANTS Sessions, None,
          Pinned,         \* sessions whose thread_id outlives the turn
          Replies,        \* sets of calls the LLM may answer with; {} is text
          Failures,       \* failure types a call of the LLM may raise
          Plans,          \* row counts the planner may register
          Targets,        \* roles a critic may name
          SufficiencyOn,  \* sufficiency_enabled
          HighTodo, LowTodo,                    \* per cent
          MaxIterations, MaxErrors, MaxStuck, MaxSufficiency

Calls == {"read", "planner", "coder", "auto_planner", "auto_coder"}
Gated == {"coder"}                       \* agent_type in _GATED_ROLES
Work  == {"coder", "auto_coder"}         \* calls that run a gated role
Plan  == {"planner", "auto_planner"}
FailureTypes == {"MODEL_TIMEOUT", "BAD_TOOL_CALL", "EXTERNAL_API_ERROR"}

Policy == [MODEL_TIMEOUT      |-> [max_retries |-> 2, fallback |-> TRUE],
           BAD_TOOL_CALL      |-> [max_retries |-> 1, fallback |-> FALSE],
           EXTERNAL_API_ERROR |-> [max_retries |-> 3, fallback |-> FALSE]]
FallbackOrder == <<"reasoning", "strong", "default", "fast">>

ExitReasons == {"safe_stop", "progress_guard_stop", "consecutive_errors",
                "all_models_exhausted", "error_abort", "sufficiency_escalated"}
Verdicts == {"pass", "retry_lookup", "replan", "escalate_hitl"}
Retry    == {"retry_lookup", "replan"}
Levels   == {"HIGH", "MEDIUM", "LOW"}

RowCounts == [open : Nat, done : Nat, failed : Nat]
NoRows    == [open |-> 0, done |-> 0, failed |-> 0]
Total(l)  == l.open + l.done + l.failed

\* The ways a delegation's threads write the ledger, and those of a reply's calls.
Writes == {"register", "advance"}
WritesOf(reply) ==
  (IF reply \subseteq {"read"} THEN {} ELSE {"advance"})
    \cup (IF reply \cap Plan = {} THEN {} ELSE {"register"})

ASSUME RepliesAssumption  == Replies \subseteq SUBSET Calls /\ Pinned \subseteq Sessions
ASSUME FailuresAssumption == Failures \subseteq FailureTypes
ASSUME PlansAssumption    == Plans \subseteq RowCounts /\ \A p \in Plans : Total(p) > 0
ASSUME LimitsAssumption   == MaxIterations \in Nat \ {0} /\ MaxErrors \in Nat \ {0}
                               /\ MaxStuck \in Nat /\ MaxSufficiency \in Nat
ASSUME SwitchAssumption   == SufficiencyOn \in BOOLEAN

ASSUME NoneAssumption ==
  None \notin Levels \cup Verdicts \cup ExitReasons \cup FailureTypes

VARIABLES conv,    \* per session: the AgentState it is at
          errors,  \* _consecutive_errors, one for the process
          ledger,  \* TodoStore.counts()
          orphans, \* writes left to threads of turns and roles given up
          past     \* history for the properties, no action reads it: failures
                   \* handled since the last successful call, sufficiency
                   \* retries of the thread, whether another turn's thread wrote
                   \* the ledger while this one was past its last look at it

vars == <<conv, errors, ledger, orphans, past>>

Nodes == {"idle", "agent", "route", "tools", "check", "error", "nudge", "asking",
          "sufficiency", "critic", "apply", "extract", "stop"}
Named == Targets \cup {"coder", "fixer", "planner", None}
Stash == [level : Levels \cup {None}, verdict : Verdicts \cup {None}, target : Named]
Entries == Levels \X Verdicts \X Named   \* what sufficiency_history keeps of a round

Conversations ==
  [node : Nodes, reply : SUBSET Calls, error : FailureTypes \cup {None},
   iteration : 0 .. MaxIterations, exit : ExitReasons \cup {None},
   tier : 1 .. Len(FallbackOrder), nudges : 0 .. MaxStuck + 1,
   lastOpen : Nat \cup {None}, confirmed : BOOLEAN, verdict : Stash,
   rounds : 0 .. MaxSufficiency + 1, recent : Seq(Entries)]

NoStash == [level |-> None, verdict |-> None, target |-> None]
Fresh ==
  [node |-> "idle", reply |-> {}, error |-> None, iteration |-> 0, exit |-> None,
   tier |-> 1, nudges |-> 0, lastOpen |-> None, confirmed |-> FALSE,
   verdict |-> NoStash, rounds |-> 0, recent |-> <<>>]
NoPast == [failed |-> <<>>, retries |-> 0, overtaken |-> FALSE]

UpTo(n, bound) == IF n <= bound THEN n ELSE bound

At(s, node) == conv[s].node = node
Goto(s, node) == conv' = [conv EXCEPT ![s].node = node]

\* A turn comes in; inject_memory sets up the counters of a new thread only.
StartTurn(s) ==
  /\ At(s, "idle")
  /\ conv' = [conv EXCEPT ![s] = [(IF s \in Pinned THEN @ ELSE Fresh) EXCEPT !.node = "agent"]]
  /\ past' = [past EXCEPT ![s] = IF s \in Pinned THEN @ ELSE NoPast]
  /\ UNCHANGED <<errors, ledger, orphans>>

\* agent_node.  iteration counts on across turns and errors.
Called(c) == UpTo(c.iteration + 1, MaxIterations)

AgentReplies(s, reply) ==
  /\ At(s, "agent")
  /\ conv' = [conv EXCEPT ![s] = [@ EXCEPT !.node = "route", !.reply = reply,
                                           !.iteration = Called(conv[s])]]
  /\ past' = [past EXCEPT ![s].failed = <<>>, ![s].overtaken = FALSE]
  /\ UNCHANGED <<errors, ledger, orphans>>

AgentFails(s, failure) ==
  /\ At(s, "agent")
  /\ conv' = [conv EXCEPT ![s] = [@ EXCEPT !.node = "route", !.error = failure,
                                           !.iteration = Called(conv[s])]]
  /\ UNCHANGED <<errors, ledger, orphans, past>>

(***************************************************************************)
(* route_after_agent.                                                      *)
(***************************************************************************)
\* Fault: the limit is looked at after the tool calls.
SafeStopsLate(c) == c.iteration >= MaxIterations /\ c.reply = {}
SafeStops(c) == c.iteration >= MaxIterations

GateNeeded(c) == ~ c.confirmed /\ Total(ledger) > 0 /\ c.reply \cap Gated # {}

\* Fault: gives up one nudge early.
NudgeDecisionEarly(open, lastOpen, nudges) ==
  IF open = 0 THEN "clean_end"
  ELSE IF lastOpen = None \/ open < lastOpen \/ nudges + 1 < MaxStuck THEN "nudge"
  ELSE "stuck_end"

NudgeDecision(open, lastOpen, nudges) ==
  IF open = 0 THEN "clean_end"
  ELSE IF lastOpen = None \/ open < lastOpen \/ nudges < MaxStuck THEN "nudge"
  ELSE "stuck_end"

Decision(c) == NudgeDecision(ledger.open, c.lastOpen, c.nudges)

\* error_info comes first, be it of this call or left by an abandoned turn.
RouteError(s) ==
  /\ At(s, "route") /\ conv[s].error # None
  /\ Goto(s, "error")
  /\ UNCHANGED <<errors, ledger, orphans, past>>

Routes(s) ==
  At(s, "route") /\ conv[s].error = None /\ UNCHANGED <<errors, ledger, orphans, past>>

RouteStop(s) == Routes(s) /\ SafeStops(conv[s]) /\ Goto(s, "stop")

\* gate_decomposition_node runs up to its interrupt.
RouteGate(s) ==
  Routes(s) /\ ~ SafeStops(conv[s]) /\ GateNeeded(conv[s]) /\ Goto(s, "asking")

RouteTools(s) ==
  /\ Routes(s) /\ ~ SafeStops(conv[s])
  /\ conv[s].reply # {} /\ ~ GateNeeded(conv[s])
  /\ Goto(s, "tools")

Silent(s) == Routes(s) /\ ~ SafeStops(conv[s]) /\ conv[s].reply = {}

RouteNudge(s) == Silent(s) /\ Decision(conv[s]) = "nudge" /\ Goto(s, "nudge")

RouteStuck(s) == Silent(s) /\ Decision(conv[s]) = "stuck_end" /\ Goto(s, "extract")

Escalated(c) == c.verdict.verdict = "escalate_hitl"

\* Fault: an escalated thread is evaluated again.
RouteSufficiencyAgain(s) ==
  Silent(s) /\ Decision(conv[s]) = "clean_end" /\ SufficiencyOn /\ Goto(s, "sufficiency")

RouteSufficiency(s) ==
  /\ Silent(s) /\ Decision(conv[s]) = "clean_end"
  /\ SufficiencyOn /\ ~ Escalated(conv[s])
  /\ Goto(s, "sufficiency")

RouteEnd(s) ==
  /\ Silent(s) /\ Decision(conv[s]) = "clean_end"
  /\ ~ SufficiencyOn \/ Escalated(conv[s])
  /\ Goto(s, "extract")

(***************************************************************************)
(* tools and check_progress.                                               *)
(***************************************************************************)

\* (History) A turn that decided how to end does not look at the ledger again
\* before it evaluates or ends.
PastItsLook(s) == conv[s].node \in {"sufficiency", "critic", "apply", "extract"}
Overtakes ==
  past' = [s \in Sessions |->
             [past[s] EXCEPT !.overtaken = @ \/ PastItsLook(s)]]

\* A planner's write_todos: rejected over terminal rows.
Registers(plan) ==
  /\ ledger.done + ledger.failed = 0
  /\ ledger' = plan
  /\ Overtakes
  /\ UNCHANGED <<conv, errors, orphans>>

\* The harness advances a row on behalf of a delegation.  It keeps a completed
\* row completed on the listing it has read; a row completed since is moved back.
Advances(from, to) ==
  /\ from # to /\ ledger[from] > 0
  /\ ledger' = [ledger EXCEPT ![from] = @ - 1, ![to] = @ + 1]
  /\ Overtakes
  /\ UNCHANGED <<conv, errors, orphans>>

PlannerRegisters(s, plan) ==
  At(s, "tools") /\ "register" \in WritesOf(conv[s].reply) /\ Registers(plan)

RowMoves(s, from, to) ==
  At(s, "tools") /\ "advance" \in WritesOf(conv[s].reply) /\ Advances(from, to)

\* Threads of work that was given up do the same, whatever the graph does now.
OrphanRegisters(plan)  == "register" \in orphans /\ Registers(plan)
OrphanMoves(from, to)  == "advance" \in orphans /\ Advances(from, to)

OrphanEnds(write) ==
  /\ write \in orphans
  /\ orphans' = orphans \ {write}
  /\ UNCHANGED <<conv, errors, ledger, past>>

\* The calls have returned; a planner that its watchdog stopped may have left a
\* write_todos thread behind.
ToolsDone(s) ==
  /\ At(s, "tools")
  /\ Goto(s, "check")
  /\ \E left \in SUBSET (WritesOf(conv[s].reply) \cap {"register"}) : orphans' = orphans \cup left
  /\ UNCHANGED <<errors, ledger, past>>

\* Whatever the reason, an exit_reason in the state ends the turn.
StopOr(c, node) == IF c.exit # None THEN "stop" ELSE node

CheckProgress(s, stall) ==
  /\ At(s, "check")
  /\ errors' = 0
  /\ conv' = [conv EXCEPT ![s] =
                LET c == IF stall THEN [@ EXCEPT !.exit = "progress_guard_stop"] ELSE @
                IN  [c EXCEPT !.node = StopOr(c, "agent")]]
  /\ UNCHANGED <<ledger, orphans, past>>

(***************************************************************************)
(* handle_error.  The retry count it returns is no key of AgentState, so   *)
(* the next failure finds none.                                            *)
(***************************************************************************)
RetryCountKept == 0

Resolution(failure, retries) ==
  IF retries < Policy[failure].max_retries THEN "retry"
  ELSE IF Policy[failure].fallback THEN "fallback" ELSE "abort"

Resolved(c, resolution) ==
  CASE resolution = "retry" -> c
    [] resolution = "abort" -> [c EXCEPT !.exit = "error_abort"]
    [] resolution = "fallback" ->
         IF c.tier < Len(FallbackOrder) THEN [c EXCEPT !.tier = @ + 1]
                                        ELSE [c EXCEPT !.exit = "all_models_exhausted"]

\* Fault: off by one.
PastErrorLimit(count) == count > MaxErrors
AtErrorLimit(count) == count >= MaxErrors

HandleError(s) ==
  /\ At(s, "error")
  /\ errors' = UpTo(errors + 1, MaxErrors)
  /\ conv' = [conv EXCEPT ![s] =
                LET c == IF AtErrorLimit(errors') THEN [@ EXCEPT !.exit = "consecutive_errors"]
                         ELSE Resolved(@, Resolution(@.error, RetryCountKept))
                IN  [c EXCEPT !.node = StopOr(c, "agent"), !.error = None]]
  /\ past' = [past EXCEPT ![s].failed =
                IF Len(@) < MaxErrors THEN Append(@, conv[s].error) ELSE @]
  /\ UNCHANGED <<ledger, orphans>>

\* nudge_pending_todos_node reads the ledger again.
Nudge(s) ==
  /\ At(s, "nudge")
  /\ conv' = [conv EXCEPT ![s] =
                [@ EXCEPT !.node = "agent", !.lastOpen = ledger.open,
                          !.nudges = IF conv[s].lastOpen = None \/ ledger.open < conv[s].lastOpen
                                     THEN 1 ELSE UpTo(conv[s].nudges + 1, MaxStuck + 1)]]
  /\ UNCHANGED <<errors, ledger, orphans, past>>

\* The rest of gate_decomposition_node: every answer confirms, two of them
\* clear the ledger.
Answer(s, decision) ==
  /\ At(s, "asking")
  /\ conv' = [conv EXCEPT ![s].node = "agent", ![s].confirmed = TRUE]
  /\ ledger' = IF decision \in {"finer", "coarser"} THEN NoRows ELSE ledger
  /\ UNCHANGED <<errors, orphans, past>>

\* The stream is given up: the HITL deadline passes or the client goes away.
\* The threads of the calls under way run on.
Abandon(s) ==
  /\ ~ At(s, "idle")
  /\ Goto(s, "idle")
  /\ orphans' = IF At(s, "tools") THEN orphans \cup WritesOf(conv[s].reply) ELSE orphans
  /\ UNCHANGED <<errors, ledger, past>>

(***************************************************************************)
(* The sufficiency loop.                                                   *)
(***************************************************************************)

\* evaluate(): what the todo ratio leaves open; files, pytest and lint decide
\* the rest.
AtLeast(percent) == Total(ledger) = 0 \/ 100 * ledger.done >= percent * Total(ledger)
LevelsFor(level) ==
  CASE level = "LOW"    -> TRUE
    [] level = "MEDIUM" -> AtLeast(LowTodo)
    [] level = "HIGH"   -> AtLeast(HighTodo)

\* heuristic_verdict_for_low; its own todo threshold is 0.5.
LowVerdicts ==
  {<<"retry_lookup", "fixer">>, <<"replan", "planner">>}
    \cup (IF AtLeast(50) THEN {} ELSE {<<"retry_lookup", "coder">>})

SufficiencyHigh(s) ==
  /\ At(s, "sufficiency") /\ LevelsFor("HIGH")
  /\ conv' = [conv EXCEPT ![s].node = "extract", ![s].verdict = [NoStash EXCEPT !.level = "HIGH"]]
  /\ UNCHANGED <<errors, ledger, orphans, past>>

SufficiencyMedium(s) ==
  /\ At(s, "sufficiency") /\ LevelsFor("MEDIUM")
  /\ conv' = [conv EXCEPT ![s].node = "critic", ![s].verdict = [NoStash EXCEPT !.level = "MEDIUM"]]
  /\ UNCHANGED <<errors, ledger, orphans, past>>

SufficiencyLow(s) ==
  /\ At(s, "sufficiency") /\ LevelsFor("LOW")
  /\ \E v \in LowVerdicts :
       conv' = [conv EXCEPT ![s].node = "apply",
                            ![s].verdict = [level |-> "LOW", verdict |-> v[1], target |-> v[2]]]
  /\ UNCHANGED <<errors, ledger, orphans, past>>

Critic(s, verdict, target) ==
  /\ At(s, "critic")
  /\ conv' = [conv EXCEPT ![s].node = "apply",
                          ![s].verdict.verdict = verdict, ![s].verdict.target = target]
  /\ UNCHANGED <<errors, ledger, orphans, past>>

\* compute_cycle_hash and detect_cycle over the last two entries.
CycleHash(c) == <<c.verdict.level, c.verdict.verdict, c.verdict.target>>
IsCycle(c)   == \E k \in DOMAIN c.recent : c.recent[k] = CycleHash(c)
Recorded(c)  == SubSeq(Append(c.recent, CycleHash(c)),
                       IF Len(c.recent) < 2 THEN 1 ELSE 2, Len(c.recent) + 1)

\* Fault: the round under way is not counted.
BlockedLate(c) == c.verdict.verdict \in Retry /\ (IsCycle(c) \/ c.rounds > MaxSufficiency)

\* force_escalate_if_blocked.
Blocked(c) == c.verdict.verdict \in Retry
                /\ (IsCycle(c) \/ c.rounds + 1 > MaxSufficiency)

Final(c) == IF Blocked(c) THEN [NoStash EXCEPT !.verdict = "escalate_hitl"]
                          ELSE [c.verdict EXCEPT !.level = None]

Applied(c) ==
  [c EXCEPT !.verdict = Final(c), !.recent = Recorded(c),
            !.rounds = UpTo(@ + 1, MaxSufficiency + 1)]

ApplyPass(s) ==
  /\ At(s, "apply") /\ Final(conv[s]).verdict = "pass"
  /\ conv' = [conv EXCEPT ![s] = [Applied(@) EXCEPT !.node = "extract"]]
  /\ UNCHANGED <<errors, ledger, orphans, past>>

ApplyRetry(s) ==
  /\ At(s, "apply") /\ Final(conv[s]).verdict \in Retry
  /\ conv' = [conv EXCEPT ![s] =
                [Applied(@) EXCEPT !.node = "agent", !.nudges = 0, !.lastOpen = None]]
  /\ past' = [past EXCEPT ![s].retries = UpTo(@ + 1, MaxSufficiency + 1)]
  /\ UNCHANGED <<errors, ledger, orphans>>

ApplyEscalate(s) ==
  /\ At(s, "apply") /\ Final(conv[s]).verdict = "escalate_hitl"
  /\ conv' = [conv EXCEPT ![s] =
                [Applied(@) EXCEPT !.node = "extract", !.exit = "sufficiency_escalated"]]
  /\ UNCHANGED <<errors, ledger, orphans, past>>

\* The last nodes of a turn.
Extract(s) ==
  /\ At(s, "extract")
  /\ Goto(s, "idle")
  /\ UNCHANGED <<errors, ledger, orphans, past>>

\* Fault: a reason no reader of the state knows.
SafeStopUnnamed(s) ==
  /\ At(s, "stop")
  /\ conv' = [conv EXCEPT ![s].node = "idle",
                          ![s].exit = IF @ = None THEN "unknown" ELSE @]
  /\ UNCHANGED <<errors, ledger, orphans, past>>

SafeStop(s) ==
  /\ At(s, "stop")
  /\ conv' = [conv EXCEPT ![s].node = "idle",
                          ![s].exit = IF @ = None THEN "safe_stop" ELSE @]
  /\ UNCHANGED <<errors, ledger, orphans, past>>

-----------------------------------------------------------------------------
Init ==
  /\ conv = [s \in Sessions |-> Fresh]
  /\ errors = 0
  /\ ledger = NoRows
  /\ orphans = {}
  /\ past = [s \in Sessions |-> NoPast]

Agent(s) ==
  \/ \E reply \in Replies : AgentReplies(s, reply)
  \/ \E failure \in Failures : AgentFails(s, failure)

Route(s) ==
  RouteError(s) \/ RouteStop(s) \/ RouteGate(s) \/ RouteTools(s)
    \/ RouteNudge(s) \/ RouteStuck(s) \/ RouteSufficiency(s) \/ RouteEnd(s)

Delegations(s) ==
  \/ \E plan \in Plans : PlannerRegisters(s, plan)
  \/ \E from, to \in {"open", "done", "failed"} : RowMoves(s, from, to)

Orphans ==
  \/ \E plan \in Plans : OrphanRegisters(plan)
  \/ \E from, to \in {"open", "done", "failed"} : OrphanMoves(from, to)
  \/ \E write \in Writes : OrphanEnds(write)

Sufficiency(s) ==
  \/ SufficiencyHigh(s) \/ SufficiencyMedium(s) \/ SufficiencyLow(s)
  \/ \E v \in Verdicts, t \in Targets \cup {None} : Critic(s, v, t)
  \/ ApplyPass(s) \/ ApplyRetry(s) \/ ApplyEscalate(s)

\* Steps of a turn under way that the graph takes by itself.
Proceed(s) ==
  \/ Agent(s) \/ Route(s) \/ ToolsDone(s)
  \/ \E stall \in BOOLEAN : CheckProgress(s, stall)
  \/ HandleError(s) \/ Nudge(s)
  \/ \E decision \in {"proceed", "finer", "coarser", "unknown"} : Answer(s, decision)
  \/ Sufficiency(s) \/ Extract(s) \/ SafeStop(s)

Next ==
  \/ \E s \in Sessions : StartTurn(s) \/ Delegations(s) \/ Proceed(s) \/ Abandon(s)
  \/ Orphans

\* The graph keeps running; the roles' timeouts end every tool round.  At the
\* gate an answer comes or the deadline passes.
Spec == Init /\ [][Next]_vars /\ \A s \in Sessions : WF_vars(Proceed(s))

-----------------------------------------------------------------------------
\* Types of the conversations, the process's counter and the row counts.
TypeOK ==
  /\ conv \in [Sessions -> Conversations]
  /\ \A s \in Sessions : Len(conv[s].recent) <= 2
  /\ errors \in 0 .. MaxErrors
  /\ ledger \in RowCounts
  /\ orphans \subseteq Writes

\* A turn that ends normally over open rows has been nudged to the limit without
\* progress (nudge_pending_todos_node; the safe stop and the error limit are
\* other exits), or the rows were opened behind its back: a thread of another
\* turn, or of one given up, wrote the ledger after this turn had last looked at
\* it.  No delegation, answer at the gate or sufficiency round of its own does that.
EndsSettledOrStuck ==
  \A s \in Sessions :
    At(s, "extract") /\ ledger.open > 0
      => conv[s].nudges >= MaxStuck \/ past[s].overtaken

\* A conversation that has handled MaxErrors failures with no successful call
\* between them is not sent back to the LLM: "no retry, stop at once"
\* (_MAX_CONSECUTIVE_ERRORS).
ErrorStreakStops ==
  [][\A s \in Sessions :
       At(s, "error") /\ conv'[s].node = "agent" => Len(past'[s].failed) < MaxErrors]_vars

\* Over all turns of a thread the sufficiency loop sends the orchestrator back
\* at most MaxSufficiency times, whatever the critic says.
SufficiencyRetriesBounded ==
  \A s \in Sessions : past[s].retries <= MaxSufficiency

\* "Already escalated: end without evaluating again": on a pinned thread no
\* later turn takes an applied escalation back, and every later tool round or
\* failed call of the thread ends its turn.
Handed(c) == Escalated(c) /\ c.verdict.level = None
EscalationIsFinal ==
  [][\A s \in Pinned :
       Handed(conv[s]) => Handed(conv'[s]) /\ ~ (conv[s].node \in {"check", "error"}
                                                 /\ conv'[s].node = "agent")]_vars

\* Every turn ends: the calls of the LLM are bounded by max_iterations, or by
\* the error limit where routing skips that check.
TurnsEnd == \A s \in Sessions : ~ At(s, "idle") ~> At(s, "idle")

\* (AgentState.decomposition_confirmed) gated work on a registered breakdown
\* waits for the user's confirmation.
GatedWorkIsConfirmed ==
  \A s \in Sessions :
    At(s, "tools") /\ conv[s].reply \cap Work # {} /\ conv[s].reply \cap Plan = {}
      => conv[s].confirmed \/ Total(ledger) = 0

\* (README, failure policies) a call that fails in one way is retried at most
\* max_retries times in a row.
RetriesWithinPolicy ==
  [][\A s \in Sessions, f \in Failures :
       LET failed == past'[s].failed IN
       At(s, "error") /\ conv'[s].node = "agent" /\ (\A k \in DOMAIN failed : failed[k] = f)
         => Len(failed) <= Policy[f].max_retries]_vars

\* (force_escalate_if_blocked) max_iterations is the number of retries tried
\* before an escalation; a cycle escalates at once.
EscalatesAfterRetries ==
  [][\A s \in Sessions :
       At(s, "apply") /\ conv'[s].node = "extract" /\ Blocked(conv[s]) /\ ~ IsCycle(conv[s])
         => past[s].retries >= MaxSufficiency]_vars
=============================================================================
