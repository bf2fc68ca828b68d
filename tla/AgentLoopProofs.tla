---------------------------- MODULE AgentLoopProofs ----------------------------
(***************************************************************************)
(* Proofs about AgentLoop for any sessions, replies, failures and limits.  *)
(*                                                                         *)
(* A step changes one conversation and its history.  The invariant is      *)
(* therefore stated of one conversation (Good), and Moves(s) says that a   *)
(* step changed that of s only, kept Good and took no escalation back.     *)
(***************************************************************************)
EXTENDS AgentLoop, TLAPS

Histories == [failed : Seq(FailureTypes \cup {None}), retries : Nat, overtaken : BOOLEAN]

\* The sufficiency nodes find what the node before them put into the stash.
Staged(c) ==
  /\ c.node = "sufficiency" => ~ Escalated(c)
  /\ c.node \in {"critic", "apply"} => c.verdict.level # None
  /\ c.node = "apply" => c.verdict.verdict # None

\* A retry is a round: the bound on the rounds bounds the retries.
Counted(c, p) == p.retries <= c.rounds /\ p.retries <= MaxSufficiency

\* An applied escalation has left its exit_reason.
ExitKept(c) == Handed(c) => c.exit # None

Good(c, p) ==
  /\ c \in Conversations /\ Len(c.recent) <= 2
  /\ p \in Histories
  /\ Staged(c) /\ Counted(c, p) /\ ExitKept(c)

Shape ==
  /\ conv = [s \in Sessions |-> conv[s]]
  /\ past = [s \in Sessions |-> past[s]]

Inv ==
  /\ Shape
  /\ \A s \in Sessions : Good(conv[s], past[s])
  /\ errors \in 0 .. MaxErrors
  /\ ledger \in RowCounts
  /\ orphans \subseteq Writes

Stays(c, d) == Handed(c) => Handed(d) /\ ~ (c.node \in {"check", "error"} /\ d.node = "agent")

Moves(s) ==
  /\ conv' = [conv EXCEPT ![s] = conv'[s]]
  /\ past' = [past EXCEPT ![s] = past'[s]]
  /\ Good(conv'[s], past'[s])
  /\ s \in Pinned => Stays(conv[s], conv'[s])

-----------------------------------------------------------------------------
\* A new conversation and its history satisfy the invariant.
LEMMA FreshIsGood == Good(Fresh, NoPast)
<1>1. Fresh \in Conversations
  BY LimitsAssumption
     DEF Fresh, Conversations, Nodes, NoStash, Stash, Named, FallbackOrder
<1>2. NoPast \in Histories
  BY DEF NoPast, Histories
<1>3. Staged(Fresh) /\ Counted(Fresh, NoPast) /\ ExitKept(Fresh) /\ Len(Fresh.recent) <= 2
  BY LimitsAssumption, NoneAssumption
     DEF Staged, Counted, ExitKept, Handed, Escalated, Fresh, NoStash, NoPast, Verdicts
<1> QED
  BY <1>1, <1>2, <1>3 DEF Good

\* A step that puts d and q in place of a conversation and its history.
LEMMA Effect ==
  ASSUME Inv, NEW s \in Sessions, NEW d, NEW q,
         conv' = [conv EXCEPT ![s] = d],
         past' = [past EXCEPT ![s] = q] \/ (past' = past /\ q = past[s]),
         Good(d, q), s \in Pinned => Stays(conv[s], d)
  PROVE  Moves(s)
<1>1. conv'[s] = d /\ past'[s] = q
  BY DEF Inv, Shape
<1>2. past' = [past EXCEPT ![s] = q]
  BY DEF Inv, Shape
<1> QED
  BY <1>1, <1>2 DEF Moves

\* Going on to a node outside the sufficiency loop keeps everything.
LEMMA Going ==
  ASSUME Inv, NEW s \in Sessions, NEW n \in Nodes \ {"sufficiency", "critic", "apply"},
         Goto(s, n), past' = past,
         n = "agent" => conv[s].node \notin {"check", "error"}
  PROVE  Moves(s)
<1> DEFINE c == conv[s]
           d == [c EXCEPT !.node = n]
<1>1. Good(c, past[s])
  BY DEF Inv
<1>2. conv' = [conv EXCEPT ![s] = d] /\ conv'[s] = d /\ past'[s] = past[s]
  BY DEF Inv, Shape, Goto
<1>3. d \in Conversations /\ Len(d.recent) <= 2 /\ past[s] \in Histories
  BY <1>1 DEF Good, Conversations
<1>4. Staged(d) /\ Counted(d, past[s]) /\ ExitKept(d) /\ Stays(c, d)
  BY <1>1 DEF Good, Conversations, Staged, Counted, ExitKept, Handed, Escalated, Stays
<1>5. Good(d, past[s])
  BY <1>3, <1>4 DEF Good
<1>6. past' = [past EXCEPT ![s] = past'[s]]
  BY DEF Inv, Shape
<1> QED
  BY <1>2, <1>4, <1>5, <1>6 DEF Moves

\* The action StartTurn.
LEMMA Starts ==
  ASSUME Inv, NEW s \in Sessions, StartTurn(s)
  PROVE  Moves(s)
<1> DEFINE c == IF s \in Pinned THEN conv[s] ELSE Fresh
           q == IF s \in Pinned THEN past[s] ELSE NoPast
           d == [c EXCEPT !.node = "agent"]
<1>1. Good(c, q) /\ conv[s].node = "idle"
  BY FreshIsGood DEF Inv, StartTurn, At
<1>p. s \in Pinned => c = conv[s]
  OBVIOUS
<1> HIDE DEF c, q
<1>2. d \in Conversations /\ d.recent = c.recent
  <2>1. c \in Conversations /\ "agent" \in Nodes
    BY <1>1 DEF Good, Nodes
  <2> QED
    BY <2>1 DEF Conversations
<1>3. Staged(d) /\ Counted(d, q) /\ ExitKept(d)
  BY <1>1 DEF Good, Conversations, Staged, Counted, ExitKept, Handed, Escalated
<1>4. Good(d, q)
  BY <1>1, <1>2, <1>3 DEF Good
<1>5. s \in Pinned => Stays(conv[s], d)
  BY <1>1, <1>p DEF Good, Conversations, Stays, Handed, Escalated
<1>6. conv' = [conv EXCEPT ![s] = d] /\ past' = [past EXCEPT ![s] = q]
  BY DEF StartTurn, Inv, Shape, c, q
<1> QED
  BY <1>4, <1>5, <1>6, Effect

\* A call of the LLM, answered or failed.
LEMMA Answers ==
  ASSUME Inv, NEW s \in Sessions, Agent(s)
  PROVE  Moves(s)
<1> DEFINE c == conv[s]
<1>1. Good(c, past[s]) /\ Called(c) \in 0 .. MaxIterations
  BY LimitsAssumption DEF Inv, Good, Conversations, Called, UpTo
<1>2. CASE \E reply \in Replies : AgentReplies(s, reply)
  <2>1. PICK reply \in Replies : AgentReplies(s, reply)
    BY <1>2
  <2> DEFINE d == [c EXCEPT !.node = "route", !.reply = reply, !.iteration = Called(c)]
             q == [past[s] EXCEPT !.failed = <<>>, !.overtaken = FALSE]
  <2>r. reply \in SUBSET Calls
    BY RepliesAssumption
  <2>q. q \in Histories /\ q.retries = past[s].retries
    <3>1. past[s] \in [failed : Seq(FailureTypes \cup {None}), retries : Nat, overtaken : BOOLEAN]
      BY <1>1 DEF Good, Histories
    <3>2. <<>> \in Seq(FailureTypes \cup {None})
      OBVIOUS
    <3> QED
      BY <3>1, <3>2 DEF Histories
  <2>2. d \in Conversations /\ d.recent = c.recent
    BY <1>1, <2>r DEF Good, Conversations, Nodes
  <2>3. Staged(d) /\ Counted(d, q) /\ ExitKept(d) /\ Stays(c, d)
    BY <1>1, <2>1, <2>q DEF Good, Conversations, Staged, Counted, ExitKept, Handed,
                            Escalated, Stays
  <2>4. conv' = [conv EXCEPT ![s] = d] /\ past' = [past EXCEPT ![s] = q]
    BY <2>1 DEF AgentReplies, Inv, Shape
  <2>5. Good(d, q)
    BY <1>1, <2>q, <2>2, <2>3 DEF Good
  <2> QED
    BY <2>3, <2>4, <2>5, Effect
<1>3. CASE \E failure \in Failures : AgentFails(s, failure)
  <2>1. PICK failure \in Failures : AgentFails(s, failure)
    BY <1>3
  <2> DEFINE d == [c EXCEPT !.node = "route", !.error = failure, !.iteration = Called(c)]
  <2>2. d \in Conversations /\ d.recent = c.recent
    BY <1>1, FailuresAssumption DEF Good, Conversations, Nodes
  <2>3. Staged(d) /\ Counted(d, past[s]) /\ ExitKept(d) /\ Stays(c, d)
    BY <1>1, <2>1 DEF Good, Conversations, Staged, Counted, ExitKept, Handed,
                      Escalated, Stays, AgentFails, At
  <2>4. conv' = [conv EXCEPT ![s] = d] /\ past' = past
    BY <2>1 DEF AgentFails, Inv, Shape
  <2>5. Good(d, past[s])
    BY <1>1, <2>2, <2>3 DEF Good
  <2> QED
    BY <2>3, <2>4, <2>5, Effect
<1> QED
  BY <1>2, <1>3 DEF Agent

\* The routing decisions.
LEMMA Routing ==
  ASSUME Inv, NEW s \in Sessions, Route(s)
  PROVE  Moves(s)
<1>1. At(s, "route") /\ past' = past
  BY DEF Route, RouteError, RouteStop, RouteGate, RouteTools, RouteNudge, RouteStuck,
         RouteSufficiency, RouteEnd, Silent, Routes
<1>2. CASE RouteSufficiency(s)
  <2> DEFINE c == conv[s]
             d == [c EXCEPT !.node = "sufficiency"]
  <2>1. Good(c, past[s]) /\ ~ Escalated(c) /\ c.node = "route"
    BY <1>1, <1>2 DEF Inv, RouteSufficiency, At
  <2>2. d \in Conversations /\ d.recent = c.recent
    BY <2>1 DEF Good, Conversations, Nodes
  <2>3. Staged(d) /\ Counted(d, past[s]) /\ ExitKept(d) /\ Stays(c, d)
    BY <2>1 DEF Good, Conversations, Staged, Counted, ExitKept, Handed, Escalated, Stays
  <2>4. conv' = [conv EXCEPT ![s] = d]
    BY <1>2 DEF RouteSufficiency, Goto, Inv, Shape
  <2>5. Good(d, past[s])
    BY <2>1, <2>2, <2>3 DEF Good
  <2> QED
    BY <1>1, <2>3, <2>4, <2>5, Effect
<1>3. CASE ~ RouteSufficiency(s)
  <2>1. PICK n \in {"error", "stop", "asking", "tools", "nudge", "extract"} : Goto(s, n)
    BY <1>3 DEF Route, RouteError, RouteStop, RouteGate, RouteTools, RouteNudge,
                RouteStuck, RouteEnd
  <2> QED
    BY <1>1, <2>1, Going DEF Nodes
<1> QED
  BY <1>2, <1>3

\* The nodes that only go on: tools, extract, and a turn given up.
LEMMA Passing ==
  ASSUME Inv, NEW s \in Sessions, ToolsDone(s) \/ Extract(s) \/ Abandon(s)
  PROVE  Moves(s)
<1>1. PICK n \in {"check", "idle"} : Goto(s, n)
  BY DEF ToolsDone, Extract, Abandon
<1>2. past' = past
  BY DEF ToolsDone, Extract, Abandon
<1> QED
  BY <1>1, <1>2, Going DEF Nodes

\* check_progress: an exit_reason, old or new, stops the turn.
LEMMA Checking ==
  ASSUME Inv, NEW s \in Sessions, NEW stall \in BOOLEAN, CheckProgress(s, stall)
  PROVE  Moves(s)
<1> DEFINE c == conv[s]
           e == IF stall THEN [c EXCEPT !.exit = "progress_guard_stop"] ELSE c
           d == [e EXCEPT !.node = StopOr(e, "agent")]
<1>1. Good(c, past[s]) /\ c.node = "check"
  BY DEF Inv, CheckProgress, At
<1>2. /\ e \in Conversations /\ e.recent = c.recent /\ e.node = "check"
      /\ e.verdict = c.verdict /\ e.rounds = c.rounds
      /\ c.exit # None => e.exit # None
  BY <1>1, NoneAssumption DEF Good, Conversations, ExitReasons
<1> HIDE DEF e
<1>3. d \in Conversations /\ d.recent = c.recent
  BY <1>2 DEF Conversations, Nodes, StopOr
<1>4. Staged(d) /\ Counted(d, past[s]) /\ ExitKept(d) /\ Stays(c, d)
  BY <1>1, <1>2 DEF Good, Conversations, Staged, Counted, ExitKept, Handed, Escalated,
                    Stays, StopOr
<1>5. conv' = [conv EXCEPT ![s] = d] /\ past' = past
  BY DEF CheckProgress, Inv, Shape, e
<1>6. Good(d, past[s])
  BY <1>1, <1>3, <1>4 DEF Good
<1> QED
  BY <1>4, <1>5, <1>6, Effect

\* handle_error.
LEMMA Handling ==
  ASSUME Inv, NEW s \in Sessions, HandleError(s)
  PROVE  Moves(s)
<1> DEFINE c == conv[s]
           e == IF AtErrorLimit(errors') THEN [c EXCEPT !.exit = "consecutive_errors"]
                ELSE Resolved(c, Resolution(c.error, RetryCountKept))
           d == [e EXCEPT !.node = StopOr(e, "agent"), !.error = None]
           q == [past[s] EXCEPT !.failed =
                   IF Len(past[s].failed) < MaxErrors THEN Append(past[s].failed, c.error)
                                                      ELSE past[s].failed]
<1>1. Good(c, past[s]) /\ c.node = "error"
  BY DEF Inv, HandleError, At
<1>2. Resolution(c.error, RetryCountKept) \in {"retry", "fallback", "abort"}
  BY DEF Resolution
<1>3. /\ e \in Conversations /\ e.recent = c.recent /\ e.node = "error"
      /\ e.verdict = c.verdict /\ e.rounds = c.rounds
      /\ c.exit # None => e.exit # None
  <2>1. c \in Conversations /\ Len(FallbackOrder) = 4
    BY <1>1 DEF Good, FallbackOrder
  <2>2. PICK x \in ExitReasons, t \in 1 .. Len(FallbackOrder) :
          e \in {c, [c EXCEPT !.exit = x], [c EXCEPT !.tier = t]}
    <3>1. /\ {"consecutive_errors", "error_abort", "all_models_exhausted"} \subseteq ExitReasons
          /\ 1 \in 1 .. Len(FallbackOrder)
      BY <2>1 DEF ExitReasons
    <3>2. \/ e \in {c} \cup {[c EXCEPT !.exit = r] : r \in ExitReasons}
          \/ c.tier < Len(FallbackOrder) /\ e = [c EXCEPT !.tier = c.tier + 1]
      BY <1>2, <3>1 DEF Resolved
    <3>3. c.tier < Len(FallbackOrder) => c.tier + 1 \in 1 .. Len(FallbackOrder)
      BY <2>1 DEF Conversations
    <3> QED
      BY <3>1, <3>2, <3>3
  <2> HIDE DEF e
  <2>3. CASE e = c
    BY <1>1, <2>1, <2>3
  <2>4. CASE e = [c EXCEPT !.exit = x]
    BY <1>1, <2>1, <2>4, NoneAssumption DEF Conversations
  <2>5. CASE e = [c EXCEPT !.tier = t]
    BY <1>1, <2>1, <2>5 DEF Conversations
  <2> QED
    BY <2>2, <2>3, <2>4, <2>5
<1> HIDE DEF e
<1>4. d \in Conversations /\ d.recent = c.recent
  BY <1>3 DEF Conversations, Nodes, StopOr
<1>5. q \in Histories /\ q.retries = past[s].retries
  <2>1. /\ past[s] \in [failed : Seq(FailureTypes \cup {None}), retries : Nat, overtaken : BOOLEAN]
        /\ c.error \in FailureTypes \cup {None}
    BY <1>1 DEF Good, Histories, Conversations
  <2>2. past[s].failed \in Seq(FailureTypes \cup {None})
    BY <2>1
  <2>3. Append(past[s].failed, c.error) \in Seq(FailureTypes \cup {None})
    BY <2>1, <2>2
  <2> QED
    BY <2>1, <2>2, <2>3 DEF Histories
<1>6. Staged(d) /\ Counted(d, q) /\ ExitKept(d) /\ Stays(c, d)
  <2> HIDE DEF q
  <2> QED
    BY <1>1, <1>3, <1>5 DEF Good, Conversations, Staged, Counted, ExitKept, Handed,
                            Escalated, Stays, StopOr
<1>7. conv' = [conv EXCEPT ![s] = d] /\ past' = [past EXCEPT ![s] = q]
  BY DEF HandleError, Inv, Shape, e
<1>8. Good(d, q)
  BY <1>1, <1>4, <1>5, <1>6 DEF Good
<1> QED
  BY <1>6, <1>7, <1>8, Effect

\* nudge_pending_todos_node and the gate's answer: counters and flags only.
LEMMA NudgingAndAnswering ==
  ASSUME Inv, NEW s \in Sessions,
         Nudge(s) \/ \E decision \in {"proceed", "finer", "coarser", "unknown"} : Answer(s, decision)
  PROVE  Moves(s)
<1> DEFINE c == conv[s]
<1>1. Good(c, past[s]) /\ past' = past /\ c.node \in {"nudge", "asking"}
  BY DEF Inv, Nudge, Answer, At
<1>2. CASE Nudge(s)
  <2> DEFINE n == IF c.lastOpen = None \/ ledger.open < c.lastOpen
                  THEN 1 ELSE UpTo(c.nudges + 1, MaxStuck + 1)
             d == [c EXCEPT !.node = "agent", !.lastOpen = ledger.open, !.nudges = n]
  <2>1. n \in 0 .. MaxStuck + 1 /\ ledger.open \in Nat
    <3>1. ledger.open \in Nat
      BY DEF Inv, RowCounts
    <3>2. c.nudges \in 0 .. MaxStuck + 1
      BY <1>1 DEF Good, Conversations
    <3>3. UpTo(c.nudges + 1, MaxStuck + 1) \in 0 .. MaxStuck + 1 /\ 1 \in 0 .. MaxStuck + 1
      BY <3>2, LimitsAssumption DEF UpTo
    <3>4. n \in {1, UpTo(c.nudges + 1, MaxStuck + 1)}
      OBVIOUS
    <3> QED
      BY <3>1, <3>3, <3>4
  <2>2. conv' = [conv EXCEPT ![s] = d]
    BY <1>2 DEF Nudge, Inv, Shape
  <2> HIDE DEF n
  <2>3. d \in Conversations /\ d.recent = c.recent
    BY <1>1, <2>1 DEF Good, Conversations, Nodes
  <2>4. Staged(d) /\ Counted(d, past[s]) /\ ExitKept(d) /\ Stays(c, d)
    BY <1>1 DEF Good, Conversations, Staged, Counted, ExitKept, Handed, Escalated, Stays
  <2>5. Good(d, past[s])
    BY <1>1, <2>3, <2>4 DEF Good
  <2> QED
    BY <1>1, <2>2, <2>4, <2>5, Effect
<1>3. CASE ~ Nudge(s)
  <2> DEFINE d == [c EXCEPT !.node = "agent", !.confirmed = TRUE]
  <2>1. conv' = [conv EXCEPT ![s] = d]
    BY <1>3 DEF Answer, Inv, Shape
  <2>2. d \in Conversations /\ d.recent = c.recent
    BY <1>1 DEF Good, Conversations, Nodes
  <2>3. Staged(d) /\ Counted(d, past[s]) /\ ExitKept(d) /\ Stays(c, d)
    BY <1>1 DEF Good, Conversations, Staged, Counted, ExitKept, Handed, Escalated, Stays
  <2>4. Good(d, past[s])
    BY <1>1, <2>2, <2>3 DEF Good
  <2> QED
    BY <1>1, <2>1, <2>3, <2>4, Effect
<1> QED
  BY <1>2, <1>3

\* safe_stop_node.
LEMMA Stopping ==
  ASSUME Inv, NEW s \in Sessions, SafeStop(s)
  PROVE  Moves(s)
<1> DEFINE c == conv[s]
           d == [c EXCEPT !.node = "idle", !.exit = IF c.exit = None THEN "safe_stop" ELSE c.exit]
<1>1. Good(c, past[s]) /\ past' = past
  BY DEF Inv, SafeStop
<1>2. conv' = [conv EXCEPT ![s] = d]
  BY DEF SafeStop, Inv, Shape
<1>3. d \in Conversations /\ d.recent = c.recent
  BY <1>1 DEF Good, Conversations, Nodes, ExitReasons
<1>4. Staged(d) /\ Counted(d, past[s]) /\ ExitKept(d) /\ Stays(c, d)
  BY <1>1, NoneAssumption
     DEF Good, Conversations, Staged, Counted, ExitKept, Handed, Escalated, Stays, ExitReasons
<1>5. Good(d, past[s])
  BY <1>1, <1>3, <1>4 DEF Good
<1> QED
  BY <1>1, <1>2, <1>4, <1>5, Effect

\* The evaluation and the critic fill the stash; they never see an escalation.
LEMMA Evaluating ==
  ASSUME Inv, NEW s \in Sessions,
         \/ SufficiencyHigh(s) \/ SufficiencyMedium(s) \/ SufficiencyLow(s)
         \/ \E v \in Verdicts, t \in Targets \cup {None} : Critic(s, v, t)
  PROVE  Moves(s)
<1> DEFINE c == conv[s]
<1>1. /\ c \in Conversations /\ Len(c.recent) <= 2 /\ past[s] \in Histories
      /\ Staged(c) /\ Counted(c, past[s]) /\ past' = past
      /\ c.node \in {"sufficiency", "critic"}
  BY DEF Inv, Good, SufficiencyHigh, SufficiencyMedium, SufficiencyLow, Critic, At
<1>2. PICK n \in {"extract", "critic", "apply"}, h \in Stash :
        /\ conv' = [conv EXCEPT ![s] = [c EXCEPT !.node = n, !.verdict = h]]
        /\ h.level # None
        /\ n = "apply" => h.verdict # None
  <2>1. CASE SufficiencyHigh(s)
    <3> DEFINE h == [NoStash EXCEPT !.level = "HIGH"]
    <3>1. h \in Stash /\ h.level # None
      BY NoneAssumption DEF NoStash, Stash, Levels, Named
    <3>2. conv' = [conv EXCEPT ![s] = [c EXCEPT !.node = "extract", !.verdict = h]]
      BY <2>1 DEF SufficiencyHigh, Inv, Shape
    <3> HIDE DEF h
    <3> QED
      BY <3>1, <3>2
  <2>2. CASE SufficiencyMedium(s)
    <3> DEFINE h == [NoStash EXCEPT !.level = "MEDIUM"]
    <3>1. h \in Stash /\ h.level # None
      BY NoneAssumption DEF NoStash, Stash, Levels, Named
    <3>2. conv' = [conv EXCEPT ![s] = [c EXCEPT !.node = "critic", !.verdict = h]]
      BY <2>2 DEF SufficiencyMedium, Inv, Shape
    <3> HIDE DEF h
    <3> QED
      BY <3>1, <3>2
  <2>3. CASE SufficiencyLow(s)
    <3>1. PICK w \in LowVerdicts :
            conv' = [conv EXCEPT ![s].node = "apply",
                       ![s].verdict = [level |-> "LOW", verdict |-> w[1], target |-> w[2]]]
      BY <2>3 DEF SufficiencyLow
    <3>2. w[1] \in Verdicts /\ w[1] # None /\ w[2] \in Named
      BY NoneAssumption DEF LowVerdicts, Verdicts, Named
    <3> DEFINE h == [level |-> "LOW", verdict |-> w[1], target |-> w[2]]
    <3>3. h \in Stash /\ h.level # None /\ h.verdict # None
      BY <3>2, NoneAssumption DEF Stash, Levels
    <3> QED
      BY <3>1, <3>3 DEF Inv, Shape
  <2>4. CASE \E v \in Verdicts, t \in Targets \cup {None} : Critic(s, v, t)
    <3>1. PICK v \in Verdicts, t \in Targets \cup {None} : Critic(s, v, t)
      BY <2>4
    <3> DEFINE h == [c.verdict EXCEPT !.verdict = v, !.target = t]
    <3>2. c.verdict \in Stash /\ c.verdict.level # None /\ v # None /\ t \in Named
      BY <1>1, <3>1, NoneAssumption DEF Staged, Critic, At, Conversations, Named
    <3>3. h \in Stash /\ h.level # None /\ h.verdict # None
      BY <3>2 DEF Stash
    <3>4. conv' = [conv EXCEPT ![s].node = "apply",
                               ![s].verdict.verdict = v, ![s].verdict.target = t]
      BY <3>1 DEF Critic
    <3>5. conv' = [conv EXCEPT ![s] = [c EXCEPT !.node = "apply", !.verdict = h]]
      BY <1>1, <3>4 DEF Inv, Shape, Conversations
    <3> HIDE DEF h
    <3> QED
      BY <3>3, <3>5
  <2> QED
    BY <2>1, <2>2, <2>3, <2>4
<1> DEFINE d == [c EXCEPT !.node = n, !.verdict = h]
<1>3. d \in Conversations /\ d.recent = c.recent
  BY <1>1, <1>2 DEF Conversations, Nodes
<1>4. Staged(d) /\ Counted(d, past[s]) /\ ExitKept(d) /\ Stays(c, d)
  BY <1>1, <1>2 DEF Conversations, Staged, Counted, ExitKept, Handed, Escalated, Stays
<1>5. Good(d, past[s])
  BY <1>1, <1>3, <1>4 DEF Good
<1> QED
  BY <1>1, <1>2, <1>4, <1>5, Effect

\* The tail of the two entries kept.
LEMMA LastTwo ==
  ASSUME NEW S, NEW q \in Seq(S), Len(q) <= 2, NEW h \in S
  PROVE  LET r == SubSeq(Append(q, h), IF Len(q) < 2 THEN 1 ELSE 2, Len(q) + 1)
         IN  r \in Seq(S) /\ Len(r) <= 2
<1> DEFINE a == Append(q, h)
<1>1. a \in Seq(S) /\ Len(a) = Len(q) + 1 /\ Len(q) \in Nat
  OBVIOUS
<1> HIDE DEF a
<1>2. CASE Len(q) < 2
  <2>1. SubSeq(a, 1, Len(q) + 1) \in Seq(S) /\ Len(SubSeq(a, 1, Len(q) + 1)) <= 2
    BY <1>1, <1>2
  <2> QED
    BY <1>2, <2>1 DEF a
<1>3. CASE ~ (Len(q) < 2)
  <2>1. SubSeq(a, 2, Len(q) + 1) \in Seq(S) /\ Len(SubSeq(a, 2, Len(q) + 1)) <= 2
    BY <1>1, <1>3
  <2> QED
    BY <1>3, <2>1 DEF a
<1> QED
  BY <1>2, <1>3

\* What sufficiency_apply_node writes whatever the verdict.
LEMMA AppliedIsTyped ==
  ASSUME NEW c, NEW p, Good(c, p), c.node = "apply"
  PROVE  /\ Applied(c) \in Conversations /\ Len(Applied(c).recent) <= 2
         /\ Applied(c).verdict = Final(c) /\ Applied(c).exit = c.exit
         /\ Applied(c).rounds = UpTo(c.rounds + 1, MaxSufficiency + 1)
         /\ Final(c).level = None
<1>1. /\ c \in Conversations /\ c.recent \in Seq(Entries) /\ Len(c.recent) <= 2
      /\ c.verdict \in Stash /\ c.rounds \in 0 .. MaxSufficiency + 1
      /\ c.verdict.level \in Levels /\ c.verdict.verdict \in Verdicts
  <2>1. c \in Conversations /\ Len(c.recent) <= 2 /\ Staged(c)
    BY DEF Good
  <2>2. c.recent \in Seq(Entries) /\ c.verdict \in Stash /\ c.rounds \in 0 .. MaxSufficiency + 1
    BY <2>1 DEF Conversations
  <2>3. c.verdict.level \in Levels /\ c.verdict.verdict \in Verdicts
    BY <2>1, <2>2 DEF Staged, Stash
  <2> QED
    BY <2>1, <2>2, <2>3
<1>2. CycleHash(c) \in Entries
  BY <1>1 DEF CycleHash, Entries, Stash
<1>3. Recorded(c) \in Seq(Entries) /\ Len(Recorded(c)) <= 2
  BY <1>1, <1>2, LastTwo DEF Recorded
<1>4. Final(c) \in Stash /\ Final(c).level = None
  BY <1>1 DEF Final, NoStash, Stash, Verdicts, Named
<1>5. UpTo(c.rounds + 1, MaxSufficiency + 1) \in 0 .. MaxSufficiency + 1
  BY <1>1, LimitsAssumption DEF UpTo
<1> QED
  BY <1>1, <1>3, <1>4, <1>5 DEF Applied, Conversations

\* sufficiency_apply_node: a verdict that is not blocked leaves a round unused.
LEMMA Applying ==
  ASSUME Inv, NEW s \in Sessions, ApplyPass(s) \/ ApplyRetry(s) \/ ApplyEscalate(s)
  PROVE  Moves(s)
<1> DEFINE c == conv[s]
           a == Applied(c)
<1>1. Good(c, past[s]) /\ c.node = "apply"
  BY DEF Inv, ApplyPass, ApplyRetry, ApplyEscalate, At
<1>2. /\ a \in Conversations /\ Len(a.recent) <= 2
      /\ a.verdict = Final(c) /\ a.exit = c.exit /\ Final(c).level = None
      /\ a.rounds = UpTo(c.rounds + 1, MaxSufficiency + 1)
  BY <1>1, AppliedIsTyped
<1>3. /\ past[s] \in Histories /\ past[s].retries \in Nat
      /\ c.rounds \in 0 .. MaxSufficiency + 1
      /\ past[s].retries <= c.rounds /\ past[s].retries <= MaxSufficiency
      /\ c.verdict.level # None
  BY <1>1 DEF Good, Conversations, Counted, Staged, Histories
<1>4. past[s].retries <= a.rounds
  BY <1>2, <1>3, LimitsAssumption DEF UpTo
<1> HIDE DEF a
<1>5. CASE ApplyPass(s)
  <2> DEFINE d == [a EXCEPT !.node = "extract"]
  <2>1. conv' = [conv EXCEPT ![s] = d] /\ past' = past /\ Final(c).verdict = "pass"
    BY <1>5 DEF ApplyPass, Inv, Shape, a
  <2>2. d \in Conversations /\ d.recent = a.recent
    BY <1>2 DEF Conversations, Nodes
  <2>3. Staged(d) /\ Counted(d, past[s]) /\ ExitKept(d) /\ Stays(c, d)
    BY <1>2, <1>3, <1>4, <2>1
       DEF Conversations, Staged, Counted, ExitKept, Handed, Escalated, Stays
  <2>4. Good(d, past[s])
    BY <1>2, <1>3, <2>2, <2>3 DEF Good
  <2> QED
    BY <2>1, <2>3, <2>4, Effect
<1>6. CASE ApplyEscalate(s)
  <2> DEFINE d == [a EXCEPT !.node = "extract", !.exit = "sufficiency_escalated"]
  <2>1. conv' = [conv EXCEPT ![s] = d] /\ past' = past
    BY <1>6 DEF ApplyEscalate, Inv, Shape, a
  <2>2. d \in Conversations /\ d.recent = a.recent
    <3>1. "extract" \in Nodes /\ "sufficiency_escalated" \in ExitReasons
      BY DEF Nodes, ExitReasons
    <3> QED
      BY <1>2, <3>1 DEF Conversations
  <2>3. Staged(d) /\ Counted(d, past[s]) /\ ExitKept(d) /\ Stays(c, d)
    BY <1>2, <1>3, <1>4, NoneAssumption
       DEF Conversations, Staged, Counted, ExitKept, Handed, Escalated, Stays, ExitReasons
  <2>4. Good(d, past[s])
    BY <1>2, <1>3, <2>2, <2>3 DEF Good
  <2> QED
    BY <2>1, <2>3, <2>4, Effect
<1>7. CASE ApplyRetry(s)
  <2> DEFINE d == [a EXCEPT !.node = "agent", !.nudges = 0, !.lastOpen = None]
             q == [past[s] EXCEPT !.retries = UpTo(past[s].retries + 1, MaxSufficiency + 1)]
  <2>1. conv' = [conv EXCEPT ![s] = d] /\ past' = [past EXCEPT ![s] = q]
    BY <1>7 DEF ApplyRetry, Inv, Shape, a
  <2>2. Final(c).verdict \in Retry
    BY <1>7 DEF ApplyRetry
  <2>3. c.rounds + 1 <= MaxSufficiency
    <3>1. ~ Blocked(c)
      BY <2>2 DEF Final, NoStash, Retry
    <3>2. c.verdict.verdict \in Retry
      BY <1>1, <2>2, <3>1 DEF Final, Good, Conversations, Stash
    <3> QED
      BY <1>3, <3>1, <3>2, LimitsAssumption DEF Blocked
  <2>4. q \in Histories /\ q.retries = past[s].retries + 1 /\ a.rounds = c.rounds + 1
    <3>1. UpTo(past[s].retries + 1, MaxSufficiency + 1) = past[s].retries + 1
      BY <1>3, LimitsAssumption DEF UpTo
    <3>2. a.rounds = c.rounds + 1
      BY <1>2, <1>3, <2>3, LimitsAssumption DEF UpTo
    <3>3. q = [past[s] EXCEPT !.retries = past[s].retries + 1]
      BY <3>1
    <3>4. past[s].retries + 1 \in Nat
      BY <1>3
    <3> HIDE DEF q
    <3>5. q \in Histories /\ q.retries = past[s].retries + 1
      BY <1>3, <3>3, <3>4 DEF Histories
    <3> QED
      BY <3>2, <3>5
  <2>5. d \in Conversations /\ d.recent = a.recent
    <3>1. 0 \in 0 .. MaxStuck + 1 /\ None \in Nat \cup {None} /\ "agent" \in Nodes
      BY LimitsAssumption DEF Nodes
    <3> QED
      BY <1>2, <3>1 DEF Conversations
  <2>f. /\ d.node = "agent" /\ d.verdict = Final(c)
        /\ d.rounds = c.rounds + 1 /\ d.exit = c.exit
    BY <1>2, <2>4 DEF Conversations
  <2>g. Final(c).verdict # "escalate_hitl"
    BY <2>2 DEF Retry
  <2> HIDE DEF q, d
  <2>6. Staged(d) /\ Counted(d, q) /\ ExitKept(d) /\ Stays(c, d)
    <3>1. Staged(d) /\ ExitKept(d) /\ Stays(c, d)
      BY <1>3, <2>f, <2>g DEF Staged, ExitKept, Handed, Escalated, Stays
    <3>2. Counted(d, q)
      BY <1>3, <2>3, <2>4, <2>f, LimitsAssumption DEF Counted
    <3> QED
      BY <3>1, <3>2
  <2>7. Good(d, q)
    BY <1>2, <2>4, <2>5, <2>6 DEF Good
  <2> QED
    BY <2>1, <2>6, <2>7, Effect DEF d
<1> QED
  BY <1>5, <1>6, <1>7

-----------------------------------------------------------------------------
Turn(s) == StartTurn(s) \/ Proceed(s) \/ Abandon(s)

\* Every action but a delegation changes one conversation.
LEMMA TurnMoves ==
  ASSUME Inv, NEW s \in Sessions, Turn(s)
  PROVE  Moves(s)
<1>1. CASE StartTurn(s)
  BY <1>1, Starts
<1>2. CASE ToolsDone(s) \/ Extract(s) \/ Abandon(s)
  BY <1>2, Passing
<1>3. CASE \E stall \in BOOLEAN : CheckProgress(s, stall)
  BY <1>3, Checking
<1>4. CASE Sufficiency(s)
  BY <1>4, Evaluating, Applying DEF Sufficiency
<1>5. CASE Nudge(s) \/ \E decision \in {"proceed", "finer", "coarser", "unknown"} : Answer(s, decision)
  BY <1>5, NudgingAndAnswering
<1>6. CASE Agent(s) \/ Route(s) \/ HandleError(s) \/ SafeStop(s)
  BY <1>6, Answers, Routing, Handling, Stopping
<1> QED
  BY <1>1, <1>2, <1>3, <1>4, <1>5, <1>6 DEF Turn, Proceed

\* The counter of the process and the row counts keep their types.  A turn's own
\* steps move no row; an answer at the gate may clear them.
LEMMA Counters ==
  ASSUME Inv, NEW s \in Sessions, Turn(s)
  PROVE  errors' \in 0 .. MaxErrors /\ ledger' \in RowCounts /\ ledger' \in {ledger, NoRows}
<1>1. /\ errors \in 0 .. MaxErrors /\ ledger \in RowCounts
      /\ NoRows \in RowCounts
  BY DEF Inv, NoRows, RowCounts
<1>2. CASE HandleError(s)
  BY <1>1, <1>2, LimitsAssumption DEF HandleError, UpTo
<1>3. CASE \E stall \in BOOLEAN : CheckProgress(s, stall)
  BY <1>1, <1>3, LimitsAssumption DEF CheckProgress
<1>4. CASE \E decision \in {"proceed", "finer", "coarser", "unknown"} : Answer(s, decision)
  <2>1. errors' = errors /\ ledger' \in {ledger, NoRows}
    BY <1>4 DEF Answer
  <2> QED
    BY <1>1, <2>1
<1>5. CASE StartTurn(s) \/ Agent(s) \/ Route(s) \/ ToolsDone(s) \/ Nudge(s) \/ Extract(s)
             \/ SafeStop(s) \/ Abandon(s)
  <2>1. errors' = errors /\ ledger' = ledger
    BY <1>5 DEF StartTurn, Agent, AgentReplies, AgentFails, Route, RouteError, RouteStop,
                RouteGate, RouteTools, RouteNudge, RouteStuck, RouteSufficiency, RouteEnd,
                Silent, Routes, ToolsDone, Nudge, Extract, SafeStop, Abandon
  <2> QED
    BY <1>1, <2>1
<1>6. CASE Sufficiency(s)
  <2>1. errors' = errors /\ ledger' = ledger
    BY <1>6 DEF Sufficiency, SufficiencyHigh, SufficiencyMedium, SufficiencyLow, Critic,
                ApplyPass, ApplyRetry, ApplyEscalate
  <2> QED
    BY <1>1, <2>1
<1> QED
  BY <1>2, <1>3, <1>4, <1>5, <1>6 DEF Turn, Proceed

\* The ways left to threads of given-up work are ways there are.
LEMMA OrphansTyped ==
  ASSUME Inv, NEW s \in Sessions, Turn(s)
  PROVE  orphans' \subseteq Writes
<1>1. orphans \subseteq Writes /\ \A reply : WritesOf(reply) \subseteq Writes
  BY DEF Inv, WritesOf, Writes
<1>2. CASE ToolsDone(s) \/ Abandon(s)
  BY <1>1, <1>2 DEF ToolsDone, Abandon
<1>3. CASE ~ (ToolsDone(s) \/ Abandon(s))
  <2>1. orphans' = orphans
    BY <1>3 DEF Turn, Proceed, StartTurn, Agent, AgentReplies, AgentFails, Route, RouteError,
       RouteStop, RouteGate, RouteTools, RouteNudge, RouteStuck, RouteSufficiency, RouteEnd,
       Silent, Routes, CheckProgress, HandleError, Nudge, Answer, Sufficiency, SufficiencyHigh,
       SufficiencyMedium, SufficiencyLow, Critic, ApplyPass, ApplyRetry, ApplyEscalate,
       Extract, SafeStop
  <2> QED BY <1>1, <2>1
<1> QED
  BY <1>2, <1>3

\* A delegation, of a turn under way or given up, changes the row counts and tells
\* the turns that have looked at them; an orphan may also end.
LEMMA LedgerWrites ==
  ASSUME Inv, Orphans \/ \E s \in Sessions : Delegations(s)
  PROVE  /\ conv' = conv /\ errors' = errors
         /\ ledger' \in RowCounts /\ orphans' \subseteq Writes
         /\ Overtakes \/ (past' = past /\ ledger' = ledger)
<1>1. ledger \in RowCounts /\ orphans \subseteq Writes
  BY DEF Inv
<1>2. CASE \E plan \in Plans : Registers(plan)
  BY <1>1, <1>2, PlansAssumption DEF Registers
<1>3. CASE \E from, to \in {"open", "done", "failed"} : Advances(from, to)
  <2>1. PICK from \in {"open", "done", "failed"}, to \in {"open", "done", "failed"} :
          Advances(from, to)
    BY <1>3
  <2>2. /\ conv' = conv /\ errors' = errors /\ orphans' = orphans /\ Overtakes
        /\ ledger[from] > 0 /\ from # to
        /\ ledger' = [ledger EXCEPT ![from] = @ - 1, ![to] = @ + 1]
    BY <2>1 DEF Advances
  <2>3. ledger' \in RowCounts
    BY <1>1, <2>1, <2>2 DEF RowCounts
  <2> QED
    BY <1>1, <2>2, <2>3
<1>4. CASE \E write \in Writes : OrphanEnds(write)
  BY <1>1, <1>4 DEF OrphanEnds
<1> QED
  BY <1>2, <1>3, <1>4 DEF Delegations, Orphans, PlannerRegisters, RowMoves, OrphanRegisters,
                          OrphanMoves

\* The note on the histories disturbs nothing else in them.
LEMMA NotedIsGood ==
  ASSUME Inv, Overtakes, NEW s \in Sessions
  PROVE  /\ Good(conv[s], past'[s])
         /\ past'[s].failed = past[s].failed
         /\ past'[s].overtaken = (past[s].overtaken \/ PastItsLook(s))
<1> DEFINE p == past[s]
           b == p.overtaken \/ PastItsLook(s)
           q == [p EXCEPT !.overtaken = b]
<1>1. Good(conv[s], p) /\ past'[s] = q
  BY DEF Inv, Overtakes
<1>2. p \in Histories /\ b \in BOOLEAN
  BY <1>1 DEF Good, Histories, PastItsLook
<1> HIDE DEF b
<1>3. q \in Histories /\ q.failed = p.failed /\ q.retries = p.retries /\ q.overtaken = b
  BY <1>2 DEF Histories
<1>4. Good(conv[s], q)
  BY <1>1, <1>3 DEF Good, Counted
<1> QED
  BY <1>1, <1>3, <1>4 DEF b

\* The invariant is inductive, and no step takes an escalation back.
LEMMA InitInv == Init => Inv
<1> SUFFICES ASSUME Init PROVE Inv
  OBVIOUS
<1>1. Shape /\ \A s \in Sessions : Good(conv[s], past[s])
  BY FreshIsGood DEF Init, Shape
<1>2. errors \in 0 .. MaxErrors /\ ledger \in RowCounts
  BY LimitsAssumption DEF Init, NoRows, RowCounts
<1>3. orphans \subseteq Writes
  BY DEF Init
<1> QED
  BY <1>1, <1>2, <1>3 DEF Inv

LEMMA NextInv ==
  ASSUME Inv, [Next]_vars
  PROVE  Inv' /\ \A t \in Pinned : Stays(conv[t], conv'[t])
<1> DEFINE Kept == \A t \in Pinned : Stays(conv[t], conv'[t])
<1>1. ASSUME conv' = conv, errors' = errors, ledger' \in RowCounts, orphans' \subseteq Writes,
             past' = past \/ Overtakes
      PROVE  Inv' /\ Kept
  <2>1. \A s \in Sessions : Good(conv'[s], past'[s])
    BY <1>1, NotedIsGood DEF Inv
  <2>2. Shape'
    BY <1>1 DEF Inv, Shape, Overtakes
  <2>3. Inv'
    BY <1>1, <2>1, <2>2 DEF Inv
  <2>4. Kept
    BY <1>1 DEF Stays
  <2> QED
    BY <2>3, <2>4
<1>2. ASSUME NEW s \in Sessions, Turn(s)
      PROVE  Inv' /\ Kept
  <2>1. Moves(s) /\ errors' \in 0 .. MaxErrors /\ ledger' \in RowCounts /\ orphans' \subseteq Writes
    BY <1>2, TurnMoves, Counters, OrphansTyped
  <2>2. ASSUME NEW t \in Sessions, t # s
        PROVE  conv'[t] = conv[t] /\ past'[t] = past[t]
    BY <2>1, <2>2 DEF Moves, Inv, Shape
  <2>3. \A t \in Sessions : Good(conv'[t], past'[t])
    BY <2>1, <2>2 DEF Moves, Inv
  <2>4. Shape'
    BY <2>1 DEF Moves, Inv, Shape
  <2>5. Inv'
    BY <2>1, <2>3, <2>4 DEF Inv
  <2>6. Kept
    BY <2>1, <2>2, RepliesAssumption DEF Moves, Stays
  <2> QED
    BY <2>5, <2>6
<1> QED
  <2>1. CASE UNCHANGED vars
    BY <1>1, <2>1 DEF vars, Inv
  <2>2. CASE Orphans \/ \E s \in Sessions : Delegations(s)
    BY <1>1, <2>2, LedgerWrites
  <2>3. CASE \E s \in Sessions : Turn(s)
    BY <2>3, <1>2
  <2> QED
    BY <2>1, <2>2, <2>3 DEF Next, Turn

-----------------------------------------------------------------------------
\* Conversations, the error counter and the row counts keep their types
\* whatever the sessions, the replies and the limits (core/state.py).
THEOREM AgentLoopTypes == Spec => []TypeOK
<1>1. Inv /\ [Next]_vars => Inv'
  BY NextInv
<1>2. Inv => TypeOK
  BY DEF Inv, Good, Shape, TypeOK
<1> QED
  BY InitInv, <1>1, <1>2, PTL DEF Spec

\* The sufficiency loop sends a thread back at most MaxSufficiency times over
\* all its turns, for every critic and any number of conversations sharing the
\* ledger (force_escalate_if_blocked counts the round it judges).
THEOREM RetriesStayBounded == Spec => []SufficiencyRetriesBounded
<1>1. Inv /\ [Next]_vars => Inv'
  BY NextInv
<1>2. Inv => SufficiencyRetriesBounded
  BY DEF Inv, Good, Counted, SufficiencyRetriesBounded
<1> QED
  BY InitInv, <1>1, <1>2, PTL DEF Spec

\* An escalation applied on a pinned thread is never taken back, and its
\* exit_reason ends every later tool round and failed call of the thread
\* (route_after_agent, route_after_check, route_after_error).
THEOREM EscalationsAreFinal == Spec => EscalationIsFinal
<1>1. Inv /\ [Next]_vars => Inv'
  BY NextInv
<1>2. Inv /\ [Next]_vars =>
        [\A s \in Pinned :
           Handed(conv[s]) => Handed(conv'[s]) /\ ~ (conv[s].node \in {"check", "error"}
                                                     /\ conv'[s].node = "agent")]_vars
  BY NextInv DEF Stays
<1> QED
  BY InitInv, <1>1, <1>2, PTL DEF Spec, EscalationIsFinal

(***************************************************************************)
(* How a turn ends.                                                        *)
(***************************************************************************)

\* The sufficiency loop runs over a ledger with no open row, and a turn that ends
\* over open rows has been nudged to the limit, unless they came later.
Settled(c, p) ==
  /\ c.node \in {"sufficiency", "critic", "apply"} => ledger.open = 0 \/ p.overtaken
  /\ c.node = "extract" => ledger.open = 0 \/ c.nudges >= MaxStuck \/ p.overtaken

SettledInv == Inv /\ \A s \in Sessions : Settled(conv[s], past[s])

LEMMA SettledInit == Init => SettledInv
<1> SUFFICES ASSUME Init PROVE SettledInv
  OBVIOUS
<1>1. ASSUME NEW s \in Sessions PROVE Settled(conv[s], past[s])
  <2>1. conv[s] = Fresh /\ Fresh.node = "idle"
    BY DEF Init, Fresh
  <2> QED BY <2>1 DEF Settled
<1> QED
  BY <1>1, InitInv DEF SettledInv

\* handle_error goes back to the LLM below the limit only.
LEMMA Handled ==
  ASSUME Inv, NEW s \in Sessions, HandleError(s)
  PROVE  /\ conv'[s].node \in {"agent", "stop"}
         /\ conv'[s].node = "agent" => errors' < MaxErrors
<1> DEFINE c == conv[s]
           e == IF AtErrorLimit(errors') THEN [c EXCEPT !.exit = "consecutive_errors"]
                ELSE Resolved(c, Resolution(c.error, RetryCountKept))
<1>1. c \in Conversations /\ errors \in 0 .. MaxErrors /\ conv = [t \in Sessions |-> conv[t]]
  BY DEF Inv, Good, Shape
<1>2. errors' = UpTo(errors + 1, MaxErrors)
  BY DEF HandleError
<1>7. conv' = [conv EXCEPT ![s] = [e EXCEPT !.node = StopOr(e, "agent"), !.error = None]]
  BY DEF HandleError
<1>8. /\ e \in {c} \cup {[c EXCEPT !.exit = r] : r \in ExitReasons}
            \cup {[c EXCEPT !.tier = c.tier + 1]}
      /\ AtErrorLimit(errors') => e = [c EXCEPT !.exit = "consecutive_errors"]
  <2>1. Resolution(c.error, RetryCountKept) \in {"retry", "fallback", "abort"}
    BY DEF Resolution
  <2>2. Resolved(c, Resolution(c.error, RetryCountKept)) \in
          {c} \cup {[c EXCEPT !.exit = r] : r \in ExitReasons}
            \cup {[c EXCEPT !.tier = c.tier + 1]}
    BY <2>1 DEF Resolved, ExitReasons
  <2>3. "consecutive_errors" \in ExitReasons
    BY DEF ExitReasons
  <2> QED BY <2>2, <2>3
<1> HIDE DEF e
<1>9. conv'[s].node = StopOr(e, "agent")
  <2>1. conv'[s] = [e EXCEPT !.node = StopOr(e, "agent"), !.error = None]
    BY <1>1, <1>7
  <2> QED BY <1>1, <1>8, <2>1 DEF Conversations
<1>10. AtErrorLimit(errors') => e.exit # None
  BY <1>1, <1>8, NoneAssumption DEF Conversations, ExitReasons
<1>11. ~ AtErrorLimit(errors') => errors' < MaxErrors
  BY <1>1, <1>2, LimitsAssumption DEF AtErrorLimit, UpTo
<1> QED
  BY <1>9, <1>10, <1>11 DEF StopOr

\* Where a step of a turn leads.
LEMMA NextNode ==
  ASSUME Inv, NEW s \in Sessions, Turn(s), ~ Route(s), ~ Sufficiency(s)
  PROVE  \/ Agent(s) /\ conv'[s].node = "route"
         \/ ToolsDone(s) /\ conv'[s].node = "check"
         \/ ~ Agent(s) /\ ~ ToolsDone(s) /\ conv'[s].node \in {"idle", "agent", "stop"}
<1> DEFINE c == conv[s]
           d == conv'[s]
<1>1. /\ c \in Conversations /\ past[s] \in Histories
      /\ conv = [t \in Sessions |-> conv[t]]
  BY DEF Inv, Good, Shape
<1>3. StartTurn(s) => d.node = "agent"
  <2> SUFFICES ASSUME StartTurn(s) PROVE d.node = "agent"
    OBVIOUS
  <2>1. d = [(IF s \in Pinned THEN c ELSE Fresh) EXCEPT !.node = "agent"]
    BY <1>1 DEF StartTurn
  <2>2. CASE s \in Pinned
    BY <1>1, <2>1, <2>2 DEF Conversations
  <2>3. CASE s \notin Pinned
    BY <2>1, <2>3 DEF Fresh
  <2> QED BY <2>2, <2>3
<1>4. Agent(s) => d.node = "route"
  <2>1. ASSUME NEW reply, AgentReplies(s, reply) PROVE d.node = "route"
    BY <1>1, <2>1 DEF AgentReplies, Conversations
  <2>2. ASSUME NEW failure, AgentFails(s, failure) PROVE d.node = "route"
    BY <1>1, <2>2 DEF AgentFails, Conversations
  <2> QED BY <2>1, <2>2 DEF Agent
<1>5. ToolsDone(s) => d.node = "check"
  BY <1>1 DEF ToolsDone, Goto, Conversations
<1>6. (\E stall \in BOOLEAN : CheckProgress(s, stall)) => d.node \in {"stop", "agent"}
  <2> SUFFICES ASSUME NEW stall \in BOOLEAN, CheckProgress(s, stall)
               PROVE  d.node \in {"stop", "agent"}
    OBVIOUS
  <2> DEFINE e == IF stall THEN [c EXCEPT !.exit = "progress_guard_stop"] ELSE c
  <2>2. d = [e EXCEPT !.node = StopOr(e, "agent")]
    BY <1>1 DEF CheckProgress
  <2>3. e \in {c, [c EXCEPT !.exit = "progress_guard_stop"]}
    OBVIOUS
  <2> HIDE DEF e
  <2> QED BY <1>1, <2>2, <2>3 DEF Conversations, StopOr
<1>7. HandleError(s) => d.node \in {"agent", "stop"}
  BY Handled
<1>8. Nudge(s) => d.node = "agent"
  BY <1>1 DEF Nudge, Conversations
<1>9. Extract(s) \/ Abandon(s) => d.node = "idle"
  <2> SUFFICES ASSUME Extract(s) \/ Abandon(s) PROVE d.node = "idle"
    OBVIOUS
  <2>1. d = [c EXCEPT !.node = "idle"]
    BY <1>1 DEF Extract, Abandon, Goto
  <2> QED BY <1>1, <2>1 DEF Conversations
<1>10. SafeStop(s) => d.node = "idle"
  BY <1>1 DEF SafeStop, Conversations
<1>11. (\E decision \in {"proceed", "finer", "coarser", "unknown"} : Answer(s, decision))
         => d.node = "agent"
  BY <1>1 DEF Answer, Conversations
<1> QED
  BY <1>3, <1>4, <1>5, <1>6, <1>7, <1>8, <1>9, <1>10, <1>11 DEF Turn, Proceed

\* A turn's own steps.
LEMMA TurnSettled ==
  ASSUME Inv, NEW s \in Sessions, Settled(conv[s], past[s]), Turn(s)
  PROVE  Settled(conv[s], past[s])'
<1> DEFINE c == conv[s]
           d == conv'[s]
<1>1. /\ c \in Conversations /\ past[s] \in Histories /\ ledger \in RowCounts
      /\ conv = [t \in Sessions |-> conv[t]] /\ past = [t \in Sessions |-> past[t]]
  BY DEF Inv, Good, Shape
<1>2. CASE Route(s)
  <2>1. UNCHANGED <<errors, ledger, past>> /\ c.node = "route"
    BY <1>2 DEF Route, RouteError, RouteStop, RouteGate, RouteTools, RouteNudge, RouteStuck,
                RouteSufficiency, RouteEnd, Silent, Routes, At
  <2>2. PICK n \in {"error", "stop", "asking", "tools", "nudge", "extract", "sufficiency"} :
          /\ Goto(s, n)
          /\ n = "sufficiency" => Decision(c) = "clean_end"
          /\ n = "extract" => Decision(c) \in {"clean_end", "stuck_end"}
    BY <1>2 DEF Route, RouteError, RouteStop, RouteGate, RouteTools, RouteNudge, RouteStuck,
                RouteSufficiency, RouteEnd, Silent, Routes
  <2>3. d = [c EXCEPT !.node = n]
    BY <1>1, <2>2 DEF Goto
  <2>4. d.node = n /\ d.nudges = c.nudges /\ c.nudges \in 0 .. MaxStuck + 1
    BY <1>1, <2>3 DEF Conversations
  <2>5. /\ Decision(c) = "clean_end" => ledger.open = 0
        /\ Decision(c) = "stuck_end" => ~ (c.nudges < MaxStuck)
    BY DEF Decision, NudgeDecision
  <2> QED BY <2>1, <2>2, <2>4, <2>5, LimitsAssumption DEF Settled
<1>3. CASE Sufficiency(s)
  <2>1. ledger' = ledger /\ c.node \in {"sufficiency", "critic", "apply"}
    BY <1>3 DEF Sufficiency, SufficiencyHigh, SufficiencyMedium, SufficiencyLow, Critic,
                ApplyPass, ApplyRetry, ApplyEscalate, At
  <2>2. past'[s].overtaken = past[s].overtaken
    <3>1. past' = past \/ past' = [past EXCEPT ![s].retries = UpTo(@ + 1, MaxSufficiency + 1)]
      BY <1>3 DEF Sufficiency, SufficiencyHigh, SufficiencyMedium, SufficiencyLow, Critic,
                  ApplyPass, ApplyRetry, ApplyEscalate
    <3> QED BY <1>1, <3>1 DEF Histories
  <2> QED BY <2>1, <2>2 DEF Settled
<1>4. CASE ~ Route(s) /\ ~ Sufficiency(s)
  BY <1>4, NextNode DEF Settled
<1> QED
  BY <1>2, <1>3, <1>4

\* The steps of the others: they leave the rows as they are, clear them, or are noted.
LEMMA SettledNext ==
  ASSUME SettledInv, [Next]_vars
  PROVE  SettledInv'
<1>1. Inv /\ Inv'
  BY NextInv DEF SettledInv
<1>2. CASE UNCHANGED vars
  BY <1>1, <1>2 DEF vars, SettledInv, Settled
<1>3. CASE Orphans \/ \E s \in Sessions : Delegations(s)
  <2>1. conv' = conv /\ (Overtakes \/ (past' = past /\ ledger' = ledger))
    BY <1>1, <1>3, LedgerWrites
  <2>2. CASE Overtakes
    <3>1. \A s \in Sessions : past'[s].overtaken = (past[s].overtaken \/ PastItsLook(s))
      BY <1>1, <2>2, NotedIsGood
    <3> QED BY <1>1, <2>1, <3>1 DEF SettledInv, Settled, PastItsLook
  <2>3. CASE past' = past /\ ledger' = ledger
    BY <1>1, <2>1, <2>3 DEF SettledInv, Settled
  <2> QED BY <2>1, <2>2, <2>3
<1>4. ASSUME NEW s \in Sessions, Turn(s) PROVE SettledInv'
  <2>1. Settled(conv[s], past[s])'
    BY <1>1, <1>4, TurnSettled DEF SettledInv
  <2>2. Moves(s) /\ ledger' \in {ledger, NoRows}
    BY <1>1, <1>4, TurnMoves, Counters
  <2>3. ASSUME NEW t \in Sessions, t # s PROVE Settled(conv[t], past[t])'
    <3>1. conv'[t] = conv[t] /\ past'[t] = past[t]
      BY <1>1, <2>2, <2>3 DEF Moves, Inv, Shape
    <3>2. ledger' = ledger \/ ledger'.open = 0
      BY <2>2 DEF NoRows
    <3> QED BY <3>1, <3>2 DEF SettledInv, Settled
  <2> QED BY <1>1, <2>1, <2>3 DEF SettledInv
<1> QED
  BY <1>2, <1>3, <1>4 DEF Next, Turn

\* A turn that ends normally over open rows has been nudged to the limit without
\* progress, or a thread of another turn or of one given up has opened them since
\* it last looked: for any number of conversations over the one ledger, every
\* limit, plan and reply (nudge_pending_todos_node, route_after_agent).
THEOREM TurnsEndSettled == Spec => []EndsSettledOrStuck
<1>1. SettledInv /\ [Next]_vars => SettledInv'
  BY SettledNext
<1>2. SettledInv => EndsSettledOrStuck
  BY DEF SettledInv, Settled, EndsSettledOrStuck, At
<1> QED
  BY SettledInit, <1>1, <1>2, PTL DEF Spec

(***************************************************************************)
(* A conversation alone in the process: nobody else resets the error       *)
(* counter.  (Threads of given-up work do not touch it.)                   *)
(***************************************************************************)
Alone == \A s, t \in Sessions : s = t

\* The counter counts every failure since the last successful call, and is reset
\* only when there is none.
Streak(c, p) ==
  /\ Len(p.failed) <= errors
  /\ c.node \in {"tools", "check"} => p.failed = <<>>
  /\ c.node = "route" /\ c.error = None => p.failed = <<>>

AloneInv == Inv /\ \A s \in Sessions : Streak(conv[s], past[s])

LEMMA AloneInit == Init => AloneInv
<1> SUFFICES ASSUME Init PROVE AloneInv
  OBVIOUS
<1>1. ASSUME NEW s \in Sessions PROVE Streak(conv[s], past[s])
  <2>1. conv[s] = Fresh /\ past[s] = NoPast /\ errors = 0
    BY DEF Init
  <2>2. Fresh.node = "idle" /\ NoPast.failed = <<>> /\ Len(<<>>) = 0
    BY DEF Fresh, NoPast
  <2> QED BY <2>1, <2>2 DEF Streak
<1> QED
  BY <1>1, InitInv DEF AloneInv

\* handle_error counts the failure twice: for the process and in the history.
LEMMA FailureCounted ==
  ASSUME AloneInv, NEW s \in Sessions, HandleError(s)
  PROVE  Len(past'[s].failed) <= errors'
<1> DEFINE c == conv[s]
           p == past[s]
<1>1. /\ c \in Conversations /\ p \in Histories /\ Streak(c, p)
      /\ errors \in 0 .. MaxErrors /\ past = [t \in Sessions |-> past[t]]
  BY DEF AloneInv, Inv, Good, Shape
<1>2. errors' = IF errors + 1 <= MaxErrors THEN errors + 1 ELSE MaxErrors
  BY DEF HandleError, UpTo
<1>3. /\ p.failed \in Seq(FailureTypes \cup {None}) /\ Len(p.failed) \in Nat
      /\ Len(p.failed) <= errors /\ c.error \in FailureTypes \cup {None}
  BY <1>1 DEF Histories, Streak, Conversations
<1>4. past'[s].failed = IF Len(p.failed) < MaxErrors THEN Append(p.failed, c.error) ELSE p.failed
  BY <1>1 DEF HandleError, Histories
<1>5. Len(Append(p.failed, c.error)) = Len(p.failed) + 1
  BY <1>3
<1> QED BY <1>1, <1>2, <1>3, <1>4, <1>5, LimitsAssumption

\* The conversation's own steps.
LEMMA TurnStreak ==
  ASSUME AloneInv, NEW s \in Sessions, Turn(s)
  PROVE  Streak(conv[s], past[s])'
<1> DEFINE c == conv[s]
           d == conv'[s]
<1>1. /\ c \in Conversations /\ past[s] \in Histories /\ Inv /\ Streak(c, past[s])
      /\ errors \in 0 .. MaxErrors /\ Len(<<>>) = 0
      /\ conv = [t \in Sessions |-> conv[t]] /\ past = [t \in Sessions |-> past[t]]
  BY DEF AloneInv, Inv, Good, Shape
<1>2. CASE Route(s)
  <2>1. UNCHANGED <<errors, past>> /\ c.node = "route"
    BY <1>2 DEF Route, RouteError, RouteStop, RouteGate, RouteTools, RouteNudge, RouteStuck,
                RouteSufficiency, RouteEnd, Silent, Routes, At
  <2>2. PICK n \in {"error", "stop", "asking", "tools", "nudge", "extract", "sufficiency"} :
          Goto(s, n) /\ (n = "tools" => c.error = None)
    BY <1>2 DEF Route, RouteError, RouteStop, RouteGate, RouteTools, RouteNudge, RouteStuck,
                RouteSufficiency, RouteEnd, Silent, Routes
  <2>3. d.node = n
    BY <1>1, <2>2 DEF Goto, Conversations
  <2> QED BY <1>1, <2>1, <2>2, <2>3 DEF Streak
<1>3. CASE Sufficiency(s)
  <2>1. errors' = errors
    BY <1>3 DEF Sufficiency, SufficiencyHigh, SufficiencyMedium, SufficiencyLow, Critic,
                ApplyPass, ApplyRetry, ApplyEscalate
  <2>2. past'[s].failed = past[s].failed
    <3>1. past' = past \/ past' = [past EXCEPT ![s].retries = UpTo(@ + 1, MaxSufficiency + 1)]
      BY <1>3 DEF Sufficiency, SufficiencyHigh, SufficiencyMedium, SufficiencyLow, Critic,
                  ApplyPass, ApplyRetry, ApplyEscalate
    <3> QED BY <1>1, <3>1 DEF Histories
  <2>3. d.node \in {"extract", "critic", "apply", "agent"}
    <3>0. Applied(c) = [c EXCEPT !.verdict = Applied(c).verdict, !.recent = Applied(c).recent,
                                 !.rounds = Applied(c).rounds]
      BY <1>1 DEF Applied, Conversations
    <3>1. CASE ApplyPass(s) \/ ApplyRetry(s) \/ ApplyEscalate(s)
      <4>1. \/ d = [Applied(c) EXCEPT !.node = "extract"]
            \/ d = [Applied(c) EXCEPT !.node = "agent", !.nudges = 0, !.lastOpen = None]
            \/ d = [Applied(c) EXCEPT !.node = "extract", !.exit = "sufficiency_escalated"]
        BY <1>1, <3>1 DEF ApplyPass, ApplyRetry, ApplyEscalate
      <4> QED BY <1>1, <3>0, <4>1 DEF Conversations
    <3>2. CASE SufficiencyHigh(s) \/ SufficiencyMedium(s)
      BY <1>1, <3>2 DEF SufficiencyHigh, SufficiencyMedium, Conversations
    <3>3. CASE SufficiencyLow(s)
      BY <1>1, <3>3 DEF SufficiencyLow, Conversations
    <3>4. CASE \E v \in Verdicts, t \in Targets \cup {None} : Critic(s, v, t)
      BY <1>1, <3>4 DEF Critic, Conversations
    <3> QED BY <1>3, <3>1, <3>2, <3>3, <3>4 DEF Sufficiency
  <2> QED BY <1>1, <2>1, <2>2, <2>3 DEF Streak
<1>4. CASE \E reply \in Replies : AgentReplies(s, reply)
  <2>0. PICK reply \in Replies : AgentReplies(s, reply)
    BY <1>4
  <2>1. d.node = "route"
    <3>1. d = [c EXCEPT !.node = "route", !.reply = reply, !.iteration = Called(c)]
      BY <1>1, <2>0 DEF AgentReplies
    <3> QED BY <1>1, <3>1 DEF Conversations
  <2>2. past'[s].failed = <<>>
    <3>1. past'[s] = [past[s] EXCEPT !.failed = <<>>, !.overtaken = FALSE]
      BY <1>1, <2>0 DEF AgentReplies
    <3> QED BY <1>1, <3>1 DEF Histories
  <2>3. errors' = errors
    BY <1>4, Zenon DEF AgentReplies
  <2> QED BY <1>1, <2>1, <2>2, <2>3 DEF Streak
<1>5. CASE \E failure \in Failures : AgentFails(s, failure)
  <2>0. PICK failure \in Failures : AgentFails(s, failure)
    BY <1>5
  <2>3. d = [c EXCEPT !.node = "route", !.error = failure, !.iteration = Called(c)]
    BY <1>1, <2>0 DEF AgentFails
  <2>4. d.node = "route" /\ d.error = failure
    BY <1>1, <2>3 DEF Conversations
  <2>5. past' = past /\ errors' = errors
    BY <2>0, Zenon DEF AgentFails
  <2>1. d.node = "route" /\ d.error \in Failures /\ past' = past /\ errors' = errors
    BY <2>0, <2>4, <2>5
  <2>2. d.error # None
    BY <2>1, FailuresAssumption, NoneAssumption
  <2> QED BY <1>1, <2>1, <2>2 DEF Streak
<1>6. CASE ToolsDone(s)
  <2>1. c.node = "tools" /\ past' = past /\ errors' = errors
    BY <1>6 DEF ToolsDone, At
  <2> QED BY <1>1, <2>1 DEF Streak
<1>7. CASE ~ Route(s) /\ ~ Sufficiency(s) /\ ~ Agent(s) /\ ~ ToolsDone(s)
  <2>1. d.node \in {"idle", "agent", "stop"}
    BY <1>1, <1>7, NextNode
  <2>2. Len(past'[s].failed) <= errors'
    <3>1. CASE HandleError(s)
      BY <3>1, FailureCounted
    <3>2. CASE StartTurn(s)
      <4>1. past'[s] \in {past[s], NoPast} /\ errors' = errors
        BY <1>1, <3>2 DEF StartTurn
      <4> QED BY <1>1, <4>1 DEF NoPast, Streak
    <3>3. CASE \E stall \in BOOLEAN : CheckProgress(s, stall)
      BY <1>1, <3>3 DEF CheckProgress, At, Streak
    <3>4. CASE \/ Nudge(s) \/ Extract(s) \/ SafeStop(s) \/ Abandon(s)
               \/ \E decision \in {"proceed", "finer", "coarser", "unknown"} : Answer(s, decision)
      <4>1. past' = past /\ errors' = errors
        BY <3>4 DEF Nudge, Extract, SafeStop, Abandon, Answer
      <4> QED BY <1>1, <4>1 DEF Streak
    <3> QED BY <1>7, <3>1, <3>2, <3>3, <3>4 DEF Turn, Proceed
  <2> QED BY <2>1, <2>2 DEF Streak
<1> QED
  BY <1>2, <1>3, <1>4, <1>5, <1>6, <1>7 DEF Agent

LEMMA AloneNext ==
  ASSUME Alone, AloneInv, [Next]_vars
  PROVE  AloneInv'
<1>1. Inv /\ Inv'
  BY NextInv DEF AloneInv
<1>2. CASE UNCHANGED vars
  BY <1>1, <1>2 DEF vars, AloneInv, Streak
<1>3. ASSUME NEW s \in Sessions, Turn(s) PROVE AloneInv'
  <2>1. Streak(conv[s], past[s])'
    BY <1>3, TurnStreak
  <2>2. \A t \in Sessions : t = s
    BY DEF Alone
  <2> QED BY <1>1, <2>1, <2>2 DEF AloneInv
<1>4. CASE Orphans \/ \E s \in Sessions : Delegations(s)
  <2>1. conv' = conv /\ errors' = errors /\ (Overtakes \/ past' = past)
    BY <1>1, <1>4, LedgerWrites
  <2>2. \A s \in Sessions : past'[s].failed = past[s].failed
    BY <1>1, <2>1, NotedIsGood
  <2> QED BY <1>1, <2>1, <2>2 DEF AloneInv, Streak
<1> QED
  BY <1>2, <1>3, <1>4 DEF Next, Turn

LEMMA AloneInvariant ==
  ASSUME Alone
  PROVE  Spec => []AloneInv
<1>1. AloneInv /\ [Next]_vars => AloneInv'
  BY AloneNext
<1> QED
  BY AloneInit, <1>1, PTL DEF Spec

\* A lone conversation that has handled MaxErrors failures with no successful call
\* between them is not sent back to the LLM (_MAX_CONSECUTIVE_ERRORS): the counter,
\* which only check_progress resets, never falls behind the streak.
THEOREM StreaksStop ==
  ASSUME Alone
  PROVE  Spec => ErrorStreakStops
<1>1. ASSUME AloneInv, Next, NEW s \in Sessions, At(s, "error"), conv'[s].node = "agent"
      PROVE  Len(past'[s].failed) < MaxErrors
  <2>1. HandleError(s)
    <3>1. conv[s].node = "error" /\ conv[s] \in Conversations
      BY <1>1 DEF At, AloneInv, Inv, Good
    <3>2. conv[s].node # conv'[s].node
      BY <1>1, <3>1
    <3>3. Turn(s)
      <4>1. conv' # conv
        BY <3>2
      <4>2. ~ (Orphans \/ \E t \in Sessions : Delegations(t))
        BY <1>1, <4>1, LedgerWrites DEF AloneInv
      <4> QED BY <1>1, <4>2 DEF Next, Turn, Alone
    <3>4. ~ Abandon(s)
      <4>1. CASE Abandon(s)
        <5>1. conv' = [conv EXCEPT ![s].node = "idle"]
          BY <4>1 DEF Abandon, Goto
        <5>2. conv = [t \in Sessions |-> conv[t]]
          BY <1>1 DEF AloneInv, Inv, Shape
        <5>3. conv'[s].node = "idle"
          BY <3>1, <5>1, <5>2 DEF Conversations
        <5> QED BY <1>1, <5>3
      <4> QED BY <4>1
    <3> QED
      BY <3>1, <3>3, <3>4 DEF Turn, Proceed, StartTurn, Agent, AgentReplies, AgentFails, Route, RouteError,
         RouteStop, RouteGate, RouteTools, RouteNudge, RouteStuck, RouteSufficiency, RouteEnd,
         Silent, Routes, ToolsDone, CheckProgress, Nudge, Answer, Sufficiency, SufficiencyHigh,
         SufficiencyMedium, SufficiencyLow, Critic, ApplyPass, ApplyRetry, ApplyEscalate,
         Extract, SafeStop, At
  <2>2. Len(past'[s].failed) <= errors' /\ errors' < MaxErrors
    BY <1>1, <2>1, FailureCounted, Handled DEF AloneInv
  <2>3. Len(past'[s].failed) \in Int /\ errors' \in Int
    <3>1. Inv'
      BY <1>1, NextInv DEF AloneInv
    <3> QED BY <3>1, LimitsAssumption DEF Inv, Good, Histories
  <2> QED BY <2>2, <2>3, LimitsAssumption
<1>2. AloneInv /\ [Next]_vars =>
        [\A s \in Sessions :
           At(s, "error") /\ conv'[s].node = "agent" => Len(past'[s].failed) < MaxErrors]_vars
  BY <1>1
<1> QED
  BY <1>2, AloneInvariant, PTL DEF Spec, ErrorStreakStops
=============================================================================
