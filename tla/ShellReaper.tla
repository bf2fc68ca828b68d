------------------------------ MODULE ShellReaper ------------------------------
(***************************************************************************)
(* The execute tool: one call, the processes its command starts, and what  *)
(* becomes of them when the command runs into the harness's timeout        *)
(* (execute, _reap_process_group).                                         *)
(*                                                                         *)
(* The shell is the leader of a new session and process group.  Processes  *)
(* of the command fork others, which may hold the output pipes or not, may *)
(* ignore SIGTERM, may leave the group (setsid), and exit when they like   *)
(* or never.  A signal is sent in one step and takes effect in a later     *)
(* one.  The clock is a timeout that may expire at any time while a wait   *)
(* goes on.  The operating system and subprocess are external, modelled    *)
(* from how execute uses them.                                             *)
(***************************************************************************)
EXTENDS Naturals

CONSTANTS Procs,    \* processes one command may have
          Leader    \* the shell Popen starts

ASSUME LeaderAssumption == Leader \in Procs

VARIABLES
  pc,       \* where execute stands
  result,   \* what it returns, or "raised" if an exception leaves it
  next_sig, \* the signal _reap_process_group sends next
  status,   \* per process: "none", "running", "zombie" (the leader only), "gone"
  traits,   \* per process: pipe held, SIGTERM ignored, still in the group
  signal,   \* per process: the strongest signal sent to it
  reused,   \* the leader's process id has been given to a stranger
  struck    \* a stranger's process group was signalled

os   == <<status, traits, signal, reused, struck>>
vars == <<pc, result, next_sig, status, traits, signal, reused, struck>>

Traits == [pipe : BOOLEAN, ignores : BOOLEAN, grouped : BOOLEAN]

TypeOK ==
  /\ pc \in {"idle", "communicate", "getpgid", "killpg", "wait", "drain", "returned"}
  /\ result \in {"none", "blocked", "rejected", "error", "output", "timeout", "raised"}
  /\ next_sig \in {"TERM", "KILL"}
  /\ status \in [Procs -> {"none", "running", "zombie", "gone"}]
  /\ traits \in [Procs -> Traits]
  /\ signal \in [Procs -> {"none", "TERM", "KILL"}]
  /\ reused \in BOOLEAN
  /\ struck \in BOOLEAN

Running  == {p \in Procs : status[p] = "running"}
InGroup  == {p \in Running : traits[p].grouped}
PipeOpen == \E p \in Running : traits[p].pipe

Init ==
  /\ pc = "idle" /\ result = "none" /\ next_sig = "TERM"
  /\ status = [p \in Procs |-> "none"]
  /\ traits \in [Procs -> Traits]
  /\ traits[Leader] \in [pipe : BOOLEAN, ignores : BOOLEAN, grouped : {TRUE}]
  /\ signal = [p \in Procs |-> "none"]
  /\ reused = FALSE /\ struck = FALSE

(***************************************************************************)
(* The processes.                                                          *)
(***************************************************************************)

\* A pending signal that will end its process is acted on before the process
\* can fork again.
Doomed(p) == signal[p] = "KILL" \/ (signal[p] = "TERM" /\ ~ traits[p].ignores)

\* The child inherits the group unless its parent has left it.
Fork(p, q) ==
  /\ p \in Running /\ ~ Doomed(p) /\ status[q] = "none"
  /\ traits[q].grouped => traits[p].grouped
  /\ status' = [status EXCEPT ![q] = "running"]
  /\ UNCHANGED <<pc, result, next_sig, traits, signal, reused, struck>>

\* init reaps every process but the leader, which is execute's child.
Ended(p) == IF p = Leader THEN "zombie" ELSE "gone"

Exit(p) ==
  /\ p \in Running
  /\ status' = [status EXCEPT ![p] = Ended(p)]
  /\ UNCHANGED <<pc, result, next_sig, traits, signal, reused, struck>>

Dies(p) == Doomed(p) /\ Exit(p)

\* A process id is free once its process is reaped and its group is empty.
PidReused ==
  /\ status[Leader] = "gone" /\ InGroup = {} /\ ~ reused
  /\ reused' = TRUE
  /\ UNCHANGED <<pc, result, next_sig, status, traits, signal, struck>>

(***************************************************************************)
(* execute.                                                                *)
(***************************************************************************)

Return(r) ==
  /\ pc' = "returned" /\ result' = r
  /\ UNCHANGED next_sig

\* Refused at the boundary, or Popen fails: nothing is started.
Block   == pc = "idle" /\ Return("blocked") /\ UNCHANGED os
Reject  == pc = "idle" /\ Return("rejected") /\ UNCHANGED os
NoStart == pc = "idle" /\ Return("error") /\ UNCHANGED os

Start ==
  /\ pc = "idle"
  /\ pc' = "communicate"
  /\ status' = [status EXCEPT ![Leader] = "running"]
  /\ UNCHANGED <<result, next_sig, traits, signal, reused, struck>>

Reaped == [status EXCEPT ![Leader] = "gone"]

\* communicate reads to the end of both pipes, then waits for the leader.
OutputRead ==
  /\ pc = "communicate" /\ ~ PipeOpen /\ status[Leader] = "zombie"
  /\ status' = Reaped
  /\ Return("output")
  /\ UNCHANGED <<traits, signal, reused, struck>>

\* The output does not decode, which shows after the leader has been reaped.
OutputBad ==
  /\ pc = "communicate" /\ ~ PipeOpen /\ status[Leader] = "zombie"
  /\ status' = Reaped
  /\ pc' = "getpgid" /\ result' = "error"
  /\ UNCHANGED <<next_sig, traits, signal, reused, struck>>

\* Fault: the timeout is reported under another name than the reaper looks for.
CommandTimesOutUnnamed ==
  /\ pc = "communicate" /\ (PipeOpen \/ status[Leader] = "running")
  /\ pc' = "getpgid" /\ result' = "expired"
  /\ UNCHANGED <<next_sig, os>>

\* The harness's timeout runs out before the pipes are closed and the shell is gone.
CommandTimesOut ==
  /\ pc = "communicate" /\ (PipeOpen \/ status[Leader] = "running")
  /\ pc' = "getpgid" /\ result' = "timeout"
  /\ UNCHANGED <<next_sig, os>>

\* After the reaper: the error is returned, a timed-out command is drained first.
AfterReaper == pc' = IF result = "timeout" THEN "drain" ELSE "returned"

\* getpgid fails for a leader that is reaped already, unless its id is a stranger's.
LookUpGroup ==
  /\ pc = "getpgid"
  /\ IF status[Leader] = "gone" /\ ~ reused THEN AfterReaper ELSE pc' = "killpg"
  /\ UNCHANGED <<result, next_sig, os>>

Stronger(s, old) == IF old = "KILL" THEN old ELSE s

\* Fault: the shell alone is signalled.
SignalLeader ==
  /\ pc = "killpg" /\ ~ reused /\ status[Leader] # "gone"
  /\ signal' = [signal EXCEPT ![Leader] = Stronger(next_sig, @)]
  /\ pc' = "wait"
  /\ UNCHANGED <<result, next_sig, status, traits, reused, struck>>

\* killpg reaches every process in the group at that moment.  A leader that is not
\* reaped yet keeps the group's id in use.
SignalGroup ==
  /\ pc = "killpg" /\ ~ reused
  /\ InGroup # {} \/ status[Leader] = "zombie"
  /\ signal' = [p \in Procs |-> IF p \in InGroup THEN Stronger(next_sig, signal[p])
                                                 ELSE signal[p]]
  /\ pc' = "wait"
  /\ UNCHANGED <<result, next_sig, status, traits, reused, struck>>

SignalStranger ==
  /\ pc = "killpg" /\ reused
  /\ struck' = TRUE
  /\ pc' = "wait"
  /\ UNCHANGED <<result, next_sig, status, traits, signal, reused>>

\* Fault: the group is signalled twice whether or not the leader has gone.
LeaderReapedOn ==
  /\ pc = "wait" /\ status[Leader] \in {"zombie", "gone"}
  /\ status' = Reaped
  /\ IF next_sig = "TERM" THEN pc' = "killpg" /\ next_sig' = "KILL"
                          ELSE AfterReaper /\ UNCHANGED next_sig
  /\ UNCHANGED <<result, traits, signal, reused, struck>>

\* proc.wait sees the leader gone: the reaper returns, whoever else is alive.
LeaderReaped ==
  /\ pc = "wait" /\ status[Leader] \in {"zombie", "gone"}
  /\ status' = Reaped
  /\ AfterReaper
  /\ UNCHANGED <<result, next_sig, traits, signal, reused, struck>>

\* Fault: no second signal.
GraceGivesUp ==
  /\ pc = "wait" /\ status[Leader] = "running"
  /\ AfterReaper
  /\ UNCHANGED <<result, next_sig, os>>

\* The grace period passes with the leader alive: KILL after TERM, then give up.
GraceOver ==
  /\ pc = "wait" /\ status[Leader] = "running"
  /\ IF next_sig = "TERM" THEN pc' = "killpg" /\ next_sig' = "KILL"
                          ELSE AfterReaper /\ UNCHANGED next_sig
  /\ UNCHANGED <<result, os>>

\* The second communicate: end of the pipes and the leader reaped ...
Drained ==
  /\ pc = "drain" /\ ~ PipeOpen /\ status[Leader] # "running"
  /\ status' = Reaped
  /\ pc' = "returned"
  /\ UNCHANGED <<result, next_sig, traits, signal, reused, struck>>

\* ... or output that does not decode: only TimeoutExpired is caught here, the error
\* leaves execute ...
DrainBad ==
  /\ pc = "drain" /\ ~ PipeOpen /\ status[Leader] # "running"
  /\ status' = Reaped
  /\ Return("raised")
  /\ UNCHANGED <<traits, signal, reused, struck>>

\* Fault: the second communicate has no timeout.
DrainWaits == FALSE

\* ... or its own timeout, with whatever still holds a pipe left alone.
DrainTimesOut ==
  /\ pc = "drain" /\ (PipeOpen \/ status[Leader] = "running")
  /\ pc' = "returned"
  /\ UNCHANGED <<result, next_sig, os>>

Execute ==
  \/ Block \/ Reject \/ NoStart \/ Start
  \/ OutputRead \/ OutputBad \/ CommandTimesOut
  \/ LookUpGroup \/ SignalGroup \/ SignalStranger
  \/ LeaderReaped \/ GraceOver
  \/ Drained \/ DrainBad \/ DrainTimesOut

Next ==
  \/ Execute
  \/ PidReused
  \/ \E p \in Procs : Exit(p) \/ \E q \in Procs : Fork(p, q)

\* execute's own steps and its timeouts happen, and so does the death a signal
\* brings; no process ever has to end by itself.
Fairness == WF_vars(Execute) /\ \A p \in Procs : WF_vars(Dies(p))

Spec == Init /\ [][Next]_vars /\ Fairness

(***************************************************************************)
(* Properties.                                                             *)
(***************************************************************************)

\* A call is over in the end, by returning or raising, although no process of its
\* command ever ends.
ExecuteReturns == (pc = "communicate") ~> (pc = "returned")

\* The command ran into the timeout, whatever became of the call.
TimedOut == result \in {"timeout", "raised"}

\* A process that may outlive a timed-out command: it has left the group, ignores
\* SIGTERM, or was forked after the signals by one that ignores it.
Resists(p) ==
  \/ ~ traits[p].grouped \/ traits[p].ignores
  \/ signal[p] = "none" /\ \E q \in Procs \ {p} : status[q] # "none" /\ traits[q].ignores

\* After a timeout the command's other processes all die in the end, backgrounded
\* jobs and forked workers included.
TimedOutGroupDies ==
  (pc = "returned" /\ TimedOut) ~> (\A p \in Running : Resists(p))

\* A timed-out leader is not left a zombie: it is reaped, or had not died when the
\* wait after SIGKILL ran out.
LeaderIsReaped ==
  pc = "returned" /\ status[Leader] = "zombie" => signal[Leader] = "KILL"

\* The group signalled on a timeout is the command's own: its id cannot have been
\* given to a stranger.
TimeoutSparesStrangers == TimedOut => ~ struck

\* Comment above _reap_process_group: KILL if any process is still alive.
SurvivorsAreKilled ==
  pc = "returned" /\ TimedOut => \A p \in InGroup : signal[p] = "KILL"
===============================================================================
