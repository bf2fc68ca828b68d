--------------------------- MODULE ShellReaperProofs ---------------------------
(***************************************************************************)
(* Proofs about ShellReaper for every set of processes.                    *)
(***************************************************************************)
EXTENDS ShellReaper, TLAPS

\* While the leader can still be signalled as the group's own: before the outcome
\* is known, and on the timeout's way through the reaper.
Owned ==
  \/ pc \in {"idle", "communicate"}
  \/ result = "timeout" /\ pc \in {"getpgid", "killpg", "wait"}

\* The leader is not reaped then, so its id is nobody else's.
OwnGroup ==
  /\ Owned => status[Leader] # "gone" /\ ~ reused /\ ~ struck
  /\ TimedOut => ~ struck
  /\ pc = "drain" => result = "timeout"
  /\ result = "raised" => pc = "returned"
  /\ reused => status[Leader] = "gone"

\* No process without the leader's start, and none of execute's states without it.
LeaderFirst ==
  /\ status[Leader] = "none" => Running = {}
  /\ pc = "idle" => status[Leader] = "none"
  /\ pc \in {"communicate", "getpgid", "killpg", "wait", "drain"} => status[Leader] # "none"

\* A leader that is alive when the wait after SIGKILL begins has been sent it.
Escalated ==
  /\ traits[Leader].grouped
  /\ pc = "wait" /\ next_sig = "KILL" /\ status[Leader] = "running" => signal[Leader] = "KILL"
  /\ pc \in {"drain", "returned"} /\ status[Leader] \in {"running", "zombie"}
       => signal[Leader] = "KILL"

IInv == TypeOK /\ OwnGroup /\ LeaderFirst /\ Escalated

LEMMA InitIInv == Init => IInv
<1> SUFFICES ASSUME Init PROVE IInv
  OBVIOUS
<1>1. TypeOK
  BY LeaderAssumption DEF Init, TypeOK, Traits
<1>2. OwnGroup
  BY LeaderAssumption DEF Init, OwnGroup, Owned, TimedOut
<1>3. LeaderFirst
  BY LeaderAssumption DEF Init, LeaderFirst, Running
<1>4. Escalated
  BY LeaderAssumption DEF Init, Escalated
<1> QED
  BY <1>1, <1>2, <1>3, <1>4 DEF IInv

\* A process that runs may fork or end; the leader's end leaves a zombie.
LEMMA ProcessesKeepIInv ==
  ASSUME IInv, NEW p \in Procs, NEW q \in Procs, Exit(p) \/ Fork(p, q)
  PROVE  IInv'
<1> USE LeaderAssumption DEF IInv
<1>1. p \in Running /\ status[p] = "running" /\ status[Leader] # "none"
  BY DEF Exit, Fork, Running, LeaderFirst
<1>2. PICK r \in Procs : \E s \in {"running", "zombie", "gone"} :
        /\ status' = [status EXCEPT ![r] = s]
        /\ r = Leader => s = "zombie"
  BY <1>1 DEF Exit, Fork, Ended
<1>3. TypeOK'
  <2>1. status' \in [Procs -> {"none", "running", "zombie", "gone"}]
    BY <1>2 DEF TypeOK
  <2> QED BY <2>1 DEF TypeOK, Exit, Fork
<1>4. UNCHANGED <<pc, result, next_sig, traits, signal, reused, struck>>
  BY DEF Exit, Fork
<1>5. status'[Leader] \in {status[Leader], "zombie"}
  BY <1>2 DEF TypeOK
<1>6. OwnGroup'
  <2>1. status[Leader] = "gone" => status'[Leader] = "gone"
    BY <1>1 DEF Exit, Fork, Ended, TypeOK
  <2> QED BY <1>4, <1>5, <2>1 DEF OwnGroup, Owned, TimedOut
<1>7. LeaderFirst'
  BY <1>1, <1>4, <1>5 DEF LeaderFirst
<1>8. Escalated'
  <2>1. CASE Exit(p)
    <3>1. status'[Leader] = status[Leader] \/ status[Leader] = "running"
      BY <2>1, <1>1 DEF Exit, Ended, TypeOK
    <3> QED BY <3>1, <1>4, <1>5 DEF Escalated
  <2>2. CASE Fork(p, q)
    <3>1. q # Leader
      BY <2>2, <1>1 DEF Fork
    <3>2. status'[Leader] = status[Leader]
      BY <2>2, <3>1 DEF Fork, TypeOK
    <3> QED BY <3>2, <1>4 DEF Escalated
  <2> QED BY <2>1, <2>2
<1> QED
  BY <1>3, <1>6, <1>7, <1>8

\* The id of a reaped leader is free to be reused: the group is not execute's now.
LEMMA ReuseKeepsIInv == ASSUME IInv, PidReused PROVE IInv'
<1> USE LeaderAssumption DEF IInv
<1>1. TypeOK'
  BY DEF TypeOK, PidReused
<1>2. ~ Owned'
  BY DEF PidReused, OwnGroup, Owned, TimedOut
<1>3. OwnGroup' /\ LeaderFirst' /\ Escalated'
  BY <1>2 DEF PidReused, OwnGroup, TimedOut, LeaderFirst, Escalated, Running
<1> QED
  BY <1>1, <1>3

\* The steps of the call before the reaper.
LEMMA CallKeepsIInv ==
  ASSUME IInv, Block \/ Reject \/ NoStart \/ Start \/ OutputRead \/ OutputBad \/ CommandTimesOut
  PROVE  IInv'
<1> USE LeaderAssumption DEF IInv
<1>1. CASE Block \/ Reject \/ NoStart
  <2>1. TypeOK'
    BY <1>1 DEF TypeOK, Block, Reject, NoStart, Return, os
  <2>2. OwnGroup' /\ LeaderFirst' /\ Escalated'
    BY <1>1 DEF TypeOK, Block, Reject, NoStart, Return, os, OwnGroup, Owned, TimedOut, LeaderFirst,
                Escalated, Running
  <2> QED BY <2>1, <2>2
<1>2. CASE Start
  <2>1. TypeOK' /\ status'[Leader] = "running"
    BY <1>2 DEF TypeOK, Start
  <2>2. OwnGroup' /\ LeaderFirst' /\ Escalated'
    BY <1>2, <2>1 DEF Start, OwnGroup, Owned, TimedOut, LeaderFirst, Escalated
  <2> QED BY <2>1, <2>2
<1>3. CASE OutputRead \/ OutputBad
  <2>1. TypeOK' /\ status'[Leader] = "gone" /\ pc' \in {"returned", "getpgid"}
        /\ result' \in {"output", "error"}
    BY <1>3 DEF TypeOK, OutputRead, OutputBad, Return, Reaped
  <2>2. OwnGroup' /\ LeaderFirst' /\ Escalated'
    BY <1>3, <2>1 DEF OutputRead, OutputBad, OwnGroup, Owned, TimedOut, LeaderFirst, Escalated
  <2> QED BY <2>1, <2>2
<1>4. CASE CommandTimesOut
  <2>1. TypeOK'
    BY <1>4 DEF TypeOK, CommandTimesOut, os
  <2>2. OwnGroup' /\ LeaderFirst' /\ Escalated'
    BY <1>4 DEF CommandTimesOut, os, OwnGroup, Owned, TimedOut, LeaderFirst, Escalated, Running
  <2> QED BY <2>1, <2>2
<1> QED
  BY <1>1, <1>2, <1>3, <1>4

\* Sending a signal: to the whole group, the leader with it, or to whoever has its id.
LEMMA SignalKeepsIInv ==
  ASSUME IInv, LookUpGroup \/ SignalGroup \/ SignalStranger
  PROVE  IInv'
<1> USE LeaderAssumption DEF IInv
<1>1. CASE LookUpGroup
  <2>1. TypeOK'
    BY <1>1 DEF TypeOK, LookUpGroup, AfterReaper, os
  <2>2. pc' = "killpg" \/ (pc' \in {"drain", "returned"} /\ status[Leader] = "gone")
    BY <1>1 DEF LookUpGroup, AfterReaper
  <2>3. OwnGroup' /\ LeaderFirst' /\ Escalated'
    BY <1>1, <2>2 DEF LookUpGroup, AfterReaper, os, OwnGroup, Owned, TimedOut, LeaderFirst, Escalated, Running
  <2> QED BY <2>1, <2>3
<1>2. CASE SignalGroup
  <2>1. signal' \in [Procs -> {"none", "TERM", "KILL"}]
    BY <1>2 DEF TypeOK, SignalGroup, Stronger
  <2>2. TypeOK'
    BY <1>2, <2>1 DEF TypeOK, SignalGroup
  <2>3. next_sig = "KILL" /\ status[Leader] = "running" => signal'[Leader] = "KILL"
    BY <1>2 DEF SignalGroup, Stronger, InGroup, Running, Escalated
  <2>4. OwnGroup' /\ LeaderFirst' /\ Escalated'
    BY <1>2, <2>3 DEF SignalGroup, OwnGroup, Owned, TimedOut, LeaderFirst, Escalated, Running
  <2> QED BY <2>2, <2>4
<1>3. CASE SignalStranger
  <2>1. TypeOK'
    BY <1>3 DEF TypeOK, SignalStranger
  <2>2. ~ TimedOut
    BY <1>3 DEF SignalStranger, OwnGroup, Owned, TimedOut
  <2>3. reused => status[Leader] # "running"
    BY <1>3 DEF SignalStranger, OwnGroup
  <2>4. OwnGroup'
    BY <1>3, <2>2 DEF SignalStranger, OwnGroup, Owned, TimedOut
  <2>5. LeaderFirst' /\ Escalated'
    BY <1>3, <2>3 DEF SignalStranger, OwnGroup, LeaderFirst, Escalated, Running
  <2> QED BY <2>1, <2>4, <2>5
<1> QED
  BY <1>1, <1>2, <1>3

\* The waits: a leader that is gone is reaped, one that is not is sent SIGKILL before
\* the reaper gives up on it.
LEMMA WaitKeepsIInv ==
  ASSUME IInv, LeaderReaped \/ GraceOver \/ Drained \/ DrainBad \/ DrainTimesOut
  PROVE  IInv'
<1> USE LeaderAssumption DEF IInv
<1>1. CASE LeaderReaped \/ Drained \/ DrainBad
  <2>1. TypeOK' /\ status'[Leader] = "gone" /\ pc' \in {"drain", "returned"}
    BY <1>1 DEF TypeOK, LeaderReaped, Drained, DrainBad, Return, Reaped, AfterReaper
  <2>2. ~ struck \/ ~ TimedOut
    BY DEF OwnGroup
  <2>3. /\ UNCHANGED <<struck, reused>>
        /\ \/ result' = result /\ (pc' = "drain" => result = "timeout")
           \/ pc' = "returned" /\ TimedOut
        /\ result' = "raised" => pc' = "returned"
    BY <1>1 DEF LeaderReaped, Drained, DrainBad, Return, AfterReaper, OwnGroup, TimedOut
  <2>4. OwnGroup'
    BY <2>1, <2>2, <2>3 DEF OwnGroup, Owned, TimedOut
  <2>5. LeaderFirst' /\ Escalated'
    BY <1>1, <2>1 DEF LeaderReaped, Drained, DrainBad, LeaderFirst, Escalated
  <2> QED BY <2>1, <2>4, <2>5
<1>2. CASE GraceOver
  <2>1. TypeOK'
    BY <1>2 DEF TypeOK, GraceOver, AfterReaper, os
  <2>2. \/ pc' = "killpg" /\ next_sig' = "KILL"
        \/ pc' \in {"drain", "returned"} /\ next_sig = "KILL" /\ next_sig' = next_sig
    BY <1>2 DEF TypeOK, GraceOver, AfterReaper
  <2>3. OwnGroup' /\ LeaderFirst' /\ Escalated'
    BY <1>2, <2>2 DEF GraceOver, AfterReaper, os, OwnGroup, Owned, TimedOut, LeaderFirst, Escalated, Running
  <2> QED BY <2>1, <2>3
<1>3. CASE DrainTimesOut
  <2>1. TypeOK'
    BY <1>3 DEF TypeOK, DrainTimesOut, os
  <2>2. OwnGroup' /\ LeaderFirst' /\ Escalated'
    BY <1>3 DEF DrainTimesOut, os, OwnGroup, Owned, TimedOut, LeaderFirst, Escalated, Running
  <2> QED BY <2>1, <2>2
<1> QED
  BY <1>1, <1>2, <1>3

\* The invariant holds of every behaviour.
THEOREM Invariant == Spec => []IInv
<1>1. IInv /\ [Next]_vars => IInv'
  <2> SUFFICES ASSUME IInv, [Next]_vars PROVE IInv'
    OBVIOUS
  <2>1. CASE Execute
    BY <2>1, CallKeepsIInv, SignalKeepsIInv, WaitKeepsIInv DEF Execute
  <2>2. CASE PidReused
    BY <2>2, ReuseKeepsIInv
  <2>3. ASSUME NEW p \in Procs, Exit(p) \/ \E q \in Procs : Fork(p, q) PROVE IInv'
    BY <2>3, ProcessesKeepIInv
  <2>4. CASE UNCHANGED vars
    BY <2>4 DEF vars, IInv, TypeOK, OwnGroup, Owned, TimedOut, LeaderFirst, Escalated, Running
  <2> QED BY <2>1, <2>2, <2>3, <2>4 DEF Next
<1> QED
  BY InitIInv, <1>1, PTL DEF Spec

\* Every state of the reaper is one the code can be in.
THEOREM TypeCorrect == Spec => []TypeOK
<1>1. IInv => TypeOK
  BY DEF IInv
<1> QED
  BY Invariant, <1>1, PTL

\* A call that returns with its leader a zombie has sent it SIGKILL: it died after the
\* last wait, however many processes there are and in whatever order they end.
THEOREM ReturnsReaped == Spec => []LeaderIsReaped
<1>1. IInv => LeaderIsReaped
  BY DEF IInv, Escalated, LeaderIsReaped
<1> QED
  BY Invariant, <1>1, PTL

\* The group a timeout signals is the command's: its leader is not reaped before
\* the reaper has done with it.
THEOREM SparesStrangers == Spec => []TimeoutSparesStrangers
<1>1. IInv => TimeoutSparesStrangers
  BY DEF IInv, OwnGroup, TimeoutSparesStrangers
<1> QED
  BY Invariant, <1>1, PTL
===============================================================================
