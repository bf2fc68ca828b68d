---------------------------- MODULE HitlStreamProofs ----------------------------
(***************************************************************************)
(* Proofs about HitlStream for every set of tasks and sessions, every      *)
(* deadline and every bound.                                               *)
(***************************************************************************)
EXTENDS HitlStream, TLAPS

Pcs == {"new", "sync"} \cup Open \cup Over
Interrupts == {Nothing} \cup [by : Tasks, kind : {"ask", "odd"}]

\* What a task can do in one step.
Step(t) ==
  \/ OpenStream(t) \/ SendTask(t) \/ GraphMoves(t) \/ GraphStops(t) \/ Generator(t)
  \/ ClientGoes(t) \/ Respond(t)

(***************************************************************************)
(* Types.                                                                  *)
(***************************************************************************)

LEMMA InitType == Init => TypeOK
<1> SUFFICES ASSUME Init PROVE TypeOK
  OBVIOUS
<1>1. \A t \in Tasks : <<>> \in Seq({"event", "exc", "done"})
  OBVIOUS
<1> QED
  BY <1>1, SessionAssumption, TickAssumption, BoundsAssumption
  DEF Init, TypeOK, Threads, Open, Over, Asking

LEMMA RequestType ==
  ASSUME TypeOK, NEW t \in Tasks, NEW at \in {"streaming", "sync"}, Request(t, at)
  PROVE  TypeOK'
<1>1. PICK sid \in Sessions \cup {NoSession} :
        /\ session' = [session EXCEPT ![t] = sid]
        /\ thread' = [thread EXCEPT ![t] = ThreadOf(sid, t)]
        /\ standing' = [standing EXCEPT ![ThreadOf(sid, t)] = Nothing]
  BY DEF Request
<1>2. ThreadOf(sid, t) \in Threads
  BY <1>1 DEF ThreadOf, Threads
<1>3. session' \in [Tasks -> Sessions \cup {NoSession}] /\ thread' \in [Tasks -> Threads]
  BY <1>1, <1>2 DEF TypeOK
<1>4. standing' \in [Threads -> Interrupts]
  BY <1>1, <1>2 DEF TypeOK, Interrupts
<1>5. pc' \in [Tasks -> Pcs] /\ run' \in [Tasks -> {"idle", "going", "stopped", "orphan"}]
  BY DEF TypeOK, Request, Pcs, Open
<1>6. UNCHANGED <<queue, owed, behind, success, asked, pending, future, late, left>>
  BY DEF Request, client
<1> QED
  BY <1>3, <1>4, <1>5, <1>6 DEF TypeOK, Pcs, Interrupts

\* A queue is only ever appended to, cut at its head, or emptied.
LEMMA QueueType ==
  ASSUME NEW q \in Seq({"event", "exc", "done"})
  PROVE  /\ Append(q, "event") \in Seq({"event", "exc", "done"})
         /\ q \o <<"done">> \in Seq({"event", "exc", "done"})
         /\ q \o <<"exc", "done">> \in Seq({"event", "exc", "done"})
         /\ q # <<>> => Tail(q) \in Seq({"event", "exc", "done"})
         /\ <<>> \in Seq({"event", "exc", "done"})
  OBVIOUS

LEMMA Updated ==
  ASSUME NEW S, NEW V, NEW f \in [S -> V], NEW x \in S, NEW v \in V
  PROVE  [f EXCEPT ![x] = v] \in [S -> V]
OBVIOUS

LEMMA GraphType ==
  ASSUME TypeOK, NEW t \in Tasks, GraphMoves(t) \/ GraphStops(t)
  PROVE  TypeOK'
<1>0. queue[t] \in Seq({"event", "exc", "done"}) /\ thread[t] \in Threads
  BY DEF TypeOK
<1>1. CASE RunMovesLedger(t)
  BY <1>1 DEF TypeOK, RunMovesLedger, LedgerChanges, client
<1>2. CASE RunEmits(t)
  <2>1. queue' \in [Tasks -> Seq({"event", "exc", "done"})]
    BY <1>0, <1>2, QueueType DEF TypeOK, RunEmits
  <2>2. standing' \in [Threads -> Interrupts]
    BY <1>0, <1>2 DEF TypeOK, RunEmits, Interrupts
  <2> QED BY <1>2, <2>1, <2>2 DEF TypeOK, RunEmits, client, Interrupts
<1>3. CASE OrphanWrites(t)
  BY <1>3 DEF TypeOK, OrphanWrites, LedgerChanges, client
<1>4. ASSUME NEW tail \in {<<"done">>, <<"exc", "done">>}, NEW i \in Interrupts,
             Stops(t, tail, i)
      PROVE  TypeOK'
  <2>1. queue' \in [Tasks -> Seq({"event", "exc", "done"})]
    BY <1>0, <1>4, QueueType DEF TypeOK, Stops
  <2>2. standing' \in [Threads -> Interrupts]
    BY <1>0, <1>4 DEF TypeOK, Stops, Interrupts
  <2> QED BY <1>4, <2>1, <2>2 DEF TypeOK, Stops, client, Interrupts
<1>5. CASE GraphStops(t)
  BY <1>0, <1>4, <1>5
  DEF GraphStops, RunFinishes, RunAsks, RunInterruptsOddly, RunRaises, Interrupts, TypeOK
<1> QED
  BY <1>1, <1>2, <1>3, <1>5 DEF GraphMoves

LEMMA StreamType ==
  ASSUME TypeOK, NEW t \in Tasks,
         \/ TakeEvent(t) \/ MapEvent(t) \/ TakeException(t) \/ TakeDone(t)
         \/ ReadsNoInterrupt(t) \/ ReadsOddInterrupt(t) \/ SendReturns(t) \/ Close(t)
  PROVE  TypeOK'
<1>0. queue[t] \in Seq({"event", "exc", "done"})
  BY DEF TypeOK
<1>1. pc' \in [Tasks -> Pcs]
  <2>1. \E p \in Pcs : pc' = [pc EXCEPT ![t] = p]
    <3>1. CASE TakeEvent(t)
      BY <3>1 DEF TakeEvent, Pcs, Open
    <3>2. CASE MapEvent(t)
      BY <3>2 DEF MapEvent, Pcs, Open
    <3>3. CASE TakeException(t) \/ TakeDone(t)
      BY <3>3 DEF TakeException, TakeDone, Pcs, Open
    <3>4. CASE ReadsNoInterrupt(t) \/ ReadsOddInterrupt(t)
      BY <3>4 DEF ReadsNoInterrupt, ReadsOddInterrupt, Pcs, Open
    <3>5. CASE SendReturns(t) \/ Close(t)
      BY <3>5 DEF SendReturns, Close, Pcs, Over
    <3> QED BY <3>1, <3>2, <3>3, <3>4, <3>5
  <2> QED BY <2>1 DEF TypeOK, Pcs
<1>2. CASE TakeEvent(t) \/ TakeException(t) \/ TakeDone(t)
  <2>1. queue' \in [Tasks -> Seq({"event", "exc", "done"})]
    <3>1. CASE TakeEvent(t)
      <4>1. Tail(queue[t]) \in Seq({"event", "exc", "done"})
        BY <1>0, <3>1, QueueType DEF TakeEvent
      <4>2. /\ queue \in [Tasks -> Seq({"event", "exc", "done"})]
            /\ queue' = [queue EXCEPT ![t] = Tail(queue[t])]
        BY <3>1 DEF TypeOK, TakeEvent
      <4> QED BY <4>1, <4>2, Updated
    <3>2. CASE TakeException(t) \/ TakeDone(t)
      <4>1. /\ queue \in [Tasks -> Seq({"event", "exc", "done"})]
            /\ queue' = [queue EXCEPT ![t] = <<>>]
        BY <3>2 DEF TypeOK, TakeException, TakeDone
      <4>2. <<>> \in Seq({"event", "exc", "done"})
        BY <1>0, QueueType
      <4> QED BY <4>1, <4>2, Updated
    <3> QED BY <1>2, <3>1, <3>2
  <2>2. behind' \in [Tasks -> BOOLEAN] /\ success' \in [Tasks -> BOOLEAN]
    BY <1>2 DEF TypeOK, TakeEvent, TakeException, TakeDone, Probe
  <2>3. UNCHANGED <<session, thread, run, owed, standing, asked, pending, future, late, left>>
    BY <1>2 DEF TakeEvent, TakeException, TakeDone, client
  <2> QED BY <1>1, <2>1, <2>2, <2>3 DEF TypeOK, Pcs
<1>3. CASE MapEvent(t) \/ ReadsNoInterrupt(t) \/ ReadsOddInterrupt(t) \/ SendReturns(t)
  <2>1. behind' \in [Tasks -> BOOLEAN] /\ success' \in [Tasks -> BOOLEAN]
    BY <1>3 DEF TypeOK, MapEvent, Probe, ReadsNoInterrupt, ReadsOddInterrupt, SendReturns
  <2>2. UNCHANGED <<session, thread, client, graph>>
    BY <1>3 DEF MapEvent, ReadsNoInterrupt, ReadsOddInterrupt, SendReturns
  <2> QED BY <1>1, <2>1, <2>2 DEF TypeOK, Pcs, client, graph
<1>4. CASE Close(t)
  <2>1. /\ behind' \in [Tasks -> BOOLEAN] /\ left' \in [Tasks -> 0 .. Ticks]
        /\ late' \in [Tasks -> BOOLEAN] /\ asked' \in [Tasks -> 0 .. MaxQuestions]
        /\ success' \in [Tasks -> BOOLEAN]
        /\ future' \in [Tasks -> {"none", "pending", "done", "cancelled"}]
    BY <1>4, TickAssumption, BoundsAssumption DEF TypeOK, Close, Released
  <2>2. UNCHANGED <<session, thread, pending, graph>>
    BY <1>4 DEF Close
  <2> QED BY <1>1, <2>1, <2>2 DEF TypeOK, Pcs, graph
<1> QED
  BY <1>2, <1>3, <1>4

LEMMA AnswerType == ASSUME TypeOK, NEW t \in Tasks, ResumeWithAnswer(t) PROVE TypeOK'
<1>1. pc' \in [Tasks -> Pcs] /\ run' \in [Tasks -> {"idle", "going", "stopped", "orphan"}]
  BY DEF TypeOK, ResumeWithAnswer, Pcs, Open
<1>2. /\ late' \in [Tasks -> BOOLEAN] /\ left' \in [Tasks -> 0 .. Ticks]
      /\ future' \in [Tasks -> {"none", "pending", "done", "cancelled"}]
  BY TickAssumption DEF TypeOK, ResumeWithAnswer
<1>3. /\ pending' \subseteq Tasks
      /\ UNCHANGED <<session, thread, queue, owed, standing, behind, asked, success>>
  BY DEF TypeOK, ResumeWithAnswer
<1> QED BY <1>1, <1>2, <1>3 DEF TypeOK, Pcs

LEMMA AskType == ASSUME TypeOK, NEW t \in Tasks, AskUser(t) PROVE TypeOK'
<1>1. asked' \in [Tasks -> 0 .. MaxQuestions]
  <2>1. asked[t] + 1 \in 0 .. MaxQuestions
    BY BoundsAssumption DEF TypeOK, AskUser
  <2> QED BY <2>1 DEF TypeOK, AskUser
<1>2. pc' \in [Tasks -> Pcs] /\ pending' \subseteq Tasks
  BY DEF TypeOK, AskUser, Pcs, Open, Asking
<1>3. late' \in [Tasks -> BOOLEAN] /\ future' \in [Tasks -> {"none", "pending", "done", "cancelled"}]
  BY DEF TypeOK, AskUser
<1>4. UNCHANGED <<session, thread, behind, left, success, run, queue, owed, standing>>
  BY DEF AskUser, graph
<1> QED BY <1>1, <1>2, <1>3, <1>4 DEF TypeOK, Pcs

\* The wait: its clock runs, the rest of the question stays.
LEMMA WaitType ==
  ASSUME TypeOK, NEW t \in Tasks,
         \/ QuestionSent(t) \/ KeepAliveBlocks(t) \/ KeepAliveSent(t)
         \/ IntervalEnds(t) /\ ~ ResumeWithAnswer(t)
  PROVE  TypeOK'
<1>1. \/ pc' = pc
      \/ \E p \in {"waiting", "tick"} : pc' = [pc EXCEPT ![t] = p]
  BY DEF QuestionSent, KeepAliveBlocks, KeepAliveSent, IntervalEnds
<1>2. pc' \in [Tasks -> Pcs]
  BY <1>1 DEF TypeOK, Pcs, Open, Asking
<1>3. left[t] \in 0 .. Ticks
  BY DEF TypeOK
<1>4. left' \in [Tasks -> 0 .. Ticks]
  <2>1. CASE QuestionSent(t)
    BY <2>1, TickAssumption DEF TypeOK, QuestionSent
  <2>2. CASE KeepAliveSent(t)
    BY <2>2 DEF TypeOK, KeepAliveSent, client
  <2>3. CASE left[t] > 0 /\ left' = [left EXCEPT ![t] = left[t] - 1]
    BY <1>3, <2>3, TickAssumption DEF TypeOK
  <2> QED BY <2>1, <2>2, <2>3 DEF KeepAliveBlocks, IntervalEnds
<1>5. UNCHANGED <<session, thread, behind, asked, pending, future, late, success, run,
                  queue, owed, standing>>
  <2>1. CASE QuestionSent(t)
    BY <2>1 DEF QuestionSent, graph
  <2>2. CASE KeepAliveSent(t)
    BY <2>2 DEF KeepAliveSent, client, graph
  <2>3. CASE KeepAliveBlocks(t)
    BY <2>3 DEF KeepAliveBlocks, graph
  <2>4. CASE IntervalEnds(t) /\ ~ ResumeWithAnswer(t)
    BY <2>4 DEF IntervalEnds, graph
  <2> QED BY <2>1, <2>2, <2>3, <2>4
<1> QED BY <1>2, <1>4, <1>5 DEF TypeOK, Pcs

LEMMA DeadlineType == ASSUME TypeOK, NEW t \in Tasks, DeadlinePasses(t) PROVE TypeOK'
<1>1. pc' \in [Tasks -> Pcs] /\ success' \in [Tasks -> BOOLEAN]
  BY DEF TypeOK, DeadlinePasses, Pcs, Open
<1>2. pending' \subseteq Tasks /\ future' \in [Tasks -> {"none", "pending", "done", "cancelled"}]
  BY DEF TypeOK, DeadlinePasses
<1>3. UNCHANGED <<session, thread, behind, asked, late, left, run, queue, owed, standing>>
  BY DEF DeadlinePasses, graph
<1> QED BY <1>1, <1>2, <1>3 DEF TypeOK, Pcs

LEMMA QuestionType ==
  ASSUME TypeOK, NEW t \in Tasks,
         \/ AskUser(t) \/ QuestionSent(t) \/ AnswerArrives(t) \/ IntervalEnds(t)
         \/ KeepAliveBlocks(t) \/ KeepAliveSent(t) \/ DeadlinePasses(t)
  PROVE  TypeOK'
<1>1. AnswerArrives(t) => ResumeWithAnswer(t)
  BY DEF AnswerArrives
<1> QED BY <1>1, AnswerType, AskType, WaitType, DeadlineType

LEMMA ClientType ==
  ASSUME TypeOK, NEW t \in Tasks, ClientGoes(t) \/ Respond(t)
  PROVE  TypeOK'
<1>1. CASE ClientGoes(t)
  <2>0. \E p \in {"goneAsking", "gone"} : pc' = [pc EXCEPT ![t] = p]
    BY <1>1 DEF ClientGoes
  <2>1. pc' \in [Tasks -> Pcs] /\ pending' \subseteq Tasks
    BY <1>1, <2>0 DEF TypeOK, ClientGoes, Pcs, Over
  <2>2. /\ run' \in [Tasks -> {"idle", "going", "stopped", "orphan"}]
        /\ owed' \in [Tasks -> BOOLEAN]
        /\ queue' \in [Tasks -> Seq({"event", "exc", "done"})]
    BY <1>1, QueueType DEF TypeOK, ClientGoes
  <2>3. /\ behind' \in [Tasks -> BOOLEAN] /\ left' \in [Tasks -> 0 .. Ticks]
        /\ late' \in [Tasks -> BOOLEAN] /\ asked' \in [Tasks -> 0 .. MaxQuestions]
        /\ success' \in [Tasks -> BOOLEAN]
        /\ future' \in [Tasks -> {"none", "pending", "done", "cancelled"}]
    BY <1>1, TickAssumption, BoundsAssumption DEF TypeOK, ClientGoes, Released
  <2>4. UNCHANGED <<session, thread, standing>>
    BY <1>1 DEF ClientGoes
  <2> QED BY <2>1, <2>2, <2>3, <2>4 DEF TypeOK, Pcs
<1>2. CASE Respond(t)
  <2>1. late' \in [Tasks -> BOOLEAN]
    BY <1>2 DEF TypeOK, Respond
  <2>2. pending' \subseteq Tasks
    BY <1>2 DEF TypeOK, Respond
  <2>3. future' \in [Tasks -> {"none", "pending", "done", "cancelled"}]
    BY <1>2 DEF TypeOK, Respond
  <2>4. UNCHANGED <<pc, session, thread, behind, asked, left, success, run, queue,
                    owed, standing>>
    BY <1>2 DEF Respond, graph
  <2> QED BY <2>1, <2>2, <2>3, <2>4 DEF TypeOK
<1> QED
  BY <1>1, <1>2

LEMMA StepType == ASSUME TypeOK, NEW t \in Tasks, Step(t) PROVE TypeOK'
  BY RequestType, GraphType, StreamType, QuestionType, ClientType
  DEF Step, Generator, OpenStream, SendTask

(***************************************************************************)
(* Entries and answers.                                                    *)
(***************************************************************************)

\* A future that is done while a keep-alive frame is sent was answered meanwhile.
TickLate == \A t \in Tasks : pc[t] = "tick" /\ future[t] = "done" => late[t]

LEMMA StepEntries ==
  ASSUME TypeOK, EntriesAreAsked, NEW t \in Tasks, Step(t)
  PROVE  EntriesAreAsked'
<1> SUFFICES ASSUME NEW u \in pending'
             PROVE  future'[u] = "pending" /\ pc'[u] \in Asking \cup {"goneAsking"}
  BY DEF EntriesAreAsked
<1> USE DEF EntriesAreAsked, TypeOK, Asking
<1>1. CASE OpenStream(t) \/ SendTask(t)
  BY <1>1 DEF OpenStream, SendTask, Request, client
<1>2. CASE GraphMoves(t)
  BY <1>2 DEF GraphMoves, RunMovesLedger, RunEmits, OrphanWrites, client
<1>3. CASE GraphStops(t)
  BY <1>3 DEF GraphStops, RunFinishes, RunAsks, RunInterruptsOddly, RunRaises, Stops, client
<1>4. CASE TakeEvent(t) \/ MapEvent(t) \/ TakeException(t) \/ TakeDone(t)
  BY <1>4 DEF TakeEvent, MapEvent, TakeException, TakeDone, client
<1>5. CASE ReadsNoInterrupt(t) \/ ReadsOddInterrupt(t) \/ SendReturns(t)
  BY <1>5 DEF ReadsNoInterrupt, ReadsOddInterrupt, SendReturns, client
<1>6. CASE AskUser(t)
  BY <1>6 DEF AskUser
<1>7. CASE QuestionSent(t)
  BY <1>7 DEF QuestionSent
<1>8. CASE ResumeWithAnswer(t)
  BY <1>8 DEF ResumeWithAnswer
<1>9. CASE IntervalEnds(t) /\ ~ ResumeWithAnswer(t)
  BY <1>9 DEF IntervalEnds
<1>10. CASE KeepAliveBlocks(t) \/ KeepAliveSent(t)
  BY <1>10 DEF KeepAliveBlocks, KeepAliveSent, client
<1>11. CASE DeadlinePasses(t)
  BY <1>11 DEF DeadlinePasses
<1>12. CASE Close(t)
  BY <1>12 DEF Close, Released
<1>13. CASE ClientGoes(t)
  BY <1>13 DEF ClientGoes, Released
<1>14. CASE Respond(t)
  BY <1>14 DEF Respond
<1> QED
  BY <1>1, <1>2, <1>3, <1>4, <1>5, <1>6, <1>7, <1>8, <1>9, <1>10, <1>11, <1>12, <1>13, <1>14
  DEF Step, Generator, AnswerArrives

LEMMA StepTickLate ==
  ASSUME TypeOK, EntriesAreAsked, TickLate, NEW t \in Tasks, Step(t)
  PROVE  TickLate'
<1> SUFFICES ASSUME NEW u \in Tasks, pc'[u] = "tick", future'[u] = "done"
             PROVE  late'[u]
  BY DEF TickLate
<1> USE DEF TickLate, TypeOK
<1>1. CASE OpenStream(t) \/ SendTask(t)
  BY <1>1 DEF OpenStream, SendTask, Request, client
<1>2. CASE GraphMoves(t)
  BY <1>2 DEF GraphMoves, RunMovesLedger, RunEmits, OrphanWrites, client
<1>3. CASE GraphStops(t)
  BY <1>3 DEF GraphStops, RunFinishes, RunAsks, RunInterruptsOddly, RunRaises, Stops, client
<1>4. CASE TakeEvent(t) \/ MapEvent(t) \/ TakeException(t) \/ TakeDone(t)
  BY <1>4 DEF TakeEvent, MapEvent, TakeException, TakeDone, client
<1>5. CASE ReadsNoInterrupt(t) \/ ReadsOddInterrupt(t) \/ SendReturns(t)
  BY <1>5 DEF ReadsNoInterrupt, ReadsOddInterrupt, SendReturns, client
<1>6. CASE AskUser(t) \/ QuestionSent(t)
  BY <1>6 DEF AskUser, QuestionSent
<1>8. CASE ResumeWithAnswer(t)
  BY <1>8 DEF ResumeWithAnswer
<1>9. CASE IntervalEnds(t) /\ ~ ResumeWithAnswer(t)
  BY <1>9 DEF IntervalEnds
<1>10. CASE KeepAliveBlocks(t) \/ KeepAliveSent(t)
  BY <1>10 DEF KeepAliveBlocks, KeepAliveSent, client
<1>11. CASE DeadlinePasses(t)
  BY <1>11 DEF DeadlinePasses
<1>12. CASE Close(t)
  BY <1>12 DEF Close, Released
<1>13. CASE ClientGoes(t)
  BY <1>13 DEF ClientGoes, Released
<1>14. CASE Respond(t)
  <2>1. CASE u = t
    BY <1>14, <2>1 DEF Respond
  <2>2. CASE u # t
    <3>1. pc'[u] = pc[u] /\ future'[u] = future[u] /\ late'[u] = late[u]
      BY <1>14, <2>2 DEF Respond
    <3> QED BY <3>1
  <2> QED BY <2>1, <2>2
<1> QED
  BY <1>1, <1>2, <1>3, <1>4, <1>5, <1>6, <1>8, <1>9, <1>10, <1>11, <1>12, <1>13, <1>14
  DEF Step, Generator, AnswerArrives

\* Only the deadline takes a stream from its question to its end, and it passes
\* while a keep-alive frame is sent.
LEMMA StepUsesAnswer ==
  ASSUME TypeOK, TickLate, NEW t \in Tasks, Step(t), NEW u \in Tasks,
         pc[u] \in Asking, pc'[u] = "closing"
  PROVE  ~ (future[u] = "done" /\ ~ late[u])
<1> SUFFICES pc[u] = "tick"
  BY DEF TickLate
<1> USE DEF TypeOK, Asking
<1>1. CASE OpenStream(t) \/ SendTask(t)
  BY <1>1 DEF OpenStream, SendTask, Request
<1>2. CASE GraphMoves(t) \/ GraphStops(t)
  BY <1>2 DEF GraphMoves, RunMovesLedger, RunEmits, OrphanWrites, GraphStops, RunFinishes,
              RunAsks, RunInterruptsOddly, RunRaises, Stops
<1>3. CASE TakeEvent(t) \/ MapEvent(t) \/ TakeException(t) \/ TakeDone(t)
  BY <1>3 DEF TakeEvent, MapEvent, TakeException, TakeDone
<1>4. CASE ReadsNoInterrupt(t) \/ ReadsOddInterrupt(t) \/ SendReturns(t)
  BY <1>4 DEF ReadsNoInterrupt, ReadsOddInterrupt, SendReturns
<1>5. CASE AskUser(t) \/ QuestionSent(t) \/ ResumeWithAnswer(t)
  BY <1>5 DEF AskUser, QuestionSent, ResumeWithAnswer
<1>6. CASE IntervalEnds(t) /\ ~ ResumeWithAnswer(t)
  BY <1>6 DEF IntervalEnds
<1>7. CASE KeepAliveBlocks(t) \/ KeepAliveSent(t)
  BY <1>7 DEF KeepAliveBlocks, KeepAliveSent
<1>8. CASE DeadlinePasses(t)
  BY <1>8 DEF DeadlinePasses
<1>9. CASE Close(t) \/ ClientGoes(t) \/ Respond(t)
  BY <1>9 DEF Close, ClientGoes, Respond
<1> QED
  BY <1>1, <1>2, <1>3, <1>4, <1>5, <1>6, <1>7, <1>8, <1>9 DEF Step, Generator, AnswerArrives

(***************************************************************************)
(* Whose question a thread stands at.                                      *)
(***************************************************************************)

\* A thread is a session's or a task's own, and an interrupt is left on its run's.
Threaded == \A t \in Tasks : thread[t] = ThreadOf(session[t], t)

Owned ==
  \A h \in Threads : standing[h] # Nothing
     => thread[standing[h].by] = h /\ pc[standing[h].by] # "new"

\* No run goes before its request or under a question, and only a run that is over
\* has its end in the queue.
Idle   == \A t \in Tasks : pc[t] = "new" => run[t] # "going" /\ queue[t] = <<>>
Quiet  == \A t \in Tasks : pc[t] \in {"reading"} \cup Asking => run[t] # "going" /\ queue[t] = <<>>
Events == \A t \in Tasks : run[t] = "going" =>
             \A i \in 1 .. Len(queue[t]) : queue[t][i] = "event"

Ownership == Threaded /\ Owned /\ Idle /\ Quiet /\ Events

\* What no step does: touch another task, or move a task that has its request.
LEMMA StepFrame ==
  ASSUME TypeOK, NEW t \in Tasks, Step(t), NEW u \in Tasks
  PROVE  /\ u # t => /\ pc'[u] = pc[u] /\ run'[u] = run[u] /\ queue'[u] = queue[u]
                     /\ session'[u] = session[u] /\ thread'[u] = thread[u]
         /\ pc[u] # "new" => /\ pc'[u] # "new"
                             /\ session'[u] = session[u] /\ thread'[u] = thread[u]
<1> USE DEF TypeOK
<1>1. CASE OpenStream(t) \/ SendTask(t)
  BY <1>1 DEF OpenStream, SendTask, Request
<1>2. CASE GraphMoves(t)
  BY <1>2 DEF GraphMoves, RunMovesLedger, RunEmits, OrphanWrites
<1>3. CASE GraphStops(t)
  BY <1>3 DEF GraphStops, RunFinishes, RunAsks, RunInterruptsOddly, RunRaises, Stops
<1>4. CASE TakeEvent(t) \/ MapEvent(t) \/ TakeException(t) \/ TakeDone(t)
  BY <1>4 DEF TakeEvent, MapEvent, TakeException, TakeDone, graph
<1>5. CASE ReadsNoInterrupt(t) \/ ReadsOddInterrupt(t) \/ SendReturns(t)
  BY <1>5 DEF ReadsNoInterrupt, ReadsOddInterrupt, SendReturns, graph
<1>6. CASE AskUser(t) \/ QuestionSent(t)
  BY <1>6 DEF AskUser, QuestionSent, graph
<1>7. CASE ResumeWithAnswer(t)
  BY <1>7 DEF ResumeWithAnswer
<1>8. CASE IntervalEnds(t) /\ ~ ResumeWithAnswer(t)
  BY <1>8 DEF IntervalEnds, graph
<1>9. CASE KeepAliveBlocks(t) \/ KeepAliveSent(t) \/ DeadlinePasses(t)
  BY <1>9 DEF KeepAliveBlocks, KeepAliveSent, DeadlinePasses, graph
<1>10. CASE Close(t)
  BY <1>10 DEF Close, graph
<1>11. CASE ClientGoes(t)
  <2>1. pc'[t] \in {"goneAsking", "gone"}
    BY <1>11 DEF ClientGoes
  <2> QED BY <1>11, <2>1 DEF ClientGoes
<1>12. CASE Respond(t)
  BY <1>12 DEF Respond, graph
<1> QED
  BY <1>1, <1>2, <1>3, <1>4, <1>5, <1>6, <1>7, <1>8, <1>9, <1>10, <1>11, <1>12
  DEF Step, Generator, AnswerArrives

LEMMA StepThreaded ==
  ASSUME TypeOK, Threaded, NEW t \in Tasks, Step(t), NEW u \in Tasks
  PROVE  thread'[u] = ThreadOf(session'[u], u)
<1>1. CASE pc[u] # "new" \/ u # t
  BY <1>1, StepFrame DEF Threaded
<1>2. CASE OpenStream(t) \/ SendTask(t)
  <2>1. PICK sid \in Sessions \cup {NoSession} :
          /\ session' = [session EXCEPT ![t] = sid]
          /\ thread' = [thread EXCEPT ![t] = ThreadOf(sid, t)]
    BY <1>2 DEF OpenStream, SendTask, Request
  <2>2. thread'[t] = ThreadOf(session'[t], t)
    BY <2>1 DEF TypeOK
  <2>3. u # t => thread'[u] = thread[u] /\ session'[u] = session[u]
    BY <2>1 DEF TypeOK
  <2> QED BY <2>2, <2>3 DEF Threaded
<1>3. CASE u = t /\ pc[t] = "new" /\ ~ (OpenStream(t) \/ SendTask(t))
  <2>1. session' = session /\ thread' = thread
    <3>1. CASE GraphMoves(t)
      BY <3>1 DEF GraphMoves, RunMovesLedger, RunEmits, OrphanWrites
    <3>2. CASE GraphStops(t)
      BY <3>2 DEF GraphStops, RunFinishes, RunAsks, RunInterruptsOddly, RunRaises, Stops
    <3>3. CASE Respond(t)
      BY <3>3 DEF Respond
    <3> QED
      BY <1>3, <3>1, <3>2, <3>3
      DEF Step, Generator, ClientGoes, Open, Asking, TakeEvent, MapEvent, TakeException,
          TakeDone, ReadsNoInterrupt, ReadsOddInterrupt, SendReturns, AskUser, QuestionSent,
          AnswerArrives, IntervalEnds, KeepAliveBlocks, KeepAliveSent, DeadlinePasses, Close
  <2> QED BY <2>1 DEF Threaded
<1> QED
  BY <1>1, <1>2, <1>3

\* Threads that meet are a session's.
LEMMA SharedThread ==
  ASSUME NEW t \in Tasks, NEW u \in Tasks, t # u,
         NEW s \in Sessions \cup {NoSession}, NEW r \in Sessions \cup {NoSession},
         ThreadOf(s, t) = ThreadOf(r, u)
  PROVE  r # NoSession /\ s = r
BY SessionAssumption DEF ThreadOf

\* The interrupt of a thread is changed by a request or a run that is on it.
LEMMA StandingMoves ==
  ASSUME TypeOK, Idle, NEW t \in Tasks, Step(t), NEW h \in Threads, standing'[h] # standing[h]
  PROVE  /\ thread'[t] = h /\ pc'[t] # "new"
         /\ pc[t] = "new" \/ run[t] = "going"
         /\ standing'[h] # Nothing => standing'[h].by = t
<1> USE DEF TypeOK
<1>1. CASE OpenStream(t) \/ SendTask(t)
  <2>1. ThreadOf(session'[t], t) = thread'[t] /\ standing' = [standing EXCEPT ![thread'[t]] = Nothing]
    BY <1>1 DEF OpenStream, SendTask, Request
  <2> QED BY <1>1, <2>1 DEF OpenStream, SendTask, Request
<1>2. CASE RunEmits(t)
  BY <1>2 DEF RunEmits, Idle
<1>3. CASE GraphStops(t)
  <2>1. ASSUME NEW q, NEW i, Stops(t, q, i), i = standing[thread[t]] \/ i = Nothing \/ i.by = t
        PROVE  /\ thread'[t] = h /\ pc'[t] # "new" /\ run[t] = "going"
               /\ standing'[h] # Nothing => standing'[h].by = t
    BY <2>1 DEF Stops, Idle
  <2> QED
    BY <1>3, <2>1 DEF GraphStops, RunFinishes, RunAsks, RunInterruptsOddly, RunRaises
<1>4. CASE ~ (OpenStream(t) \/ SendTask(t) \/ RunEmits(t) \/ GraphStops(t))
  <2>1. standing' = standing
    <3>1. CASE RunMovesLedger(t) \/ OrphanWrites(t)
      BY <3>1 DEF RunMovesLedger, OrphanWrites
    <3>2. CASE TakeEvent(t) \/ MapEvent(t) \/ TakeException(t) \/ TakeDone(t)
      BY <3>2 DEF TakeEvent, MapEvent, TakeException, TakeDone, graph
    <3>3. CASE ReadsNoInterrupt(t) \/ ReadsOddInterrupt(t) \/ SendReturns(t)
      BY <3>3 DEF ReadsNoInterrupt, ReadsOddInterrupt, SendReturns, graph
    <3>4. CASE AskUser(t) \/ QuestionSent(t) \/ Close(t)
      BY <3>4 DEF AskUser, QuestionSent, Close, graph
    <3>5. CASE AnswerArrives(t) \/ IntervalEnds(t)
      BY <3>5 DEF AnswerArrives, IntervalEnds, ResumeWithAnswer, graph
    <3>6. CASE KeepAliveBlocks(t) \/ KeepAliveSent(t) \/ DeadlinePasses(t)
      BY <3>6 DEF KeepAliveBlocks, KeepAliveSent, DeadlinePasses, graph
    <3>7. CASE ClientGoes(t) \/ Respond(t)
      BY <3>7 DEF ClientGoes, Respond, graph
    <3> QED
      BY <1>4, <3>1, <3>2, <3>3, <3>4, <3>5, <3>6, <3>7 DEF Step, Generator, GraphMoves
  <2> QED BY <2>1
<1> QED
  BY <1>1, <1>2, <1>3, <1>4

LEMMA StepOwned ==
  ASSUME TypeOK, TypeOK', Ownership, NEW t \in Tasks, Step(t)
  PROVE  Owned'
<1> SUFFICES ASSUME NEW h \in Threads, standing'[h] # Nothing
             PROVE  thread'[standing'[h].by] = h /\ pc'[standing'[h].by] # "new"
  BY DEF Owned, Threads
<1>1. CASE standing'[h] # standing[h]
  BY <1>1, StandingMoves DEF Ownership
<1>2. CASE standing'[h] = standing[h]
  <2>1. standing[h].by \in Tasks /\ thread[standing[h].by] = h /\ pc[standing[h].by] # "new"
    BY <1>2 DEF Ownership, Owned, TypeOK
  <2> QED BY <1>2, <2>1, StepFrame
<1> QED
  BY <1>1, <1>2

\* Before its request a task has no steps of its own.
LEMMA StepIdle ==
  ASSUME TypeOK, Ownership, NEW t \in Tasks, Step(t), NEW u \in Tasks, pc'[u] = "new"
  PROVE  run'[u] # "going" /\ queue'[u] = <<>>
<1>1. pc[u] = "new" /\ run[u] # "going" /\ queue[u] = <<>>
  BY StepFrame DEF Ownership, Idle
<1>2. CASE u # t
  BY <1>1, <1>2, StepFrame
<1>3. CASE u = t
  <2>1. ~ (OpenStream(t) \/ SendTask(t))
    BY <1>3 DEF OpenStream, SendTask, Request, TypeOK
  <2>2. CASE OrphanWrites(t)
    BY <1>1, <1>3, <2>2 DEF OrphanWrites, TypeOK
  <2>3. CASE Respond(t)
    BY <1>1, <1>3, <2>3 DEF Respond, graph
  <2> QED
    BY <1>1, <1>3, <2>1, <2>2, <2>3
    DEF Step, GraphMoves, RunMovesLedger, RunEmits, GraphStops, RunFinishes, RunAsks,
        RunInterruptsOddly, RunRaises, Stops, Generator, ClientGoes, Open, Asking, TakeEvent,
        MapEvent, TakeException, TakeDone, ReadsNoInterrupt, ReadsOddInterrupt, SendReturns,
        AskUser, QuestionSent, AnswerArrives, IntervalEnds, KeepAliveBlocks, KeepAliveSent,
        DeadlinePasses, Close
<1> QED
  BY <1>2, <1>3

\* A run that has put its end into the queue goes no further.
LEMMA StepEvents ==
  ASSUME TypeOK, Ownership, NEW t \in Tasks, Step(t)
  PROVE  Events'
<1> SUFFICES ASSUME NEW u \in Tasks, run'[u] = "going"
             PROVE  \A i \in 1 .. Len(queue'[u]) : queue'[u][i] = "event"
  BY DEF Events
<1>0. queue[u] \in Seq({"event", "exc", "done"})
  BY DEF TypeOK
<1>1. CASE run[u] = "going" /\ queue'[u] = queue[u]
  BY <1>1 DEF Ownership, Events
<1>2. CASE queue'[u] = <<>>
  BY <1>2
<1>3. CASE u # t
  BY <1>1, <1>3, StepFrame
<1>4. CASE OpenStream(t) \/ SendTask(t)
  BY <1>2, <1>3, <1>4 DEF OpenStream, SendTask, Request, Ownership, Idle
<1>5. CASE RunMovesLedger(t)
  BY <1>1, <1>3, <1>5 DEF RunMovesLedger
<1>6. CASE RunEmits(t)
  <2>1. CASE u = t /\ queue'[t] = Append(queue[t], "event")
    <3>1. \A i \in 1 .. Len(queue[u]) : queue[u][i] = "event"
      BY <1>6, <2>1 DEF RunEmits, Ownership, Events
    <3> QED BY <1>0, <2>1, <3>1
  <2>2. CASE u = t /\ queue'[t] = queue[t]
    BY <1>1, <1>6, <2>2 DEF RunEmits
  <2> QED
    BY <1>3, <1>6, <2>1, <2>2 DEF RunEmits, TypeOK
<1>7. CASE OrphanWrites(t) \/ GraphStops(t)
  BY <1>3, <1>7
  DEF OrphanWrites, GraphStops, RunFinishes, RunAsks, RunInterruptsOddly, RunRaises, Stops, TypeOK
<1>8. CASE TakeEvent(t)
  <2>1. CASE u = t
    <3>1. queue[t] # <<>> /\ queue'[t] = Tail(queue[t]) /\ run[t] = "going"
      BY <1>8, <2>1 DEF TakeEvent, TypeOK
    <3>2. \A i \in 1 .. Len(queue[t]) : queue[t][i] = "event"
      BY <3>1 DEF Ownership, Events
    <3> QED BY <1>0, <2>1, <3>1, <3>2
  <2> QED BY <1>3, <2>1
<1>9. CASE TakeException(t) \/ TakeDone(t)
  BY <1>2, <1>3, <1>9 DEF TakeException, TakeDone, TypeOK
<1>10. CASE MapEvent(t) \/ ReadsNoInterrupt(t) \/ ReadsOddInterrupt(t) \/ SendReturns(t)
  BY <1>1, <1>10 DEF MapEvent, ReadsNoInterrupt, ReadsOddInterrupt, SendReturns, graph
<1>11. CASE AskUser(t) \/ QuestionSent(t) \/ Close(t)
  BY <1>1, <1>11 DEF AskUser, QuestionSent, Close, graph
<1>12. CASE ResumeWithAnswer(t) /\ pc[t] = "waiting"
  BY <1>2, <1>3, <1>12 DEF ResumeWithAnswer, Ownership, Quiet, Asking
<1>13. CASE IntervalEnds(t) /\ ~ ResumeWithAnswer(t)
  BY <1>1, <1>13 DEF IntervalEnds, graph
<1>14. CASE KeepAliveBlocks(t) \/ KeepAliveSent(t) \/ DeadlinePasses(t)
  BY <1>1, <1>14 DEF KeepAliveBlocks, KeepAliveSent, DeadlinePasses, graph
<1>15. CASE ClientGoes(t)
  BY <1>2, <1>3, <1>15 DEF ClientGoes, TypeOK
<1>16. CASE Respond(t)
  BY <1>1, <1>16 DEF Respond, graph
<1> QED
  BY <1>4, <1>5, <1>6, <1>7, <1>8, <1>9, <1>10, <1>11, <1>12, <1>13, <1>14, <1>15, <1>16
  DEF Step, Generator, GraphMoves, AnswerArrives, IntervalEnds

LEMMA StepQuiet ==
  ASSUME TypeOK, Ownership, NEW t \in Tasks, Step(t), NEW u \in Tasks,
         pc'[u] \in {"reading"} \cup Asking
  PROVE  run'[u] # "going" /\ queue'[u] = <<>>
<1> USE DEF TypeOK, Ownership, Quiet, Asking
<1>1. CASE u # t
  BY <1>1, StepFrame
<1>2. CASE u = t /\ (OpenStream(t) \/ SendTask(t))
  BY <1>2 DEF OpenStream, SendTask, Request
<1>3. CASE u = t /\ GraphMoves(t)
  BY <1>3 DEF GraphMoves, RunMovesLedger, RunEmits, OrphanWrites
<1>4. CASE u = t /\ GraphStops(t)
  BY <1>4 DEF GraphStops, RunFinishes, RunAsks, RunInterruptsOddly, RunRaises, Stops
<1>5. CASE u = t /\ (TakeEvent(t) \/ MapEvent(t) \/ TakeException(t))
  BY <1>5 DEF TakeEvent, MapEvent, TakeException
<1>6. CASE u = t /\ TakeDone(t)
  <2>1. queue[t] \in Seq({"event", "exc", "done"})
    OBVIOUS
  <2>2. 1 \in 1 .. Len(queue[t]) /\ queue[t][1] = "done"
    BY <1>6, <2>1 DEF TakeDone
  <2>3. run[t] # "going"
    BY <2>2 DEF Events
  <2> QED BY <1>6, <2>3 DEF TakeDone
<1>7. CASE u = t /\ (ReadsNoInterrupt(t) \/ ReadsOddInterrupt(t) \/ SendReturns(t) \/ Close(t))
  BY <1>7 DEF ReadsNoInterrupt, ReadsOddInterrupt, SendReturns, Close
<1>8. CASE u = t /\ (AskUser(t) \/ QuestionSent(t))
  BY <1>8 DEF AskUser, QuestionSent, graph
<1>9. CASE u = t /\ ResumeWithAnswer(t)
  BY <1>9 DEF ResumeWithAnswer
<1>10. CASE u = t /\ IntervalEnds(t) /\ ~ ResumeWithAnswer(t)
  BY <1>10 DEF IntervalEnds, graph
<1>11. CASE u = t /\ (KeepAliveBlocks(t) \/ KeepAliveSent(t) \/ DeadlinePasses(t))
  BY <1>11 DEF KeepAliveBlocks, KeepAliveSent, DeadlinePasses, graph
<1>12. CASE u = t /\ ClientGoes(t)
  BY <1>12 DEF ClientGoes
<1>13. CASE u = t /\ Respond(t)
  BY <1>13 DEF Respond, graph
<1> QED
  BY <1>1, <1>2, <1>3, <1>4, <1>5, <1>6, <1>7, <1>8, <1>9, <1>10, <1>11, <1>12, <1>13
  DEF Step, Generator, AnswerArrives

LEMMA StepOwnership ==
  ASSUME TypeOK, TypeOK', Ownership, NEW t \in Tasks, Step(t)
  PROVE  Ownership'
<1>1. Threaded'
  BY StepThreaded DEF Ownership, Threaded
<1>2. Idle'
  BY StepIdle DEF Idle
<1>3. Quiet'
  BY StepQuiet DEF Quiet, Asking
<1> QED
  BY <1>1, <1>2, <1>3, StepOwned, StepEvents DEF Ownership

\* A question is put only when the thread stands at one, and while it is open
\* whoever moves the thread on is another task of the client's session.
LEMMA StepOwnQuestion ==
  ASSUME TypeOK, TypeOK', Ownership, AsksOwnQuestion, NEW t \in Tasks, Step(t)
  PROVE  AsksOwnQuestion'
<1> SUFFICES ASSUME NEW u \in Tasks, pc'[u] \in Asking, ~ SharesSession(u)'
             PROVE  standing'[thread'[u]] = [by |-> u, kind |-> "ask"]
  BY DEF AsksOwnQuestion, Asking
<1>1. Threaded'
  BY StepOwnership DEF Ownership
<1>2. ASSUME NEW b \in Tasks, b # u, pc'[b] # "new"
      PROVE  thread'[b] # thread'[u]
  <2> SUFFICES ASSUME thread'[b] = thread'[u] PROVE FALSE
    OBVIOUS
  <2>1. session'[u] # NoSession /\ session'[b] = session'[u]
    <3>1. session'[u] \in Sessions \cup {NoSession} /\ session'[b] \in Sessions \cup {NoSession}
      BY DEF TypeOK
    <3>2. ThreadOf(session'[b], b) = ThreadOf(session'[u], u)
      BY <1>1 DEF Threaded
    <3> QED BY <1>2, <3>1, <3>2, SharedThread
  <2> QED
    BY <1>2, <2>1 DEF SharesSession
<1>3. CASE pc[u] \in Asking
  <2>1. pc[u] # "new" /\ run[u] # "going" /\ thread'[u] = thread[u] /\ session'[u] = session[u]
    BY <1>3, StepFrame DEF Asking, Ownership, Quiet
  <2>2. ~ SharesSession(u)
    <3> SUFFICES ASSUME SharesSession(u) PROVE FALSE
      OBVIOUS
    <3>1. PICK b \in Tasks \ {u} : pc[b] # "new" /\ session[b] = session[u] /\ session[u] # NoSession
      BY DEF SharesSession
    <3>2. pc'[b] # "new" /\ session'[b] = session[b]
      BY <3>1, StepFrame
    <3> QED BY <2>1, <3>1, <3>2 DEF SharesSession
  <2>3. standing[thread[u]] = [by |-> u, kind |-> "ask"]
    BY <1>3, <2>2 DEF AsksOwnQuestion
  <2>4. thread[u] \in Threads
    BY DEF TypeOK
  <2>5. standing'[thread[u]] = standing[thread[u]]
    <3> SUFFICES ASSUME standing'[thread[u]] # standing[thread[u]] PROVE FALSE
      OBVIOUS
    <3>1. thread'[t] = thread[u] /\ pc'[t] # "new" /\ (pc[t] = "new" \/ run[t] = "going")
      BY <2>4, StandingMoves DEF Ownership
    <3>2. t # u
      BY <2>1, <3>1
    <3> QED BY <1>2, <2>1, <3>1, <3>2
  <2> QED BY <2>1, <2>3, <2>5
<1>4. CASE pc[u] \notin Asking
  <2>1. u = t /\ AskUser(t)
    <3>1. u = t
      BY <1>4, StepFrame
    <3>2. CASE OpenStream(t) \/ SendTask(t)
      BY <1>4, <3>1, <3>2 DEF OpenStream, SendTask, Request, TypeOK, Asking
    <3>3. CASE GraphMoves(t) \/ GraphStops(t)
      BY <1>4, <3>1, <3>3
      DEF GraphMoves, RunMovesLedger, RunEmits, OrphanWrites, GraphStops, RunFinishes, RunAsks,
          RunInterruptsOddly, RunRaises, Stops
    <3>4. CASE \E p \in {"mapping", "streaming", "reading", "closing", "returned", "ended",
                         "gone", "goneAsking"} : pc' = [pc EXCEPT ![t] = p]
      BY <1>4, <3>1, <3>4 DEF TypeOK, Asking
    <3>5. CASE TakeEvent(t) \/ MapEvent(t) \/ TakeException(t) \/ TakeDone(t)
      BY <3>4, <3>5 DEF TakeEvent, MapEvent, TakeException, TakeDone
    <3>6. CASE ReadsNoInterrupt(t) \/ ReadsOddInterrupt(t) \/ SendReturns(t) \/ Close(t)
      BY <3>4, <3>6 DEF ReadsNoInterrupt, ReadsOddInterrupt, SendReturns, Close
    <3>7. CASE ClientGoes(t)
      <4>1. \E p \in {"gone", "goneAsking"} : pc' = [pc EXCEPT ![t] = p]
        BY <3>7 DEF ClientGoes
      <4> QED BY <3>4, <4>1
    <3>8. CASE Respond(t)
      BY <1>4, <3>1, <3>8 DEF Respond
    <3> QED
      BY <1>4, <3>1, <3>2, <3>3, <3>5, <3>6, <3>7, <3>8
      DEF Step, Generator, QuestionSent, AnswerArrives, IntervalEnds, KeepAliveBlocks,
          KeepAliveSent, DeadlinePasses, Asking
  <2>2. /\ standing[thread[u]] # Nothing /\ standing[thread[u]].kind = "ask"
        /\ standing' = standing /\ thread' = thread
    BY <2>1 DEF AskUser, graph
  <2>3. PICK b \in Tasks : standing[thread[u]] = [by |-> b, kind |-> "ask"]
    BY <2>2 DEF TypeOK
  <2>4. thread[u] \in Threads
    BY DEF TypeOK
  <2>5. thread[b] = thread[u] /\ pc[b] # "new"
    BY <2>2, <2>3, <2>4 DEF Ownership, Owned
  <2>6. pc'[b] # "new"
    BY <2>5, StepFrame
  <2>7. b = u
    BY <1>2, <2>2, <2>5, <2>6
  <2> QED BY <2>2, <2>3, <2>7
<1> QED
  BY <1>3, <1>4

\* The inductive invariant.
IInv == TypeOK /\ EntriesAreAsked /\ TickLate /\ Ownership /\ AsksOwnQuestion

LEMMA Inductive == ASSUME IInv, [Next]_vars PROVE IInv'
<1>1. CASE UNCHANGED vars
  <2>1. TypeOK' /\ EntriesAreAsked' /\ TickLate'
    BY <1>1 DEF vars, IInv, TypeOK, EntriesAreAsked, TickLate
  <2>2. Ownership'
    BY <1>1 DEF vars, IInv, Ownership, Threaded, Owned, Idle, Quiet, Events
  <2>3. AsksOwnQuestion'
    BY <1>1 DEF vars, IInv, AsksOwnQuestion, SharesSession
  <2> QED BY <2>1, <2>2, <2>3 DEF IInv
<1>2. CASE Next
  <2>1. PICK t \in Tasks : Step(t)
    BY <1>2 DEF Next, Step
  <2> QED
    BY <2>1, StepType, StepEntries, StepTickLate, StepOwnership, StepOwnQuestion DEF IInv
<1> QED
  BY <1>1, <1>2

LEMMA Invariant == Spec => []IInv
<1>1. Init => IInv
  <2> SUFFICES ASSUME Init PROVE IInv
    OBVIOUS
  <2>1. TypeOK /\ EntriesAreAsked /\ TickLate
    BY InitType DEF Init, EntriesAreAsked, TickLate
  <2>2. Ownership
    BY DEF Init, Ownership, Threaded, ThreadOf, Owned, Idle, Quiet, Events, Asking, Threads
  <2>3. AsksOwnQuestion
    BY DEF Init, AsksOwnQuestion, Asking
  <2> QED BY <2>1, <2>2, <2>3 DEF IInv
<1> QED
  BY <1>1, Inductive, PTL DEF Spec

\* Whatever the tasks, their clients and their graphs do, every variable of the
\* server has its type.
THEOREM TypeCorrect == Spec => []TypeOK
<1>1. IInv => TypeOK
  BY DEF IInv
<1> QED
  BY <1>1, Invariant, PTL

\* No end of a stream, by answer, deadline, error or disconnection after its question
\* was sent, leaves an entry in _pending_interrupts, for any number of tasks.
THEOREM NoStrayEntry == Spec => []EntriesAreAsked
<1>1. IInv => EntriesAreAsked
  BY DEF IInv
<1> QED
  BY <1>1, Invariant, PTL

\* For any number of tasks and sessions, a stream that puts a question or waits for
\* its answer stands at its own run's interrupt, unless its client shares the session.
THEOREM QuestionsAreOwn == Spec => []AsksOwnQuestion
<1>1. IInv => AsksOwnQuestion
  BY DEF IInv
<1> QED
  BY <1>1, Invariant, PTL

\* An answer that comes while the stream waits for it is used, for any deadline: the
\* look at the clock cannot overtake it.
THEOREM AnswerIsUsed == Spec => AwaitedAnswerIsUsed
<1>1. ASSUME IInv, [Next]_vars
      PROVE  [\A t \in Tasks : pc[t] \in Asking /\ pc'[t] = "closing"
                                => ~ (future[t] = "done" /\ ~ late[t])]_vars
  <2>1. CASE UNCHANGED vars
    BY <2>1
  <2>2. CASE Next
    <3>1. PICK t \in Tasks : Step(t)
      BY <2>2 DEF Next, Step
    <3> QED
      BY <1>1, <3>1, StepUsesAnswer DEF IInv
  <2> QED
    BY <1>1, <2>1, <2>2
<1> QED
  BY <1>1, Invariant, PTL DEF Spec, AwaitedAnswerIsUsed

(***************************************************************************)
(* What a stream that is alone has shown of the ledger.                    *)
(***************************************************************************)

\* A run's end stands last in its queue.
EndsLast ==
  \A t \in Tasks : \A i \in 1 .. Len(queue[t]) : queue[t][i] = "done" => i = Len(queue[t])

\* No run goes on while its stream closes, and only a client that left makes an orphan.
Stopped ==
  \A t \in Tasks : /\ pc[t] = "closing" => run[t] # "going"
                   /\ run[t] = "orphan" => pc[t] \in {"gone", "goneAsking"}

\* The stream has yet to look at the ledger, or will report a failure.
Owing(t) ==
  \/ /\ pc[t] \in {"streaming", "mapping"}
     /\ \/ run[t] = "going" /\ owed[t]
        \/ \E i \in 1 .. Len(queue[t]) : queue[t][i] # "done"
  \/ pc[t] = "closing" /\ ~ success[t]

Lone(t) == \A u \in Tasks \ {t} : pc[u] = "new"

Snapshots == \A t \in Tasks : behind[t] /\ Lone(t) => Owing(t)

ShownInv == IInv /\ EndsLast /\ Stopped /\ Snapshots

\* A run stops when its queue holds events only; the end goes in behind them.
LEMMA StepEndsLast ==
  ASSUME TypeOK, Ownership, EndsLast, NEW t \in Tasks, Step(t)
  PROVE  EndsLast'
<1> SUFFICES ASSUME NEW u \in Tasks, NEW i \in 1 .. Len(queue'[u]), queue'[u][i] = "done"
             PROVE  i = Len(queue'[u])
  BY DEF EndsLast
<1>0. queue[u] \in Seq({"event", "exc", "done"})
  BY DEF TypeOK
<1>1. CASE queue'[u] = queue[u]
  BY <1>1 DEF EndsLast
<1>2. CASE queue'[u] = <<>>
  BY <1>2
<1>3. CASE u # t
  BY <1>1, <1>3, StepFrame
<1>4. CASE OpenStream(t) \/ SendTask(t)
  BY <1>1, <1>4 DEF OpenStream, SendTask, Request
<1>5. CASE RunMovesLedger(t) \/ OrphanWrites(t)
  BY <1>1, <1>5 DEF RunMovesLedger, OrphanWrites
<1>6. ASSUME u = t, run[t] = "going"
      PROVE  /\ \A j \in 1 .. Len(queue[u]) : queue[u][j] = "event"
             /\ queue'[u] = Append(queue[u], "event") => i = Len(queue'[u])
             /\ queue'[u] = queue[u] \o <<"done">> => i = Len(queue'[u])
             /\ queue'[u] = queue[u] \o <<"exc", "done">> => i = Len(queue'[u])
  <2>1. \A j \in 1 .. Len(queue[u]) : queue[u][j] = "event"
    BY <1>6 DEF Ownership, Events
  <2>2. ASSUME queue'[u] = Append(queue[u], "event") PROVE i = Len(queue'[u])
    BY <1>0, <2>1, <2>2
  <2>3. ASSUME queue'[u] = queue[u] \o <<"done">> PROVE i = Len(queue'[u])
    BY <1>0, <2>1, <2>3
  <2>4. ASSUME queue'[u] = queue[u] \o <<"exc", "done">> PROVE i = Len(queue'[u])
    BY <1>0, <2>1, <2>4
  <2> QED BY <2>1, <2>2, <2>3, <2>4
<1>7. CASE RunEmits(t)
  BY <1>1, <1>3, <1>6, <1>7 DEF RunEmits, TypeOK
<1>8. CASE GraphStops(t)
  <2>2. CASE RunRaises(t)
    BY <1>1, <1>3, <1>6, <2>2 DEF RunRaises, Stops, TypeOK
  <2>3. CASE RunFinishes(t) \/ RunAsks(t) \/ RunInterruptsOddly(t)
    <3>1. /\ run[t] = "going"
          /\ queue' = [queue EXCEPT ![t] = IF pc[t] = "sync" THEN @ ELSE @ \o <<"done">>]
      BY <2>3 DEF RunFinishes, RunAsks, RunInterruptsOddly, Stops
    <3> QED BY <1>1, <1>3, <1>6, <3>1 DEF TypeOK
  <2> QED BY <1>8, <2>2, <2>3 DEF GraphStops
<1>9. CASE TakeEvent(t)
  <2>1. CASE u = t
    <3>1. queue[u] # <<>> /\ queue'[u] = Tail(queue[u])
      BY <1>9, <2>1 DEF TakeEvent, TypeOK
    <3>2. /\ i + 1 \in 1 .. Len(queue[u]) /\ queue[u][i + 1] = "done"
          /\ Len(queue'[u]) = Len(queue[u]) - 1
      BY <1>0, <3>1
    <3>3. i + 1 = Len(queue[u])
      BY <3>2 DEF EndsLast
    <3> QED BY <1>0, <3>2, <3>3
  <2> QED BY <1>3, <2>1
<1>10. CASE TakeException(t) \/ TakeDone(t) \/ ClientGoes(t)
  BY <1>2, <1>3, <1>10 DEF TakeException, TakeDone, ClientGoes, TypeOK
<1>11. CASE MapEvent(t) \/ ReadsNoInterrupt(t) \/ ReadsOddInterrupt(t) \/ SendReturns(t)
  BY <1>1, <1>11 DEF MapEvent, ReadsNoInterrupt, ReadsOddInterrupt, SendReturns, graph
<1>12. CASE AskUser(t) \/ QuestionSent(t) \/ Close(t) \/ Respond(t)
  BY <1>1, <1>12 DEF AskUser, QuestionSent, Close, Respond, graph
<1>13. CASE ResumeWithAnswer(t)
  BY <1>1, <1>13 DEF ResumeWithAnswer
<1>14. CASE IntervalEnds(t) /\ ~ ResumeWithAnswer(t)
  BY <1>1, <1>14 DEF IntervalEnds, graph
<1>15. CASE KeepAliveBlocks(t) \/ KeepAliveSent(t) \/ DeadlinePasses(t)
  BY <1>1, <1>15 DEF KeepAliveBlocks, KeepAliveSent, DeadlinePasses, graph
<1> QED
  BY <1>4, <1>5, <1>7, <1>8, <1>9, <1>10, <1>11, <1>12, <1>13, <1>14, <1>15
  DEF Step, Generator, GraphMoves, AnswerArrives

\* A stream closes on the word of a run that is over.
LEMMA StepStopped ==
  ASSUME TypeOK, Ownership, Stopped, NEW t \in Tasks, Step(t)
  PROVE  Stopped'
<1> SUFFICES ASSUME NEW u \in Tasks
             PROVE  /\ pc'[u] = "closing" => run'[u] # "going"
                    /\ run'[u] = "orphan" => pc'[u] \in {"gone", "goneAsking"}
  BY DEF Stopped
<1> USE DEF TypeOK, Stopped
<1>1. CASE u # t
  BY <1>1, StepFrame
<1>2. CASE u = t /\ (OpenStream(t) \/ SendTask(t))
  BY <1>2 DEF OpenStream, SendTask, Request
<1>3. CASE u = t /\ GraphMoves(t)
  BY <1>3 DEF GraphMoves, RunMovesLedger, RunEmits, OrphanWrites
<1>4. CASE u = t /\ GraphStops(t)
  BY <1>4 DEF GraphStops, RunFinishes, RunAsks, RunInterruptsOddly, RunRaises, Stops
<1>5. CASE u = t /\ (TakeEvent(t) \/ MapEvent(t) \/ TakeDone(t))
  BY <1>5 DEF TakeEvent, MapEvent, TakeDone, graph
<1>6. CASE u = t /\ TakeException(t)
  <2>1. queue[t] \in Seq({"event", "exc", "done"})
    OBVIOUS
  <2>2. 1 \in 1 .. Len(queue[t]) /\ queue[t][1] = "exc"
    BY <1>6, <2>1 DEF TakeException
  <2>3. run[t] # "going"
    BY <2>2 DEF Ownership, Events
  <2> QED BY <1>6, <2>3 DEF TakeException
<1>7. CASE u = t /\ (ReadsNoInterrupt(t) \/ ReadsOddInterrupt(t))
  BY <1>7 DEF ReadsNoInterrupt, ReadsOddInterrupt, graph, Ownership, Quiet
<1>8. CASE u = t /\ (SendReturns(t) \/ AskUser(t) \/ QuestionSent(t) \/ Close(t))
  BY <1>8 DEF SendReturns, AskUser, QuestionSent, Close, graph
<1>9. CASE u = t /\ ResumeWithAnswer(t)
  BY <1>9 DEF ResumeWithAnswer
<1>10. CASE u = t /\ IntervalEnds(t) /\ ~ ResumeWithAnswer(t)
  BY <1>10 DEF IntervalEnds, graph
<1>11. CASE u = t /\ (KeepAliveBlocks(t) \/ KeepAliveSent(t) \/ DeadlinePasses(t))
  BY <1>11 DEF KeepAliveBlocks, KeepAliveSent, DeadlinePasses, graph, Ownership, Quiet, Asking
<1>12. CASE u = t /\ ClientGoes(t)
  BY <1>12 DEF ClientGoes
<1>13. CASE u = t /\ Respond(t)
  BY <1>13 DEF Respond, graph
<1> QED
  BY <1>1, <1>2, <1>3, <1>4, <1>5, <1>6, <1>7, <1>8, <1>9, <1>10, <1>11, <1>12, <1>13
  DEF Step, Generator, AnswerArrives

\* Tasks that have no request yet change no ledger.
LEMMA OthersLookOn ==
  ASSUME TypeOK, Ownership, Stopped, NEW t \in Tasks, Step(t),
         NEW u \in Tasks, u # t, Lone(u)
  PROVE  behind'[u] = behind[u]
<1>1. pc[t] = "new" /\ run[t] # "going" /\ run[t] # "orphan"
  BY DEF Lone, Ownership, Idle, Stopped
<1>2. CASE OpenStream(t) \/ SendTask(t)
  BY <1>2 DEF OpenStream, SendTask, Request
<1>3. CASE Respond(t)
  BY <1>3 DEF Respond
<1> QED
  BY <1>1, <1>2, <1>3
  DEF Step, GraphMoves, RunMovesLedger, RunEmits, OrphanWrites, GraphStops, RunFinishes,
      RunAsks, RunInterruptsOddly, RunRaises, Stops, Generator, ClientGoes, Open, Asking,
      TakeEvent, MapEvent, TakeException, TakeDone, ReadsNoInterrupt, ReadsOddInterrupt,
      SendReturns, AskUser, QuestionSent, AnswerArrives, IntervalEnds, KeepAliveBlocks,
      KeepAliveSent, DeadlinePasses, Close

\* The one step of a run that puts a lone stream behind owes an event, and the event
\* makes the stream look.
LEMMA StepOwing ==
  ASSUME TypeOK, TypeOK', Ownership, EndsLast, Stopped, NEW t \in Tasks, Step(t),
         behind[t] => Owing(t), behind'[t]
  PROVE  Owing(t)'
<1> DEFINE waits(q) == \E i \in 1 .. Len(q) : q[i] # "done"
<1>0. queue[t] \in Seq({"event", "exc", "done"}) /\ queue'[t] \in Seq({"event", "exc", "done"})
  BY DEF TypeOK
<1>1. CASE OpenStream(t) \/ SendTask(t)
  BY <1>1 DEF OpenStream, SendTask, Request, Owing
<1>2. CASE RunMovesLedger(t)
  <2>1. pc[t] \in {"streaming", "mapping"} \/ behind[t]
    BY <1>2 DEF RunMovesLedger, LedgerChanges, Open, TypeOK, Ownership, Quiet, Stopped
  <2>2. pc[t] \in {"streaming", "mapping"}
    BY <1>2, <2>1 DEF RunMovesLedger, Owing, Stopped
  <2> QED BY <1>2, <2>2 DEF RunMovesLedger, Owing, TypeOK
<1>3. CASE RunEmits(t)
  <2>1. behind[t] /\ run[t] = "going" /\ pc' = pc /\ success' = success
    BY <1>3 DEF RunEmits
  <2>2. pc[t] \in {"streaming", "mapping"}
    BY <2>1 DEF Owing, Stopped
  <2>3. queue'[t] = Append(queue[t], "event")
    BY <1>3, <2>2 DEF RunEmits, TypeOK
  <2>4. waits(queue'[t])
    <3>1. Len(queue'[t]) \in 1 .. Len(queue'[t]) /\ queue'[t][Len(queue'[t])] = "event"
      BY <1>0, <2>3
    <3> QED BY <3>1
  <2> QED BY <2>1, <2>2, <2>4 DEF Owing
<1>4. CASE OrphanWrites(t)
  BY <1>4 DEF OrphanWrites, LedgerChanges, Stopped, Open, Asking, Owing, TypeOK
<1>5. CASE RunFinishes(t) \/ RunAsks(t) \/ RunInterruptsOddly(t)
  <2>1. /\ behind[t] /\ run[t] = "going" /\ pc' = pc /\ ~ owed[t]
        /\ queue' = [queue EXCEPT ![t] = IF pc[t] = "sync" THEN @ ELSE @ \o <<"done">>]
    BY <1>5 DEF RunFinishes, RunAsks, RunInterruptsOddly, Stops
  <2>2. pc[t] \in {"streaming", "mapping"} /\ waits(queue[t])
    BY <2>1 DEF Owing, Stopped
  <2>3. queue'[t] = queue[t] \o <<"done">>
    BY <2>1, <2>2 DEF TypeOK
  <2>4. PICK i \in 1 .. Len(queue[t]) : queue[t][i] # "done"
    BY <2>2
  <2>5. i \in 1 .. Len(queue'[t]) /\ queue'[t][i] # "done"
    BY <1>0, <2>3, <2>4
  <2> QED BY <2>1, <2>2, <2>5 DEF Owing
<1>6. CASE RunRaises(t)
  <2>1. /\ behind[t] /\ run[t] = "going" /\ pc' = pc
        /\ queue' = [queue EXCEPT ![t] = IF pc[t] = "sync" THEN @ ELSE @ \o <<"exc", "done">>]
    BY <1>6 DEF RunRaises, Stops
  <2>2. pc[t] \in {"streaming", "mapping"}
    BY <2>1 DEF Owing, Stopped
  <2>3. queue'[t] = queue[t] \o <<"exc", "done">>
    BY <2>1, <2>2 DEF TypeOK
  <2>4. Len(queue[t]) + 1 \in 1 .. Len(queue'[t]) /\ queue'[t][Len(queue[t]) + 1] = "exc"
    BY <1>0, <2>3
  <2> QED BY <2>1, <2>2, <2>4 DEF Owing
<1>7. CASE TakeEvent(t)
  BY <1>7 DEF TakeEvent, Probe, TypeOK
<1>8. CASE MapEvent(t)
  <2>1. behind[t] /\ pc[t] = "mapping" /\ pc'[t] = "streaming" /\ UNCHANGED graph
    BY <1>8 DEF MapEvent, Probe, TypeOK
  <2> QED BY <2>1 DEF Owing, graph
<1>9. CASE TakeException(t)
  BY <1>9 DEF TakeException, Owing, TypeOK
<1>10. CASE TakeDone(t)
  <2>1. behind[t] /\ pc[t] = "streaming" /\ 1 \in 1 .. Len(queue[t]) /\ queue[t][1] = "done"
    BY <1>0, <1>10 DEF TakeDone
  <2>2. run[t] # "going"
    BY <2>1 DEF Ownership, Events
  <2>3. Len(queue[t]) = 1
    BY <2>1 DEF EndsLast
  <2> QED BY <2>1, <2>2, <2>3 DEF Owing
<1>11. CASE ReadsNoInterrupt(t) \/ ReadsOddInterrupt(t) \/ SendReturns(t) \/ AskUser(t)
  BY <1>11 DEF ReadsNoInterrupt, ReadsOddInterrupt, SendReturns, AskUser, Owing
<1>12. CASE QuestionSent(t) \/ AnswerArrives(t) \/ KeepAliveSent(t) \/ KeepAliveBlocks(t)
  BY <1>12 DEF QuestionSent, AnswerArrives, ResumeWithAnswer, KeepAliveSent, KeepAliveBlocks, Owing
<1>13. CASE IntervalEnds(t) \/ DeadlinePasses(t)
  BY <1>13 DEF IntervalEnds, ResumeWithAnswer, DeadlinePasses, Owing
<1>14. CASE Close(t) \/ ClientGoes(t)
  BY <1>14 DEF Close, ClientGoes, Released, TypeOK
<1>15. CASE Respond(t)
  BY <1>15 DEF Respond, graph, Owing
<1> QED
  BY <1>1, <1>2, <1>3, <1>4, <1>5, <1>6, <1>7, <1>8, <1>9, <1>10, <1>11, <1>12, <1>13, <1>14, <1>15
  DEF Step, Generator, GraphMoves, GraphStops

\* Whichever task moves, a lone stream that is behind will look.
LEMMA StepSnapshots ==
  ASSUME TypeOK, TypeOK', ShownInv, NEW t \in Tasks, Step(t)
  PROVE  Snapshots'
<1> SUFFICES ASSUME NEW u \in Tasks, behind'[u], Lone(u)'
             PROVE  Owing(u)'
  BY DEF Snapshots
<1>1. Lone(u)
  BY StepFrame DEF Lone
<1>2. behind[u] => Owing(u)
  BY <1>1 DEF ShownInv, Snapshots
<1>3. CASE u = t
  BY <1>2, <1>3, StepOwing DEF ShownInv, IInv
<1>4. CASE u # t
  <2>1. behind[u] /\ pc'[u] = pc[u] /\ run'[u] = run[u] /\ queue'[u] = queue[u]
    BY <1>1, <1>4, OthersLookOn, StepFrame DEF ShownInv, IInv
  <2>2. pc[t] = "new" /\ run[t] # "going"
    BY <1>1, <1>4 DEF Lone, ShownInv, IInv, Ownership, Idle
  <2>3. owed'[u] = owed[u] /\ success'[u] = success[u]
    BY <1>4, <2>2
    DEF Step, OpenStream, SendTask, Request, GraphMoves, RunMovesLedger, RunEmits, OrphanWrites,
        GraphStops, RunFinishes, RunAsks, RunInterruptsOddly, RunRaises, Stops, Generator,
        ClientGoes, Open, Asking, TakeEvent, MapEvent, TakeException, TakeDone,
        ReadsNoInterrupt, ReadsOddInterrupt, SendReturns, AskUser, QuestionSent, AnswerArrives,
        IntervalEnds, KeepAliveBlocks, KeepAliveSent, DeadlinePasses, Close, Respond, graph
  <2> QED BY <1>2, <2>1, <2>3 DEF Owing
<1> QED
  BY <1>3, <1>4

LEMMA ShownInvariant == Spec => []ShownInv
<1>1. Init => EndsLast /\ Stopped /\ Snapshots
  BY DEF Init, EndsLast, Stopped, Snapshots
<1>2. ASSUME ShownInv, IInv', [Next]_vars
      PROVE  EndsLast' /\ Stopped' /\ Snapshots'
  <2>1. CASE UNCHANGED vars
    BY <1>2, <2>1 DEF vars, ShownInv, EndsLast, Stopped, Snapshots, Owing, Lone
  <2>2. CASE Next
    <3>1. PICK t \in Tasks : Step(t)
      BY <2>2 DEF Next, Step
    <3> QED
      BY <1>2, <3>1, StepEndsLast, StepStopped, StepSnapshots DEF ShownInv, IInv
  <2> QED BY <1>2, <2>1, <2>2
<1>3. ShownInv /\ IInv' /\ [Next]_vars => ShownInv'
  BY <1>2 DEF ShownInv
<1>4. Init /\ IInv => ShownInv
  BY <1>1 DEF ShownInv
<1> QED
  BY <1>3, <1>4, Invariant, PTL DEF Spec

\* A stream that is the server's only task, for any run, number of questions and
\* disconnections, does not report success over a ledger it has not shown.
THEOREM EndShown == Spec => EndShowsLedger
<1>1. ASSUME ShownInv, [Next]_vars
      PROVE  [\A t \in Tasks :
                pc[t] = "closing" /\ pc'[t] = "ended" /\ success[t]
                  /\ (\A u \in Tasks \ {t} : pc[u] = "new") => ~ behind[t]]_vars
  BY <1>1 DEF ShownInv, Snapshots, Owing, Lone
<1> QED
  BY <1>1, ShownInvariant, PTL DEF Spec, EndShowsLedger
===============================================================================
