------------------------------ MODULE HitlStream ------------------------------
(***************************************************************************)
(* The web server's tasks: an SSE stream per request                       *)
(* (stream_agent_events), the synchronous tasks/send, the graph runs they  *)
(* start on the threads of one checkpointer, and the questions a run may   *)
(* put to the user, answered by POST /a2a/respond.                         *)
(*                                                                         *)
(* Every await and every yield of the generator ends a step: the graph,    *)
(* the other requests and the client's going away come in between.  A      *)
(* frame is kept only as far as something depends on it: the ledger        *)
(* snapshot last sent and the question asked.  The graph (AgentLoop) is external: its run moves   *)
(* the ledger, emits events and stops in any way it can stop.              *)
(***************************************************************************)
EXTENDS Naturals, Sequences

CONSTANTS Tasks,         \* task ids, a fresh one per request
          Sessions,      \* session ids clients send along
          NoSession,     \* the request names no session
          Nothing,       \* no interrupt standing
          Ticks,         \* keep-alive intervals in _HITL_TIMEOUT_S (10)
          MaxQuestions,  \* bound: questions one task asks
          MaxQueue       \* bound: events waiting in a stream's queue

ASSUME SessionAssumption == NoSession \notin Sessions /\ Tasks \cap Sessions = {}
ASSUME TickAssumption    == Ticks \in Nat \ {0}
ASSUME BoundsAssumption  == MaxQuestions \in Nat /\ MaxQueue \in Nat \ {0}

VARIABLES
  pc,        \* per task: where its generator (or its send call) stands
  session,   \* per task: the session its request names
  thread,    \* per task: the checkpointer thread its graph runs on
  run,       \* per task: its graph run
  queue,     \* per stream: event_queue, filled by its drain task
  owed,      \* per task: its run has moved the ledger since its last event
  standing,  \* per thread: the interrupt in the checkpoint, and whose run left it
  behind,    \* per stream: the TodoStore has changed since last_todos_snapshot
  asked,     \* per stream: how many questions it has put
  pending,   \* the task ids in _pending_interrupts
  future,    \* per stream: the future of its latest question
  late,      \* per stream: its answer was taken while a keep-alive frame was sent
  left,      \* per stream: keep-alive intervals before the deadline
  success    \* per stream: what run.end will report

client == <<asked, pending, future, late, left>>
graph  == <<run, queue, owed, standing>>
vars   == <<pc, session, thread, run, queue, owed, standing, behind,
            asked, pending, future, late, left, success>>

Threads  == Tasks \cup Sessions
Asking   == {"asking", "waiting", "tick"}
Open     == {"streaming", "mapping", "reading", "closing"} \cup Asking
Over     == {"ended", "gone", "goneAsking", "returned"}

\* Fault: tasks without a session are put on one thread.
ThreadOfSession(sid, t) == IF sid = NoSession THEN CHOOSE h \in Threads : TRUE ELSE sid

\* _thread_id_for: the session's thread, or one of the task's own.
ThreadOf(sid, t) == IF sid = NoSession THEN t ELSE sid

TypeOK ==
  /\ pc \in [Tasks -> {"new", "sync"} \cup Open \cup Over]
  /\ session \in [Tasks -> Sessions \cup {NoSession}]
  /\ thread \in [Tasks -> Threads]
  /\ run \in [Tasks -> {"idle", "going", "stopped", "orphan"}]
  /\ queue \in [Tasks -> Seq({"event", "exc", "done"})]
  /\ owed \in [Tasks -> BOOLEAN]
  /\ standing \in [Threads -> {Nothing} \cup [by : Tasks, kind : {"ask", "odd"}]]
  /\ behind \in [Tasks -> BOOLEAN]
  /\ asked \in [Tasks -> 0 .. MaxQuestions]
  /\ pending \subseteq Tasks
  /\ future \in [Tasks -> {"none", "pending", "done", "cancelled"}]
  /\ late \in [Tasks -> BOOLEAN]
  /\ left \in [Tasks -> 0 .. Ticks]
  /\ success \in [Tasks -> BOOLEAN]

Init ==
  /\ pc = [t \in Tasks |-> "new"]
  /\ session = [t \in Tasks |-> NoSession]
  /\ thread = [t \in Tasks |-> t]
  /\ run = [t \in Tasks |-> "idle"]
  /\ queue = [t \in Tasks |-> <<>>]
  /\ owed = [t \in Tasks |-> FALSE]
  /\ standing = [h \in Threads |-> Nothing]
  /\ behind = [t \in Tasks |-> FALSE]
  /\ asked = [t \in Tasks |-> 0]
  /\ pending = {}
  /\ future = [t \in Tasks |-> "none"]
  /\ late = [t \in Tasks |-> FALSE]
  /\ left = [t \in Tasks |-> 0]
  /\ success = [t \in Tasks |-> TRUE]

(***************************************************************************)
(* Requests.                                                               *)
(***************************************************************************)

\* A new message on the task's thread: the graph starts over from its entry,
\* whatever question an earlier run left standing there.
Request(t, at) ==
  /\ pc[t] = "new"
  /\ pc' = [pc EXCEPT ![t] = at]
  /\ \E sid \in Sessions \cup {NoSession} :
       /\ session' = [session EXCEPT ![t] = sid]
       /\ thread' = [thread EXCEPT ![t] = ThreadOf(sid, t)]
       /\ standing' = [standing EXCEPT ![ThreadOf(sid, t)] = Nothing]
  /\ run' = [run EXCEPT ![t] = "going"]
  /\ UNCHANGED <<queue, owed, behind, success, client>>

OpenStream(t) == Request(t, "streaming")   \* POST /a2a/stream
SendTask(t)   == Request(t, "sync")        \* POST /a2a/tasks/send

\* tasks/send hands its run no way to ask: a run that stops at a question is
\* answered "input-required", and the thread is left at its interrupt.
SendReturns(t) ==
  /\ pc[t] = "sync" /\ run[t] = "stopped"
  /\ pc' = [pc EXCEPT ![t] = "returned"]
  /\ UNCHANGED <<session, thread, behind, success, client, graph>>

(***************************************************************************)
(* The graph run of a task and the drain task that queues its events.      *)
(***************************************************************************)

\* The shared ledger changes: every open stream's last snapshot is out of date.
LedgerChanges == behind' = [t \in Tasks |-> behind[t] \/ pc[t] \in Open]

\* A tool, or the task tool's auto-advance, changes the shared ledger; the tool
\* call it happens in has an event of its own yet to come.
RunMovesLedger(t) ==
  /\ run[t] = "going"
  /\ LedgerChanges
  /\ owed' = [owed EXCEPT ![t] = TRUE]
  /\ UNCHANGED <<pc, session, thread, run, queue, standing, success, client>>

\* An event reaches the queue.  A step of the graph that is complete also
\* replaces the checkpoint, and with it the interrupt it was resumed from.
RunEmits(t) ==
  /\ run[t] = "going" /\ Len(queue[t]) < MaxQueue
  /\ queue' = [queue EXCEPT ![t] = IF pc[t] = "sync" THEN @ ELSE Append(@, "event")]
  /\ owed' = [owed EXCEPT ![t] = FALSE]
  /\ \/ UNCHANGED standing
     \/ standing' = [standing EXCEPT ![thread[t]] = Nothing]
  /\ UNCHANGED <<pc, session, thread, run, behind, success, client>>

\* What the run puts into the queue and the checkpoint when it stops.
Stops(t, tail, interrupt) ==
  /\ run[t] = "going"
  /\ run' = [run EXCEPT ![t] = "stopped"]
  /\ queue' = [queue EXCEPT ![t] = IF pc[t] = "sync" THEN @ ELSE @ \o tail]
  /\ standing' = [standing EXCEPT ![thread[t]] = interrupt]
  /\ owed' = [owed EXCEPT ![t] = FALSE]
  /\ UNCHANGED <<pc, session, thread, behind, success, client>>

RunFinishes(t) == ~ owed[t] /\ Stops(t, <<"done">>, Nothing)

RunAsks(t) ==
  /\ ~ owed[t] /\ asked[t] < MaxQuestions
  /\ Stops(t, <<"done">>, [by |-> t, kind |-> "ask"])

\* An interrupt that is no ask_user_question.
RunInterruptsOddly(t) == ~ owed[t] /\ Stops(t, <<"done">>, [by |-> t, kind |-> "odd"])

RunRaises(t) == Stops(t, <<"exc", "done">>, standing[thread[t]])

\* A tool left in its thread by a cancelled run still writes the ledger.
OrphanWrites(t) ==
  /\ run[t] = "orphan"
  /\ LedgerChanges
  /\ run' = [run EXCEPT ![t] = "stopped"]
  /\ UNCHANGED <<pc, session, thread, queue, owed, standing, success, client>>

(***************************************************************************)
(* The generator: the event loop.                                          *)
(***************************************************************************)

\* A listing of the store, sent when it differs from the last one sent.
Probe(t) == behind' = [behind EXCEPT ![t] = FALSE]

\* Fault: only the ledger tools' own events are looked at.
TakeEventUnprobed(t) ==
  /\ pc[t] = "streaming" /\ queue[t] # <<>> /\ Head(queue[t]) = "event"
  /\ queue' = [queue EXCEPT ![t] = Tail(@)]
  /\ pc' = [pc EXCEPT ![t] = "mapping"]
  /\ UNCHANGED <<session, thread, run, owed, standing, behind, success, client>>

TakeEvent(t) ==
  /\ pc[t] = "streaming" /\ queue[t] # <<>> /\ Head(queue[t]) = "event"
  /\ queue' = [queue EXCEPT ![t] = Tail(@)]
  /\ Probe(t)
  /\ pc' = [pc EXCEPT ![t] = "mapping"]
  /\ UNCHANGED <<session, thread, run, owed, standing, success, client>>

\* After the probe's frame: drain extra_frames, then map the event; the end of
\* write_todos or update_todo reads the ledger a second time.
MapEvent(t) ==
  /\ pc[t] = "mapping"
  /\ UNCHANGED behind \/ Probe(t)
  /\ pc' = [pc EXCEPT ![t] = "streaming"]
  /\ UNCHANGED <<session, thread, success, client, graph>>

\* Fault: the error ends the loop in a state of its own.
TakeExceptionUnnamed(t) ==
  /\ pc[t] = "streaming" /\ queue[t] # <<>> /\ Head(queue[t]) = "exc"
  /\ pc' = [pc EXCEPT ![t] = "failed"]
  /\ UNCHANGED <<session, thread, run, queue, owed, standing, behind, success, client>>

TakeException(t) ==
  /\ pc[t] = "streaming" /\ queue[t] # <<>> /\ Head(queue[t]) = "exc"
  /\ queue' = [queue EXCEPT ![t] = <<>>]
  /\ success' = [success EXCEPT ![t] = FALSE]
  /\ pc' = [pc EXCEPT ![t] = "closing"]
  /\ UNCHANGED <<session, thread, run, owed, standing, behind, client>>

TakeDone(t) ==
  /\ pc[t] = "streaming" /\ queue[t] # <<>> /\ Head(queue[t]) = "done"
  /\ queue' = [queue EXCEPT ![t] = <<>>]
  /\ pc' = [pc EXCEPT ![t] = "reading"]
  /\ UNCHANGED <<session, thread, run, owed, standing, behind, success, client>>

(***************************************************************************)
(* The generator: questions.                                               *)
(***************************************************************************)

\* aget_state finds no interrupt, or fails, which is read the same way.
ReadsNoInterrupt(t) ==
  /\ pc[t] = "reading"
  /\ pc' = [pc EXCEPT ![t] = "closing"]
  /\ UNCHANGED <<session, thread, behind, success, client, graph>>

ReadsOddInterrupt(t) ==
  /\ pc[t] = "reading"
  /\ standing[thread[t]] # Nothing /\ standing[thread[t]].kind = "odd"
  /\ success' = [success EXCEPT ![t] = FALSE]
  /\ pc' = [pc EXCEPT ![t] = "closing"]
  /\ UNCHANGED <<session, thread, behind, client, graph>>

\* The entry is registered before input_required is sent.
AskUser(t) ==
  /\ pc[t] = "reading" /\ asked[t] < MaxQuestions
  /\ standing[thread[t]] # Nothing /\ standing[thread[t]].kind = "ask"
  /\ asked' = [asked EXCEPT ![t] = @ + 1]
  /\ future' = [future EXCEPT ![t] = "pending"]
  /\ late' = [late EXCEPT ![t] = FALSE]
  /\ pending' = pending \cup {t}
  /\ pc' = [pc EXCEPT ![t] = "asking"]
  /\ UNCHANGED <<session, thread, behind, left, success, graph>>

QuestionSent(t) ==
  /\ pc[t] = "asking"
  /\ left' = [left EXCEPT ![t] = Ticks]
  /\ pc' = [pc EXCEPT ![t] = "waiting"]
  /\ UNCHANGED <<session, thread, behind, asked, pending, future, late, success, graph>>

\* Leave the wait with the answer: drop the entry, resume the graph with it.  The
\* question is settled, its future and its deadline are not looked at again.
ResumeWithAnswer(t) ==
  /\ pending' = pending \ {t}
  /\ future' = [future EXCEPT ![t] = "none"]
  /\ late' = [late EXCEPT ![t] = FALSE]
  /\ left' = [left EXCEPT ![t] = 0]
  /\ run' = [run EXCEPT ![t] = "going"]
  /\ pc' = [pc EXCEPT ![t] = "streaming"]
  /\ UNCHANGED <<session, thread, queue, owed, standing, behind, asked, success>>

AnswerArrives(t) ==
  /\ pc[t] = "waiting" /\ future[t] = "done"
  /\ ResumeWithAnswer(t)

\* Fault: the future is not looked at when an interval ends.
IntervalEndsBlind(t) ==
  /\ pc[t] = "waiting" /\ left[t] > 0
  /\ left' = [left EXCEPT ![t] = @ - 1]
  /\ pc' = [pc EXCEPT ![t] = "tick"]
  /\ UNCHANGED <<session, thread, behind, asked, pending, future, late,
                 success, graph>>

\* An interval is over, with the answer come at the same instant or without it.
IntervalEnds(t) ==
  /\ pc[t] = "waiting" /\ left[t] > 0
  /\ \/ future[t] = "done" /\ ResumeWithAnswer(t)
     \/ /\ future[t] # "done"
        /\ left' = [left EXCEPT ![t] = @ - 1]
        /\ pc' = [pc EXCEPT ![t] = "tick"]
        /\ UNCHANGED <<session, thread, behind, asked, pending, future, late,
                       success, graph>>

\* The keep-alive frame takes its time to be sent.
KeepAliveBlocks(t) ==
  /\ pc[t] = "tick" /\ left[t] > 0
  /\ left' = [left EXCEPT ![t] = @ - 1]
  /\ UNCHANGED <<pc, session, thread, behind, asked, pending, future, late,
                 success, graph>>

\* Fault: every interval starts the deadline anew.
KeepAliveRestarts(t) ==
  /\ pc[t] = "tick"
  /\ left' = [left EXCEPT ![t] = Ticks]
  /\ pc' = [pc EXCEPT ![t] = "waiting"]
  /\ UNCHANGED <<session, thread, behind, asked, pending, future, late,
                 success, graph>>

KeepAliveSent(t) ==
  /\ pc[t] = "tick" /\ left[t] > 0
  /\ pc' = [pc EXCEPT ![t] = "waiting"]
  /\ UNCHANGED <<session, thread, behind, success, client, graph>>

\* Fault: only an answer drops the entry.
DeadlineKeepsEntry(t) ==
  /\ pc[t] = "tick" /\ left[t] = 0
  /\ UNCHANGED pending
  /\ future' = [future EXCEPT ![t] = IF @ = "pending" THEN "cancelled" ELSE @]
  /\ success' = [success EXCEPT ![t] = FALSE]
  /\ pc' = [pc EXCEPT ![t] = "closing"]
  /\ UNCHANGED <<session, thread, behind, asked, late, left, graph>>

\* remaining <= 0, looked at before the future is.
DeadlinePasses(t) ==
  /\ pc[t] = "tick" /\ left[t] = 0
  /\ pending' = pending \ {t}
  /\ future' = [future EXCEPT ![t] = IF @ = "pending" THEN "cancelled" ELSE @]
  /\ success' = [success EXCEPT ![t] = FALSE]
  /\ pc' = [pc EXCEPT ![t] = "closing"]
  /\ UNCHANGED <<session, thread, behind, asked, late, left, graph>>

\* The generator is over: its locals go with it, and so does a future nobody can
\* reach any more.
Released(t, keep) ==
  /\ behind' = [behind EXCEPT ![t] = FALSE]
  /\ left' = [left EXCEPT ![t] = 0]
  /\ late' = [late EXCEPT ![t] = FALSE]
  /\ asked' = [asked EXCEPT ![t] = 0]
  /\ success' = [success EXCEPT ![t] = TRUE]
  /\ future' = [future EXCEPT ![t] = IF keep THEN @ ELSE "none"]

\* Drain extra_frames, read the final state, send run.end.
Close(t) ==
  /\ pc[t] = "closing"
  /\ pc' = [pc EXCEPT ![t] = "ended"]
  /\ Released(t, FALSE)
  /\ UNCHANGED <<session, thread, pending, graph>>

(***************************************************************************)
(* The client.                                                             *)
(***************************************************************************)

\* The connection drops at any await or yield: the finally blocks run and
\* nothing more is sent.  The block that drops the entry is entered only after
\* input_required has been sent; the drain task is cancelled while events come.
ClientGoes(t) ==
  /\ pc[t] \in Open
  /\ pc' = [pc EXCEPT ![t] = IF @ = "asking" THEN "goneAsking" ELSE "gone"]
  /\ pending' = IF pc[t] = "asking" THEN pending ELSE pending \ {t}
  /\ run' = [run EXCEPT ![t] = IF @ = "going" THEN "orphan" ELSE @]
  /\ queue' = [queue EXCEPT ![t] = <<>>]
  /\ owed' = [owed EXCEPT ![t] = FALSE]
  /\ Released(t, t \in pending')
  /\ UNCHANGED <<session, thread, standing>>

\* POST /a2a/respond naming the task, whenever and however often it comes; with
\* no entry, or a future that is done, it changes nothing.
Respond(t) ==
  /\ t \in pending
  /\ pending' = pending \ {t}
  /\ \/ /\ future[t] = "pending"
        /\ future' = [future EXCEPT ![t] = "done"]
        /\ late' = [late EXCEPT ![t] = pc[t] = "tick"]
     \/ future[t] # "pending" /\ UNCHANGED <<future, late>>
  /\ UNCHANGED <<pc, session, thread, behind, asked, left, success, graph>>

Generator(t) ==
  \/ TakeEvent(t) \/ MapEvent(t) \/ TakeException(t) \/ TakeDone(t)
  \/ ReadsNoInterrupt(t) \/ ReadsOddInterrupt(t) \/ AskUser(t) \/ QuestionSent(t)
  \/ AnswerArrives(t) \/ IntervalEnds(t) \/ KeepAliveBlocks(t) \/ KeepAliveSent(t)
  \/ DeadlinePasses(t) \/ Close(t) \/ SendReturns(t)

GraphStops(t) ==
  \/ RunFinishes(t) \/ RunAsks(t) \/ RunInterruptsOddly(t) \/ RunRaises(t)

GraphMoves(t) ==
  \/ RunMovesLedger(t) \/ RunEmits(t) \/ OrphanWrites(t)

Next ==
  \E t \in Tasks :
    OpenStream(t) \/ SendTask(t) \/ GraphMoves(t) \/ GraphStops(t) \/ Generator(t)
      \/ ClientGoes(t) \/ Respond(t)

\* The event loop serves every generator and a graph run stops some time (TurnsEnd
\* of AgentLoop); requests, answers and disconnections are owed by nobody.
Fairness == \A t \in Tasks : WF_vars(Generator(t)) /\ WF_vars(GraphStops(t))

Spec == Init /\ [][Next]_vars /\ Fairness

(***************************************************************************)
(* Properties.                                                             *)
(***************************************************************************)

\* The task shares its thread because its client gave a session another task has.
SharesSession(t) ==
  session[t] # NoSession /\ \E u \in Tasks \ {t} : pc[u] # "new" /\ session[u] = session[t]

\* A question is put, and its answer handed on, only while the thread stands at an
\* interrupt of this very task, unless the client itself runs two tasks of one
\* session: no other conversation's question is ever shown or answered here.
AsksOwnQuestion ==
  \A t \in Tasks : pc[t] \in Asking => SharesSession(t)
                     \/ standing[thread[t]] = [by |-> t, kind |-> "ask"]

\* An entry of _pending_interrupts belongs to a stream that is asking, with its
\* future still open, or to one cut off while it was sending the question: no
\* end of a stream, by answer, deadline or error, leaves an entry behind.
EntriesAreAsked ==
  \A t \in pending : /\ future[t] = "pending"
                     /\ pc[t] \in Asking \cup {"goneAsking"}

\* An answer taken while the stream waits for it is never lost to the deadline: the
\* stream does not go on to its end with that answer unused.
AwaitedAnswerIsUsed ==
  [][\A t \in Tasks : pc[t] \in Asking /\ pc'[t] = "closing"
                        => ~ (future[t] = "done" /\ ~ late[t])]_vars

\* respond's docstring: once it has answered "resumed" the stream resumes the graph.
ResumedMeansResumed ==
  [][\A t \in Tasks : pc[t] \in Asking /\ future[t] = "done" => pc'[t] # "closing"]_vars

\* A stream that is the server's only task and reports success has shown the
\* ledger as it stands, although the task tool moves it without an event.
EndShowsLedger ==
  [][\A t \in Tasks :
       pc[t] = "closing" /\ pc'[t] = "ended" /\ success[t] /\ (\A u \in Tasks \ {t} : pc[u] = "new")
         => ~ behind[t]]_vars

\* Every request is answered to its end, whether or not the user ever answers.
TasksEnd == \A t \in Tasks : pc[t] # "new" ~> pc[t] \in Over
===============================================================================
