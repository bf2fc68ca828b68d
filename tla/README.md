# A TLA+ verification project for ax-coding-agent

This directory models the control logic of the coding agent under `src/coding_agent`:
which state its parts keep, in which order threads, conversations, tools and timeouts may
touch it, and what must hold whatever that order is. TLC checks the models on small
instances, TLAPS proves the central facts for every value of the constants.

`PROJECT.json` holds the machine-readable side: the runs, the source lines every definition
stands for, the faults (mutated definitions) that show each property can fail, the hazards of
the code and the findings.

## 1. The system

A user's message starts a *turn* of a LangGraph graph (`core/loop.py`). The node `agent` asks
an LLM for an answer; the answer is text or tool calls. Tool calls run (several of one answer
in parallel threads), `check_progress` looks for a stall, and `agent` is asked again. The
`task` tool hands work to SubAgents (planner, coder, reviewer, fixer, researcher, verifier),
each an LLM loop of its own in the external library `minyoung_mah`. The planner registers its
tasks in the *todo ledger*, and the harness moves a row on when a SubAgent is delegated its
task and when it reports. A turn ends when the orchestrator answers in text and nothing is
left to do, when it is stuck, or by one of several safety stops.

| part | state | operations | talks to |
|---|---|---|---|
| Todo ledger (`tools/todo_tool.py`) | `_items`, `_order`, a lock | `replace`, `update`, `list_items`, `counts`, `reset`; the tools `write_todos`, `update_todo` | called by the task tool's threads, the gate, the routes; calls the panel's callback |
| Task tool (`tools/task_tool.py`) | `_fixer_attempts`, `_last_verifier_evidence` (both unlocked, one per process) | a delegation: role, cap, evidence, `_on_start`, role run, `_on_end`, verify/fix chain, verdict | ledger, orchestrator library, classifier |
| Agent loop (`core/loop.py`, `core/state.py`) | the checkpointed `AgentState` of each thread; `_consecutive_errors` of the process | twelve graph nodes, five routing functions, `run`, `run_resume` | everything below |
| Error handling (`resilience_compat.py`) | policies, stop conditions | `classify`, `handle`, `SafeStop.evaluate` | agent loop |
| Sufficiency loop (`sufficiency/`) | in `AgentState`: rounds, history, last verdict | `evaluate`, heuristic verdict, critic, cycle detection, forced escalation | agent loop, ledger counts |
| Roles (`subagents/`) | none; a decisions log | role table, `resolve_role_name`, `classify_task` | task tool |
| HITL (`tools/ask_*`, `web/sse_emitter.py`) | `pending_interrupts`, futures | interrupt, answer, deadline, keep-alive | agent loop's checkpoints |
| Web server, CLI (`web/`, `cli/`) | one shared `AgentLoop`; sessions | request, stream, respond | agent loop |
| Memory (`memory/`) | caches, a dirty flag | inject, extract | agent loop |
| Shell, file tools (`tools/shell.py`, `file_ops.py`) | process groups; a result cache | execute, reap; read, write, search | called by the roles |
| History repair (`core/tool_call_utils.py`) | none | sanitising a message list | agent node |

Behaviours that make it hard: tool threads interleave between the ledger's critical sections;
several conversations share the ledger, the error counter and the task tool's tables; a
checkpoint outlives the turn that wrote it; a turn may be abandoned in mid-graph (HITL
deadline, client gone); the LLM may answer anything, at any time.

What makes each part correct: the **ledger** never loses finished work, keeps its two tables
in agreement, never takes an advance made on a stale listing further than a fresh one would
go; the **task tool** marks a task done only on evidence, settles every coder task, returns,
and bounds its fixers; the **agent loop** ends every turn, ends quietly only when nothing is
open or the model is stuck, stops on repeated failures, asks before gated work, and keeps the
**sufficiency loop** within its retries and its escalations final; the **server** asks and
answers the questions of the right task, forgets none and ends every request; **history
repair** sends the LLM a list its API takes and loses no result; the **memory** block is not
older than what its own turn stored; **execute** returns and leaves nothing alive that it could
have killed; the **file cache** never shows an outdated file.

## 2. The modules

| module | models | |
|---|---|---|
| `AtomicLedger` | what the ledger promises when each call is one step | abstract specification |
| `TodoLedger` | the store, the two tools, `_auto_advance_todo`, the gate's reset; one action per critical section | implements `AtomicLedger` |
| `TodoLedgerProofs` | theorems about `TodoLedger` | |
| `TaskTool` | delegations over a shared ledger: `L == INSTANCE TodoLedger` | composes `TodoLedger` |
| `TaskToolProofs` | theorems about `TaskTool` | |
| `AgentLoop` | the graph, the error handler, the nudge, the gate, the sufficiency loop, for concurrent conversations | the ledger as row counts |
| `AgentLoopProofs` | theorems about `AgentLoop` | |
| `HitlStream` | the server's tasks: streams, synchronous sends, graph runs, questions, answers, deadlines, disconnections | `AgentLoop` as "a run moves the ledger, emits, stops" |
| `HitlStreamProofs` | theorems about `HitlStream` | |
| `History` | the message list the graph builds and the repairs it is sent through | the routes of `AgentLoop`, for messages |
| `HistoryProofs` | theorems about `History` | |
| `MemoryCache` | extraction, injection and the shared memory caches | |
| `MemoryCacheProofs` | theorems about `MemoryCache` | |
| `ShellReaper` | one call of `execute` and the processes of its command | |
| `ShellReaperProofs` | theorems about `ShellReaper` | |
| `FileCache` | the file tools' result cache, with threads and outside commands | |
| `FileCacheProofs` | theorems about `FileCache` | |
| `MC...` | the values TLC uses, one module per model | |

A definition whose comment begins with *Fault:* belongs to no specification. It is a
plausible bug of the definition that follows it; put in its place, it makes a property fail.

### TodoLedger
`items` and `order` are `_items` and `_order` (a row's text is left out; the list is kept as
the rank of each id). `call[w]` is where thread `w` stands between two critical sections of
one call: what `_auto_advance_todo` decided on the listing it read, or the listing it is
about to hand to the callback. `panel` is what the callback showed last. `LedgerTools` says
which of the two tools a role may use: in the application as it is assembled only
`write_todos` (planner); `update_todo` is built and tested but in no role's allowlist, so
`TodoLedger` checks both and `TaskTool` the one.

### TaskTool
`dlg[w]` is the local state of `_run_wrapped` in thread `w`: the wrapper's role, the inner
call's `agent_type` and role, the id of the caller's description and that of the inner call's
description (they differ once evidence or a report is glued on), the chain's round and the
outcome. A description is kept as the *first* task id in it, which is all the code reads. The
evidence and the head of the coder's description are cut at a number of characters before
they are glued on: their id may be kept, lost, or cut inside and read as another task's
(`CutText`, `Clipped`: TASK-12 as TASK-1). An outcome is kept as the code judges it: the tag and
the structured result (`green`), used by `_on_end`, and what the formatted text says, used by
the wrapper and the chain (`says`: "[Task COMPLETED" is in it; `pass`: and no failure marker).
A report may quote the harness's own marks (`Quotable`); a PASSED mark in a coder's result counts
as the chain's, whoever wrote it. `vouched` is history for the properties: some report of this
delegation spoke for the task (`SpeaksFor`).

### AgentLoop
`conv[s]` is the conversation's `AgentState` and the node it is at; `errors` is
`_consecutive_errors`; `ledger` are `TodoStore.counts()`, pending and in_progress together.
Each action is one node or one routing decision. A conversation in `Pinned` keeps its
checkpoint over turns (the web server pins the thread to the session); the others begin every
turn afresh (CLI). `Abandon` gives a turn up at any node. A tool runs in a thread that neither a
cancelled turn nor a role's timeout stops (`tools/adapters.py:53`): `orphans` are the ways
threads left behind may still write the ledger, whatever the graph does now (`OrphanRegisters`,
`OrphanMoves`), until they end (`OrphanEnds`); an advance may also take a row back that has been
completed since its listing. `past` is history for the properties; `overtaken` in it says that
another turn's thread or an orphan wrote the ledger after this turn's last look at it.
The keys a node returns that `AgentState` does not declare are dropped by the graph, so
`retry_count_for_this_error` is always 0 (`RetryCountKept`): the arms of `Resolved` for
fallback and abort translate the code and are never taken.

### HitlStream
`pc[t]` is where the generator of task `t` (`stream_agent_events`) stands between two awaits
or yields; `run[t]` is its graph run and `queue[t]` its `event_queue`. `standing[h]` is the
interrupt in the checkpoint of thread `h`, with the task whose run left it there; the code
keeps no such owner, the properties need it. `pending` are the keys of `_pending_interrupts`,
`future[t]` the future in the entry. Time is `left[t]`, keep-alive intervals to the deadline;
an interval may end at the instant the answer comes, and sending a frame may take intervals.
`behind[t]` says that the ledger is not what the stream's last snapshot showed. A client may
go at any `await` or `yield`; a tool its run was in may write the ledger once more.

### History
`history` is `state["messages"]`; a message is its kind and the set of calls it makes, or the
one it answers. `Prepare` is `prepare_messages_for_llm` as an operator on such lists: filter
invalid calls, drop orphans (what stays is the `Subsequence` of the list at the positions
kept), demote what is not answered right behind. The filter drops calls without a name, but
`tc_name` gives a call's `type` in place of an empty name, and every call of an `AIMessage` has
one (`TcName`), so on these lists `FilterInvalid` changes nothing. The actions produce
the histories the graph can produce: batches, the gate's answer to one call, turns given up,
compaction that cuts at any message. Ids are taken to be unique: providers make them so, and
calls parsed from text get a random one.

### MemoryCache
`cache` holds `_user_cache`, `_domain_cache` (one slot each) and `_project_cache` (one per
project); `SharedSlots` says which is which. A list of memories is the project it was read
for, how many writes the store held then (`version`) and how many of them it shows (`hits`): a
listing of a user or project tier all up to 200, a domain search any number up to 10, since
which memories a text finds is left out (`Found`). Reading is two steps, the thread's
(`ThreadReads`) and the event loop's (`Cache`). A client that goes cancels its turn at any
await (`Abandon`), between two writes of an extraction too; the write under way then reaches
the store or not. `overtaken`, `faults` and `cut` record the three events after which the code
may have a stale cache and no sign of it; `Undisturbed` says that none has happened.

### ShellReaper
`pc` is where `execute` and `_reap_process_group` stand; each process has a state, traits
(holds a pipe, ignores SIGTERM, in the group) and the strongest signal sent to it, which takes
effect in a later step. Output that does not decode ends the call with an error report the
first time it is read, by an exception that leaves `execute` the second (`DrainBad`, `result`
"raised"). The operating system side (fork, exit, init's reaping, reuse of
process ids) is external.

### FileCache
A read is stat, get, scan, put; a write is open (truncates), fill, drop. `window[w]` is what
the file has held since worker `w` began, the values a fresh answer may have. `blurred` becomes
true when an entry is put, or left, under a key that cannot tell it from newer content: a
search (its key has no mtime), a read within one clock tick, an mtime of 0. `invalidate_path`
is the positions of the entries that stay (`Stays`), read in their order (`InOrder`).

External, and therefore nondeterministic: LLM answers and failures, role results,
`ProgressGuard`'s verdict, the critic, the signals other than the todo ratio.

## 3. The runs

| run | expects | properties | bounds |
|---|---|---|---|
| `todo_one` | pass | `TypeOK`, `WellFormed`, `PanelShowsLedger`, `RefinesAtomicLedger`, `PanelCatchesUp` | 1 thread |
| `todo_two` | pass | `TerminalRowsKept`, `AdvanceNeverRevives` | 2 threads |
| `task_one` | pass | `TypeOK`, `CoderSettlesRow`, `CapStopsDirectFixers`, `DelegationsReturn` | 1 thread, a planned task and one outside the plan, classified roles, 2 rounds, cap 1 |
| `task_two` | pass | `CompletedNeedsEvidence` | 2 threads (symmetric), 1 task, planner and coder delegations, 2 rounds, cap 0 |
| `loop_one` | pass | `TypeOK`, `EndsSettledOrStuck`, `ErrorStreakStops` | 1 pinned conversation, the code's 3 errors, 3 nudges; 6 LLM calls |
| `loop_sufficiency` | pass | `SufficiencyRetriesBounded`, `EscalationIsFinal`, `TurnsEnd` | 1 pinned conversation, 2 retries, 2 errors, 4 LLM calls |
| `hitl_two` | pass | `TypeOK`, `AsksOwnQuestion`, `EntriesAreAsked`, `EndShowsLedger`, `AwaitedAnswerIsUsed`, `TasksEnd` | 2 requests, with a session in common, one or none; 1 question each, 2 intervals, 1 queued event |
| `history_three` | pass | `TypeOK`, `SentIsPaired`, `ResultsAreSent`, `PairedIsLeftAlone` | 3 calls in batches of up to 2, 7 messages |
| `memory_one` | pass | `TypeOK`, `StaleIsMarked`, `TurnSeesItsExtraction` | 2 sessions of 1 project, 2 topics, 1 record per tier, 1 failing store call, clients that go at any await |
| `memory_projects` | violation | `ShowsOwnProject` | the same with 2 projects |
| `shell_group` | pass | `TypeOK`, `LeaderIsReaped`, `TimeoutSparesStrangers`, `ExecuteReturns`, `TimedOutGroupDies` | a shell and 2 more processes of any traits |
| `file_two` | pass | `TypeOK`, `QueryIsFresh` | 2 threads and outside commands on 1 file, 3 changes, 2 ticks, 4 cache entries |

Why the bounds are enough. Ledger: the lists TLC writes contain a plain plan, a plan that
names an id twice around another, and a list that carries a terminal row; with two threads
every pair of critical sections meets in both orders, and no property relates three calls.
Task tool: in `task_one` the second id, of a task outside the plan, reads as the first when a
text is cut, so description ids, cap keys and evidence ids differ from each other in every
way, and every call is classified (twice, with any results); a marker quoted in a report is in
`task_two`, where a coder's own word must not do. A cap of 0 there leaves the chain's fixers,
which it does not hold back; two rounds are a fix and its verification. `CountCeiling` caps the
counters one above the cap, past which the code does not tell counts apart. Loop: `MaxIterations` replaces the configured 150. Each counter is
capped one past its limit, and six LLM calls leave room for a gate, a failure and all nudges
of a turn; the two-retry sufficiency bound makes the maximum, the cycle window of two and an
escalation after each of them reachable; in `loop_sufficiency` two failures in a row are enough to stop. The counters live in
the checkpoint, so the turns of a pinned conversation are unbounded, and threads left behind
write throughout.

Server: two tasks are what one session, two sessions or none can be told apart with; a second
question is the first with another entry, and the proofs hold for any number of both. History: the
shortest list in which one of two calls is unanswered, a cut separates a call from its answer
and another turn follows has six messages. Memory: two sessions make every read overtaken and
every clearing hit another's fill; one record per tier tells an old list from a new one, and
extractions of two records can fail, or be cancelled, half way; the limits of 200 and 10 are
above the bound on writes, but a domain search may find none of what there is. Shell: a process that
forks while it is signalled and its child are two beside the leader. Files: one write to be
cached, one to make that stale and a command; files do not interact but through eviction,
which only drops. One file has four keys (a search, reads at mtime 0, 1 and 2), and a put
into the full cache of four evicts.

`CHECK_DEADLOCK` is on for the ledger, the task tool and the loop. The other models stop when
their requests are used up, the call has returned or a bound on calls, messages or writes is
reached, and their runs say so.

**Fairness.** `TodoLedger`: a thread inside a call goes on (`WF` of its own steps; the lock is
held for a few statements, no call waits for another). `TaskTool`: the same for a delegation,
and `SF(RoleEnds)`: a role may call tools for long, but `orchestrator_factory.py` gives every
role a watchdog timeout, so it cannot run for ever. `AgentLoop`: `WF(Proceed)`: the event loop
runs on; a tool round ends because the roles' do; at the gate an answer comes or the HITL
deadline abandons the turn. `HitlStream`: the event loop serves every generator (`WF` of its
steps, intervals running out among them), and a run stops some time, which is `TurnsEnd` of
`AgentLoop`; nobody has to answer or to disconnect. `ShellReaper`: `execute`'s own steps and
timeouts, and the death a pending signal brings; no process has to end by itself. No fairness makes a user begin a turn or a planner write.

## 4. What the runs found

One statement of the repository is refuted by a run in the list (`findings`):

* `memory_projects`: the docstring of `inject` says that every tier is isolated by project.
  The user and the domain cache have one slot for all projects, and the web server serves
  requests of any `project_id` with one middleware: a session is shown the memories of the
  project that filled the slot.

These statements are refuted too. Their properties are in the modules; put one into the run
named (in the place of its properties) and TLC prints the counterexample.

* `FixerIsNotAdvanced` (`task_one`): a fixer that reports COMPLETED turns its row **completed**
  (`task_tool.py:734`), delegated directly or inside the chain, before a verifier has looked at
  the fix. The docstring says "Fixer is NOT auto-advanced — fix success/failure is judged by the
  next verifier round" (`task_tool.py:640-641`; also 14-16 and 632-634); the comment at 724-725
  says that fixers are advanced. `CompletedNeedsEvidence` is what does hold: the *coder's* own
  COMPLETED is never enough (a PASSED mark it quotes is: see below).
* `FailedChainIsShown` (`task_one`): a chain that *failed* shows its task **completed**, because
  another report came first, a fixer's inside the chain for one, and the shared `_on_end` advanced
  the row (`task_tool.py:734`).
  `tests/test_task_tool_chain_advance.py:143` expects verify_failed, with a stubbed chain.
* `PassMeansGreen` (same): a chain *passes* although its verifier ran nothing, or failed with
  more than 800 characters of output: the text is cut (`task_tool.py:277-278`) before the exit
  marker it is searched for (`tools/shell.py:440`). The comment at `task_tool.py:515-519` says
  that it is kept consistent with `_verifier_signals_success`.
* `AdvanceNeverDemotes` (`todo_two`): between an advance's check and its update another thread
  may complete the row; it is then taken back, against `tests/test_task_tool_marking.py:86`.
* `GatedWorkIsConfirmed` (`loop_one`): the gate compares the raw `agent_type` (`loop.py:125`);
  with the default `auto` it never asks, against `core/state.py:53-55`.
* `RetriesWithinPolicy` (`loop_one`): `retry_count_for_this_error` is not a key of the state and
  is lost, so no policy's retry budget, fallback or abort ever applies (`loop.py:708`,
  `README.md:188`).
* `EscalatesAfterRetries` (`loop_sufficiency`): sufficiency rounds of earlier turns, passes
  included, use up the retries of later ones (`loop.py:992`, `sufficiency/loop.py:119-121`).
* `ResumedMeansResumed` (`hitl_two`): an answer accepted ("resumed", `app.py:372-378`) while the
  last keep-alive frame is being sent is dropped: the deadline is looked at before the future.
  `AwaitedAnswerIsUsed` is what does hold, and `late` marks the exception.
* `NamelessIsFiltered` (`history_three`): a call with an empty name stays in the list the model
  is sent. `filter_invalid_tool_calls` says that it removes it (`tool_call_utils.py:319`), but
  asks `tc_name`, which falls back to the call's type (43), always "tool_call" on LangChain's calls.
* `StoredIsMarked` (`memory_one`): the comment at `middleware.py:47` says of `_dirty` "set True
  after extract_and_store". A client that goes away cancels the turn (`sse_emitter.py:620-625`)
  at an await of the loop that writes (190-200); `CancelledError` is no `Exception` (210), so the
  records are stored, the cached lists are older, and `_dirty` stays down.
* `SurvivorsAreKilled` (`shell_group`): the comments at `shell.py:305-307`, `400-402` and `412`
  say that the group's survivors are killed; SIGKILL is sent only if the *leader* outlives the
  grace period, so a child that ignores SIGTERM lives on.

Seen with the same models and recorded here without a run of their own:

* `_consecutive_errors` belongs to the process. With two sessions `ErrorStreakStops` fails:
  another session's tool round resets the count between this one's failures (and failures of
  two sessions add up). A successful answer without tool calls does not reset it either.
* `verify_failed` is called terminal (`todo_tool.py:118`), but a later delegation of the task
  takes the row back to in_progress: `_auto_advance_todo` protects completed rows only.
* `write_todos` accepts a list that already carries `verify_failed`, which `update_todo`
  reserves to the harness.
* A fixer given another task's evidence is counted, and its row advanced, under that other
  task's id, while its cap was checked under its own.
* The fixers of the chain are counted but not capped; an `auto` call may resolve to a fixer in
  the inner tool after the wrapper resolved it to something else, past the cap and the chain.
* A pinned conversation keeps `exit_reason`: after one safe stop every later tool round ends
  its turn. It also keeps `decomposition_confirmed` when the user asked for another breakdown.
* A client that goes while `input_required` is being sent leaves its entry in
  `_pending_interrupts` for good: the entry is made at `sse_emitter.py:649`, the `finally` that
  drops it is entered at 665. `EntriesAreAsked` names this case (`goneAsking`).
* An entry is named by the task alone: a duplicate answer to the first question is taken for
  the second. Two tasks of one session may ask, and resume, each other's interrupt.
* A failing `aget_state` reads as "no interrupt": the stream reports success over a question.
* `role.invoke.end` reports the role that started last; with delegations in parallel that is
  another one (`sse_emitter.py:148-154`). `UserDecisionsLog` is one per process, although its
  docstring calls it the session's.
* The text glued onto a chain call or a fixer's description is cut (`task_tool.py:387`, `420`,
  `601-617`): the id in it may be lost, and the row is not advanced, or cut to the id of another
  task, whose row is advanced and whose fixers are counted.
* A coder's report that quotes the PASSED mark makes its delegation a passed chain, however the
  chain ended (`task_tool.py:856`): the marks are looked for anywhere in the text. A verifier's or
  another role's text that quotes "[Task COMPLETED" is read as completed (843 and the chain's test).
* A thread of a turn given up, or of a planner its watchdog stopped, may open rows after the next
  turn has last looked at the ledger: that turn ends quietly over open rows, with no nudge.
  `EndsSettledOrStuck` names this case (`overtaken`).
* A failed store call leaves a stale memory cache unmarked, and so does a write that overtakes a list
  on its way to the cache; a failed listing is cached as an empty one. A turn is shown at most ten
  domain memories that its text finds, which need not be those it has just stored. `_dirty` clears the project
  cache of the session that injects first, not of the one that wrote.
* What `grep` and `glob_files` found in a directory is dropped by no write below it, since
  `invalidate_path` looks for the file's own path. A search whose file is written while it runs
  is cached and stays; of two parallel edits of one file one may be lost.
* With call ids used twice, the repairs pair answers with the wrong calls.
* Stuck nudges are counted over tool rounds and gate answers in between, so "stuck" does not
  mean that the model answered three nudges in a row with text only.

## 5. The proofs

`TodoLedgerProofs` (constants: any ids, any number of threads, any lists):

* `TypeCorrect` and `LedgerWellFormed`: `Spec => [](TypeOK /\ WellFormed)`. The conjunction is inductive by
  itself: `WellFormed` needs the ranges of `items` and `order`, and the update after an
  advance needs the part of `TypeOK` that says an advance under way names an id and a status
  of the harness. The one real step is `WriteTodos`, through lemmas about `FirstIndex` and
  `LastIndex`: a list that names an id has a first and a last row of it, and different ids
  have different first rows.
* `TerminalRowsAreKept` and `AdvancesReviveNothing`: action properties, from that invariant;
  well-formedness is what makes the guard of `replace`, which walks `_order`, see every
  terminal row of `_items`.
* `LedgerRefinesAtomicLedger`, under `ASSUME SingleThread`: with one thread, `TodoLedger`
  implements `AtomicLedger`. It rests on one more invariant, that the decision of an advance
  in progress still holds; with two threads that is false (`AdvanceNeverDemotes`, section 4).
* `PanelIsRight`, under `ASSUME SingleThread`: `[]PanelShowsLedger`. A call changes the rows
  first and hands them to the panel later, so the invariant (`PanelFollows`) says what a call
  under way holds: one that has changed nothing finds the panel right, one about to deliver
  carries the rows as they are. With two threads the older listing may be delivered last.

`TaskToolProofs` (constants: any ids, threads, agent types, todo lists, rounds and caps). The
ledger's part of a step is three lemmas (`Advanced`, `Written`, `Resumed`), which every later
proof cites instead of the ledger's actions:

* `TypeCorrect`: `Spec => []TypeOK`. Not inductive alone: the round stays within `MaxAttempts`
  only because the chain calls a fixer while a round is left, and inside the chain the role is
  the one the chain called (`Chain`).
* `CompletedIsBacked`: `Spec => CompletedNeedsEvidence`, for any number of threads, any marks
  reports may quote and any way of cutting texts. The advance and the write to the row are
  different steps, with other threads between them; the invariant added says that an advance to
  completed under way is vouched for by the delegation that makes it, which waits where it is
  until the ledger call is over, and that a green verifier, a passed verifier and the PASSED mark
  each come with a report that spoke for the task.
* `CapHolds` and `CoderRowsSettled`, under `ASSUME SingleThread`: `[]CapStopsDirectFixers` and
  `[]CoderSettlesRow`. The first adds that a fixer the wrapper let through is below the cap
  until it is counted, and that what it read of the counter is still so when it stores; the
  second that from the marking of the verdict on the row is settled or about to be, and that
  the order lists the rows there are. With two threads both fail: one
  fixer passes the check before the other is counted, and another delegation may move the row.

`AgentLoopProofs` (constants: any sessions, replies, failures, limits), from an invariant
(`Good`) of one conversation and its history: one lemma per group of nodes shows that a step
changes one conversation only and keeps `Good`, and the number of conversations drops out.

* `AgentLoopTypes`: `Spec => []TypeOK`. The conversations' types are not inductive alone:
  what the cycle history records is a full entry only because the node before put a level and
  a verdict into the stash (`Staged`).
* `RetriesStayBounded`: `Spec => []SufficiencyRetriesBounded`. The bound is not inductive: the
  code bounds its stored round counter, not the number of retries. The invariant added
  says that a conversation has never retried more often than it counted rounds, which
  survives the counter's cap, abandoned turns and new threads.
* `EscalationsAreFinal`: `Spec => EscalationIsFinal`, for every pinned conversation. The
  invariant says that an applied escalation comes with its `exit_reason` and that the
  conversation is not on its way through the sufficiency nodes.
* `TurnsEndSettled`: `Spec => []EndsSettledOrStuck`, for any number of conversations and any
  threads left behind. The invariant (`Settled`) says that the sufficiency nodes are entered
  with no open row and `extract` is reached with none or with the nudges used up, unless a write
  came since (`overtaken`); every write of the ledger marks the conversations past their last
  look (`Overtakes`), and a turn's own steps write none there.
* `StreaksStop` (`ErrorStreakStops`), under `ASSUME Alone`: one conversation in the process, as
  in the CLI. `_consecutive_errors` is the process's, and with two conversations the property
  fails: the other one resets the counter. The invariant adds that the counter is at least the
  number of failures since the last success (`Streak`).

`HitlStreamProofs` (constants: any tasks, sessions, intervals and bounds):

* `TypeCorrect`, `NoStrayEntry`, `QuestionsAreOwn`: `Spec` implies `[]TypeOK`,
  `[]EntriesAreAsked` and `[]AsksOwnQuestion`; `AnswerIsUsed`: `Spec => AwaitedAnswerIsUsed`.
  The inductive invariant adds to them that a `late` answer belongs to a stream in a tick, and
  `Ownership`: a task's thread is its session's or its own (`Threaded`), so only its own run can
  leave an interrupt there unless it shares a session (`Owned`); a run that has not started
  has touched nothing (`Idle`); no run goes on while its stream asks or reads (`Quiet`), because
  the "done" that leads there is the last thing a run puts into the queue (`Events`).
* `EndShown`: `Spec => EndShowsLedger`. A stream is behind only while something will make it
  look (`Snapshots`): a tool's own event is owed, or an event or the error is in the queue
  before the end (`EndsLast`), or the stream is bound to report a failure. A run is over when
  its stream closes (`Stopped`), so nothing moves the ledger after the last look. The property
  is about a stream that is the server's only task: another task's tool may move the ledger.

`ShellReaperProofs` (constants: any processes):

* `TypeCorrect`, `ReturnsReaped` (`[]LeaderIsReaped`), `SparesStrangers`
  (`[]TimeoutSparesStrangers`). The invariant says how far the signals have got at each place
  of the reaper, and that after a timeout the leader is not reaped before the wait, so the
  group's id cannot be free when it is signalled.

`HistoryProofs` (constants: any numbers of calls, calls in a reply and messages). The
inductive invariant says that the history is *orderly* at any time: a tool message answers one
call, no two the same, and stands after its call with only answers between (`Orderly`). That is
weaker than the APIs' rule (calls may be unanswered), and just what survives a turn given up,
the gate's single answer and compaction's cut. `Numbered` (call numbers grow) and `ReplyIsLast`
(the reply in hand is the last message) keep it so. The repairs are lemmas about *any* orderly
list, with the dropping of messages as an increasing function of positions (`OrphansDropped`); the filter is
shown to be the identity (`NothingFiltered`):

* `TypeCorrect`; `PairsAreSent` (`[]SentIsPaired`); `ResultsArrive` (`[]ResultsAreSent`);
  `PairedIsSentAsIs` (`[]PairedIsLeftAlone`), all without an assumption but the bounds' types.
  Orderliness is needed: with ids used twice the first of them fails (section 4).

`MemoryCacheProofs` (constants: any finite set of sessions, any projects and topics):

* `TypeCorrect`: the bound on writes is kept because an extraction plans only records there is
  room for, so the invariant counts written and planned records together (`Room`); sessions
  are finite for that count.
* `SharedSlotsMarked`: `Spec => []Marked`, for any number of projects: while no store call has
  failed, no list was overtaken and no storing extraction was cancelled (`Undisturbed`), a stale
  list in a slot that every inject clears is marked by `_dirty` or will be. A turn given up
  anywhere else leaves the store as it was (`AbandonedQuietly`).
* `StaleMarked` (`[]StaleIsMarked`) and `ExtractionSeen` (`[]TurnSeesItsExtraction`), under
  `ASSUME SingleProject` (the CLI serves one project) and, for the second, tiers that one
  listing shows whole (`MaxWrites <= ListLimit`). With two projects both fail: an inject clears
  the flag, but another project's slot stays (section 4). The invariant adds what the read
  (`ReadsOwn`), the cache (`CacheSees`) and the block (`BlockSees`) of a turn know of what its
  opening extraction wrote (`WroteToStore`), and that a list of the user or project tier shows
  all the writes it saw (`Whole`).

`FileCacheProofs` (constants: any threads, files, writes, ticks, any cache size of at least 4):

* `TypeCorrect` and `QueriesAreFresh` (`[]QueryIsFresh`). The invariant follows a result on
  its way. What a query found is in its window (`Found`), and the window holds all that writes
  under way on the file have replaced (`Windows`). No stamp is newer than its file (`Times`).
  While nothing is blurred, a result about to be put (`PutIsCurrent`), or an entry
  (`EntryIsCurrent`), whose key the next write could not tell from what the file holds, *is*
  what the file holds, or what a write replaced that has yet to drop it; so a query that looks
  for its key finds something of its own window (`PutIsSeen`, `EntryIsSeen`). Eviction and
  `invalidate_path` only keep a part of the entries (lemmas `EvictedKeeps`, `AfterDrop`).

Only model-checked: the liveness properties `PanelCatchesUp`, `DelegationsReturn`, `TurnsEnd`,
`TasksEnd`, `ExecuteReturns` and `TimedOutGroupDies` (the prover handles neither fairness nor
ENABLED). Every other property of a passing run is a theorem. Induction over data and recursive
operators are out of the prover's reach as well; the modules declare none. `SingleThread`,
`Alone` and `SingleProject` are hypotheses of the theorems above that name them because TLC
refutes the properties without them, and `MaxWrites <= ListLimit` because a longer tier is
listed in part; no other theorem has one.

## 6. Not modelled, and the plan

Not modelled by intent: rendering, logging, trace export, configuration loading, provider
clients, the wording of prompts and reports, `build_parallel_tasks_tool` (registered by
nobody), the dangerous-path stop (it reads state keys that do not exist), `Watchdog` and
`retry_with_backoff` (created, or defined, and never used), the user decisions log (texts on
which nothing is decided), the TDD write policy (it refuses before anything changes), the
patterns of dangerous and watch commands, recovering arguments from malformed JSON, artifact
and agent card routes.

Left for later:

1. Proofs of what holds of several conversations and projects: the error counter of two
   conversations, the project tier of `MemoryCache`.
2. `Sufficiency`: the signals read off a message history.
3. `Resume`: the resume file, deleted before the run it resumes has made progress and shared by
   all sessions of a workspace.
4. Searches over directories in `FileCache`.
