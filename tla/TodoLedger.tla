------------------------------ MODULE TodoLedger ------------------------------
(***************************************************************************)
(* The orchestrator's todo ledger: the lock-protected TodoStore, the       *)
(* write_todos and update_todo tools, the harness's _auto_advance_todo and *)
(* the gate's reset, called from concurrent tool threads.                  *)
(*                                                                         *)
(* Every critical section of the store's lock is one action.  A caller     *)
(* that needs more than one (read the list, then update a row, then list   *)
(* again for the panel) keeps what it read in its own record call[w], so   *)
(* that other threads may run in between.                                  *)
(*                                                                         *)
(* A row's content text is left out.  The list _order is kept as the rank  *)
(* of each id in it (0: not in the list); _items maps an id to the row's   *)
(* status (None: no row).                                                  *)
(***************************************************************************)
EXTENDS Naturals, Sequences, FiniteSets

CONSTANTS Ids,          \* task ids a row or a delegation may name
          None,         \* no row, no snapshot
          Workers,      \* threads that may be inside a ledger call at once
          TodoLists,    \* the lists write_todos may be called with
          LedgerTools,  \* which of the two ledger tools some role may use
          PanelAttached \* the CLI registered its panel; the web server does not

Statuses == {"pending", "in_progress", "completed", "verify_failed"}
Terminal == {"completed", "verify_failed"}
HarnessStatuses == {"in_progress", "completed", "verify_failed"}

Row == [id : Ids, status : Statuses]

ASSUME NoneAssumption  == None \notin Statuses
ASSUME ListsAssumption == TodoLists \subseteq (Seq(Row) \ {<<>>})
ASSUME PanelAssumption == PanelAttached \in BOOLEAN
ASSUME ToolsAssumption == LedgerTools \subseteq {"write_todos", "update_todo"}

VARIABLES items,   \* TodoStore._items, as id -> status
          order,   \* TodoStore._order, as id -> rank in the list
          panel,   \* the listing the change callback showed last
          call     \* per thread: where it stands inside a ledger call

vars == <<items, order, panel, call>>

Listings == [Ids -> Statuses \cup {None}]
Empty    == [i \in Ids |-> None]

NoCall == [pc |-> "idle", id |-> None, status |-> None, listing |-> Empty]
Calls  == [pc      : {"idle", "update", "list", "deliver"},
           id      : Ids \cup {None},
           status  : HarnessStatuses \cup {None},
           listing : Listings]

(***************************************************************************)
(* The store.                                                              *)
(***************************************************************************)

\* _ordered_unlocked: the rows reached through _order.
Listing == [i \in Ids |-> IF order[i] > 0 THEN items[i] ELSE None]

\* Fault: only completed rows count as terminal.
TerminalIdsCompletedOnly == {i \in Ids : order[i] > 0 /\ items[i] = "completed"}

TerminalIds == {i \in Ids : order[i] > 0 /\ items[i] \in Terminal}

\* replace() on a list with repeated ids: the last row of an id wins, its
\* first row gives the position.
FirstIndex(i, todos) ==
  CHOOSE k \in DOMAIN todos :
    /\ todos[k].id = i
    /\ \A j \in DOMAIN todos : todos[j].id = i => k <= j
LastIndex(i, todos) ==
  CHOOSE k \in DOMAIN todos :
    /\ todos[k].id = i
    /\ \A j \in DOMAIN todos : todos[j].id = i => j <= k

Named(todos) == {todos[k].id : k \in DOMAIN todos}

ReplacedItems(todos) ==
  [i \in Ids |-> IF i \in Named(todos) THEN todos[LastIndex(i, todos)].status
                                       ELSE None]
ReplacedOrder(todos) ==
  [i \in Ids |-> IF i \in Named(todos) THEN FirstIndex(i, todos) ELSE 0]

\* A listing only matters to a caller that has a panel to show it on.
Shown(listing) == IF PanelAttached THEN listing ELSE Empty

\* Fault: a status the list does not know (model_copy does not validate).
UpdateRowUnchecked(i, s) ==
  items' = [items EXCEPT ![i] = IF s = "completed" THEN "done" ELSE s]

UpdateRow(i, s) == items' = [items EXCEPT ![i] = s]

(***************************************************************************)
(* Calls.  A call that returns without touching the store leaves every     *)
(* variable unchanged.                                                     *)
(***************************************************************************)
Idle(w) == call[w].pc = "idle"
Return(w) == call' = [call EXCEPT ![w] = NoCall]
Continue(w, pc) == call' = [call EXCEPT ![w].pc = pc]

\* write_todos over a ledger with a terminal row: "REJECTED".
WriteRejected(w, todos) ==
  /\ "write_todos" \in LedgerTools /\ Idle(w)
  /\ TerminalIds # {}
  /\ UNCHANGED vars

\* write_todos: replace() answers the new list inside the same lock, and the
\* callback is given that list.
WriteTodos(w, todos) ==
  /\ "write_todos" \in LedgerTools /\ Idle(w)
  /\ TerminalIds = {}
  /\ items' = ReplacedItems(todos)
  /\ order' = ReplacedOrder(todos)
  /\ call' = [call EXCEPT ![w] =
                [NoCall EXCEPT !.pc = "deliver", !.listing = Shown(ReplacedItems(todos))]]
  /\ UNCHANGED panel

\* update_todo with the harness's own status, or with an unknown id.
UpdateRejected(w, i, s) ==
  /\ "update_todo" \in LedgerTools /\ Idle(w)
  /\ s = "verify_failed" \/ items[i] = None
  /\ UNCHANGED vars

UpdateTodo(w, i, s) ==
  /\ "update_todo" \in LedgerTools /\ Idle(w)
  /\ s # "verify_failed"
  /\ items[i] # None
  /\ UpdateRow(i, s)
  /\ Continue(w, "list")
  /\ UNCHANGED <<order, panel>>

\* Fault: without the check that keeps a completed row.
AdvancesAnyRow(i, s) == Listing[i] \notin {None, s}

\* _auto_advance_todo, up to its decision on the listing it read.
Advances(i, s) ==
  /\ Listing[i] \notin {None, s}
  /\ Listing[i] = "completed" => s = "completed"

AdvanceSkipped(w, i, s) ==
  /\ Idle(w)
  /\ ~ Advances(i, s)
  /\ UNCHANGED vars

AdvanceRead(w, i, s) ==
  /\ Idle(w)
  /\ Advances(i, s)
  /\ call' = [call EXCEPT ![w] = [NoCall EXCEPT !.pc = "update", !.id = i, !.status = s]]
  /\ UNCHANGED <<items, order, panel>>

\* Fault: the row is written whether or not it is still there.
AdvanceUpdateUpsert(w) ==
  /\ call[w].pc = "update"
  /\ UpdateRow(call[w].id, call[w].status)
  /\ Continue(w, "list")
  /\ UNCHANGED <<order, panel>>

\* Fault: the change callback is forgotten.
AdvanceUpdateUnshown(w) ==
  /\ call[w].pc = "update"
  /\ items[call[w].id] # None
  /\ UpdateRow(call[w].id, call[w].status)
  /\ Return(w)
  /\ UNCHANGED <<order, panel>>

\* ... its store.update(), in a later critical section; KeyError ends it.
AdvanceUpdate(w) ==
  /\ call[w].pc = "update"
  /\ items[call[w].id] # None
  /\ UpdateRow(call[w].id, call[w].status)
  /\ Continue(w, "list")
  /\ UNCHANGED <<order, panel>>

AdvanceKeyError(w) ==
  /\ call[w].pc = "update"
  /\ items[call[w].id] = None
  /\ Return(w)
  /\ UNCHANGED <<items, order, panel>>

\* list_items() for the callback, again in a critical section of its own.
ListItems(w) ==
  /\ call[w].pc = "list"
  /\ call' = [call EXCEPT ![w].pc = "deliver", ![w].listing = Shown(Listing)]
  /\ UNCHANGED <<items, order, panel>>

\* on_change(items): the panel, if there is one, draws the listing it is handed.
Deliver(w) ==
  /\ call[w].pc = "deliver"
  /\ panel' = IF PanelAttached THEN call[w].listing ELSE panel
  /\ Return(w)
  /\ UNCHANGED <<items, order>>

\* Fault: the rows are cleared, the order is not.
ResetItemsOnly(w) ==
  /\ Idle(w)
  /\ items' = Empty
  /\ Continue(w, "list")
  /\ UNCHANGED <<order, panel>>

\* reset(), as the decomposition gate calls it before it lists and delivers.
Reset(w) ==
  /\ Idle(w)
  /\ items' = Empty
  /\ order' = [i \in Ids |-> 0]
  /\ Continue(w, "list")
  /\ UNCHANGED panel

-----------------------------------------------------------------------------
Init ==
  /\ items = Empty
  /\ order = [i \in Ids |-> 0]
  /\ panel = Empty
  /\ call = [w \in Workers |-> NoCall]

\* The steps a call in progress takes by itself.
Resume(w) ==
  AdvanceUpdate(w) \/ AdvanceKeyError(w) \/ ListItems(w) \/ Deliver(w)

\* What a thread may do next.
Step(w) ==
  \/ \E todos \in TodoLists : WriteRejected(w, todos) \/ WriteTodos(w, todos)
  \/ \E i \in Ids, s \in Statuses : UpdateRejected(w, i, s) \/ UpdateTodo(w, i, s)
  \/ \E i \in Ids, s \in HarnessStatuses : AdvanceSkipped(w, i, s) \/ AdvanceRead(w, i, s)
  \/ Reset(w)
  \/ Resume(w)

Next == \E w \in Workers : Step(w)

\* A thread inside a call runs on; nobody is obliged to start a call.
Spec == Init /\ [][Next]_vars /\ \A w \in Workers : WF_vars(Resume(w))

-----------------------------------------------------------------------------
\* Types of the store, the panel and the per-thread call records.
TypeOK ==
  /\ items \in Listings
  /\ order \in [Ids -> Nat]
  /\ panel \in Listings
  /\ call \in [Workers -> Calls]
  /\ \A w \in Workers :
       call[w].pc = "update" => call[w].id \in Ids /\ call[w].status \in HarnessStatuses

\* The id list and the row table agree and no id is listed twice, whatever
\* repeats replace() was given: replace()'s terminal guard and every listing
\* walk _order only, update() looks in _items only.
WellFormed ==
  /\ \A i \in Ids : order[i] > 0 <=> items[i] # None
  /\ \A i, j \in Ids : order[i] > 0 /\ order[i] = order[j] => i = j

\* Verified or given-up work is never dropped piecemeal: a completed or
\* verify_failed row can only leave the ledger when the gate's reset clears
\* the whole ledger (TodoStore.replace, "silently losing prior progress").
TerminalRowsKept ==
  [][\A i \in Ids : items[i] \in Terminal /\ items'[i] = None => items' = Empty]_vars

\* No caller brings a row back: a thread that decided to advance a row while
\* the ledger was reset or replaced does not re-create the row that is gone.
AdvanceNeverRevives ==
  [][\A w \in Workers :
       call[w].pc = "update" /\ call'[w] # call[w]
         => \A i \in Ids : items[i] = None => items'[i] = None]_vars

\* _auto_advance_todo never takes a completed row back (it checks for that on
\* the listing it read).
AdvanceNeverDemotes ==
  [][\A w \in Workers :
       LET c == call[w] IN
       c.pc = "update" /\ call'[w].pc = "list" /\ items[c.id] = "completed"
         => items'[c.id] = "completed"]_vars

\* When no call is in progress the CLI's panel shows the ledger.
PanelShowsLedger == PanelAttached /\ (\A w \in Workers : Idle(w)) => panel = Listing

\* A change of the ledger reaches the panel unless it is overtaken for ever:
\* the panel is right again and again.
PanelCatchesUp == PanelAttached => []<>(panel = Listing)

\* What a caller sees of the store is its listing.
Abstract == INSTANCE AtomicLedger WITH rows <- Listing

\* Taken one call at a time, the multi-step calls are the ledger AtomicLedger
\* describes: the decision an auto-advance made on its listing still holds
\* when it updates the row.
RefinesAtomicLedger == Abstract!Spec
=============================================================================
