--------------------------- MODULE TodoLedgerProofs ---------------------------
(***************************************************************************)
(* Proofs about TodoLedger for every set of ids, threads and todo lists.   *)
(***************************************************************************)
EXTENDS TodoLedger, WellFoundedInduction, TLAPS

(***************************************************************************)
(* Lemmas about replace().                                                 *)
(***************************************************************************)

\* A nonempty set of naturals that has a bound has a least element and a greatest:
\* what that one lacks to the bound is the least.
LEMMA Extrema ==
  ASSUME NEW T, T \subseteq Nat, T # {}, NEW b \in Nat, \A n \in T : n <= b
  PROVE  /\ \E m \in T : \A n \in T : m <= n
         /\ \E m \in T : \A n \in T : n <= m
<1>1. ASSUME NEW U, U \subseteq Nat, U # {}
      PROVE  \E m \in U : \A n \in U : m <= n
  <2>1. PICK m \in U : \A n \in U : <<n, m>> \notin OpToRel(<, Nat)
    BY <1>1, NatLessThanWellFounded, WFMin, Zenon
  <2>2. SUFFICES ASSUME NEW n \in U PROVE m <= n
    BY <2>1
  <2>3. n \in Nat /\ m \in Nat
    BY <1>1
  <2>4. ~ (n < m)
    BY <2>1, <2>3 DEF OpToRel
  <2> QED BY <2>3, <2>4
<1> DEFINE R == {r \in Nat : \E k \in T : r = b - k}
<1>2. \A k \in T : b - k \in Nat
  OBVIOUS
<1>3. R \subseteq Nat /\ R # {}
  BY <1>2
<1>4. PICK r \in R : \A n \in R : r <= n
  <2> HIDE DEF R
  <2> QED BY <1>1, <1>3
<1>5. PICK m \in T : r = b - m
  BY <1>4
<1>6. ASSUME NEW n \in T PROVE n <= m
  <2>1. b - n \in R /\ b - m <= b - n
    BY <1>2, <1>4, <1>5
  <2> QED BY <2>1
<1> QED
  BY <1>1, <1>5, <1>6

\* Every id a list names has a first and a last row in it.
LEMMA FirstAndLast ==
  ASSUME NEW todos \in Seq(Row), NEW i \in Named(todos)
  PROVE  /\ FirstIndex(i, todos) \in DOMAIN todos
         /\ todos[FirstIndex(i, todos)].id = i
         /\ LastIndex(i, todos) \in DOMAIN todos
         /\ todos[LastIndex(i, todos)].id = i
<1> DEFINE S == {k \in DOMAIN todos : todos[k].id = i}
<1>1. Len(todos) \in Nat /\ DOMAIN todos = 1 .. Len(todos)
  OBVIOUS
<1>2. S \subseteq Nat /\ S # {} /\ \A k \in S : k <= Len(todos)
  BY <1>1 DEF Named
<1>3. /\ \E f \in S : \A k \in S : f <= k
      /\ \E l \in S : \A k \in S : k <= l
  <2> HIDE DEF S
  <2> QED BY <1>1, <1>2, Extrema
<1> QED
  BY <1>3 DEF FirstIndex, LastIndex

\* What replace() leaves behind is typed and agrees with its own id list.
LEMMA ReplacedWellFormed ==
  ASSUME NEW todos \in TodoLists
  PROVE  /\ ReplacedItems(todos) \in Listings
         /\ ReplacedOrder(todos) \in [Ids -> Nat]
         /\ \A i \in Ids : ReplacedOrder(todos)[i] > 0 <=> ReplacedItems(todos)[i] # None
         /\ \A i, j \in Ids :
              ReplacedOrder(todos)[i] > 0 /\ ReplacedOrder(todos)[i] = ReplacedOrder(todos)[j]
                => i = j
<1>1. todos \in Seq(Row)
  BY ListsAssumption
<1>2. ASSUME NEW k \in DOMAIN todos
      PROVE  k \in Nat /\ k > 0 /\ todos[k].status \in Statuses
  <2>1. Len(todos) \in Nat /\ DOMAIN todos = 1 .. Len(todos) /\ todos[k] \in Row
    BY <1>1
  <2> QED BY <2>1 DEF Row
<1>3. \A i \in Named(todos) :
        /\ FirstIndex(i, todos) \in DOMAIN todos
        /\ todos[FirstIndex(i, todos)].id = i
        /\ LastIndex(i, todos) \in DOMAIN todos
  BY <1>1, FirstAndLast
<1>4. ReplacedItems(todos) \in Listings
  BY <1>2, <1>3 DEF ReplacedItems, Listings
<1>5. ReplacedOrder(todos) \in [Ids -> Nat]
  BY <1>2, <1>3 DEF ReplacedOrder
<1>6. \A i \in Ids : ReplacedOrder(todos)[i] > 0 <=> ReplacedItems(todos)[i] # None
  BY <1>2, <1>3, NoneAssumption DEF ReplacedOrder, ReplacedItems
<1>7. ASSUME NEW i \in Ids, NEW j \in Ids,
             ReplacedOrder(todos)[i] > 0, ReplacedOrder(todos)[i] = ReplacedOrder(todos)[j]
      PROVE  i = j
  <2>1. i \in Named(todos) /\ j \in Named(todos)
    BY <1>7 DEF ReplacedOrder
  <2>2. FirstIndex(i, todos) = FirstIndex(j, todos)
    BY <1>7, <2>1 DEF ReplacedOrder
  <2> QED BY <1>3, <2>1, <2>2
<1> QED
  BY <1>4, <1>5, <1>6, <1>7

(***************************************************************************)
(* Type correctness and the agreement of _items and _order.                *)
(***************************************************************************)
Inv == TypeOK /\ WellFormed

LEMMA InitInv == Init => Inv
  BY DEF Init, Inv, TypeOK, WellFormed, Empty, Listings, NoCall, Calls

\* One step per action; an action of a thread that is idle has None for an id.
LEMMA NextInv == Inv /\ [Next]_vars => Inv'
<1> SUFFICES ASSUME Inv, [Next]_vars PROVE Inv'
  OBVIOUS
<1> USE DEF Inv
<1>0. NoCall \in Calls /\ Empty \in Listings /\ Listing \in Listings
  BY DEF NoCall, Calls, Empty, Listings, Listing, TypeOK
<1>1. ASSUME NEW w \in Workers, NEW todos \in TodoLists, WriteTodos(w, todos)
      PROVE  Inv'
  <2>1. [NoCall EXCEPT !.pc = "deliver", !.listing = Shown(ReplacedItems(todos))] \in Calls
    BY <1>0, ReplacedWellFormed DEF NoCall, Calls, Shown
  <2>2. TypeOK'
    BY <1>1, <2>1, ReplacedWellFormed DEF WriteTodos, TypeOK
  <2>3. WellFormed'
    BY <1>1, ReplacedWellFormed DEF WriteTodos, WellFormed
  <2> QED BY <2>2, <2>3
<1>2. ASSUME NEW w \in Workers, NEW i \in Ids, NEW s \in Statuses, UpdateTodo(w, i, s)
      PROVE  Inv'
  <2>1. TypeOK'
    <3>1. items' \in Listings
      BY <1>2 DEF UpdateTodo, UpdateRow, TypeOK, Listings
    <3>2. call' \in [Workers -> Calls]
      BY <1>2 DEF UpdateTodo, Continue, TypeOK, Calls
    <3>3. \A v \in Workers : call'[v].pc = "update" =>
                              call'[v].id \in Ids /\ call'[v].status \in HarnessStatuses
      BY <1>2 DEF UpdateTodo, Continue, TypeOK, Calls
    <3> QED
      BY <1>2, <3>1, <3>2, <3>3 DEF UpdateTodo, TypeOK
  <2>2. WellFormed'
    <3>1. /\ items' = [items EXCEPT ![i] = s] /\ order' = order
          /\ items[i] # None /\ items \in [Ids -> Statuses \cup {None}] /\ s # None
      BY <1>2, NoneAssumption DEF UpdateTodo, UpdateRow, TypeOK, Listings
    <3>2. \A j \in Ids : items'[j] # None <=> items[j] # None
      BY <3>1
    <3> QED
      BY <3>1, <3>2 DEF WellFormed
  <2> QED BY <2>1, <2>2
<1>3. ASSUME NEW w \in Workers, NEW i \in Ids, NEW s \in HarnessStatuses, AdvanceRead(w, i, s)
      PROVE  Inv'
  <2>1. [NoCall EXCEPT !.pc = "update", !.id = i, !.status = s] \in Calls
    BY <1>0 DEF NoCall, Calls
  <2> QED
    BY <1>3, <2>1 DEF AdvanceRead, TypeOK, WellFormed
<1>4. ASSUME NEW w \in Workers, AdvanceUpdate(w)
      PROVE  Inv'
  <2>1. call[w].id \in Ids /\ call[w].status \in Statuses
    BY <1>4 DEF AdvanceUpdate, TypeOK, Statuses, HarnessStatuses
  <2>2. TypeOK'
    <3>1. items' \in Listings
      BY <1>4, <2>1 DEF AdvanceUpdate, UpdateRow, TypeOK, Listings
    <3>2. call' \in [Workers -> Calls]
      BY <1>4 DEF AdvanceUpdate, Continue, TypeOK, Calls
    <3>3. \A v \in Workers : call'[v].pc = "update" =>
                              call'[v].id \in Ids /\ call'[v].status \in HarnessStatuses
      BY <1>4 DEF AdvanceUpdate, Continue, TypeOK, Calls
    <3> QED
      BY <1>4, <3>1, <3>2, <3>3 DEF AdvanceUpdate, TypeOK
  <2>3. WellFormed'
    BY <1>4, <2>1, NoneAssumption DEF AdvanceUpdate, UpdateRow, WellFormed, TypeOK, Listings
  <2> QED BY <2>2, <2>3
<1>5. ASSUME NEW w \in Workers, AdvanceKeyError(w)
      PROVE  Inv'
  BY <1>0, <1>5 DEF AdvanceKeyError, Return, TypeOK, WellFormed, NoCall
<1>6. ASSUME NEW w \in Workers, ListItems(w)
      PROVE  Inv'
  BY <1>0, <1>6 DEF ListItems, Shown, TypeOK, WellFormed, Calls
<1>7. ASSUME NEW w \in Workers, Deliver(w)
      PROVE  Inv'
  <2>1. call[w].listing \in Listings
    BY DEF TypeOK, Calls
  <2> QED
    BY <1>0, <1>7, <2>1 DEF Deliver, Return, TypeOK, WellFormed, NoCall
<1>8. ASSUME NEW w \in Workers, Reset(w)
      PROVE  Inv'
  <2>1. items' \in Listings /\ order' \in [Ids -> Nat] /\ panel' \in Listings
    BY <1>0, <1>8 DEF Reset, TypeOK
  <2>2. TypeOK'
    BY <1>8, <2>1 DEF Reset, Continue, TypeOK, Calls
  <2>3. WellFormed'
    BY <1>8 DEF Reset, WellFormed, Empty
  <2> QED BY <2>2, <2>3
<1>9. ASSUME UNCHANGED vars PROVE Inv'
  BY <1>9 DEF vars, TypeOK, WellFormed
<1> QED
  BY <1>1, <1>2, <1>3, <1>4, <1>5, <1>6, <1>7, <1>8, <1>9
     DEF Next, Step, Resume, WriteRejected, UpdateRejected, AdvanceSkipped

\* The ledger is typed, and its id list and row table agree, for any number of
\* threads inside the store (TodoStore's replace, update and reset).
THEOREM LedgerWellFormed == Spec => [](TypeOK /\ WellFormed)
<1>1. Init => Inv
  BY InitInv
<1>2. Inv /\ [Next]_vars => Inv'
  BY NextInv
<1> QED
  BY <1>1, <1>2, PTL DEF Spec, Inv

\* The store, the panel and the threads' records keep their types.
THEOREM TypeCorrect == Spec => []TypeOK
BY LedgerWellFormed, PTL

(***************************************************************************)
(* What a step may never do.                                               *)
(***************************************************************************)

\* A row that is completed or verify_failed leaves the ledger only when the
\* whole ledger is reset: TodoStore.replace's rejection, for every interleaving.
THEOREM TerminalRowsAreKept == Spec => TerminalRowsKept
<1> DEFINE Kept == \A i \in Ids : items[i] \in Terminal /\ items'[i] = None => items' = Empty
<1>1. Inv /\ [Next]_vars => Kept \/ UNCHANGED vars
  <2> SUFFICES ASSUME Inv, Next, NEW i \in Ids, items[i] \in Terminal, items'[i] = None
               PROVE  items' = Empty
    BY DEF vars, Inv, TypeOK
  <2>1. i \in TerminalIds /\ items[i] # None
    BY NoneAssumption DEF Inv, WellFormed, TerminalIds, Terminal, Statuses
  <2>2. CASE \E w \in Workers, todos \in TodoLists : WriteTodos(w, todos)
    BY <2>1, <2>2 DEF WriteTodos
  <2>3. CASE \E w \in Workers, j \in Ids, s \in Statuses : UpdateTodo(w, j, s)
    BY <2>1, <2>3, NoneAssumption DEF UpdateTodo, UpdateRow, Inv, TypeOK, Listings
  <2>4. CASE \E w \in Workers : AdvanceUpdate(w)
    <3>1. PICK w \in Workers : AdvanceUpdate(w)
      BY <2>4
    <3>2. call[w].status \in Statuses /\ call[w].id \in Ids
      BY <3>1 DEF AdvanceUpdate, Inv, TypeOK, HarnessStatuses, Statuses
    <3> QED
      BY <2>1, <3>1, <3>2, NoneAssumption DEF AdvanceUpdate, UpdateRow, Inv, TypeOK, Listings
  <2>5. CASE \E w \in Workers : Reset(w)
    BY <2>5 DEF Reset
  <2>6. CASE items' = items
    BY <2>1, <2>6
  <2> QED
    BY <2>2, <2>3, <2>4, <2>5, <2>6
       DEF Next, Step, Resume, WriteRejected, UpdateRejected, AdvanceSkipped, AdvanceRead,
           AdvanceKeyError, ListItems, Deliver, vars
<1>2. Inv /\ [Next]_vars => [Kept]_vars
  BY <1>1
<1> QED
  BY LedgerWellFormed, <1>2, PTL DEF Spec, Inv, TerminalRowsKept

\* A thread that decided to advance a row does not re-create it when the row
\* left the ledger in between (TodoStore.update's KeyError).
THEOREM AdvancesReviveNothing == Spec => AdvanceNeverRevives
<1> DEFINE NoRevival ==
      \A w \in Workers : call[w].pc = "update" /\ call'[w] # call[w]
        => \A i \in Ids : items[i] = None => items'[i] = None
<1>1. ASSUME Inv, Next PROVE NoRevival
  <2> SUFFICES ASSUME NEW w \in Workers, call[w].pc = "update", call'[w] # call[w],
                      NEW i \in Ids, items[i] = None
               PROVE  items'[i] = None
    OBVIOUS
  <2>1. PICK v \in Workers : Step(v)
    BY <1>1 DEF Next, vars
  <2>2. v = w
    BY <1>1, <2>1 DEF Step, Resume, WriteRejected, WriteTodos, UpdateRejected, UpdateTodo,
         AdvanceSkipped, AdvanceRead, AdvanceUpdate, AdvanceKeyError, ListItems, Deliver,
         Reset, Continue, Return, vars, Inv, TypeOK
  <2>3. AdvanceUpdate(w) \/ AdvanceKeyError(w)
    BY <2>1, <2>2 DEF Step, Resume, Idle, WriteRejected, WriteTodos, UpdateRejected,
         UpdateTodo, AdvanceSkipped, AdvanceRead, ListItems, Deliver, Reset
  <2>4. CASE AdvanceUpdate(w)
    <3>1. call[w].id \in Ids
      BY <1>1 DEF Inv, TypeOK
    <3> QED BY <1>1, <2>4, <3>1 DEF AdvanceUpdate, UpdateRow, Inv, TypeOK, Listings
  <2>5. CASE AdvanceKeyError(w)
    BY <2>5 DEF AdvanceKeyError
  <2> QED
    BY <2>3, <2>4, <2>5
<1>2. Inv /\ [Next]_vars => [NoRevival]_vars
  BY <1>1
<1> QED
  BY LedgerWellFormed, <1>2, PTL DEF Spec, Inv, AdvanceNeverRevives

(***************************************************************************)
(* With a single thread in the ledger the calls are atomic.                *)
(***************************************************************************)
SingleThread == \A v, w \in Workers : v = w

\* What the thread read still holds when it updates the row.
DecisionHolds ==
  \A w \in Workers : call[w].pc = "update" => Advances(call[w].id, call[w].status)

SInv == Inv /\ DecisionHolds

\* In a well-formed store the listing is the row table.
LEMMA ListingIsItems == Inv => Listing = items
  BY DEF Inv, TypeOK, WellFormed, Listings, Listing

\* Only the thread itself runs between its read and its update.
LEMMA NextSInv ==
  ASSUME SingleThread, SInv, [Next]_vars
  PROVE  SInv'
<1>1. Inv'
  BY NextInv DEF SInv
<1>2. ASSUME NEW w \in Workers, (call[w].pc = "update")'
      PROVE  Advances(call[w].id, call[w].status)'
  <2>1. CASE UNCHANGED vars
    BY <1>2, <2>1 DEF vars, SInv, DecisionHolds, Advances, Listing
  <2>2. CASE Step(w)
    <3>1. CASE \E i \in Ids, s \in HarnessStatuses : AdvanceRead(w, i, s)
      BY <3>1 DEF AdvanceRead, SInv, Inv, TypeOK, Advances, Listing, NoCall
    <3>2. ASSUME \/ \E todos \in TodoLists : WriteTodos(w, todos)
                 \/ \E i \in Ids, s \in Statuses : UpdateTodo(w, i, s)
                 \/ AdvanceUpdate(w)
                 \/ Reset(w)
          PROVE  FALSE
      BY <1>2, <3>2 DEF WriteTodos, UpdateTodo, AdvanceUpdate, Reset, Continue, NoCall,
                        SInv, Inv, TypeOK, Calls
    <3>3. ASSUME AdvanceKeyError(w) \/ ListItems(w) \/ Deliver(w)
          PROVE  FALSE
      BY <1>2, <3>3 DEF AdvanceKeyError, ListItems, Deliver, Return, NoCall,
                        SInv, Inv, TypeOK, Calls
    <3> QED
      BY <2>1, <2>2, <3>1, <3>2, <3>3
         DEF Step, Resume, WriteRejected, UpdateRejected, AdvanceSkipped
  <2> QED
    BY <2>1, <2>2 DEF Next, SingleThread
<1> QED
  BY <1>1, <1>2 DEF SInv, DecisionHolds

\* Taken one call at a time, TodoLedger implements AtomicLedger: each of its
\* steps is one atomic operation on the rows, or changes no row.
THEOREM LedgerRefinesAtomicLedger ==
  ASSUME SingleThread
  PROVE  Spec => RefinesAtomicLedger
<1>1. Init => SInv /\ Abstract!Init
  <2> SUFFICES ASSUME Init PROVE SInv /\ Abstract!Init
    OBVIOUS
  <2>1. Inv
    BY InitInv
  <2> QED
    BY <2>1, ListingIsItems DEF Init, SInv, DecisionHolds, NoCall, Empty, Abstract!Init, Abstract!Empty
<1>2. ASSUME SInv, SInv', [Next]_vars
      PROVE  [Abstract!Next]_Listing
  <2>0. Listing = items /\ Listing' = items'
    BY <1>2 DEF SInv, Inv, TypeOK, WellFormed, Listings, Listing
  <2>1. CASE UNCHANGED vars
    BY <2>0, <2>1 DEF vars
  <2>2. ASSUME NEW w \in Workers, NEW todos \in TodoLists, WriteTodos(w, todos)
        PROVE  Abstract!Write
    <3>1. items' \in Abstract!Tables
      BY <1>2 DEF SInv, Inv, TypeOK, Listings, Abstract!Tables
    <3>2. \A i \in Ids : items[i] \notin Terminal
      BY <1>2, <2>2, NoneAssumption
         DEF WriteTodos, TerminalIds, SInv, Inv, WellFormed, Terminal, Statuses
    <3>3. todos \in Seq(Row) /\ 1 \in DOMAIN todos /\ todos[1] \in Row
      <4>1. todos \in Seq(Row) /\ todos # <<>>
        BY ListsAssumption
      <4>2. Len(todos) \in Nat /\ Len(todos) > 0 /\ DOMAIN todos = 1 .. Len(todos)
        BY <4>1
      <4> QED BY <4>1, <4>2
    <3>4. todos[1].id \in Ids /\ todos[1].id \in Named(todos)
      BY <3>3 DEF Row, Named
    <3>5. ReplacedItems(todos)[todos[1].id] # None
      <4>1. LastIndex(todos[1].id, todos) \in DOMAIN todos
        BY <3>3, <3>4, FirstAndLast
      <4>2. todos[LastIndex(todos[1].id, todos)] \in Row
        BY <3>3, <4>1
      <4> QED BY <3>4, <4>2, NoneAssumption DEF ReplacedItems, Row
    <3> QED
      BY <2>0, <2>2, <3>1, <3>2, <3>4, <3>5 DEF WriteTodos, Abstract!Write, Abstract!Empty
  <2>3. ASSUME NEW w \in Workers, NEW i \in Ids, NEW s \in Statuses, UpdateTodo(w, i, s)
        PROVE  Abstract!Update
    BY <2>0, <2>3 DEF UpdateTodo, UpdateRow, Abstract!Update
  <2>4. ASSUME NEW w \in Workers, AdvanceUpdate(w)
        PROVE  Abstract!Advance
    <3>1. call[w].id \in Ids /\ call[w].status \in HarnessStatuses
      BY <1>2, <2>4 DEF AdvanceUpdate, SInv, Inv, TypeOK
    <3>2. items[call[w].id] \notin {None, call[w].status, "completed"}
      BY <1>2, <2>0, <2>4 DEF AdvanceUpdate, SInv, DecisionHolds, Advances
    <3> QED
      BY <2>0, <2>4, <3>1, <3>2 DEF AdvanceUpdate, UpdateRow, HarnessStatuses, Abstract!Advance
  <2>5. ASSUME NEW w \in Workers, Reset(w)
        PROVE  Abstract!Clear
    BY <2>0, <2>5 DEF Reset, Empty, Abstract!Clear, Abstract!Empty
  <2>6. CASE items' = items
    BY <2>0, <2>6
  <2> QED
    BY <1>2, <2>1, <2>2, <2>3, <2>4, <2>5, <2>6
       DEF Next, Step, Resume, WriteRejected, UpdateRejected, AdvanceSkipped, AdvanceRead,
           AdvanceKeyError, ListItems, Deliver, vars, Abstract!Next
<1>3. SInv /\ [Next]_vars => SInv'
  BY NextSInv
<1> QED
  BY <1>1, <1>2, <1>3, PTL DEF Spec, RefinesAtomicLedger, Abstract!Spec

(***************************************************************************)
(* With a single thread in the ledger the panel is right between calls.    *)
(***************************************************************************)

\* A call that has changed no row yet finds the panel right; one that is about to
\* deliver holds the rows as they are.
PanelFollows ==
  PanelAttached =>
    /\ (\A w \in Workers : call[w].pc \in {"idle", "update"}) => panel = items
    /\ \A w \in Workers : call[w].pc = "deliver" => call[w].listing = items

PInv == Inv /\ PanelFollows

\* Only the thread's own record is left to look at.
LEMMA PanelStep ==
  ASSUME SingleThread, PInv, NEW w \in Workers, Step(w), PanelAttached
  PROVE  /\ call'[w].pc \in {"idle", "update"} => panel' = items'
         /\ call'[w].pc = "deliver" => call'[w].listing = items'
<1>1. /\ call \in [Workers -> Calls] /\ \A v \in Workers : v = w
      /\ Listing = items
      /\ call[w].pc \in {"idle", "update"} => panel = items
      /\ call[w].pc = "deliver" => call[w].listing = items
  BY ListingIsItems DEF PInv, PanelFollows, Inv, TypeOK, SingleThread
<1>2. CASE UNCHANGED vars
  BY <1>1, <1>2 DEF vars
<1>3. ASSUME NEW todos \in TodoLists, WriteTodos(w, todos)
      PROVE  call'[w].pc = "deliver" /\ call'[w].listing = items'
  BY <1>1, <1>3 DEF WriteTodos, Shown, NoCall
<1>4. CASE \/ \E i \in Ids, s \in Statuses : UpdateTodo(w, i, s)
           \/ AdvanceUpdate(w) \/ Reset(w)
  <2>1. call'[w].pc = "list"
    BY <1>1, <1>4 DEF UpdateTodo, AdvanceUpdate, Reset, Continue, Calls
  <2> QED BY <2>1
<1>5. CASE \E i \in Ids, s \in HarnessStatuses : AdvanceRead(w, i, s)
  <2>1. call'[w].pc = "update" /\ items' = items /\ panel' = panel /\ call[w].pc = "idle"
    BY <1>1, <1>5 DEF AdvanceRead, NoCall, Idle
  <2> QED BY <1>1, <2>1
<1>6. CASE AdvanceKeyError(w)
  <2>1. call'[w].pc = "idle" /\ items' = items /\ panel' = panel /\ call[w].pc = "update"
    BY <1>1, <1>6 DEF AdvanceKeyError, Return, NoCall
  <2> QED BY <1>1, <2>1
<1>7. CASE ListItems(w)
  <2>1. call'[w].pc = "deliver" /\ call'[w].listing = Listing /\ items' = items
    BY <1>1, <1>7 DEF ListItems, Shown, Calls
  <2> QED BY <1>1, <2>1
<1>8. CASE Deliver(w)
  <2>1. call'[w].pc = "idle" /\ panel' = call[w].listing /\ items' = items /\ call[w].pc = "deliver"
    BY <1>1, <1>8 DEF Deliver, Return, NoCall
  <2> QED BY <1>1, <2>1
<1> QED
  BY <1>2, <1>3, <1>4, <1>5, <1>6, <1>7, <1>8
     DEF Step, Resume, WriteRejected, UpdateRejected, AdvanceSkipped

LEMMA NextPInv ==
  ASSUME SingleThread, PInv, [Next]_vars
  PROVE  PInv'
<1>1. Inv'
  BY NextInv DEF PInv
<1>2. CASE UNCHANGED vars
  BY <1>1, <1>2 DEF vars, PInv, PanelFollows
<1>3. ASSUME NEW w \in Workers, Step(w) PROVE PInv'
  <2>1. \A v \in Workers : v = w
    BY DEF SingleThread
  <2>2. PanelFollows'
    BY <1>3, <2>1, PanelStep DEF PanelFollows
  <2> QED BY <1>1, <2>2 DEF PInv
<1> QED
  BY <1>2, <1>3 DEF Next

\* With a single thread in the ledger, the CLI's panel shows the ledger whenever no
\* call is in progress, for every list and however rows are advanced and reset.
THEOREM PanelIsRight ==
  ASSUME SingleThread
  PROVE  Spec => []PanelShowsLedger
<1>1. Init => PInv
  <2> SUFFICES ASSUME Init PROVE PInv
    OBVIOUS
  <2>1. Inv
    BY InitInv
  <2>2. PanelFollows
    BY DEF Init, PanelFollows, NoCall
  <2> QED BY <2>1, <2>2 DEF PInv
<1>2. PInv /\ [Next]_vars => PInv'
  BY NextPInv
<1>3. PInv => PanelShowsLedger
  <2> SUFFICES ASSUME PInv, PanelAttached, \A w \in Workers : Idle(w)
               PROVE  panel = Listing
    BY DEF PanelShowsLedger
  <2>1. Listing = items
    BY ListingIsItems DEF PInv
  <2>2. \A w \in Workers : call[w].pc \in {"idle", "update"}
    BY DEF Idle
  <2> QED BY <2>1, <2>2 DEF PInv, PanelFollows
<1> QED
  BY <1>1, <1>2, <1>3, PTL DEF Spec
=============================================================================
