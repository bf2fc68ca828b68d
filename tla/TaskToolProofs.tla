---------------------------- MODULE TaskToolProofs ----------------------------
(***************************************************************************)
(* Proofs about TaskTool for every set of ids, threads, agent types and    *)
(* todo lists, and every number of rounds.                                 *)
(***************************************************************************)
EXTENDS TaskTool, WellFoundedInduction, TLAPS

(***************************************************************************)
(* The ledger's part of a step.                                            *)
(***************************************************************************)

\* A nonempty set of naturals that has a bound has a least element and a greatest:
\* what that one lacks to the bound is the least.
LEMMA Extrema ==
  ASSUME NEW T, T \subseteq Nat, T # {}, NEW b \in Nat, \A n \in T : n <= b
  PROVE  /\ \E m \in T : \A n \in T : m <= n
         /\ \E m \in T : \A n \in T : n <= m
<1>1. ASSUME NEW U, U \subseteq Nat, U # {}
      PROVE  \E m \in U : \A n \in U : m <= n
  <2>1. PICK m \in U : \A n \in U : <<n, m>> \notin OpToRel(<, Nat)
    BY <1>1, NatLessThanWellFounded, WFMin, Zenon
  <2>2. SUFFICES ASSUME NEW n \in U PROVE m <= n
    BY <2>1
  <2>3. n \in Nat /\ m \in Nat
    BY <1>1
  <2>4. ~ (n < m)
    BY <2>1, <2>3 DEF OpToRel
  <2> QED BY <2>3, <2>4
<1> DEFINE R == {r \in Nat : \E k \in T : r = b - k}
<1>2. \A k \in T : b - k \in Nat
  OBVIOUS
<1>3. R \subseteq Nat /\ R # {}
  BY <1>2
<1>4. PICK r \in R : \A n \in R : r <= n
  <2> HIDE DEF R
  <2> QED BY <1>1, <1>3
<1>5. PICK m \in T : r = b - m
  BY <1>4
<1>6. ASSUME NEW n \in T PROVE n <= m
  <2>1. b - n \in R /\ b - m <= b - n
    BY <1>2, <1>4, <1>5
  <2> QED BY <2>1
<1> QED
  BY <1>1, <1>5, <1>6

\* Every id a list names has a first and a last row in it.
LEMMA NamedRows ==
  ASSUME NEW todos \in TodoLists, NEW i \in L!Named(todos)
  PROVE  /\ L!FirstIndex(i, todos) \in Nat \ {0}
         /\ todos[L!LastIndex(i, todos)].status \in L!Statuses
<1> DEFINE S == {k \in DOMAIN todos : todos[k].id = i}
<1>1. todos \in Seq(L!Row)
  BY LedgerAssumption
<1>2. /\ Len(todos) \in Nat /\ DOMAIN todos = 1 .. Len(todos)
      /\ \A k \in DOMAIN todos : todos[k].status \in L!Statuses
  <2>1. \A k \in DOMAIN todos : todos[k] \in L!Row
    BY <1>1
  <2> QED BY <1>1, <2>1 DEF L!Row
<1>3. S \subseteq Nat /\ S # {} /\ \A k \in S : k <= Len(todos)
  BY <1>2 DEF L!Named
<1>4. /\ \E f \in S : \A k \in S : f <= k
      /\ \E l \in S : \A k \in S : k <= l
  <2> HIDE DEF S
  <2> QED BY <1>2, <1>3, Extrema
<1>5. L!FirstIndex(i, todos) \in DOMAIN todos /\ L!LastIndex(i, todos) \in DOMAIN todos
  BY <1>4 DEF L!FirstIndex, L!LastIndex
<1> QED
  BY <1>2, <1>5

\* What replace() leaves behind has its type, and the two tables agree.
LEMMA Replaced ==
  ASSUME NEW todos \in TodoLists
  PROVE  /\ L!ReplacedItems(todos) \in L!Listings
         /\ L!ReplacedOrder(todos) \in [Ids -> Nat]
         /\ \A i \in Ids : L!ReplacedOrder(todos)[i] > 0 <=> L!ReplacedItems(todos)[i] # None
<1>1. L!ReplacedItems(todos) \in L!Listings
  BY NamedRows DEF L!ReplacedItems, L!Listings
<1>2. L!ReplacedOrder(todos) \in [Ids -> Nat]
  BY NamedRows DEF L!ReplacedOrder
<1>3. ASSUME NEW i \in Ids
      PROVE  L!ReplacedOrder(todos)[i] > 0 <=> L!ReplacedItems(todos)[i] # None
  <2>1. CASE i \in L!Named(todos)
    <3>1. L!FirstIndex(i, todos) > 0 /\ todos[L!LastIndex(i, todos)].status # None
      BY <2>1, NamedRows, LedgerAssumption
    <3> QED BY <2>1, <3>1 DEF L!ReplacedOrder, L!ReplacedItems
  <2>2. CASE i \notin L!Named(todos)
    BY <2>2 DEF L!ReplacedOrder, L!ReplacedItems
  <2> QED BY <2>1, <2>2
<1> QED
  BY <1>1, <1>2, <1>3

\* What a step of _auto_advance_todo up to its decision does.
LEMMA Advanced ==
  ASSUME L!TypeOK, NEW w \in Workers, NEW i \in Ids \cup {None}, NEW s \in L!HarnessStatuses,
         Advance(w, i, s)
  PROVE  /\ UNCHANGED <<items, order, panel>>
         /\ L!TypeOK'
         /\ \A v \in Workers \ {w} : call'[v] = call[v]
         /\ \/ call' = call /\ (i = None \/ (L!Idle(w) /\ ~ L!Advances(i, s)))
            \/ /\ i \in Ids /\ L!Idle(w)
               /\ call'[w].pc = "update" /\ call'[w].id = i /\ call'[w].status = s
<1>1. CASE UNCHANGED ledgerVars
  <2>1. i = None \/ (L!Idle(w) /\ ~ L!Advances(i, s)) \/ L!AdvanceRead(w, i, s)
    BY DEF Advance, L!AdvanceSkipped
  <2>2. ~ L!AdvanceRead(w, i, s)
    <3> SUFFICES ASSUME L!AdvanceRead(w, i, s) PROVE FALSE
      OBVIOUS
    <3>1. call'[w].pc = "update" /\ call[w].pc = "idle"
      BY DEF L!AdvanceRead, L!Idle, L!TypeOK, L!NoCall
    <3> QED BY <1>1, <3>1 DEF ledgerVars
  <2>3. L!TypeOK'
    BY <1>1 DEF ledgerVars, L!TypeOK
  <2> QED BY <1>1, <2>1, <2>2, <2>3 DEF ledgerVars
<1>2. CASE i # None /\ L!AdvanceRead(w, i, s)
  <2> DEFINE c == [L!NoCall EXCEPT !.pc = "update", !.id = i, !.status = s]
  <2>1. c \in L!Calls /\ c.pc = "update" /\ c.id = i /\ c.status = s
    BY DEF L!NoCall, L!Calls, L!Listings, L!Empty
  <2>2. call' = [call EXCEPT ![w] = c] /\ UNCHANGED <<items, order, panel>> /\ L!Idle(w)
    BY <1>2 DEF L!AdvanceRead
  <2>3. i \in Ids
    BY <1>2
  <2> HIDE DEF c
  <2>4. call'[w] = c /\ \A v \in Workers \ {w} : call'[v] = call[v]
    BY <2>2 DEF L!TypeOK
  <2>5. L!TypeOK'
    BY <2>1, <2>2, <2>3, <2>4 DEF L!TypeOK
  <2> QED BY <2>1, <2>2, <2>3, <2>4, <2>5
<1> QED
  BY <1>1, <1>2 DEF Advance, L!AdvanceSkipped, L!vars, ledgerVars

\* What a planner's write_todos does.
LEMMA Written ==
  ASSUME L!TypeOK, NEW w \in Workers, NEW todos \in TodoLists, L!WriteTodos(w, todos)
  PROVE  /\ L!TypeOK'
         /\ items' = L!ReplacedItems(todos) /\ order' = L!ReplacedOrder(todos)
         /\ \A v \in Workers \ {w} : call'[v] = call[v]
         /\ L!Idle(w) /\ call'[w].pc = "deliver"
<1> DEFINE c == [L!NoCall EXCEPT !.pc = "deliver", !.listing = L!Shown(L!ReplacedItems(todos))]
<1>1. L!Shown(L!ReplacedItems(todos)) \in L!Listings
  BY Replaced, LedgerAssumption DEF L!Shown, L!Listings, L!Empty
<1>2. c \in L!Calls /\ c.pc = "deliver"
  BY <1>1 DEF L!NoCall, L!Calls
<1>3. call' = [call EXCEPT ![w] = c] /\ L!Idle(w) /\ panel' = panel
      /\ items' = L!ReplacedItems(todos) /\ order' = L!ReplacedOrder(todos)
  BY DEF L!WriteTodos
<1> HIDE DEF c
<1>4. call'[w] = c /\ \A v \in Workers \ {w} : call'[v] = call[v]
  BY <1>3 DEF L!TypeOK
<1>5. L!TypeOK'
  BY <1>2, <1>3, <1>4, Replaced DEF L!TypeOK
<1> QED
  BY <1>2, <1>3, <1>4, <1>5

\* What a later step of a ledger call does.
LEMMA Resumed ==
  ASSUME L!TypeOK, NEW w \in Workers, L!Resume(w)
  PROVE  /\ L!TypeOK' /\ order' = order
         /\ \A v \in Workers \ {w} : call'[v] = call[v]
         /\ ~ L!Idle(w) /\ call'[w].pc # "update"
         /\ \/ items' = items /\ call[w].pc # "update"
            \/ items' = items /\ items[call[w].id] = None /\ L!Idle(w)'
            \/ /\ call[w].pc = "update" /\ call[w].id \in Ids /\ items[call[w].id] # None
               /\ items' = [items EXCEPT ![call[w].id] = call[w].status]
<1> USE DEF L!TypeOK
<1>0. L!NoCall \in L!Calls /\ L!NoCall.pc = "idle" /\ L!Empty \in L!Listings
  BY DEF L!NoCall, L!Calls, L!Empty, L!Listings
<1>1. CASE L!AdvanceUpdate(w)
  <2>1. call' = [call EXCEPT ![w].pc = "list"]
    BY <1>1 DEF L!AdvanceUpdate, L!Continue
  <2>2. call'[w].pc = "list" /\ call' \in [Workers -> L!Calls]
        /\ \A v \in Workers \ {w} : call'[v] = call[v]
    BY <2>1 DEF L!Calls
  <2>3. call[w].id \in Ids /\ call[w].status \in L!Statuses
    BY <1>1 DEF L!AdvanceUpdate, L!HarnessStatuses, L!Statuses
  <2>4. items' = [items EXCEPT ![call[w].id] = call[w].status]
        /\ items' \in L!Listings /\ items[call[w].id] # None /\ call[w].pc = "update"
        /\ UNCHANGED <<order, panel>>
    BY <1>1, <2>3 DEF L!AdvanceUpdate, L!UpdateRow, L!Listings
  <2>5. L!TypeOK'
    BY <2>2, <2>4
  <2> QED BY <2>2, <2>3, <2>4, <2>5 DEF L!Idle
<1>2. CASE L!AdvanceKeyError(w) \/ L!Deliver(w)
  <2>1. call' = [call EXCEPT ![w] = L!NoCall] /\ UNCHANGED <<items, order>>
        /\ panel' \in L!Listings /\ call[w].pc \in {"update", "deliver"}
        /\ (call[w].pc = "update" => items[call[w].id] = None)
    BY <1>2, LedgerAssumption DEF L!AdvanceKeyError, L!Deliver, L!Return, L!Calls
  <2>2. call'[w].pc = "idle" /\ call' \in [Workers -> L!Calls]
        /\ \A v \in Workers \ {w} : call'[v] = call[v]
    BY <1>0, <2>1
  <2>3. L!TypeOK'
    BY <2>1, <2>2
  <2> QED BY <2>1, <2>2, <2>3 DEF L!Idle
<1>3. CASE L!ListItems(w)
  <2>1. L!Shown(L!Listing) \in L!Listings
    BY <1>0, LedgerAssumption DEF L!Shown, L!Listing, L!Listings
  <2>2. call' \in [Workers -> L!Calls] /\ call'[w].pc = "deliver" /\ call[w].pc = "list"
        /\ UNCHANGED <<items, order, panel>> /\ \A v \in Workers \ {w} : call'[v] = call[v]
    BY <1>3, <2>1 DEF L!ListItems, L!Calls
  <2>3. L!TypeOK'
    BY <2>2
  <2> QED BY <2>2, <2>3 DEF L!Idle
<1> QED
  BY <1>1, <1>2, <1>3 DEF L!Resume
(***************************************************************************)
(* Types.                                                                  *)
(***************************************************************************)

\* In the chain the role is the one the chain called, and a fixer is called only
\* while a round is left for the verifier after it.
OneRound(d) ==
  d.attempt > 0 => /\ d.type \in {"verifier", "fixer"} /\ d.role = d.type
                   /\ d.type = "fixer" => d.attempt < MaxAttempts

Chain == \A w \in Workers : OneRound(dlg[w])

Types == TypeOK /\ Chain

LEMMA Records ==
  /\ NoDelegation \in Delegations /\ OneRound(NoDelegation)
  /\ NoDelegation.pc = "idle" /\ NoDelegation.attempt = 0
  /\ NoOutcome \in Outcomes
  BY AttemptsAssumption, CapAssumption DEF NoDelegation, Delegations, NoOutcome, Outcomes, Pcs, OneRound

LEMMA InitTypes == Init => Types
<1> SUFFICES ASSUME Init PROVE Types
  OBVIOUS
<1>1. L!TypeOK
  BY DEF Init, L!Init, L!TypeOK, L!Empty, L!Listings, L!NoCall, L!Calls
<1>2. dlg \in [Workers -> Delegations] /\ Chain
  BY Records DEF Init, Chain
<1> QED
  BY <1>1, <1>2, CapAssumption DEF Init, Types, TypeOK

\* A step that gives thread w a new delegation record.
LEMMA NewRecord ==
  ASSUME Types, NEW w \in Workers, NEW d \in Delegations, OneRound(d),
         dlg' = [dlg EXCEPT ![w] = d]
  PROVE  /\ dlg' \in [Workers -> Delegations] /\ Chain'
         /\ dlg'[w] = d /\ \A v \in Workers \ {w} : dlg'[v] = dlg[v]
<1>1. dlg'[w] = d /\ \A v \in Workers \ {w} : dlg'[v] = dlg[v]
  BY DEF Types, TypeOK
<1>2. Chain'
  BY <1>1 DEF Types, Chain, OneRound
<1> QED
  BY <1>1, <1>2 DEF Types, TypeOK

\* What every step of thread w leaves alone.
Framed(w) == \A v \in Workers \ {w} : dlg'[v] = dlg[v] /\ call'[v] = call[v]

\* What is left of a cut text names an id or none.
LEMMA CutIds == \A i : CutText(i) \subseteq Ids \cup {None}
  BY ClippedAssumption DEF CutText

\* Steps that touch neither the ledger nor the shared tables but CountStore's.
LEMMA OwnSteps ==
  ASSUME Types, NEW w \in Workers,
         \/ \E type \in AgentTypes, role \in Roles, i \in Ids \cup {None} :
              Delegate(w, type, role, i)
         \/ FixerCapped(w) \/ FixerAllowed(w) \/ AttachEvidence(w)
         \/ CountRead(w) \/ CountStore(w) \/ RoleRaises(w) \/ Return(w)
         \/ ChainEnds(w) \/ Finish(w)
  PROVE  Types' /\ Framed(w)
<1> DEFINE d == dlg[w]
<1>1. d \in Delegations /\ OneRound(d) /\ L!TypeOK
  BY DEF Types, TypeOK, Chain
<1>2. UNCHANGED <<ledgerVars, evidence>>
  BY DEF Delegate, FixerCapped, FixerAllowed, AttachEvidence, CountRead, CountStore, RoleRaises,
         Return, ChainEnds, Finish
<1>3. attempts' \in [Keys -> 0 .. CountCeiling]
  <2>1. CASE CountStore(w)
    <3>1. d.count \in 0 .. CountCeiling
      BY <1>1 DEF Delegations
    <3>2. Bump(d.count) \in 0 .. CountCeiling
      BY <3>1, CapAssumption DEF Bump
    <3> QED BY <2>1, <3>2 DEF CountStore, Types, TypeOK
  <2>2. CASE attempts' = attempts
    BY <2>2 DEF Types, TypeOK
  <2> QED
    BY <2>1, <2>2 DEF Delegate, FixerCapped, FixerAllowed, AttachEvidence, CountRead, RoleRaises,
       Return, ChainEnds, Finish
<1>4. PICK e \in Delegations : OneRound(e) /\ dlg' = [dlg EXCEPT ![w] = e]
  <2>1. CASE \E type \in AgentTypes, role \in Roles, i \in Ids \cup {None} :
               Delegate(w, type, role, i)
    <3>1. PICK type \in AgentTypes, role \in Roles, i \in Ids \cup {None} :
                 Delegate(w, type, role, i)
      BY <2>1
    <3> DEFINE at == IF role = "fixer" THEN "cap" ELSE "start"
               e == [NoDelegation EXCEPT !.pc = at, !.type = type, !.resolved = role,
                                         !.role = role, !.id = i, !.descId = i]
    <3>0. at \in Pcs /\ type \in Roles \cup {"auto"}
      BY TypesAssumption DEF Pcs
    <3>3. dlg' = [dlg EXCEPT ![w] = e]
      BY <3>1 DEF Delegate
    <3> HIDE DEF at
    <3>4. NoDelegation \in Delegations /\ NoDelegation.attempt = 0
      BY Records
    <3>5. e \in Delegations /\ e.attempt = NoDelegation.attempt
      BY <3>0, <3>4 DEF Delegations
    <3> HIDE DEF e
    <3>2. e \in Delegations /\ OneRound(e)
      BY <3>4, <3>5 DEF OneRound
    <3> QED BY <3>2, <3>3
  <2>2. CASE FixerCapped(w) \/ Return(w) \/ Finish(w) \/ (RoleRaises(w) /\ ~ d.attempt > 0)
    BY <2>2, Records DEF FixerCapped, Return, Finish, RoleRaises
  <2>3. CASE FixerAllowed(w)
    <3> DEFINE e == [d EXCEPT !.pc = "evidence"]
    <3>1. e \in Delegations /\ OneRound(e)
      <4>1. e \in Delegations
        BY <1>1 DEF Delegations, Pcs
      <4>2. e.attempt = d.attempt /\ e.type = d.type /\ e.role = d.role
        BY <1>1 DEF Delegations
      <4> HIDE DEF e
      <4> QED BY <1>1, <4>1, <4>2 DEF OneRound
    <3> QED BY <2>3, <3>1 DEF FixerAllowed, Goto
  <2>4. CASE AttachEvidence(w)
    <3>0. PICK shown \in CutText(evidence) :
            dlg' = [dlg EXCEPT ![w].pc = "start", ![w].descId = FirstId(shown, d.id)]
      BY <2>4 DEF AttachEvidence
    <3> DEFINE i == FirstId(shown, d.id)
               e == [d EXCEPT !.pc = "start", !.descId = i]
    <3>1. i \in Ids \cup {None}
      BY <1>1, CutIds DEF Delegations, FirstId
    <3> HIDE DEF i
    <3>2. e \in Delegations /\ OneRound(e)
      <4>1. e \in Delegations
        BY <1>1, <3>1 DEF Delegations, Pcs
      <4>2. e.attempt = d.attempt /\ e.type = d.type /\ e.role = d.role
        BY <1>1 DEF Delegations
      <4> HIDE DEF e
      <4> QED BY <1>1, <4>1, <4>2 DEF OneRound
    <3>3. dlg' = [dlg EXCEPT ![w] = e]
      BY <3>0 DEF i
    <3> QED BY <3>2, <3>3
  <2>5. CASE CountRead(w)
    <3> DEFINE n == attempts[CapKey(d.descId)]
               e == [d EXCEPT !.pc = "store", !.count = n]
    <3>1. n \in 0 .. CountCeiling
      BY <1>1 DEF Delegations, CapKey, Keys, Types, TypeOK
    <3> HIDE DEF n
    <3>2. e \in Delegations /\ OneRound(e)
      <4>1. e \in Delegations
        BY <1>1, <3>1 DEF Delegations, Pcs
      <4>2. e.attempt = d.attempt /\ e.type = d.type /\ e.role = d.role
        BY <1>1 DEF Delegations
      <4> HIDE DEF e
      <4> QED BY <1>1, <4>1, <4>2 DEF OneRound
    <3>3. dlg' = [dlg EXCEPT ![w] = e]
      BY <2>5 DEF CountRead, n
    <3> QED BY <3>2, <3>3
  <2>6. CASE CountStore(w)
    <3> DEFINE e == [d EXCEPT !.pc = "run", !.count = 0]
    <3>0. 0 \in 0 .. CountCeiling
      BY CapAssumption
    <3>1. e \in Delegations /\ OneRound(e)
      <4>1. e \in Delegations
        BY <1>1, <3>0 DEF Delegations, Pcs
      <4>2. e.attempt = d.attempt /\ e.type = d.type /\ e.role = d.role
        BY <1>1 DEF Delegations
      <4> HIDE DEF e
      <4> QED BY <1>1, <4>1, <4>2 DEF OneRound
    <3> QED BY <2>6, <3>1 DEF CountStore
  <2>7. CASE RoleRaises(w) /\ d.attempt > 0
    <3> DEFINE e == [d EXCEPT !.pc = "verdict"]
    <3>1. e \in Delegations /\ OneRound(e)
      <4>1. e \in Delegations
        BY <1>1 DEF Delegations, Pcs
      <4>2. e.attempt = d.attempt /\ e.type = d.type /\ e.role = d.role
        BY <1>1 DEF Delegations
      <4> HIDE DEF e
      <4> QED BY <1>1, <4>1, <4>2 DEF OneRound
    <3>2. dlg' = [dlg EXCEPT ![w].pc = "verdict"]
      BY <2>7 DEF RoleRaises, Goto
    <3>3. dlg' = [dlg EXCEPT ![w] = e]
      BY <3>2
    <3> HIDE DEF e
    <3> QED BY <3>1, <3>3
  <2>8. CASE ChainEnds(w)
    <3> DEFINE p == d.passed \/ d.out.pass
               e == [d EXCEPT !.pc = "verdict", !.passed = p]
    <3>1. p \in BOOLEAN
      BY <1>1 DEF Delegations, Outcomes
    <3> HIDE DEF p
    <3>2. e \in Delegations /\ OneRound(e)
      <4>1. e \in Delegations
        BY <1>1, <3>1 DEF Delegations, Pcs
      <4>2. e.attempt = d.attempt /\ e.type = d.type /\ e.role = d.role
        BY <1>1 DEF Delegations
      <4> HIDE DEF e
      <4> QED BY <1>1, <4>1, <4>2 DEF OneRound
    <3>3. dlg' = [dlg EXCEPT ![w] = e]
      BY <2>8 DEF ChainEnds, p
    <3> QED BY <3>2, <3>3
  <2> QED BY <2>1, <2>2, <2>3, <2>4, <2>5, <2>6, <2>7, <2>8
<1>5. L!TypeOK'
  BY <1>1, <1>2 DEF ledgerVars, L!TypeOK
<1> HIDE DEF d
<1>6. dlg' \in [Workers -> Delegations] /\ Chain' /\ \A v \in Workers \ {w} : dlg'[v] = dlg[v]
  BY <1>4, NewRecord
<1> QED
  BY <1>2, <1>3, <1>5, <1>6 DEF Types, TypeOK, Framed, ledgerVars

\* Steps that advance the task's row.
LEMMA AdvanceSteps ==
  ASSUME Types, NEW w \in Workers,
         (\E role \in Roles : OnStart(w, role)) \/ OnEnd(w) \/ MarkVerdict(w)
  PROVE  Types' /\ Framed(w)
<1> DEFINE d == dlg[w]
<1>1. d \in Delegations /\ OneRound(d) /\ L!TypeOK
  BY DEF Types, TypeOK, Chain
<1>2. d.id \in Ids \cup {None} /\ d.descId \in Ids \cup {None}
  BY <1>1 DEF Delegations
<1>3. L!TypeOK' /\ \A v \in Workers \ {w} : call'[v] = call[v]
  <2>1. CASE UNCHANGED ledgerVars
    BY <1>1, <2>1 DEF ledgerVars, L!TypeOK
  <2>2. CASE \E i \in Ids \cup {None}, s \in L!HarnessStatuses : Advance(w, i, s)
    BY <1>1, <2>2, Advanced
  <2> QED BY <1>2, <2>1, <2>2 DEF OnStart, OnEnd, MarkVerdict, L!HarnessStatuses
<1>4. PICK e \in Delegations : OneRound(e) /\ dlg' = [dlg EXCEPT ![w] = e]
  <2>1. CASE \E role \in Roles : OnStart(w, role)
    <3>1. PICK role \in Roles : OnStart(w, role)
      BY <2>1
    <3> DEFINE at == IF role = "fixer" THEN "count" ELSE "run"
               e == [d EXCEPT !.pc = at, !.role = role]
    <3>2. dlg' = [dlg EXCEPT ![w] = e] /\ ResolvesTo(d.type, role)
      BY <3>1 DEF OnStart
    <3>3. at \in Pcs
      BY DEF Pcs
    <3> HIDE DEF at
    <3>4. /\ e \in Delegations /\ e.attempt = d.attempt
          /\ e.type = d.type /\ e.role = role
      BY <1>1, <3>3 DEF Delegations
    <3>5. d.attempt > 0 => role = d.type
      BY <1>1, <3>2 DEF ResolvesTo, OneRound
    <3> HIDE DEF e
    <3>6. OneRound(e)
      BY <1>1, <3>4, <3>5 DEF OneRound
    <3> QED BY <3>2, <3>4, <3>6
  <2>2. CASE OnEnd(w)
    <3> DEFINE e == [d EXCEPT !.pc = "ended"]
    <3>1. e \in Delegations /\ OneRound(e)
      <4>1. e \in Delegations
        BY <1>1 DEF Delegations, Pcs
      <4>2. e.attempt = d.attempt /\ e.type = d.type /\ e.role = d.role
        BY <1>1 DEF Delegations
      <4> HIDE DEF e
      <4> QED BY <1>1, <4>1, <4>2 DEF OneRound
    <3> QED BY <2>2, <3>1 DEF OnEnd, Goto
  <2>3. CASE MarkVerdict(w)
    <3> DEFINE e == [d EXCEPT !.pc = "finish"]
    <3>1. e \in Delegations /\ OneRound(e)
      <4>1. e \in Delegations
        BY <1>1 DEF Delegations, Pcs
      <4>2. e.attempt = d.attempt /\ e.type = d.type /\ e.role = d.role
        BY <1>1 DEF Delegations
      <4> HIDE DEF e
      <4> QED BY <1>1, <4>1, <4>2 DEF OneRound
    <3> QED BY <2>3, <3>1 DEF MarkVerdict, Goto
  <2> QED BY <2>1, <2>2, <2>3
<1>5. UNCHANGED <<attempts, evidence>>
  BY DEF OnStart, OnEnd, MarkVerdict
<1> HIDE DEF d
<1>6. dlg' \in [Workers -> Delegations] /\ Chain' /\ \A v \in Workers \ {w} : dlg'[v] = dlg[v]
  BY <1>4, NewRecord
<1> QED
  BY <1>3, <1>5, <1>6 DEF Types, TypeOK, Framed

LEMMA ChainIdsAreIds == \A i : ChainIds(i) \subseteq Ids \cup {None}
  BY CutIds, MentionsAssumption DEF ChainIds, FirstId

\* A role returns, or the chain calls the next one.
LEMMA RoleSteps ==
  ASSUME Types, NEW w \in Workers,
         \/ \E r \in Results(dlg[w].role), named \in Mentions \cup {NoEvidence} :
              RoleReturns(w, r, named)
         \/ \E first \in ChainIds(dlg[w].id) : ChainVerify(w, first) \/ ChainFix(w, first)
  PROVE  Types' /\ Framed(w)
<1> DEFINE d == dlg[w]
<1>1. d \in Delegations /\ OneRound(d) /\ L!TypeOK
  BY DEF Types, TypeOK, Chain
<1>2. UNCHANGED <<ledgerVars, attempts>>
  BY DEF RoleReturns, ChainVerify, ChainFix
<1>3. evidence' \in Ids \cup {None, NoEvidence}
  <2>1. CASE evidence' = evidence
    BY <2>1 DEF Types, TypeOK
  <2>2. CASE \E r \in Results(d.role), named \in Mentions \cup {NoEvidence} :
               RoleReturns(w, r, named)
    <3>1. \E named \in Mentions \cup {NoEvidence} : evidence' = evidence \/ evidence' = named
      BY <2>2 DEF RoleReturns
    <3> QED BY <2>1, <3>1, MentionsAssumption
  <2> QED BY <2>1, <2>2 DEF ChainVerify, ChainFix
<1>4. PICK e \in Delegations : OneRound(e) /\ dlg' = [dlg EXCEPT ![w] = e]
  <2>1. CASE \E r \in Results(d.role), named \in Mentions \cup {NoEvidence} :
               RoleReturns(w, r, named)
    <3>1. PICK r \in Results(d.role), named \in Mentions \cup {NoEvidence} :
                 RoleReturns(w, r, named)
      BY <2>1
    <3> DEFINE o == Outcome(r)
               p == d.passed \/ (d.resolved = "coder" /\ "PASSED" \in r.quotes)
               v == d.vouched \/ SpeaksFor(d.role, r)
               e == [d EXCEPT !.pc = "end", !.out = o, !.passed = p, !.vouched = v]
    <3>2. dlg' = [dlg EXCEPT ![w] = e]
      BY <3>1 DEF RoleReturns
    <3>3. r.tag \in {"COMPLETED", "INCOMPLETE", "FAILED"}
      BY DEF Results
    <3>4. o \in Outcomes /\ p \in BOOLEAN /\ v \in BOOLEAN
      BY <3>3 DEF Outcome, Outcomes, SignalsSuccess, TagInText
    <3> HIDE DEF o, p, v
    <3>5. e \in Delegations /\ OneRound(e)
      <4>1. e \in Delegations
        BY <1>1, <3>4 DEF Delegations, Pcs
      <4>2. e.attempt = d.attempt /\ e.type = d.type /\ e.role = d.role
        BY <1>1 DEF Delegations
      <4> HIDE DEF e
      <4> QED BY <1>1, <4>1, <4>2 DEF OneRound
    <3> QED BY <3>2, <3>5
  <2>2. ASSUME NEW role \in {"verifier", "fixer"}, NEW n \in 1 .. MaxAttempts,
               NEW i \in ChainIds(d.id), role = "fixer" => n < MaxAttempts,
               ChainCall(w, role, n, i)
        PROVE  \E e \in Delegations : OneRound(e) /\ dlg' = [dlg EXCEPT ![w] = e]
    <3> DEFINE e == [d EXCEPT !.pc = "start", !.type = role, !.role = role, !.attempt = n,
                              !.descId = i, !.out = NoOutcome]
    <3>1. dlg' = [dlg EXCEPT ![w] = e]
      BY <2>2 DEF ChainCall
    <3>2. i \in Ids \cup {None}
      BY <2>2, ChainIdsAreIds
    <3>3. role \in Roles /\ n \in 0 .. MaxAttempts /\ NoOutcome \in Outcomes
      BY AttemptsAssumption, Records DEF Roles
    <3>4. e \in Delegations
      BY <1>1, <3>2, <3>3 DEF Delegations, Pcs
    <3>5. e.attempt = n /\ e.type = role /\ e.role = role
      BY <1>1 DEF Delegations
    <3> HIDE DEF e
    <3>6. OneRound(e)
      BY <2>2, <3>5 DEF OneRound
    <3> QED BY <3>1, <3>4, <3>6
  <2>3. d.attempt \in 0 .. MaxAttempts
    BY <1>1 DEF Delegations
  <2>4. CASE \E first \in ChainIds(d.id) : ChainVerify(w, first)
    <3>1. PICK first \in ChainIds(d.id) : ChainVerify(w, first)
      BY <2>4
    <3>2. d.attempt = 0 \/ d.attempt < MaxAttempts
      BY <1>1, <2>3, <3>1 DEF ChainVerify, EntersChain, OneRound
    <3>3. d.attempt + 1 \in 1 .. MaxAttempts
      BY <2>3, <3>2, AttemptsAssumption
    <3>4. ChainCall(w, "verifier", d.attempt + 1, first)
      BY <3>1 DEF ChainVerify
    <3> HIDE DEF d
    <3> QED BY <3>3, <3>4, <2>2
  <2>5. CASE \E first \in ChainIds(d.id) : ChainFix(w, first)
    <3>1. PICK first \in ChainIds(d.id) : ChainFix(w, first)
      BY <2>5
    <3>2. d.attempt \in 1 .. MaxAttempts /\ d.attempt < MaxAttempts
      BY <2>3, <3>1, AttemptsAssumption DEF ChainFix
    <3>4. ChainCall(w, "fixer", d.attempt, first)
      BY <3>1 DEF ChainFix
    <3> HIDE DEF d
    <3> QED BY <3>2, <3>4, <2>2
  <2> QED BY <2>1, <2>4, <2>5
<1>5. L!TypeOK'
  BY <1>1, <1>2 DEF ledgerVars, L!TypeOK
<1> HIDE DEF d
<1>6. dlg' \in [Workers -> Delegations] /\ Chain' /\ \A v \in Workers \ {w} : dlg'[v] = dlg[v]
  BY <1>4, NewRecord
<1> QED
  BY <1>2, <1>3, <1>5, <1>6 DEF Types, TypeOK, Framed, ledgerVars

\* The steps of the ledger alone.
LEMMA LedgerSteps ==
  ASSUME Types, NEW w \in Workers,
         (\E todos \in TodoLists : PlannerWrites(w, todos)) \/ LedgerStep(w)
  PROVE  Types' /\ Framed(w)
<1>1. UNCHANGED <<dlg, attempts, evidence>> /\ L!TypeOK
  BY DEF PlannerWrites, LedgerStep, Types, TypeOK
<1>2. L!TypeOK' /\ \A v \in Workers \ {w} : call'[v] = call[v]
  <2>1. CASE UNCHANGED ledgerVars
    BY <1>1, <2>1 DEF ledgerVars, L!TypeOK
  <2>2. CASE \E todos \in TodoLists : L!WriteTodos(w, todos)
    BY <1>1, <2>2, Written
  <2>3. CASE L!Resume(w)
    BY <1>1, <2>3, Resumed
  <2> QED BY <2>1, <2>2, <2>3 DEF PlannerWrites, LedgerStep, L!WriteRejected, L!vars, ledgerVars
<1> QED
  BY <1>1, <1>2 DEF Types, TypeOK, Chain, OneRound, Framed

\* What thread w may do in a step.
Acts(w) ==
  \/ \E type \in AgentTypes, role \in Roles, i \in Ids \cup {None} : Delegate(w, type, role, i)
  \/ \E todos \in TodoLists : PlannerWrites(w, todos)
  \/ Proceed(w)

LEMMA ActsKeepTypes == ASSUME Types, NEW w \in Workers, Acts(w) PROVE Types' /\ Framed(w)
  BY OwnSteps, AdvanceSteps, RoleSteps, LedgerSteps DEF Acts, Proceed, RoleEnds

LEMMA TypesInductive == Types /\ [Next]_vars => Types'
<1> SUFFICES ASSUME Types, [Next]_vars PROVE Types'
  OBVIOUS
<1>1. CASE Next
  BY <1>1, ActsKeepTypes DEF Next, Acts
<1>2. CASE UNCHANGED vars
  BY <1>2 DEF vars, Types, TypeOK, L!TypeOK, Chain, OneRound
<1> QED
  BY <1>1, <1>2

LEMMA TypesInvariant == Spec => []Types
<1>1. Init => Types
  BY InitTypes
<1> QED
  BY <1>1, TypesInductive, PTL DEF Spec

\* For any ids, threads, agent types and todo lists, and any number of rounds: the
\* delegations, counters, evidence and the ledger of the task tool keep their types.
THEOREM TypeCorrect == Spec => []TypeOK
<1>1. Types => TypeOK
  BY DEF Types
<1> QED
  BY <1>1, TypesInvariant, PTL

(***************************************************************************)
(* A row turns completed only on evidence.                                 *)
(***************************************************************************)

\* What the delegation's outcome and marker claim, some report has said; and
\* until its role runs there is no outcome.
Grounded(d) ==
  /\ d.pc \in {"cap", "evidence", "start"} => d.out = NoOutcome
  /\ d.passed \/ Attests(d) \/ (d.role # "coder" /\ d.out.pass) => d.vouched

\* An advance to completed that is under way was vouched for.
Attested ==
  \A w \in Workers :
    /\ Grounded(dlg[w])
    /\ call[w].pc = "update" /\ call[w].status = "completed"
         => dlg[w].pc \in {"ended", "finish"} /\ dlg[w].vouched

LEMMA StepGrounded ==
  ASSUME Types, NEW w \in Workers, Grounded(dlg[w]), Acts(w)
  PROVE  Grounded(dlg'[w])
<1> DEFINE d == dlg[w]
           e == dlg'[w]
<1>1. d \in Delegations /\ dlg \in [Workers -> Delegations] /\ OneRound(d)
  BY DEF Types, TypeOK, Chain
<1>2. NoOutcome.tag # "COMPLETED" /\ NoOutcome.pass = FALSE
  BY DEF NoOutcome
<1>3. ASSUME e.out = NoOutcome, e.passed = d.passed, e.vouched = d.vouched
      PROVE  Grounded(e)
  BY <1>2, <1>3 DEF Grounded, Attests
<1>4. ASSUME e.out = d.out, e.role = d.role, e.passed = d.passed, e.vouched = d.vouched,
             e.pc \in {"cap", "evidence", "start"} => d.pc \in {"cap", "evidence", "start"}
      PROVE  Grounded(e)
  BY <1>4 DEF Grounded, Attests
<1>5. CASE e = NoDelegation
  BY <1>2, <1>5 DEF Grounded, Attests, NoDelegation
<1>6. CASE \E type \in AgentTypes, role \in Roles, i \in Ids \cup {None} : Delegate(w, type, role, i)
  <2>1. PICK type \in AgentTypes, role \in Roles, i \in Ids \cup {None} : Delegate(w, type, role, i)
    BY <1>6
  <2> DEFINE at == IF role = "fixer" THEN "cap" ELSE "start"
  <2>2. e = [NoDelegation EXCEPT !.pc = at, !.type = type, !.resolved = role,
                                 !.role = role, !.id = i, !.descId = i]
    BY <1>1, <2>1 DEF Delegate
  <2> HIDE DEF at
  <2>3. e.out = NoOutcome /\ e.passed = FALSE
    BY <2>2 DEF NoDelegation
  <2> QED BY <1>2, <2>3 DEF Grounded, Attests
<1>7. CASE FixerAllowed(w) \/ CountRead(w) \/ CountStore(w) \/ OnEnd(w) \/ MarkVerdict(w)
  <2>1. \E at \in Pcs, n \in 0 .. CountCeiling :
          /\ e = [d EXCEPT !.pc = at] \/ e = [d EXCEPT !.pc = at, !.count = n]
          /\ at \in {"cap", "evidence", "start"} => d.pc \in {"cap", "evidence", "start"}
    <3>1. 0 \in 0 .. CountCeiling
      BY CapAssumption
    <3>2. CASE CountRead(w)
      <4>1. attempts[CapKey(d.descId)] \in 0 .. CountCeiling
        BY <1>1 DEF Delegations, CapKey, Keys, Types, TypeOK
      <4> QED BY <1>1, <3>2, <4>1 DEF CountRead, Pcs
    <3>3. CASE CountStore(w)
      BY <1>1, <3>1, <3>3 DEF CountStore, Pcs
    <3>4. CASE FixerAllowed(w)
      BY <1>1, <3>1, <3>4 DEF FixerAllowed, Goto, Pcs
    <3>5. CASE OnEnd(w) \/ MarkVerdict(w)
      BY <1>1, <3>1, <3>5 DEF OnEnd, MarkVerdict, Goto, Pcs
    <3> QED BY <1>7, <3>2, <3>3, <3>4, <3>5
  <2>2. PICK at \in Pcs, n \in 0 .. CountCeiling :
          /\ e = [d EXCEPT !.pc = at] \/ e = [d EXCEPT !.pc = at, !.count = n]
          /\ at \in {"cap", "evidence", "start"} => d.pc \in {"cap", "evidence", "start"}
    BY <2>1
  <2>3. /\ e.pc = at /\ e.out = d.out /\ e.role = d.role
        /\ e.passed = d.passed /\ e.vouched = d.vouched
    BY <1>1, <2>2 DEF Delegations
  <2> QED BY <1>4, <2>2, <2>3
<1>8. CASE AttachEvidence(w)
  <2>1. PICK i : e = [d EXCEPT !.pc = "start", !.descId = i] /\ d.pc = "evidence"
    BY <1>1, <1>8 DEF AttachEvidence
  <2>2. /\ e.out = d.out /\ e.role = d.role /\ e.passed = d.passed /\ e.vouched = d.vouched
    BY <1>1, <2>1 DEF Delegations
  <2> QED BY <1>4, <2>1, <2>2
<1>9. CASE \E role \in Roles : OnStart(w, role)
  <2>1. PICK role \in Roles : OnStart(w, role)
    BY <1>9
  <2> DEFINE at == IF role = "fixer" THEN "count" ELSE "run"
  <2>2. e = [d EXCEPT !.pc = at, !.role = role] /\ d.pc = "start"
    BY <1>1, <2>1 DEF OnStart
  <2> HIDE DEF at
  <2>3. e.out = d.out /\ e.passed = d.passed /\ e.vouched = d.vouched
    BY <1>1, <2>2 DEF Delegations
  <2> QED BY <1>3, <2>2, <2>3 DEF Grounded
<1>10. CASE \E r \in Results(d.role), named \in Mentions \cup {NoEvidence} : RoleReturns(w, r, named)
  <2>1. PICK r \in Results(d.role), named \in Mentions \cup {NoEvidence} : RoleReturns(w, r, named)
    BY <1>10
  <2> DEFINE o == Outcome(r)
             p == d.passed \/ (d.resolved = "coder" /\ "PASSED" \in r.quotes)
             v == d.vouched \/ SpeaksFor(d.role, r)
  <2>2. dlg' = [dlg EXCEPT ![w].pc = "end", ![w].out = o, ![w].passed = p, ![w].vouched = v]
    BY <2>1 DEF RoleReturns
  <2>3. /\ o.tag = "COMPLETED" \/ o.pass => TagInText(r)
        /\ o.pass => ~ MarkerInText(r)
        /\ o.green => ~ r.failed
    BY DEF Outcome, SignalsSuccess, TagInText
  <2>4. d.role # "verifier" => r.ran = FALSE
    BY DEF Results
  <2> HIDE DEF o
  <2>5. p => v
    BY DEF SpeaksFor, Grounded
  <2>6. d.role # "coder" /\ (o.pass \/ (o.tag = "COMPLETED" /\ (d.role = "verifier" => o.green))) => v
    BY <2>3, <2>4 DEF SpeaksFor, MarkerInText
  <2> HIDE DEF p, v
  <2>7. /\ e.pc = "end" /\ e.out = o /\ e.role = d.role /\ e.passed = p /\ e.vouched = v
    BY <1>1, <2>2 DEF Delegations
  <2> QED BY <2>5, <2>6, <2>7 DEF Grounded, Attests
<1>11. CASE RoleRaises(w)
  <2>1. CASE d.attempt > 0
    <3>1. e = [d EXCEPT !.pc = "verdict"]
      BY <1>1, <1>11, <2>1 DEF RoleRaises, Goto
    <3>2. /\ e.pc = "verdict" /\ e.out = d.out /\ e.role = d.role
          /\ e.passed = d.passed /\ e.vouched = d.vouched
      BY <1>1, <3>1 DEF Delegations
    <3> QED BY <1>4, <3>2
  <2>2. CASE ~ d.attempt > 0
    BY <1>1, <1>5, <1>11, <2>2 DEF RoleRaises
  <2> QED BY <2>1, <2>2
<1>12. CASE \E first \in ChainIds(d.id) : ChainVerify(w, first) \/ ChainFix(w, first)
  <2>1. PICK role, n, i : ChainCall(w, role, n, i)
    BY <1>12 DEF ChainVerify, ChainFix
  <2>2. e = [d EXCEPT !.pc = "start", !.type = role, !.role = role, !.attempt = n,
                      !.descId = i, !.out = NoOutcome]
    BY <1>1, <2>1 DEF ChainCall
  <2>3. e.out = NoOutcome /\ e.passed = d.passed /\ e.vouched = d.vouched
    BY <1>1, <2>2 DEF Delegations
  <2> QED BY <1>3, <2>3
<1>13. CASE ChainEnds(w)
  <2> DEFINE p == d.passed \/ d.out.pass
  <2>1. dlg' = [dlg EXCEPT ![w].pc = "verdict", ![w].passed = p] /\ d.role = "verifier"
    BY <1>13 DEF ChainEnds
  <2>2. p => d.vouched
    BY <2>1 DEF Grounded
  <2> HIDE DEF p
  <2>3. /\ e.pc = "verdict" /\ e.out = d.out /\ e.role = d.role
        /\ e.passed = p /\ e.vouched = d.vouched
    BY <1>1, <2>1 DEF Delegations
  <2> QED BY <2>2, <2>3 DEF Grounded, Attests
<1>14. CASE (\E todos \in TodoLists : PlannerWrites(w, todos)) \/ LedgerStep(w)
  BY <1>14 DEF PlannerWrites, LedgerStep
<1>15. CASE FixerCapped(w) \/ Return(w) \/ Finish(w)
  BY <1>1, <1>5, <1>15 DEF FixerCapped, Return, Finish
<1> HIDE DEF d, e
<1>16. CASE RoleEnds(w)
  BY <1>10, <1>11, <1>16 DEF RoleEnds, d, e
<1> QED
  BY <1>6, <1>7, <1>8, <1>9, <1>12, <1>13, <1>14, <1>15, <1>16 DEF Acts, Proceed, d, e

LEMMA StepAttested ==
  ASSUME Types, Attested, NEW w \in Workers, Acts(w)
  PROVE  Attested'
<1>0. Grounded(dlg'[w])
  BY StepGrounded DEF Attested
<1> SUFFICES ASSUME call'[w].pc = "update", call'[w].status = "completed"
             PROVE  dlg'[w].pc \in {"ended", "finish"} /\ dlg'[w].vouched
  <2>1. \A v \in Workers \ {w} : dlg'[v] = dlg[v] /\ call'[v] = call[v]
    BY ActsKeepTypes DEF Framed
  <2>2. \A v \in Workers \ {w} : Grounded(dlg'[v])
    BY <2>1 DEF Attested
  <2> QED BY <1>0, <2>1, <2>2 DEF Attested
<1>1. dlg[w] \in Delegations /\ L!TypeOK /\ dlg \in [Workers -> Delegations]
  BY DEF Types, TypeOK
<1>2. CASE call' = call /\ ~ OnEnd(w) /\ ~ MarkVerdict(w)
  <2>1. dlg[w].pc \in {"ended", "finish"} /\ dlg[w].vouched /\ ~ L!Idle(w)
    BY <1>2 DEF Attested, L!Idle
  <2>2. dlg' = dlg
    BY <1>2, <2>1 DEF Acts, Proceed, RoleEnds, Delegate, FixerCapped, FixerAllowed,
       AttachEvidence, OnStart, CountRead, CountStore, RoleReturns, RoleRaises, Return, Returned,
       ChainVerify, ChainFix, ChainEnds, Finish, PlannerWrites, LedgerStep
  <2> QED BY <2>1, <2>2
<1>3. CASE \E role \in Roles : OnStart(w, role)
  <2>1. dlg[w].descId \in Ids \cup {None} /\ L!Idle(w)
    BY <1>1, <1>3 DEF Delegations, OnStart
  <2>2. Advance(w, dlg[w].descId, "in_progress")
    BY <1>3 DEF OnStart
  <2> QED BY <1>1, <2>1, <2>2, Advanced DEF L!HarnessStatuses, L!Idle
<1>4. CASE OnEnd(w)
  <2>1. dlg[w].pc = "end" /\ dlg'[w] = [dlg[w] EXCEPT !.pc = "ended"]
    BY <1>1, <1>4 DEF OnEnd, Goto
  <2>2. call'[w] # call[w]
    BY <2>1 DEF Attested
  <2>3. Attests(dlg[w])
    BY <1>4, <2>2 DEF OnEnd, ledgerVars
  <2>4. dlg[w].vouched
    BY <2>3 DEF Attested, Grounded
  <2>5. dlg'[w].pc = "ended" /\ dlg'[w].vouched = dlg[w].vouched
    BY <1>1, <2>1 DEF Delegations
  <2> QED BY <2>4, <2>5
<1>5. CASE MarkVerdict(w)
  <2> DEFINE s == IF dlg[w].passed THEN "completed" ELSE "verify_failed"
  <2>1. dlg[w].pc = "verdict" /\ dlg'[w] = [dlg[w] EXCEPT !.pc = "finish"]
        /\ dlg[w].id \in Ids \cup {None} /\ Advance(w, dlg[w].id, s)
    BY <1>1, <1>5 DEF MarkVerdict, Goto, Delegations
  <2>2. call'[w] # call[w]
    BY <2>1 DEF Attested
  <2>3. call'[w].status = s
    BY <1>1, <2>1, <2>2, Advanced DEF L!HarnessStatuses
  <2>4. dlg[w].passed
    BY <2>3
  <2>5. dlg[w].vouched
    BY <2>4 DEF Attested, Grounded
  <2>6. dlg'[w].pc = "finish" /\ dlg'[w].vouched = dlg[w].vouched
    BY <1>1, <2>1 DEF Delegations
  <2> QED BY <2>5, <2>6
<1>6. CASE \E todos \in TodoLists : PlannerWrites(w, todos) /\ L!WriteTodos(w, todos)
  BY <1>1, <1>6, Written
<1>7. CASE LedgerStep(w)
  BY <1>1, <1>7, Resumed DEF LedgerStep
<1> QED
  BY <1>2, <1>3, <1>4, <1>5, <1>6, <1>7 DEF Acts, Proceed, RoleEnds, Delegate, FixerCapped,
     FixerAllowed, AttachEvidence, CountRead, CountStore, RoleReturns, RoleRaises, Return,
     ChainVerify, ChainFix, ChainEnds, Finish, PlannerWrites, L!WriteRejected, L!vars, ledgerVars

Backing == Types /\ Attested

LEMMA BackingInductive == Backing /\ [Next]_vars => Backing'
<1> SUFFICES ASSUME Backing, [Next]_vars PROVE Attested'
  BY TypesInductive DEF Backing
<1>1. CASE Next
  BY <1>1, StepAttested DEF Backing, Next, Acts
<1>2. CASE UNCHANGED vars
  BY <1>2 DEF vars, Backing, Attested
<1> QED
  BY <1>1, <1>2

LEMMA BackingInvariant == Spec => []Backing
<1>1. Init => Backing
  <2> SUFFICES ASSUME Init PROVE Attested
    BY InitTypes DEF Backing
  <2> QED BY DEF Init, L!Init, L!NoCall, Attested, Grounded, Attests, NoDelegation, NoOutcome
<1> QED
  BY <1>1, BackingInductive, PTL DEF Spec

\* A step of thread w changes the table of rows only as a planner's write_todos or
\* as the update of an advance.
LEMMA RowsChange ==
  ASSUME Types, NEW w \in Workers, Acts(w), NEW i \in Ids, items'[i] # items[i]
  PROVE  \/ PlannerRegisters
         \/ Updates(w) /\ items'[i] = call[w].status
<1>1. L!TypeOK /\ dlg[w] \in Delegations
  BY DEF Types, TypeOK
<1>2. dlg[w].id \in Ids \cup {None} /\ dlg[w].descId \in Ids \cup {None}
  BY <1>1 DEF Delegations
<1>3. ~ UNCHANGED ledgerVars /\ ~ UNCHANGED L!vars
  BY DEF ledgerVars, L!vars
<1>4. \A j \in Ids \cup {None}, s \in L!HarnessStatuses : ~ Advance(w, j, s)
  BY <1>1, Advanced
<1>5. ~ OnEnd(w) /\ ~ MarkVerdict(w) /\ \A role \in Roles : ~ OnStart(w, role)
  BY <1>2, <1>3, <1>4 DEF OnEnd, MarkVerdict, OnStart, L!HarnessStatuses
<1>6. CASE \E todos \in TodoLists : PlannerWrites(w, todos)
  <2>1. \E todos \in TodoLists : L!WriteTodos(w, todos)
    BY <1>3, <1>6 DEF PlannerWrites, L!WriteRejected
  <2> QED BY <1>1, <2>1, Written DEF PlannerRegisters
<1>7. CASE LedgerStep(w)
  <2>1. call[w].id \in Ids /\ call[w].pc = "update" /\ call'[w].pc # "update"
        /\ items' = [items EXCEPT ![call[w].id] = call[w].status]
    BY <1>1, <1>7, Resumed DEF LedgerStep
  <2> QED BY <1>1, <2>1 DEF L!TypeOK, L!Listings, Updates
<1> QED
  BY <1>3, <1>5, <1>6, <1>7 DEF Acts, Proceed, RoleEnds, Delegate, FixerCapped, FixerAllowed,
     AttachEvidence, CountRead, CountStore, RoleReturns, RoleRaises, Return, ChainVerify, ChainFix,
     ChainEnds, Finish

\* For any number of threads: apart from the planner's own list, the thread whose
\* update turns a row completed runs a delegation in which some report other than
\* the coder's spoke for the task (_on_end, _run_wrapped).
THEOREM CompletedIsBacked == Spec => CompletedNeedsEvidence
<1> DEFINE Backs == \E w \in Workers : Updates(w) /\ dlg[w].vouched
<1>1. ASSUME Backing, [Next]_vars, NEW i \in Ids,
             items[i] # "completed", items'[i] = "completed", ~ PlannerRegisters
      PROVE  Backs
  <2>1. Next
    BY <1>1 DEF vars
  <2>2. PICK w \in Workers : Acts(w)
    BY <2>1 DEF Next, Acts
  <2>3. Updates(w) /\ call[w].status = "completed"
    BY <1>1, <2>2, RowsChange DEF Backing
  <2> QED BY <1>1, <2>3 DEF Backing, Attested, Updates
<1>2. Backing /\ [Next]_vars =>
        [\A i \in Ids :
           items[i] # "completed" /\ items'[i] = "completed" /\ ~ PlannerRegisters
             => \E w \in Workers : Updates(w) /\ dlg[w].vouched]_vars
  BY <1>1
<1> QED
  BY <1>2, BackingInvariant, PTL DEF Spec, CompletedNeedsEvidence

(***************************************************************************)
(* What holds of delegations that run one at a time.                       *)
(***************************************************************************)
SingleThread == \A v, w \in Workers : v = w

\* A fixer the wrapper let through stays below the cap until it is counted.
BelowCap(w) ==
  LET d == dlg[w] IN
  /\ d.attempt > 0 => d.resolved = "coder"
  /\ d.resolved = "fixer" =>
       /\ d.pc \in {"evidence", "start", "count", "store"} => attempts[CapKey(d.id)] < HardCap
       /\ d.pc = "store" => d.count = attempts[CapKey(d.descId)]
       /\ d.pc = "run" /\ d.role = "fixer" /\ d.descId = d.id => attempts[CapKey(d.id)] <= HardCap

LEMMA StepBelowCap ==
  ASSUME Types, NEW w \in Workers, BelowCap(w), Acts(w)
  PROVE  BelowCap(w)'
<1> DEFINE d == dlg[w]
           e == dlg'[w]
<1>1. d \in Delegations /\ dlg \in [Workers -> Delegations] /\ attempts \in [Keys -> 0 .. CountCeiling]
  BY DEF Types, TypeOK
<1>2. CapKey(d.id) \in Keys /\ CapKey(d.descId) \in Keys
  BY <1>1 DEF Delegations, CapKey, Keys
<1>3. CASE UNCHANGED <<dlg, attempts>>
  BY <1>3 DEF BelowCap
<1>4. CASE e = NoDelegation
  BY <1>4 DEF BelowCap, NoDelegation
<1>5. CASE \E type \in AgentTypes, role \in Roles, i \in Ids \cup {None} : Delegate(w, type, role, i)
  <2>1. PICK type \in AgentTypes, role \in Roles, i \in Ids \cup {None} : Delegate(w, type, role, i)
    BY <1>5
  <2> DEFINE at == IF role = "fixer" THEN "cap" ELSE "start"
  <2>2. e = [NoDelegation EXCEPT !.pc = at, !.type = type, !.resolved = role,
                                 !.role = role, !.id = i, !.descId = i]
    BY <1>1, <2>1 DEF Delegate
  <2>3. role = "fixer" => at = "cap"
    OBVIOUS
  <2> HIDE DEF at
  <2>4. e.pc = at /\ e.resolved = role /\ e.attempt = 0
    BY <2>2 DEF NoDelegation
  <2> QED BY <2>3, <2>4 DEF BelowCap
<1>6. CASE FixerAllowed(w)
  <2>1. e = [d EXCEPT !.pc = "evidence"] /\ attempts' = attempts /\ attempts[CapKey(d.id)] < HardCap
    BY <1>1, <1>6 DEF FixerAllowed, Goto
  <2>2. e.pc = "evidence" /\ e.id = d.id /\ e.resolved = d.resolved /\ e.attempt = d.attempt
    BY <1>1, <2>1 DEF Delegations
  <2> QED BY <2>1, <2>2 DEF BelowCap
<1>7. CASE AttachEvidence(w)
  <2>1. PICK i : /\ d.pc = "evidence" /\ attempts' = attempts
                 /\ dlg' = [dlg EXCEPT ![w].pc = "start", ![w].descId = i]
    BY <1>7 DEF AttachEvidence
  <2>2. e.pc = "start" /\ e.id = d.id /\ e.resolved = d.resolved /\ e.attempt = d.attempt
    BY <1>1, <2>1 DEF Delegations
  <2> QED BY <2>1, <2>2 DEF BelowCap
<1>8. CASE \E role \in Roles : OnStart(w, role)
  <2>1. PICK role \in Roles : OnStart(w, role)
    BY <1>8
  <2> DEFINE at == IF role = "fixer" THEN "count" ELSE "run"
  <2>2. e = [d EXCEPT !.pc = at, !.role = role] /\ attempts' = attempts /\ d.pc = "start"
    BY <1>1, <2>1 DEF OnStart
  <2>3. at = "count" \/ (at = "run" /\ role # "fixer")
    OBVIOUS
  <2> HIDE DEF at
  <2>4. e.pc = at /\ e.role = role /\ e.id = d.id /\ e.resolved = d.resolved /\ e.attempt = d.attempt
    BY <1>1, <2>2 DEF Delegations
  <2> QED BY <2>2, <2>3, <2>4 DEF BelowCap
<1>9. CASE CountRead(w)
  <2>1. e = [d EXCEPT !.pc = "store", !.count = attempts[CapKey(d.descId)]]
        /\ attempts' = attempts /\ d.pc = "count"
    BY <1>1, <1>9 DEF CountRead
  <2>2. /\ e.pc = "store" /\ e.id = d.id /\ e.resolved = d.resolved /\ e.attempt = d.attempt
        /\ e.descId = d.descId /\ e.count = attempts[CapKey(d.descId)]
    BY <1>1, <2>1 DEF Delegations
  <2> QED BY <2>1, <2>2 DEF BelowCap
<1>10. CASE CountStore(w)
  <2>1. e = [d EXCEPT !.pc = "run", !.count = 0] /\ d.pc = "store"
        /\ attempts' = [attempts EXCEPT ![CapKey(d.descId)] = Bump(d.count)]
    BY <1>1, <1>10 DEF CountStore
  <2>2. /\ e.pc = "run" /\ e.id = d.id /\ e.resolved = d.resolved /\ e.attempt = d.attempt
        /\ e.descId = d.descId
    BY <1>1, <2>1 DEF Delegations
  <2>3. attempts'[CapKey(d.descId)] = Bump(d.count)
    BY <1>1, <1>2, <2>1
  <2>4. ASSUME d.resolved = "fixer", d.descId = d.id
        PROVE  Bump(d.count) <= HardCap
    <3>1. d.count = attempts[CapKey(d.id)] /\ d.count < HardCap /\ d.count \in Nat
      BY <1>1, <1>2, <2>1, <2>4, CapAssumption DEF BelowCap
    <3> QED BY <3>1, CapAssumption DEF Bump
  <2> HIDE DEF d, e
  <2>5. e.resolved = "fixer" /\ e.descId = e.id => attempts'[CapKey(e.id)] <= HardCap
    BY <2>2, <2>3, <2>4
  <2> QED BY <2>2, <2>5 DEF BelowCap, d, e
<1>11. CASE /\ attempts' = attempts
            /\ e.pc \in {"end", "ended", "verdict", "finish"}
            /\ e.attempt = d.attempt /\ e.resolved = d.resolved
  BY <1>11 DEF BelowCap
<1>12. CASE \E role \in {"verifier", "fixer"}, n \in Nat, i \in ChainIds(d.id) :
              /\ ChainCall(w, role, n, i)
              /\ EntersChain(d) \/ d.attempt > 0
  <2>1. PICK role \in {"verifier", "fixer"}, n \in Nat, i \in ChainIds(d.id) :
               ChainCall(w, role, n, i)
    BY <1>12
  <2>2. d.resolved = "coder"
    BY <1>12 DEF EntersChain, BelowCap
  <2>3. e = [d EXCEPT !.pc = "start", !.type = role, !.role = role, !.attempt = n,
                      !.descId = i, !.out = NoOutcome]
    BY <1>1, <2>1 DEF ChainCall
  <2>4. e.resolved = d.resolved
    BY <1>1, <2>3 DEF Delegations
  <2> QED BY <2>2, <2>4 DEF BelowCap
<1>13. CASE OnEnd(w) \/ ChainEnds(w) \/ MarkVerdict(w) \/ (RoleRaises(w) /\ d.attempt > 0)
  <2>1. /\ attempts' = attempts
        /\ \E at \in {"ended", "verdict", "finish"}, p \in BOOLEAN :
             e = [d EXCEPT !.pc = at] \/ e = [d EXCEPT !.pc = at, !.passed = p]
    BY <1>1, <1>13 DEF OnEnd, ChainEnds, MarkVerdict, RoleRaises, Goto, Delegations, Outcomes
  <2>2. PICK at \in {"ended", "verdict", "finish"}, p \in BOOLEAN :
             e = [d EXCEPT !.pc = at] \/ e = [d EXCEPT !.pc = at, !.passed = p]
    BY <2>1
  <2>3. e.pc = at /\ e.attempt = d.attempt /\ e.resolved = d.resolved
    BY <1>1, <2>2 DEF Delegations
  <2> QED BY <1>11, <2>1, <2>3
<1>14. CASE \E r \in Results(d.role), named \in Mentions \cup {NoEvidence} : RoleReturns(w, r, named)
  <2>1. PICK r \in Results(d.role), named \in Mentions \cup {NoEvidence} : RoleReturns(w, r, named)
    BY <1>14
  <2>2. PICK o, p, v : attempts' = attempts
                       /\ e = [d EXCEPT !.pc = "end", !.out = o, !.passed = p, !.vouched = v]
    BY <1>1, <2>1 DEF RoleReturns
  <2>3. e.pc = "end" /\ e.attempt = d.attempt /\ e.resolved = d.resolved
    BY <1>1, <2>2 DEF Delegations
  <2> QED BY <1>11, <2>2, <2>3
<1>15. CASE \E first \in ChainIds(dlg[w].id) : ChainVerify(w, first) \/ ChainFix(w, first)
  <2>1. d.attempt \in Nat /\ d.attempt + 1 \in Nat
    BY <1>1 DEF Delegations
  <2>2. \E role \in {"verifier", "fixer"}, n \in Nat, i \in ChainIds(d.id) :
              /\ ChainCall(w, role, n, i)
              /\ EntersChain(d) \/ d.attempt > 0
    BY <1>15, <2>1 DEF ChainVerify, ChainFix
  <2> HIDE DEF d
  <2> QED BY <1>12, <2>2
<1>16. CASE FixerCapped(w) \/ Return(w) \/ Finish(w) \/ (RoleRaises(w) /\ ~ d.attempt > 0)
  <2>1. e = NoDelegation
    BY <1>1, <1>16 DEF FixerCapped, Return, Finish, RoleRaises
  <2> QED BY <1>4, <2>1
<1>17. CASE (\E todos \in TodoLists : PlannerWrites(w, todos)) \/ LedgerStep(w)
  BY <1>3, <1>17 DEF PlannerWrites, LedgerStep
<1> HIDE DEF d, e
<1>18. CASE RoleRaises(w)
  BY <1>13, <1>16, <1>18
<1>19. CASE RoleEnds(w)
  BY <1>14, <1>18, <1>19 DEF RoleEnds, d
<1> QED
  BY <1>5, <1>6, <1>7, <1>8, <1>9, <1>10, <1>13, <1>15, <1>16, <1>17, <1>19 DEF Acts, Proceed

\* With delegations one at a time: a fixer the wrapper let through, and that runs on
\* the task it was asked for, is at most the HardCap-th of that task (_run_wrapped's
\* cap, _on_start's count), for every cap and however many chain fixers were counted.
THEOREM CapHolds ==
  ASSUME SingleThread
  PROVE  Spec => []CapStopsDirectFixers
<1> DEFINE Inv == Types /\ \A w \in Workers : BelowCap(w)
<1>1. Init => Inv
  <2> SUFFICES ASSUME Init PROVE \A w \in Workers : BelowCap(w)
    BY InitTypes
  <2> QED BY DEF Init, BelowCap, NoDelegation
<1>2. Inv /\ [Next]_vars => Inv'
  <2> SUFFICES ASSUME Inv, [Next]_vars, NEW w \in Workers PROVE BelowCap(w)'
    BY TypesInductive
  <2>1. CASE Next
    <3>1. Acts(w)
      BY <2>1 DEF Next, Acts, SingleThread
    <3> QED BY <3>1, StepBelowCap
  <2>2. CASE UNCHANGED vars
    BY <2>2 DEF vars, BelowCap
  <2> QED BY <2>1, <2>2
<1>3. Inv => CapStopsDirectFixers
  BY DEF BelowCap, CapStopsDirectFixers
<1> QED
  BY <1>1, <1>2, <1>3, PTL DEF Spec

\* The rows replace() registered are exactly those the order lists.
Agree == \A i \in Ids : order[i] > 0 <=> items[i] # None

Verdict(d) == IF d.passed THEN "completed" ELSE "verify_failed"

Settled(d, status) == IF d.passed THEN status = "completed" ELSE status \in L!Terminal

\* From the marking of the verdict on: the row is settled, or about to be.
Settling(w) ==
  LET d == dlg[w] IN
  d.pc = "finish" /\ d.id # None =>
    IF call[w].pc = "update" THEN call[w].id = d.id /\ call[w].status = Verdict(d)
                             ELSE items[d.id] = None \/ Settled(d, items[d.id])

LEMMA StepAgree ==
  ASSUME Types, Agree, NEW w \in Workers, Acts(w)
  PROVE  Agree'
<1>1. L!TypeOK /\ dlg[w] \in Delegations
  BY DEF Types, TypeOK
<1>2. dlg[w].id \in Ids \cup {None} /\ dlg[w].descId \in Ids \cup {None}
  BY <1>1 DEF Delegations
<1>3. CASE UNCHANGED <<items, order>>
  BY <1>3 DEF Agree
<1>4. CASE \E i \in Ids \cup {None}, s \in L!HarnessStatuses : Advance(w, i, s)
  BY <1>1, <1>3, <1>4, Advanced
<1>5. CASE (\E role \in Roles : OnStart(w, role)) \/ OnEnd(w) \/ MarkVerdict(w)
  BY <1>2, <1>3, <1>4, <1>5 DEF OnStart, OnEnd, MarkVerdict, L!HarnessStatuses, ledgerVars
<1>6. CASE \E todos \in TodoLists : PlannerWrites(w, todos)
  <2>1. CASE \E todos \in TodoLists : L!WriteTodos(w, todos)
    BY <1>1, <2>1, Written, Replaced DEF Agree
  <2> QED BY <1>3, <1>6, <2>1 DEF PlannerWrites, L!WriteRejected, L!vars
<1>7. CASE LedgerStep(w)
  <2>1. /\ order' = order
        /\ \/ items' = items
           \/ /\ call[w].pc = "update" /\ items[call[w].id] # None
              /\ items' = [items EXCEPT ![call[w].id] = call[w].status]
    BY <1>1, <1>7, Resumed DEF LedgerStep
  <2>2. call[w].pc = "update" => call[w].status # None
    BY <1>1, LedgerAssumption DEF L!TypeOK, L!HarnessStatuses, L!Statuses
  <2> QED BY <1>1, <2>1, <2>2 DEF Agree, L!TypeOK, L!Listings
<1> QED
  BY <1>3, <1>5, <1>6, <1>7 DEF Acts, Proceed, RoleEnds, Delegate, FixerCapped, FixerAllowed,
     AttachEvidence, CountRead, CountStore, RoleReturns, RoleRaises, Return, ChainVerify, ChainFix,
     ChainEnds, Finish, ledgerVars

LEMMA StepSettling ==
  ASSUME Types, Agree, NEW w \in Workers, Settling(w), Acts(w)
  PROVE  Settling(w)'
<1>1. L!TypeOK /\ dlg[w] \in Delegations /\ dlg \in [Workers -> Delegations]
  BY DEF Types, TypeOK
<1>2. dlg[w].id \in Ids \cup {None} /\ dlg[w].descId \in Ids \cup {None}
  BY <1>1 DEF Delegations
<1>3. SUFFICES ASSUME dlg'[w].pc = "finish", dlg'[w].id # None
               PROVE  Settling(w)'
  BY DEF Settling
<1>4. CASE MarkVerdict(w)
  <2>1. dlg'[w] = [dlg[w] EXCEPT !.pc = "finish"] /\ Advance(w, dlg[w].id, Verdict(dlg[w]))
    BY <1>1, <1>4 DEF MarkVerdict, Goto, Verdict
  <2>2. dlg'[w].id = dlg[w].id /\ dlg'[w].passed = dlg[w].passed
    BY <1>1, <2>1 DEF Delegations
  <2>3. Verdict(dlg[w]) \in L!HarnessStatuses /\ dlg[w].id \in Ids
    BY <1>2, <1>3, <2>2 DEF Verdict, L!HarnessStatuses
  <2>4. CASE call' = call /\ L!Idle(w) /\ ~ L!Advances(dlg[w].id, Verdict(dlg[w]))
    <3>1. call'[w].pc # "update" /\ items' = items
      BY <1>1, <2>1, <2>3, <2>4, Advanced DEF L!Idle
    <3>2. items[dlg[w].id] = None \/ L!Listing[dlg[w].id] = items[dlg[w].id]
      BY <2>3 DEF Agree, L!Listing
    <3>3. items[dlg[w].id] = None \/ Settled(dlg[w], items[dlg[w].id])
      BY <2>4, <3>2 DEF L!Advances, Settled, Verdict, L!Terminal
    <3> QED BY <2>2, <3>1, <3>3 DEF Settling, Settled
  <2>5. CASE /\ call'[w].pc = "update" /\ call'[w].id = dlg[w].id
             /\ call'[w].status = Verdict(dlg[w])
    BY <2>2, <2>5 DEF Settling, Verdict
  <2> QED BY <1>1, <2>1, <2>3, <2>4, <2>5, Advanced, KeysAssumption
<1>5. CASE LedgerStep(w)
  <2>1. dlg' = dlg
    BY <1>5 DEF LedgerStep
  <2>2. call'[w].pc # "update"
    BY <1>1, <1>5, Resumed DEF LedgerStep
  <2>3. items'[dlg[w].id] = None \/ Settled(dlg[w], items'[dlg[w].id])
    <3>1. CASE items' = items /\ call[w].pc # "update"
      BY <1>3, <2>1, <3>1 DEF Settling
    <3>2. CASE call[w].pc # "update" \/ items[call[w].id] = None
      BY <1>1, <1>3, <1>5, <2>1, <3>2, Resumed DEF Settling, LedgerStep
    <3>3. CASE /\ call[w].pc = "update" /\ call[w].id \in Ids
               /\ items' = [items EXCEPT ![call[w].id] = call[w].status]
      <4>1. items'[dlg[w].id] = Verdict(dlg[w])
        BY <1>1, <1>3, <2>1, <3>3 DEF Settling, L!TypeOK, L!Listings
      <4> QED BY <4>1 DEF Settled, Verdict, L!Terminal
    <3> QED BY <1>1, <1>5, <3>1, <3>2, <3>3, Resumed DEF LedgerStep
  <2> QED BY <1>3, <2>1, <2>2, <2>3 DEF Settling, Settled
<1>6. CASE UNCHANGED dlg /\ dlg[w].pc = "run"
  BY <1>3, <1>6
<1>7. CASE dlg'[w] = NoDelegation
  BY <1>3, <1>7 DEF NoDelegation
<1>9. CASE \E type \in AgentTypes, role \in Roles, i \in Ids \cup {None} : Delegate(w, type, role, i)
  <2>1. PICK type \in AgentTypes, role \in Roles, i \in Ids \cup {None} : Delegate(w, type, role, i)
    BY <1>9
  <2> DEFINE at == IF role = "fixer" THEN "cap" ELSE "start"
  <2>2. dlg'[w] = [NoDelegation EXCEPT !.pc = at, !.type = type, !.resolved = role,
                                       !.role = role, !.id = i, !.descId = i]
    BY <1>1, <2>1 DEF Delegate
  <2>3. at # "finish"
    OBVIOUS
  <2> HIDE DEF at
  <2>4. dlg'[w].pc = at
    BY <2>2 DEF NoDelegation
  <2> QED BY <1>3, <2>3, <2>4
<1>10. CASE \E role \in Roles : OnStart(w, role)
  <2>1. PICK role \in Roles : OnStart(w, role)
    BY <1>10
  <2> DEFINE at == IF role = "fixer" THEN "count" ELSE "run"
  <2>2. dlg'[w] = [dlg[w] EXCEPT !.pc = at, !.role = role]
    BY <1>1, <2>1 DEF OnStart
  <2>3. at # "finish"
    OBVIOUS
  <2> HIDE DEF at
  <2>4. dlg'[w].pc = at
    BY <1>1, <2>2 DEF Delegations
  <2> QED BY <1>3, <2>3, <2>4
<1>11. CASE AttachEvidence(w)
  BY <1>1, <1>3, <1>11 DEF AttachEvidence, Delegations
<1>12. CASE \E r \in Results(dlg[w].role), named \in Mentions \cup {NoEvidence} : RoleReturns(w, r, named)
  <2>1. \A o, p, v : ~ (dlg' = [dlg EXCEPT ![w].pc = "end", ![w].out = o,
                                          ![w].passed = p, ![w].vouched = v])
    BY <1>1, <1>3 DEF Delegations
  <2>2. PICK r \in Results(dlg[w].role), named \in Mentions \cup {NoEvidence} : RoleReturns(w, r, named)
    BY <1>12
  <2> DEFINE o == Outcome(r)
             p == dlg[w].passed \/ (dlg[w].resolved = "coder" /\ "PASSED" \in r.quotes)
             v == dlg[w].vouched \/ SpeaksFor(dlg[w].role, r)
  <2>3. dlg' = [dlg EXCEPT ![w].pc = "end", ![w].out = o, ![w].passed = p, ![w].vouched = v]
    BY <2>2, Zenon DEF RoleReturns
  <2> HIDE DEF o, p, v
  <2> QED BY <2>1, <2>3
<1>13. CASE FixerAllowed(w) \/ CountRead(w) \/ CountStore(w) \/ OnEnd(w) \/ ChainEnds(w)
  <2>1. \A p : ~ (dlg' = [dlg EXCEPT ![w].pc = "verdict", ![w].passed = p])
    BY <1>1, <1>3 DEF Delegations
  <2>2. ~ ChainEnds(w)
    BY <2>1 DEF ChainEnds
  <2>3. \A at, n : at # "finish" => ~ (dlg' = [dlg EXCEPT ![w].pc = at, ![w].count = n])
    BY <1>1, <1>3 DEF Delegations
  <2>4. \A at : at # "finish" => ~ (dlg' = [dlg EXCEPT ![w].pc = at])
    BY <1>1, <1>3 DEF Delegations
  <2>5. ~ CountRead(w) /\ ~ CountStore(w)
    BY <2>3 DEF CountRead, CountStore
  <2>6. ~ FixerAllowed(w) /\ ~ OnEnd(w)
    BY <2>4 DEF FixerAllowed, OnEnd, Goto
  <2> QED
    BY <1>13, <2>2, <2>5, <2>6
<1>14. CASE RoleRaises(w)
  <2>1. ~ (dlg' = [dlg EXCEPT ![w].pc = "verdict"])
    BY <1>1, <1>3 DEF Delegations
  <2>2. dlg' = [dlg EXCEPT ![w] = NoDelegation]
    BY <1>14, <2>1 DEF RoleRaises, Goto
  <2> QED BY <1>1, <1>7, <2>2
<1>15. CASE \E first \in ChainIds(dlg[w].id) : ChainVerify(w, first) \/ ChainFix(w, first)
  <2>1. PICK role, n, i : ChainCall(w, role, n, i)
    BY <1>15 DEF ChainVerify, ChainFix
  <2>2. dlg'[w] = [dlg[w] EXCEPT !.pc = "start", !.type = role, !.role = role, !.attempt = n,
                                 !.descId = i, !.out = NoOutcome]
    BY <1>1, <2>1 DEF ChainCall
  <2> QED BY <1>1, <1>3, <2>2 DEF Delegations
<1>16. CASE FixerCapped(w) \/ Return(w) \/ Finish(w)
  BY <1>1, <1>7, <1>16 DEF FixerCapped, Return, Finish
<1>17. CASE \E todos \in TodoLists : PlannerWrites(w, todos)
  BY <1>6, <1>17 DEF PlannerWrites
<1> QED
  BY <1>4, <1>5, <1>9, <1>10, <1>11, <1>12, <1>13, <1>14, <1>15, <1>16, <1>17 DEF Acts, Proceed, RoleEnds

\* With delegations one at a time: a coder delegation that ran the chain leaves its
\* task decided when it returns (_run_wrapped's marking of the verdict), the row
\* completed after a passed chain and terminal after a failed one, so that the nudge
\* loop does not find it unfinished.
THEOREM CoderRowsSettled ==
  ASSUME SingleThread
  PROVE  Spec => []CoderSettlesRow
<1> DEFINE Inv == Types /\ Agree /\ \A w \in Workers : Settling(w)
<1>1. Init => Inv
  <2> SUFFICES ASSUME Init PROVE Agree /\ \A w \in Workers : Settling(w)
    BY InitTypes
  <2> QED BY DEF Init, L!Init, L!Empty, Agree, Settling, NoDelegation
<1>2. Inv /\ [Next]_vars => Inv'
  <2> SUFFICES ASSUME Inv, [Next]_vars PROVE Agree' /\ \A w \in Workers : Settling(w)'
    BY TypesInductive
  <2>1. CASE Next
    <3>1. \A w \in Workers : Acts(w)
      BY <2>1 DEF Next, Acts, SingleThread
    <3>2. PICK w \in Workers : Acts(w)
      BY <2>1 DEF Next, Acts
    <3> QED BY <3>1, <3>2, StepAgree, StepSettling
  <2>2. CASE UNCHANGED vars
    BY <2>2 DEF vars, Agree, Settling, Settled
  <2> QED BY <2>1, <2>2
<1>3. Inv => CoderSettlesRow
  <2> SUFFICES ASSUME Inv, NEW w \in Workers, dlg[w].pc = "finish", L!Idle(w),
                      dlg[w].id # None, items[dlg[w].id] # None
               PROVE  Settled(dlg[w], items[dlg[w].id])
    BY DEF CoderSettlesRow, Settled
  <2> QED BY DEF Settling, L!Idle
<1> QED
  BY <1>1, <1>2, <1>3, PTL DEF Spec
===============================================================================
