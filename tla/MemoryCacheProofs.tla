--------------------------- MODULE MemoryCacheProofs ---------------------------
(***************************************************************************)
(* Proofs about MemoryCache for every finite set of sessions, any projects *)
(* and topics, and every bound.                                            *)
(***************************************************************************)
EXTENDS MemoryCache, FiniteSetTheorems, SequenceTheorems, TLAPS

(***************************************************************************)
(* The look-up.                                                            *)
(***************************************************************************)

\* inject's tiers from each point on.
Rests == {<<"user", "project", "domain">>, <<"project", "domain">>, <<"domain">>, <<>>}

\* Tiers the look-up has passed when the turn stands at p.
Passed(p) == CASE p = "user"    -> {}
               [] p = "project" -> {"user"}
               [] p = "domain"  -> {"user", "project"}
               [] OTHER         -> Tiers

\* The look-up stops at the first tier that is not cached, or at the answer.  A tier
\* it has passed is shown from the cache if it was among those to look up, and is
\* shown as before if it was not.
LEMMA LookedUp ==
  ASSUME TypeOK, NEW s \in Sessions, NEW tiers \in Rests, NEW kept, NEW last, NEW b,
         LookUp(tiers, s, kept, last, b)
  PROVE  \E p \in Tiers \cup {"answer"} : \E shown :
           /\ pc' = [pc EXCEPT ![s] = p]
           /\ block' = [block EXCEPT ![s] = shown]
           /\ shown = [t \in Tiers |-> shown[t]]
           /\ \A t \in Tiers : \/ shown[t] = Shown(t, s, kept) /\ Hit(t, s, kept, last)
                               \/ shown[t] = b[t]
           /\ \A t \in Passed(p) : \/ shown[t] = Shown(t, s, kept) /\ Hit(t, s, kept, last)
                                   \/ shown[t] = b[t] /\ \A i \in DOMAIN tiers : tiers[i] # t
<1> DEFINE missing == {i \in DOMAIN tiers : ~ Hit(tiers[i], s, kept, last)}
           first   == IF missing = {} THEN Len(tiers) + 1
                      ELSE CHOOSE i \in missing : \A j \in missing : i <= j
           found   == {tiers[i] : i \in 1 .. (first - 1)}
           p       == IF missing = {} THEN "answer" ELSE tiers[first]
           shown   == [t \in Tiers |-> IF t \in found THEN Shown(t, s, kept) ELSE b[t]]
<1>1. pc' = [pc EXCEPT ![s] = p] /\ block' = [block EXCEPT ![s] = shown]
  BY DEF LookUp
<1>2. /\ Len(tiers) \in 0 .. 3 /\ DOMAIN tiers = 1 .. Len(tiers)
      /\ \A i \in DOMAIN tiers : tiers[i] \in Tiers
  BY DEF Rests, Tiers
<1>3. \/ missing = {} /\ first = Len(tiers) + 1
      \/ first \in missing /\ \A j \in missing : first <= j
  <2>1. missing \subseteq 1 .. 3
    BY <1>2
  <2>2. missing # {} => \E i \in missing : \A j \in missing : i <= j
    <3> HIDE DEF missing
    <3>1. CASE 1 \in missing
      BY <2>1, <3>1
    <3>2. CASE 1 \notin missing /\ 2 \in missing
      <4>1. \A j \in missing : 2 <= j
        BY <2>1, <3>2
      <4> QED BY <3>2, <4>1
    <3>3. CASE 1 \notin missing /\ 2 \notin missing
      <4>1. \A j \in missing : j = 3
        BY <2>1, <3>3
      <4> QED BY <4>1
    <3> QED BY <3>1, <3>2, <3>3
  <2> HIDE DEF missing
  <2> QED BY <2>2
<1>4. missing \subseteq DOMAIN tiers
  OBVIOUS
<1>5. /\ first \in 1 .. (Len(tiers) + 1)
      /\ \A i \in 1 .. (first - 1) : i \in DOMAIN tiers /\ i \notin missing
  <2> HIDE DEF missing, first
  <2> QED BY <1>2, <1>3, <1>4
<1>6. p \in Tiers \cup {"answer"}
  <2> HIDE DEF first
  <2> QED BY <1>2, <1>3, <1>4
<1>7. \A t \in found : Hit(t, s, kept, last)
  BY <1>5
<1>8. ASSUME NEW t \in Passed(p), NEW i \in DOMAIN tiers, tiers[i] = t
      PROVE  t \in found
  <2>1. i < first
    <3>1. CASE missing = {}
      BY <1>2, <1>3, <1>5, <3>1
    <3>2. CASE missing # {}
      <4>1. first \in DOMAIN tiers /\ tiers[i] \in Passed(tiers[first])
        BY <1>3, <1>4, <1>8, <3>2
      <4> HIDE DEF missing, first
      <4> QED BY <1>2, <4>1 DEF Rests, Passed, Tiers
    <3> QED BY <3>1, <3>2
  <2> HIDE DEF first
  <2> QED BY <1>2, <1>5, <1>8, <2>1
<1>9. \A t \in Passed(p) : t \in Tiers
  BY DEF Passed, Tiers
<1>10. /\ shown = [t \in Tiers |-> shown[t]]
       /\ \A t \in Tiers : \/ t \in found /\ shown[t] = Shown(t, s, kept)
                           \/ t \notin found /\ shown[t] = b[t]
  <2> HIDE DEF found
  <2> QED OBVIOUS
<1> HIDE DEF p, found, shown
<1>11. \A t \in Tiers : \/ shown[t] = Shown(t, s, kept) /\ Hit(t, s, kept, last)
                        \/ shown[t] = b[t]
  BY <1>7, <1>10
<1>12. \A t \in Passed(p) : \/ shown[t] = Shown(t, s, kept) /\ Hit(t, s, kept, last)
                            \/ shown[t] = b[t] /\ \A i \in DOMAIN tiers : tiers[i] # t
  BY <1>7, <1>8, <1>9, <1>10
<1> QED
  BY <1>1, <1>6, <1>10, <1>11, <1>12

(***************************************************************************)
(* Types, and the room in the store that the planned records have.         *)
(***************************************************************************)

\* A session that stores has a record to store.
Pending == \A s \in Sessions : pc[s] = "store" => records[s] # <<>>

\* No session plans more than one extraction yields.
Short == \A s \in Sessions : Len(records[s]) <= MaxRecords

\* What is written and what is planned stays within the bound.
Room == \A tier \in Tiers : \A p \in Projects :
          store[tier][p] + Cardinality(Planned(records, tier, p)) <= MaxWrites

Types == TypeOK /\ Pending /\ Short /\ Room

\* There are finitely many planned records.
LEMMA PlannedFinite ==
  ASSUME NEW r, NEW tier, NEW p
  PROVE  IsFiniteSet(Planned(r, tier, p)) /\ Cardinality(Planned(r, tier, p)) \in Nat
<1>1. IsFiniteSet(1 .. MaxRecords)
  BY FS_Interval, MemoryBounds
<1>2. IsFiniteSet(Sessions \X (1 .. MaxRecords))
  BY <1>1, FS_Product, SessionsAssumption
<1>3. Planned(r, tier, p) \in SUBSET (Sessions \X (1 .. MaxRecords))
  BY DEF Planned
<1>4. IsFiniteSet(Planned(r, tier, p))
  BY <1>2, <1>3, FS_Subset
<1> QED
  BY <1>4, FS_CardinalityType

\* Dropping a session's records plans no more than before, and its first record no
\* longer.
LEMMA PlannedDropped ==
  ASSUME Types, NEW s \in Sessions, records' = [records EXCEPT ![s] = <<>>],
         NEW tier \in Tiers, NEW p \in Projects
  PROVE  /\ Cardinality(Planned(records', tier, p)) <= Cardinality(Planned(records, tier, p))
         /\ records[s] # <<>> /\ tier = Head(records[s]) /\ p = project[s] =>
              Cardinality(Planned(records', tier, p)) + 1 <= Cardinality(Planned(records, tier, p))
<1> DEFINE after == Planned(records', tier, p)
           before == Planned(records, tier, p)
           first == <<s, 1>>
<1>1. \A v \in Sessions : records'[v] = IF v = s THEN <<>> ELSE records[v]
  BY DEF Types, TypeOK
<1>2. after \in SUBSET (before \ {first})
  BY <1>1 DEF Planned
<1>3. /\ IsFiniteSet(before) /\ Cardinality(before) \in Nat /\ Cardinality(after) \in Nat
      /\ IsFiniteSet(before \ {first})
      /\ Cardinality(before \ {first}) =
           IF first \in before THEN Cardinality(before) - 1 ELSE Cardinality(before)
  <2>1. IsFiniteSet(before) /\ Cardinality(before) \in Nat /\ Cardinality(after) \in Nat
    BY PlannedFinite
  <2> QED BY <2>1, FS_RemoveElement
<1>4. Cardinality(after) <= Cardinality(before \ {first})
  <2> HIDE DEF after, before, first
  <2> QED BY <1>2, <1>3, FS_Subset
<1>5. records[s] # <<>> /\ tier = Head(records[s]) /\ p = project[s] => first \in before
  <2>1. records[s] \in Seq(Tiers) /\ Len(records[s]) <= MaxRecords
    BY DEF Types, TypeOK, Short
  <2>2. records[s] # <<>> => 1 \in 1 .. MaxRecords /\ 1 \in DOMAIN records[s]
                             /\ records[s][1] = Head(records[s])
    BY <2>1, MemoryBounds
  <2> QED BY <2>2 DEF Planned
<1> HIDE DEF after, before
<1>6. /\ Cardinality(after) <= Cardinality(before)
      /\ first \in before => Cardinality(after) + 1 <= Cardinality(before)
  BY <1>3, <1>4
<1> QED
  BY <1>5, <1>6 DEF after, before

\* Writing the first of a session's records takes one from what is planned for its
\* tier and adds none to the others: the rest moves up by one.
LEMMA PlannedWritten ==
  ASSUME Types, NEW s \in Sessions, records[s] # <<>>,
         records' = [records EXCEPT ![s] = Tail(@)],
         NEW tier \in Tiers, NEW p \in Projects
  PROVE  /\ Cardinality(Planned(records', tier, p)) <= Cardinality(Planned(records, tier, p))
         /\ tier = Head(records[s]) /\ p = project[s] =>
              Cardinality(Planned(records', tier, p)) + 1 <= Cardinality(Planned(records, tier, p))
<1> DEFINE after == Planned(records', tier, p)
           before == Planned(records, tier, p)
           first == <<s, 1>>
           up == [x \in after |-> IF x[1] = s THEN <<s, x[2] + 1>> ELSE x]
<1>1. /\ records[s] \in Seq(Tiers) /\ Len(records[s]) \in 1 .. MaxRecords
      /\ records[s][1] = Head(records[s])
  <2>1. records[s] \in Seq(Tiers) /\ Len(records[s]) <= MaxRecords
    BY DEF Types, TypeOK, Short
  <2> QED BY <2>1, MemoryBounds
<1>2. \A v \in Sessions : records'[v] = IF v = s THEN Tail(records[s]) ELSE records[v]
  BY DEF Types, TypeOK
<1>3. \A n \in DOMAIN Tail(records[s]) :
        n \in Nat /\ n >= 1 /\ n + 1 \in DOMAIN records[s] /\ n + 1 \in 1 .. MaxRecords
        /\ Tail(records[s])[n] = records[s][n + 1]
  BY <1>1, MemoryBounds
<1>0. ASSUME NEW v \in Sessions, NEW n \in 1 .. MaxRecords, project[v] = p,
             n \in DOMAIN records[v], records[v][n] = tier
      PROVE  <<v, n>> \in before
  BY <1>0 DEF Planned
<1>4. ASSUME NEW x \in after
      PROVE  up[x] \in before \ {first}
  <2>1. x[1] \in Sessions /\ x = <<x[1], x[2]>> /\ x[2] \in 1 .. MaxRecords
        /\ project[x[1]] = p /\ x[2] \in DOMAIN records'[x[1]] /\ records'[x[1]][x[2]] = tier
    BY DEF Planned
  <2>2. CASE x[1] = s
    <3>0. x[2] \in DOMAIN Tail(records[s]) /\ Tail(records[s])[x[2]] = tier
      BY <1>2, <2>1, <2>2
    <3>1. up[x] = <<s, x[2] + 1>> /\ x[2] + 1 \in 1 .. MaxRecords /\ x[2] + 1 # 1
          /\ x[2] + 1 \in DOMAIN records[s] /\ records[s][x[2] + 1] = tier
      <4>1. up[x] = <<s, x[2] + 1>>
        BY <2>2
      <4> HIDE DEF up
      <4> QED BY <1>3, <3>0, <4>1
    <3>2. <<s, x[2] + 1>> \in before
      BY <1>0, <2>1, <2>2, <3>1
    <3> QED BY <3>1, <3>2
  <2>3. CASE x[1] # s
    <3>1. <<x[1], x[2]>> \in before
      BY <1>2, <1>0, <2>1, <2>3
    <3> QED BY <2>1, <2>3, <3>1
  <2> QED BY <2>2, <2>3
<1>5. ASSUME NEW x \in after, NEW y \in after, up[x] = up[y]
      PROVE  x = y
  <2>1. /\ x = <<x[1], x[2]>> /\ x[2] \in 1 .. MaxRecords
        /\ y = <<y[1], y[2]>> /\ y[2] \in 1 .. MaxRecords
    BY DEF Planned
  <2>2. up[x] = <<x[1], IF x[1] = s THEN x[2] + 1 ELSE x[2]>>
        /\ up[y] = <<y[1], IF y[1] = s THEN y[2] + 1 ELSE y[2]>>
    BY <2>1
  <2>3. x[1] = y[1] /\ x[2] = y[2]
    BY <1>5, <2>1, <2>2, MemoryBounds
  <2> QED BY <2>1, <2>3
<1>6. up \in Injection(after, before \ {first})
  <2> HIDE DEF after, before, first
  <2>1. up \in [after -> before \ {first}]
    BY <1>4
  <2> HIDE DEF up
  <2> QED BY <1>5, <2>1 DEF Injection, IsInjective
<1>7. /\ IsFiniteSet(before) /\ Cardinality(before) \in Nat /\ Cardinality(after) \in Nat
      /\ IsFiniteSet(before \ {first})
      /\ Cardinality(before \ {first}) =
           IF first \in before THEN Cardinality(before) - 1 ELSE Cardinality(before)
  <2>1. IsFiniteSet(before) /\ Cardinality(before) \in Nat /\ Cardinality(after) \in Nat
    BY PlannedFinite
  <2> QED BY <2>1, FS_RemoveElement
<1>8. Cardinality(after) <= Cardinality(before \ {first})
  BY <1>6, <1>7, FS_Injection
<1>9. tier = Head(records[s]) /\ p = project[s] => first \in before
  BY <1>1, MemoryBounds DEF Planned
<1> HIDE DEF after, before
<1>10. /\ Cardinality(after) <= Cardinality(before)
       /\ first \in before => Cardinality(after) + 1 <= Cardinality(before)
  BY <1>7, <1>8
<1> QED
  BY <1>9, <1>10 DEF after, before

\* Writing the first of a session's records fills the room it was planned in.
LEMMA Written ==
  ASSUME Types, NEW s \in Sessions, records[s] # <<>>, Write(s), project' = project,
         \A tier \in Tiers, p \in Projects :
           /\ Cardinality(Planned(records', tier, p)) <= Cardinality(Planned(records, tier, p))
           /\ tier = Head(records[s]) /\ p = project[s] =>
                Cardinality(Planned(records', tier, p)) + 1
                  <= Cardinality(Planned(records, tier, p))
  PROVE  store' \in [Tiers -> [Projects -> 0 .. MaxWrites]] /\ Room'
<1> DEFINE tier == Head(records[s])
           p == project[s]
<1>1. tier \in Tiers /\ p \in Projects
  <2>1. records[s] \in Seq(Tiers) /\ records[s] # <<>> /\ p \in Projects
    BY DEF Types, TypeOK
  <2> QED BY <2>1, HeadTailProperties, Zenon
<1>2. store' = [store EXCEPT ![tier][p] = @ + 1]
  BY DEF Write
<1>3. /\ store \in [Tiers -> [Projects -> 0 .. MaxWrites]] /\ MaxWrites \in Nat
      /\ \A t \in Tiers, q \in Projects :
           store[t][q] \in Nat /\ Cardinality(Planned(records, t, q)) \in Nat
  <2>1. store \in [Tiers -> [Projects -> 0 .. MaxWrites]] /\ MaxWrites \in Nat
    BY MemoryBounds DEF Types, TypeOK
  <2>2. \A t \in Tiers, q \in Projects : Cardinality(Planned(records, t, q)) \in Nat
    BY PlannedFinite
  <2>3. \A t \in Tiers, q \in Projects : store[t][q] \in Nat
    BY <2>1
  <2> QED BY <2>1, <2>2, <2>3
<1>4. \A t \in Tiers, q \in Projects :
        store'[t][q] = IF t = tier /\ q = p THEN store[t][q] + 1 ELSE store[t][q]
  <2> HIDE DEF tier, p
  <2>0. DOMAIN store = Tiers /\ store[tier] \in [Projects -> 0 .. MaxWrites]
    BY <1>1, <1>3
  <2>1. store'[tier] = [store[tier] EXCEPT ![p] = @ + 1]
    BY <1>1, <1>2, <2>0, Zenon
  <2>2. \A t \in Tiers : t # tier => store'[t] = store[t]
    BY <1>2, <2>0, Zenon
  <2>3. \A q \in Projects :
          store'[tier][q] = IF q = p THEN store[tier][q] + 1 ELSE store[tier][q]
    BY <1>1, <2>0, <2>1
  <2> QED BY <2>2, <2>3
<1>5. ASSUME NEW t \in Tiers, NEW q \in Projects
      PROVE  /\ Planned(records', t, q) = Planned(records, t, q)'
             /\ Cardinality(Planned(records', t, q)) \in Nat
             /\ store'[t][q] + Cardinality(Planned(records', t, q)) <= MaxWrites
  <2>1. Planned(records', t, q) = Planned(records, t, q)'
    BY DEF Planned
  <2>2. Cardinality(Planned(records', t, q)) \in Nat
    BY PlannedFinite
  <2>3. store[t][q] + Cardinality(Planned(records, t, q)) <= MaxWrites
    BY DEF Types, Room
  <2> QED BY <1>3, <1>4, <2>1, <2>2, <2>3
<1>6. \A t \in Tiers, q \in Projects : store'[t][q] \in 0 .. MaxWrites
  BY <1>3, <1>4, <1>5
<1>7. \A t \in Tiers : store'[t] \in [Projects -> 0 .. MaxWrites]
  <2> HIDE DEF tier, p
  <2> SUFFICES ASSUME NEW t \in Tiers PROVE store'[t] = [q \in Projects |-> store'[t][q]]
    BY <1>6
  <2> QED BY <1>1, <1>2, <1>3
<1>8. store' = [t \in Tiers |-> store'[t]]
  <2> HIDE DEF tier, p
  <2> QED BY <1>2, <1>3
<1>9. Room'
  BY <1>5 DEF Room
<1> QED
  BY <1>7, <1>8, <1>9

\* Every tier of every project has a cache slot.
LEMMA SlotTyped ==
  ASSUME NEW tier \in Tiers, NEW p \in Projects
  PROVE  Slot(tier, p) \in Slots
BY DEF Slot, Slots, SharedSlots

\* The look-up leads to a tier or to the answer, and shows lists.
LEMMA LookedUpTyped ==
  ASSUME TypeOK, NEW s \in Sessions, NEW tiers \in Rests,
         NEW kept \in [Slots -> Lists \cup {Unread}], NEW last,
         NEW b \in [Tiers -> Lists \cup {Unread}],
         LookUp(tiers, s, kept, last, b)
  PROVE  /\ pc' \in [Sessions -> {"idle", "extract", "store", "inject"} \cup Tiers \cup {"answer"}]
         /\ pc'[s] # "store" /\ \A v \in Sessions \ {s} : pc'[v] = pc[v]
         /\ block' \in [Sessions -> [Tiers -> Lists \cup {Unread}]]
<1>0. PICK p \in Tiers \cup {"answer"} :
        \E shown : /\ pc' = [pc EXCEPT ![s] = p]
                   /\ block' = [block EXCEPT ![s] = shown]
                   /\ shown = [t \in Tiers |-> shown[t]]
                   /\ \A t \in Tiers : \/ shown[t] = Shown(t, s, kept)
                                       \/ shown[t] = b[t]
  BY LookedUp
<1>1. PICK shown : /\ pc' = [pc EXCEPT ![s] = p]
                   /\ block' = [block EXCEPT ![s] = shown]
                   /\ shown = [t \in Tiers |-> shown[t]]
                   /\ \A t \in Tiers : \/ shown[t] = Shown(t, s, kept)
                                       \/ shown[t] = b[t]
  BY <1>0
<1>2. \A t \in Tiers : Shown(t, s, kept) \in Lists \cup {Unread}
  BY SlotTyped DEF Shown, TypeOK
<1>3. shown \in [Tiers -> Lists \cup {Unread}]
  <2>1. \A t \in Tiers : shown[t] \in Lists \cup {Unread}
    BY <1>1, <1>2
  <2> QED BY <1>1, <2>1
<1>4. p # "store"
  BY DEF Tiers
<1> QED
  BY <1>1, <1>3, <1>4 DEF TypeOK

\* Every step keeps the types and the room.
LEMMA TypesKept ==
  ASSUME Types, [Next]_vars
  PROVE  Types'
<1> USE DEF Types
<1>0. /\ \A t \in Tiers, p \in Projects :
            store[t][p] \in Nat /\ Cardinality(Planned(records, t, p)) \in Nat
      /\ MaxWrites \in Nat /\ MaxFaults \in Nat /\ MaxRecords \in Nat
      /\ pc \in [Sessions -> {"idle", "extract", "store", "inject"} \cup Tiers \cup {"answer"}]
  BY PlannedFinite, MemoryBounds DEF TypeOK
<1>1. CASE UNCHANGED vars
  BY <1>1 DEF vars, TypeOK, Pending, Short, Room, Planned
<1>2. ASSUME UNCHANGED <<records, store, project>>
      PROVE  Short' /\ Room'
  BY <1>2 DEF Short, Room, Planned
<1>3. ASSUME NEW s \in Sessions, StartTurn(s) PROVE Types'
  <2> USE <1>3 DEF StartTurn, caches, history
  <2>0. /\ topic' \in [Sessions -> Topics \cup {NoTopic}]
        /\ pc' \in [Sessions -> {"idle", "extract", "store", "inject"} \cup Tiers \cup {"answer"}]
    <3>1. topic \in [Sessions -> Topics \cup {NoTopic}]
      BY DEF TypeOK
    <3>2. topic' \in [Sessions -> Topics \cup {NoTopic}]
      BY <1>3, <3>1, Zenon DEF StartTurn
    <3>3. pc' = [pc EXCEPT ![s] = "inject"] \/ pc' = [pc EXCEPT ![s] = "extract"]
      BY <1>3, Zenon DEF StartTurn
    <3> QED BY <1>0, <3>2, <3>3
  <2>1. TypeOK'
    BY <2>0 DEF TypeOK
  <2>2. Pending'
    BY <1>0 DEF Pending
  <2> QED BY <1>2, <2>1, <2>2
<1>4. ASSUME NEW s \in Sessions, EndTurn(s) PROVE Types'
  <2> USE <1>4 DEF EndTurn, caches, history
  <2>0. /\ NoWrites \in [Tiers -> 0 .. MaxWrites]
        /\ NoBlock \in [Tiers -> Lists \cup {Unread}]
    BY <1>0 DEF NoWrites, NoBlock
  <2>01. pc' \in [Sessions -> {"idle", "extract", "store", "inject"} \cup Tiers \cup {"answer"}]
    BY <1>0
  <2>1. TypeOK'
    BY <2>0, <2>01 DEF TypeOK
  <2>2. Pending'
    BY <1>0 DEF Pending
  <2> QED BY <1>2, <2>1, <2>2
<1>5. ASSUME NEW s \in Sessions, Extract(s) PROVE Types'
  <2> USE DEF Extract, caches, history
  <2>1. PICK n \in 0 .. MaxRecords : \E r \in [1 .. n -> Tiers] : records' = [records EXCEPT ![s] = r]
    BY <1>5
  <2>2. PICK r \in [1 .. n -> Tiers] : records' = [records EXCEPT ![s] = r]
    BY <2>1
  <2>3. r \in Seq(Tiers) /\ Len(r) = n /\ n <= MaxRecords
    BY <1>0
  <2>4. records' \in [Sessions -> Seq(Tiers)] /\ records'[s] = r
        /\ \A v \in Sessions \ {s} : records'[v] = records[v]
    BY <2>2, <2>3 DEF TypeOK
  <2>5. TypeOK'
    BY <1>5, <2>4 DEF TypeOK
  <2>6. Pending'
    <3>1. upcoming[s] # "store"
      BY DEF TypeOK
    <3> QED BY <1>0, <1>5, <2>4, <3>1 DEF Pending
  <2>7. Short'
    BY <2>3, <2>4 DEF Short
  <2>8. ASSUME NEW t \in Tiers, NEW p \in Projects
        PROVE  store'[t][p] + Cardinality(Planned(records, t, p)') <= MaxWrites
    <3>1. store' = store /\ Planned(records, t, p)' = Planned(records', t, p)
      BY <1>5 DEF Planned
    <3>2. CASE p = project[s]
      BY <1>5, <3>1, <3>2 DEF WithinBound
    <3>3. CASE p # project[s]
      <4>1. Planned(records', t, p) = Planned(records, t, p)
        BY <2>4, <3>3 DEF Planned
      <4> QED BY <3>1, <4>1 DEF Room
    <3> QED BY <3>2, <3>3
  <2> QED BY <2>5, <2>6, <2>7, <2>8 DEF Room
<1>6. ASSUME NEW s \in Sessions, pc[s] = "store",
             records' = [records EXCEPT ![s] = Tail(@)], Write(s),
             project' = project, \A v \in Sessions \ {s} : pc'[v] = pc[v],
             pc'[s] = "store" => Len(records[s]) # 1
      PROVE  /\ records' \in [Sessions -> Seq(Tiers)] /\ store' \in [Tiers -> [Projects -> 0 .. MaxWrites]]
             /\ Pending' /\ Short' /\ Room'
  <2> DEFINE tier == Head(records[s])
             p == project[s]
  <2>1. /\ records[s] \in Seq(Tiers) /\ records[s] # <<>> /\ tier \in Tiers /\ p \in Projects
        /\ Len(records[s]) \in Nat /\ Tail(records[s]) \in Seq(Tiers)
        /\ Len(Tail(records[s])) = Len(records[s]) - 1
        /\ Len(records[s]) # 1 => Tail(records[s]) # <<>>
    <3>1. records[s] \in Seq(Tiers) /\ records[s] # <<>> /\ p \in Projects
      BY <1>6 DEF Pending, TypeOK
    <3>2. /\ Head(records[s]) \in Tiers /\ Tail(records[s]) \in Seq(Tiers)
          /\ Len(Tail(records[s])) = Len(records[s]) - 1
      BY <3>1, HeadTailProperties, Zenon
    <3>3. Len(records[s]) \in Nat /\ Len(<<>>) = 0
      BY <3>1, EmptySeq, LenProperties, Zenon
    <3>4. Len(records[s]) # 1 => Len(Tail(records[s])) # 0
      BY <3>2, <3>3
    <3>5. Len(records[s]) # 1 => Tail(records[s]) # <<>>
      BY <3>3, <3>4, Zenon
    <3> QED BY <3>1, <3>2, <3>3, <3>5, Zenon
  <2>2. /\ records' \in [Sessions -> Seq(Tiers)] /\ records'[s] = Tail(records[s])
        /\ \A v \in Sessions \ {s} : records'[v] = records[v]
    BY <1>6, <2>1 DEF TypeOK
  <2>5. store' \in [Tiers -> [Projects -> 0 .. MaxWrites]] /\ Room'
    <3>1. \A t \in Tiers, q \in Projects :
            /\ Cardinality(Planned(records', t, q)) <= Cardinality(Planned(records, t, q))
            /\ t = Head(records[s]) /\ q = project[s] =>
                 Cardinality(Planned(records', t, q)) + 1 <= Cardinality(Planned(records, t, q))
      BY <1>6, <2>1, PlannedWritten
    <3> QED BY <1>6, <2>1, <3>1, Written
  <2>6. Pending'
    BY <1>6, <2>1, <2>2 DEF Pending
  <2>7. Short'
    <3>1. Len(records'[s]) <= MaxRecords
      BY <1>0, <2>1, <2>2 DEF Short
    <3> QED BY <2>2, <3>1 DEF Short
  <2> QED BY <2>2, <2>5, <2>6, <2>7
<1>7. ASSUME NEW s \in Sessions, StoreRecord(s) PROVE Types'
  <2>1. records[s] \in Seq(Tiers) /\ records[s] # <<>>
    BY <1>7 DEF StoreRecord, Pending, TypeOK
  <2>2. records' = [records EXCEPT ![s] = Tail(@)]
    <3>1. Len(records[s]) = 1 => Tail(records[s]) = <<>>
      <4>1. Tail(records[s]) \in Seq(Tiers) /\ Len(Tail(records[s])) = Len(records[s]) - 1
        BY <2>1, HeadTailProperties, Zenon
      <4>2. Tail(records[s]) # <<>> => Len(Tail(records[s])) \in Nat \ {0}
        BY <4>1, EmptySeq, Zenon
      <4> QED BY <4>1, <4>2
    <3> QED BY <1>7, <3>1 DEF StoreRecord, LeaveExtraction
  <2>3. /\ pc' \in [Sessions -> {"idle", "extract", "store", "inject"} \cup Tiers \cup {"answer"}]
        /\ \A v \in Sessions \ {s} : pc'[v] = pc[v]
        /\ pc'[s] = "store" => Len(records[s]) # 1
        /\ dirty' \in BOOLEAN
    <3>1. upcoming[s] \in {"inject", "idle"} /\ dirty \in BOOLEAN
      BY Zenon DEF TypeOK
    <3>2. CASE Len(records[s]) = 1
      <4>1. pc' = [pc EXCEPT ![s] = upcoming[s]] /\ dirty' = TRUE
        BY <1>7, <3>2, Zenon DEF StoreRecord, LeaveExtraction
      <4> QED BY <1>0, <3>1, <4>1
    <3>3. CASE Len(records[s]) # 1
      <4>1. pc' = pc /\ dirty' = dirty
        BY <1>7, <3>3, Zenon DEF StoreRecord
      <4> QED BY <1>0, <3>1, <3>3, <4>1
    <3> QED BY <3>2, <3>3
  <2>4. /\ records' \in [Sessions -> Seq(Tiers)] /\ store' \in [Tiers -> [Projects -> 0 .. MaxWrites]]
        /\ Pending' /\ Short' /\ Room'
    BY <1>6, <1>7, <2>2, <2>3 DEF StoreRecord, LeaveExtraction
  <2>5. wrote' \in [Sessions -> [Tiers -> 0 .. MaxWrites]]
    <3>1. project[s] \in Projects
      BY DEF TypeOK
    <3>2. [t \in Tiers |-> store'[t][project[s]]] \in [Tiers -> 0 .. MaxWrites]
      BY <2>4, <3>1
    <3> QED BY <1>7, <3>2 DEF StoreRecord, LeaveExtraction, TypeOK
  <2>6. TypeOK'
    BY <1>7, <2>3, <2>4, <2>5 DEF StoreRecord, LeaveExtraction, history, TypeOK
  <2> QED BY <2>4, <2>6
<1>8. ASSUME NEW s \in Sessions, StoreFails(s) PROVE Types'
  <2> USE <1>8 DEF StoreFails, LeaveExtraction, caches
  <2>1. <<>> \in Seq(Tiers) /\ Len(<<>>) = 0 /\ upcoming[s] \in {"inject", "idle"}
    BY DEF TypeOK
  <2>2. TypeOK'
    BY <1>0, <2>1 DEF TypeOK
  <2>3. Pending'
    BY <1>0, <2>1 DEF Pending, TypeOK
  <2>4. Short'
    BY <1>0, <2>1 DEF Short, TypeOK
  <2>5. Room'
    <3> SUFFICES ASSUME NEW t \in Tiers, NEW p \in Projects
                 PROVE  store'[t][p] + Cardinality(Planned(records, t, p)') <= MaxWrites
      BY DEF Room
    <3>1. Planned(records, t, p)' = Planned(records', t, p)
      BY DEF Planned
    <3>2. /\ Cardinality(Planned(records', t, p)) \in Nat
          /\ Cardinality(Planned(records', t, p)) <= Cardinality(Planned(records, t, p))
      <4>1. records' = [records EXCEPT ![s] = <<>>]
        OBVIOUS
      <4> QED BY <4>1, PlannedDropped, PlannedFinite
    <3>3. store[t][p] + Cardinality(Planned(records, t, p)) <= MaxWrites
      BY DEF Room
    <3> QED BY <1>0, <3>1, <3>2, <3>3
  <2> QED BY <2>2, <2>3, <2>4, <2>5
<1>9. ASSUME NEW s \in Sessions, Inject(s) PROVE Types'
  <2>1. cache' \in [Slots -> Lists \cup {Unread}]
    BY <1>9 DEF Inject, Cleared, TypeOK
  <2>2. NoBlock \in [Tiers -> Lists \cup {Unread}]
    BY DEF NoBlock
  <2>3. <<"user", "project", "domain">> \in Rests
    BY DEF Rests
  <2>4. /\ pc' \in [Sessions -> {"idle", "extract", "store", "inject"} \cup Tiers \cup {"answer"}]
        /\ pc'[s] # "store" /\ \A v \in Sessions \ {s} : pc'[v] = pc[v]
        /\ block' \in [Sessions -> [Tiers -> Lists \cup {Unread}]]
    BY <1>9, <2>1, <2>2, <2>3, LookedUpTyped DEF Inject
  <2>5. TypeOK'
    BY <1>9, <2>1, <2>4 DEF Inject, history, TypeOK
  <2>6. Pending'
    BY <1>9, <2>4 DEF Inject, Pending
  <2> QED BY <1>2, <1>9, <2>5, <2>6 DEF Inject
<1>10. ASSUME NEW s \in Sessions, ThreadReads(s) PROVE Types'
  <2> DEFINE n == store[pc[s]][project[s]]
  <2>1. n \in 0 .. MaxWrites /\ project[s] \in Projects
    BY <1>10 DEF ThreadReads, TypeOK
  <2>4. PICK h \in Found(pc[s], n) :
          read' = [read EXCEPT ![s] = [of |-> project[s], version |-> n, hits |-> h]]
    BY <1>10 DEF ThreadReads
  <2> HIDE DEF n
  <2>5. h \in 0 .. MaxWrites
    BY <1>0, <2>1, <2>4 DEF Found, ListLimit
  <2>6. [of |-> project[s], version |-> n, hits |-> h] \in Lists
    BY <2>1, <2>5 DEF Lists
  <2>7. read' \in [Sessions -> Lists \cup {Unread}]
    BY <2>4, <2>6 DEF TypeOK
  <2>2. TypeOK'
    BY <1>10, <2>7 DEF ThreadReads, TypeOK, caches, history
  <2>3. Pending'
    BY <1>10 DEF ThreadReads, Pending
  <2> QED BY <1>2, <1>10, <2>2, <2>3 DEF ThreadReads
<1>11. ASSUME NEW s \in Sessions, ThreadFails(s) PROVE Types'
  <2>1. [of |-> project[s], version |-> 0, hits |-> 0] \in Lists
    BY <1>0 DEF TypeOK, Lists
  <2>2. TypeOK'
    BY <1>0, <1>11, <2>1 DEF ThreadFails, TypeOK, caches
  <2>3. Pending'
    BY <1>11 DEF ThreadFails, Pending
  <2> QED BY <1>2, <1>11, <2>2, <2>3 DEF ThreadFails
<1>12. ASSUME NEW s \in Sessions, Cache(s) PROVE Types'
  <2>1. /\ pc[s] \in Tiers /\ read[s] \in Lists /\ Slot(pc[s], project[s]) \in Slots
    BY <1>12, SlotTyped DEF Cache, TypeOK
  <2>2. cache' \in [Slots -> Lists \cup {Unread}]
    BY <1>12, <2>1 DEF Cache, TypeOK
  <2>3. [block[s] EXCEPT ![pc[s]] = read[s]] \in [Tiers -> Lists \cup {Unread}]
    BY <2>1 DEF TypeOK
  <2>4. After(pc[s]) \in Rests
    BY <2>1 DEF After, Rests, Tiers
  <2>5. /\ pc' \in [Sessions -> {"idle", "extract", "store", "inject"} \cup Tiers \cup {"answer"}]
        /\ pc'[s] # "store" /\ \A v \in Sessions \ {s} : pc'[v] = pc[v]
        /\ block' \in [Sessions -> [Tiers -> Lists \cup {Unread}]]
    BY <1>12, <2>2, <2>3, <2>4, LookedUpTyped DEF Cache
  <2>6. TypeOK'
    BY <1>12, <2>1, <2>2, <2>5 DEF Cache, TypeOK
  <2>7. Pending'
    BY <1>12, <2>5 DEF Cache, Pending
  <2> QED BY <1>2, <1>12, <2>6, <2>7 DEF Cache
<1>13. ASSUME NEW s \in Sessions, Abandon(s) PROVE Types'
  <2>1. /\ records' = [records EXCEPT ![s] = <<>>] /\ pc' = [pc EXCEPT ![s] = "idle"]
        /\ project' = project
    BY <1>13 DEF Abandon
  <2>2. \A t \in Tiers, q \in Projects :
          /\ Cardinality(Planned(records', t, q)) <= Cardinality(Planned(records, t, q))
          /\ records[s] # <<>> /\ t = Head(records[s]) /\ q = project[s] =>
               Cardinality(Planned(records', t, q)) + 1 <= Cardinality(Planned(records, t, q))
    BY <2>1, PlannedDropped
  <2>3. store' \in [Tiers -> [Projects -> 0 .. MaxWrites]] /\ Room'
    <3>1. CASE pc[s] = "store" /\ Write(s)
      <4>1. records[s] # <<>>
        BY <3>1 DEF Pending
      <4> QED BY <2>1, <2>2, <3>1, <4>1, Written
    <3>2. CASE store' = store
      <4> SUFFICES ASSUME NEW t \in Tiers, NEW p \in Projects
                   PROVE  store'[t][p] + Cardinality(Planned(records, t, p)') <= MaxWrites
        BY <3>2 DEF Room, TypeOK
      <4>1. Planned(records, t, p)' = Planned(records', t, p)
        BY <2>1 DEF Planned
      <4>2. Cardinality(Planned(records', t, p)) \in Nat
        BY PlannedFinite
      <4>3. store[t][p] + Cardinality(Planned(records, t, p)) <= MaxWrites
        BY DEF Room
      <4> QED BY <1>0, <2>2, <3>2, <4>1, <4>2, <4>3
    <3> QED BY <1>13, <3>1, <3>2 DEF Abandon
  <2>4. /\ <<>> \in Seq(Tiers) /\ Len(<<>>) = 0
        /\ NoWrites \in [Tiers -> 0 .. MaxWrites]
        /\ NoBlock \in [Tiers -> Lists \cup {Unread}]
    BY <1>0 DEF NoWrites, NoBlock
  <2>5. records' \in [Sessions -> Seq(Tiers)] /\ records'[s] = <<>>
        /\ \A v \in Sessions \ {s} : records'[v] = records[v]
    BY <2>1, <2>4 DEF TypeOK
  <2>6. pc' \in [Sessions -> {"idle", "extract", "store", "inject"} \cup Tiers \cup {"answer"}]
        /\ pc'[s] = "idle" /\ \A v \in Sessions \ {s} : pc'[v] = pc[v]
    BY <1>0, <2>1
  <2>7. /\ wrote' \in [Sessions -> [Tiers -> 0 .. MaxWrites]]
        /\ block' \in [Sessions -> [Tiers -> Lists \cup {Unread}]]
    BY <1>13, <2>4 DEF Abandon, TypeOK
  <2>8. /\ topic' \in [Sessions -> Topics \cup {NoTopic}]
        /\ upcoming' \in [Sessions -> {"inject", "idle"}]
        /\ read' \in [Sessions -> Lists \cup {Unread}]
    BY <1>13 DEF Abandon, TypeOK
  <2>9. cut' \in BOOLEAN
    BY <1>13 DEF Abandon
  <2>10. TypeOK'
    BY <1>13, <2>1, <2>3, <2>5, <2>6, <2>7, <2>8, <2>9 DEF Abandon, TypeOK, caches
  <2>11. Pending'
    BY <2>5, <2>6 DEF Pending
  <2>12. Short'
    <3>1. Len(records'[s]) <= MaxRecords
      BY <1>0, <2>4, <2>5
    <3>2. \A v \in Sessions \ {s} : Len(records'[v]) <= MaxRecords
      BY <2>5 DEF Short
    <3> QED BY <3>1, <3>2 DEF Short
  <2> QED BY <2>3, <2>10, <2>11, <2>12
<1> QED
  BY <1>1, <1>3, <1>4, <1>5, <1>7, <1>8, <1>9, <1>10, <1>11, <1>12, <1>13 DEF Next

\* Initially nothing is stored or planned.
LEMMA TypesInit ==
  ASSUME Init
  PROVE  Types
<1>1. \A s \in Sessions : records[s] = <<>> /\ Len(records[s]) = 0
  BY DEF Init
<1>2. \A t \in Tiers, p \in Projects : Planned(records, t, p) = {}
  BY <1>1 DEF Planned
<1>3. Room
  <2>1. Cardinality({}) = 0 /\ \A t \in Tiers, p \in Projects : store[t][p] = 0
    BY FS_EmptySet DEF Init
  <2> QED BY <1>2, <2>1, MemoryBounds DEF Room
<1>4. TypeOK
  <2>1. NoWrites \in [Tiers -> 0 .. MaxWrites] /\ <<>> \in Seq(Tiers)
        /\ NoBlock \in [Tiers -> Lists \cup {Unread}]
    BY MemoryBounds DEF NoWrites, NoBlock
  <2>2. store \in [Tiers -> [Projects -> 0 .. MaxWrites]]
    BY MemoryBounds DEF Init
  <2>3. pc \in [Sessions -> {"idle", "extract", "store", "inject"} \cup Tiers \cup {"answer"}]
    BY DEF Init
  <2>4. /\ records \in [Sessions -> Seq(Tiers)] /\ wrote \in [Sessions -> [Tiers -> 0 .. MaxWrites]]
        /\ block \in [Sessions -> [Tiers -> Lists \cup {Unread}]]
    BY <2>1 DEF Init
  <2>5. /\ project \in [Sessions -> Projects] /\ topic \in [Sessions -> Topics \cup {NoTopic}]
        /\ upcoming \in [Sessions -> {"inject", "idle"}]
        /\ read \in [Sessions -> Lists \cup {Unread}] /\ cache \in [Slots -> Lists \cup {Unread}]
    BY DEF Init
  <2>6. faults \in 0 .. MaxFaults
    BY MemoryBounds DEF Init
  <2>7. lastTopic \in Topics \cup {NoTopic} /\ dirty \in BOOLEAN /\ overtaken \in BOOLEAN
        /\ cut \in BOOLEAN
    BY Zenon DEF Init
  <2> QED BY <2>2, <2>3, <2>4, <2>5, <2>6, <2>7 DEF TypeOK
<1>5. Pending /\ Short
  BY <1>1, MemoryBounds DEF Init, Pending, Short
<1> QED BY <1>3, <1>4, <1>5 DEF Types

\* In every reachable state the variables have their types: in particular the store
\* never outgrows its bound, because an extraction only plans what has room.
THEOREM TypeCorrect == Spec => []TypeOK
<1>1. Init => Types
  BY TypesInit
<1>2. Types /\ [Next]_vars => Types'
  BY TypesKept
<1>3. Types => TypeOK
  BY DEF Types
<1> QED
  BY <1>1, <1>2, <1>3, PTL DEF Spec

(***************************************************************************)
(* What the caches hold, while no store call fails, no list is overtaken   *)
(* and no extraction is cancelled while it stores.  _dirty makes an inject *)
(* clear the slots all projects share and the one of its own project: what *)
(* other projects have cached for their own tier is looked after only      *)
(* where there are none.                                                   *)
(***************************************************************************)

Covered(tier, p) == tier \in SharedSlots \/ \A q \in Projects : q = p

\* StaleIsMarked, for the slots an inject clears.
Marked ==
  Undisturbed =>
    \A tier \in Tiers : \A p \in Projects :
      Covered(tier, p) => Accounted(tier, p)

\* A thread reads the list of its own project.
ReadsOwn == \A s \in Sessions : read[s] # Unread => read[s].of = project[s]

\* The list shows all the store held, as far as the listing goes.
Full(list) == list # Unread => list.hits = IF list.version <= ListLimit THEN list.version
                                                                       ELSE ListLimit

\* So do the lists of the user and project tiers, wherever they are; and there is
\* nothing read but at a tier.
Whole ==
  /\ \A s \in Sessions : \/ read[s] = Unread \/ pc[s] = "domain"
                         \/ pc[s] \in {"user", "project"} /\ Full(read[s])
  /\ \A x \in Slots \ {"domain"} : Full(cache[x])
  /\ \A s \in Sessions : \A tier \in Tiers \ {"domain"} : Full(block[s][tier])

\* What an opening extraction has left is in the store, and a session that has not
\* come to its opening extraction's end has left nothing.
WroteToStore ==
  \A s \in Sessions :
    /\ \A tier \in Tiers : wrote[s][tier] <= store[tier][project[s]]
    /\ pc[s] \in {"idle", "extract", "store"} => \A tier \in Tiers : wrote[s][tier] = 0

\* The list, if it is of s's project, holds what s's opening extraction left.
Sees(list, s, tier) == list.of = project[s] => list.version >= wrote[s][tier]

\* A session that has injected, or will without clearing the caches, finds in them
\* no list from before its own opening extraction.
CacheSees ==
  Undisturbed =>
    \A s \in Sessions : \A tier \in Tiers :
      /\ Covered(tier, project[s])
      /\ pc[s] \in Tiers \cup {"answer"} \/ (pc[s] = "inject" /\ ~ dirty)
      /\ cache[Slot(tier, project[s])] # Unread
      => Sees(cache[Slot(tier, project[s])], s, tier)

\* Nor is one shown in a tier the look-up has passed.
BlockSees ==
  Undisturbed =>
    \A s \in Sessions : pc[s] \in Tiers \cup {"answer"} =>
      \A tier \in Passed(pc[s]) :
        Covered(tier, project[s]) => /\ block[s][tier] \in Lists
                                     /\ Sees(block[s][tier], s, tier)

CacheInv == Types /\ ReadsOwn /\ Whole /\ Marked /\ WroteToStore /\ CacheSees /\ BlockSees

\* A slot is of one tier, and the project tier's of one project.
LEMMA SlotOfOne ==
  ASSUME NEW t \in Tiers, NEW u \in Tiers, NEW p \in Projects, NEW q \in Projects,
         Slot(t, p) = Slot(u, q)
  PROVE  t = u /\ (t \in SharedSlots \/ p = q)
BY CacheAssumption DEF Slot, SharedSlots, Tiers

\* An inject that finds _dirty clears every slot that is looked after.
LEMMA CoveredCleared ==
  ASSUME NEW t \in Tiers, NEW p \in Projects, NEW q \in Projects, Covered(t, p)
  PROVE  Cleared(q)[Slot(t, p)] = Unread
BY SlotTyped DEF Cleared, Covered, Slot, SharedSlots, Tiers

\* What Cache leaves in a slot is what was there, or the list the thread has read,
\* which undisturbed is the store's.
LEMMA SlotAfterCache ==
  ASSUME Types, ReadsOwn, NEW s \in Sessions, Cache(s), Undisturbed',
         NEW t \in Tiers, NEW p \in Projects
  PROVE  \/ cache'[Slot(t, p)] = cache[Slot(t, p)]
         \/ /\ t = pc[s] /\ cache'[Slot(t, p)] = read[s] /\ read[s] \in Lists
            /\ read[s].of = project[s] /\ read[s].version = store[t][project[s]]
<1>1. /\ pc[s] \in Tiers /\ read[s] \in Lists /\ project[s] \in Projects
      /\ read[s].of = project[s] /\ Slot(t, p) \in Slots
  BY SlotTyped DEF Cache, Types, TypeOK, ReadsOwn
<1>2. cache' = [cache EXCEPT ![Slot(pc[s], project[s])] = read[s]]
      /\ read[s].version = store[pc[s]][project[s]]
  BY DEF Cache, Undisturbed
<1>3. CASE Slot(t, p) = Slot(pc[s], project[s])
  <2>1. t = pc[s]
    BY <1>1, <1>3, SlotOfOne
  <2> QED BY <1>1, <1>2, <1>3, <2>1 DEF Types, TypeOK
<1>4. CASE Slot(t, p) # Slot(pc[s], project[s])
  BY <1>1, <1>2, <1>4 DEF Types, TypeOK
<1> QED
  BY <1>3, <1>4

\* Every thread goes on reading its own project's list.
LEMMA ReadsOwnKept ==
  ASSUME Types, ReadsOwn, [Next]_vars
  PROVE  ReadsOwn'
<1> USE DEF ReadsOwn
<1>1. CASE UNCHANGED vars
  BY <1>1 DEF vars
<1>2. ASSUME NEW s \in Sessions, ThreadReads(s) PROVE ReadsOwn'
  BY <1>2 DEF ThreadReads, Types, TypeOK
<1>3. ASSUME NEW s \in Sessions, ThreadFails(s) PROVE ReadsOwn'
  BY <1>3 DEF ThreadFails, Types, TypeOK
<1>4. ASSUME NEW s \in Sessions, Cache(s) PROVE ReadsOwn'
  BY <1>4 DEF Cache, Types, TypeOK
<1>5. ASSUME NEW s \in Sessions,
             StartTurn(s) \/ EndTurn(s) \/ Extract(s) \/ StoreRecord(s) \/ StoreFails(s) \/ Inject(s)
      PROVE  ReadsOwn'
  <2>1. UNCHANGED <<read, project>>
    BY <1>5 DEF StartTurn, EndTurn, Extract, StoreRecord, StoreFails, LeaveExtraction, Inject
  <2> QED BY <2>1
<1>6. ASSUME NEW s \in Sessions, Abandon(s) PROVE ReadsOwn'
  BY <1>6 DEF Abandon, Types, TypeOK
<1> QED
  BY <1>1, <1>2, <1>3, <1>4, <1>5, <1>6 DEF Next

\* What has been disturbed stays so.
LEMMA StaysDisturbed ==
  ASSUME Types, [Next]_vars, Undisturbed'
  PROVE  Undisturbed /\ faults' = faults
<1>1. faults \in Nat /\ overtaken \in BOOLEAN /\ cut \in BOOLEAN
  BY MemoryBounds DEF Types, TypeOK
<1>2. faults' = faults \/ faults' = faults + 1
  BY DEF Next, StartTurn, EndTurn, Extract, StoreRecord, StoreFails, Inject, ThreadReads,
         ThreadFails, Cache, Abandon, history, vars
<1>3. overtaken => overtaken'
  BY Zenon DEF Next, StartTurn, EndTurn, Extract, StoreRecord, StoreFails, Inject, ThreadReads,
               ThreadFails, Cache, Abandon, history, vars
<1>4. cut => cut'
  BY Zenon DEF Next, StartTurn, EndTurn, Extract, StoreRecord, StoreFails, Inject, ThreadReads,
               ThreadFails, Cache, Abandon, history, vars
<1> QED
  BY <1>1, <1>2, <1>3, <1>4 DEF Undisturbed

\* Undisturbed, a turn is abandoned without a write.
LEMMA AbandonedQuietly ==
  ASSUME Types, NEW s \in Sessions, Abandon(s), Undisturbed'
  PROVE  /\ pc[s] # "store" /\ UNCHANGED <<project, store, cache, dirty>>
         /\ pc'[s] = "idle" /\ wrote'[s] = NoWrites
         /\ \A v \in Sessions \ {s} : UNCHANGED <<pc[v], wrote[v], block[v]>>
<1>1. pc[s] # "store"
  BY DEF Abandon, Undisturbed
<1> QED
  BY <1>1 DEF Abandon, caches, Types, TypeOK

\* A list is cached stale only with _dirty raised or about to be.
LEMMA MarkedKept ==
  ASSUME Types, ReadsOwn, Marked, [Next]_vars
  PROVE  Marked'
<1> SUFFICES ASSUME Undisturbed', NEW t \in Tiers, NEW p \in Projects, Covered(t, p),
                    cache'[Slot(t, p)] # Unread, cache'[Slot(t, p)].of = p
             PROVE  \/ cache'[Slot(t, p)].version = store'[t][p]
                    \/ dirty'
                    \/ \E v \in Sessions : pc'[v] = "store" /\ project'[v] = p
  BY DEF Marked, Accounted, Covered, Slot, SharedSlots
<1>0. /\ Undisturbed
      /\ cache[Slot(t, p)] # Unread /\ cache[Slot(t, p)].of = p =>
           \/ cache[Slot(t, p)].version = store[t][p]
           \/ dirty
           \/ \E v \in Sessions : pc[v] = "store" /\ project[v] = p
  BY StaysDisturbed DEF Marked, Accounted
<1>1. CASE UNCHANGED vars
  BY <1>0, <1>1 DEF vars
<1>2. ASSUME NEW s \in Sessions, pc[s] # "store", \A v \in Sessions \ {s} : pc'[v] = pc[v],
             UNCHANGED <<project, store, cache, dirty>>
      PROVE  \/ cache'[Slot(t, p)].version = store'[t][p]
             \/ dirty'
             \/ \E v \in Sessions : pc'[v] = "store" /\ project'[v] = p
  BY <1>0, <1>2
<1>3. ASSUME NEW s \in Sessions, StartTurn(s) \/ EndTurn(s) \/ Extract(s) \/ ThreadReads(s)
      PROVE  /\ pc[s] # "store" /\ \A v \in Sessions \ {s} : pc'[v] = pc[v]
             /\ UNCHANGED <<project, store, cache, dirty>>
  <2>1. pc \in [Sessions -> {"idle", "extract", "store", "inject"} \cup Tiers \cup {"answer"}]
    BY DEF Types, TypeOK
  <2> QED BY <1>3, <2>1 DEF StartTurn, EndTurn, Extract, ThreadReads, caches, Tiers
<1>4. ASSUME NEW s \in Sessions, StoreFails(s) \/ ThreadFails(s)
      PROVE  FALSE
  <2>1. faults \in Nat /\ faults' = faults + 1
    BY <1>4, MemoryBounds DEF StoreFails, ThreadFails, Types, TypeOK
  <2> QED BY <2>1, StaysDisturbed
<1>5. ASSUME NEW s \in Sessions, StoreRecord(s)
      PROVE  \/ cache'[Slot(t, p)].version = store'[t][p]
             \/ dirty'
             \/ \E v \in Sessions : pc'[v] = "store" /\ project'[v] = p
  <2>1. cache' = cache /\ project' = project /\ pc[s] = "store"
    BY <1>5 DEF StoreRecord, LeaveExtraction
  <2>2. CASE Len(records[s]) = 1
    BY <1>5, <2>2, Zenon DEF StoreRecord
  <2>3. CASE Len(records[s]) # 1
    <3>1. pc' = pc /\ dirty' = dirty
      BY <1>5, <2>3 DEF StoreRecord
    <3>2. CASE project[s] = p
      BY <2>1, <3>1, <3>2
    <3>3. CASE project[s] # p
      <4>1. store'[t][p] = store[t][p]
        BY <1>5, <3>3 DEF StoreRecord, Write, Types, TypeOK
      <4> QED BY <1>0, <2>1, <3>1, <4>1
    <3> QED BY <3>2, <3>3
  <2> QED BY <2>2, <2>3
<1>6. ASSUME NEW s \in Sessions, Inject(s)
      PROVE  \/ cache'[Slot(t, p)].version = store'[t][p]
             \/ dirty'
             \/ \E v \in Sessions : pc'[v] = "store" /\ project'[v] = p
  <2>1. ~ dirty
    <3>1. dirty => cache' = Cleared(project[s])
      BY <1>6 DEF Inject
    <3>2. project[s] \in Projects
      BY DEF Types, TypeOK
    <3> QED BY <3>1, <3>2, CoveredCleared
  <2>2. cache' = cache /\ store' = store /\ project' = project /\ pc[s] = "inject"
    BY <1>6, <2>1 DEF Inject
  <2>3. \A v \in Sessions \ {s} : pc'[v] = pc[v]
    BY <1>6 DEF Inject, LookUp, Types, TypeOK
  <2> QED BY <1>0, <2>1, <2>2, <2>3
<1>7. ASSUME NEW s \in Sessions, Cache(s)
      PROVE  \/ cache'[Slot(t, p)].version = store'[t][p]
             \/ dirty'
             \/ \E v \in Sessions : pc'[v] = "store" /\ project'[v] = p
  <2>1. store' = store /\ project' = project /\ dirty' = dirty /\ pc[s] # "store"
    BY <1>7 DEF Cache, Tiers
  <2>2. \A v \in Sessions \ {s} : pc'[v] = pc[v]
    BY <1>7 DEF Cache, LookUp, Types, TypeOK
  <2>3. CASE cache'[Slot(t, p)] = cache[Slot(t, p)]
    BY <1>0, <2>1, <2>2, <2>3
  <2>4. CASE cache'[Slot(t, p)] = read[s] /\ read[s].of = project[s]
             /\ read[s].version = store[t][project[s]]
    BY <2>1, <2>4
  <2> QED BY <1>7, <2>3, <2>4, SlotAfterCache
<1>8. ASSUME NEW s \in Sessions, Abandon(s)
      PROVE  /\ pc[s] # "store" /\ \A v \in Sessions \ {s} : pc'[v] = pc[v]
             /\ UNCHANGED <<project, store, cache, dirty>>
  BY <1>8, AbandonedQuietly
<1> QED
  BY <1>1, <1>2, <1>3, <1>4, <1>5, <1>6, <1>7, <1>8 DEF Next

\* The store only grows, and a session's opening extraction leaves what it holds.
LEMMA WroteToStoreKept ==
  ASSUME Types, WroteToStore, [Next]_vars
  PROVE  WroteToStore'
<1> USE DEF WroteToStore
<1>0. /\ pc \in [Sessions -> {"idle", "extract", "store", "inject"} \cup Tiers \cup {"answer"}]
      /\ wrote \in [Sessions -> [Tiers -> 0 .. MaxWrites]]
      /\ store \in [Tiers -> [Projects -> 0 .. MaxWrites]] /\ project \in [Sessions -> Projects]
      /\ MaxWrites \in Nat /\ \A v \in Sessions : upcoming[v] \in {"inject", "idle"}
  BY MemoryBounds DEF Types, TypeOK
<1>1. CASE UNCHANGED vars
  BY <1>1 DEF vars
<1>2. ASSUME NEW s \in Sessions, UNCHANGED <<wrote, store, project>>,
             \A v \in Sessions \ {s} : pc'[v] = pc[v],
             pc'[s] \in {"idle", "extract", "store"} => pc[s] \in {"idle", "extract", "store"}
      PROVE  WroteToStore'
  BY <1>2
<1>3. ASSUME NEW s \in Sessions,
             StartTurn(s) \/ Extract(s) \/ StoreFails(s) \/ ThreadReads(s) \/ ThreadFails(s)
      PROVE  WroteToStore'
  <2>1. UNCHANGED <<wrote, store, project>> /\ \A v \in Sessions \ {s} : pc'[v] = pc[v]
    BY <1>0, <1>3 DEF StartTurn, Extract, StoreFails, LeaveExtraction, ThreadReads, ThreadFails
  <2>2. pc'[s] \in {"idle", "extract", "store"} => pc[s] \in {"idle", "extract", "store"}
    BY <1>0, <1>3 DEF StartTurn, Extract, StoreFails, LeaveExtraction, ThreadReads, ThreadFails
  <2> QED BY <1>2, <2>1, <2>2
<1>4. ASSUME NEW s \in Sessions, Inject(s) \/ Cache(s)
      PROVE  WroteToStore'
  <2>1. UNCHANGED <<wrote, store, project>> /\ \A v \in Sessions \ {s} : pc'[v] = pc[v]
    BY <1>0, <1>4 DEF Inject, Cache, LookUp
  <2>2. pc'[s] \in Tiers \cup {"answer"}
    <3>1. CASE Inject(s)
      <4>1. LookUp(<<"user", "project", "domain">>, s, cache', lastTopic', NoBlock)
            /\ <<"user", "project", "domain">> \in Rests
        BY <3>1 DEF Inject, Rests
      <4> QED BY <1>0, <4>1, LookedUp DEF Types
    <3>2. CASE Cache(s)
      <4>1. LookUp(After(pc[s]), s, cache', lastTopic', [block[s] EXCEPT ![pc[s]] = read[s]])
            /\ After(pc[s]) \in Rests
        BY <3>2 DEF Cache, After, Rests, Tiers
      <4> QED BY <1>0, <4>1, LookedUp DEF Types
    <3> QED BY <1>4, <3>1, <3>2
  <2> QED BY <1>2, <2>1, <2>2 DEF Tiers
<1>5. ASSUME NEW s \in Sessions, EndTurn(s)
      PROVE  WroteToStore'
  <2>1. UNCHANGED <<store, project>> /\ \A v \in Sessions \ {s} : pc'[v] = pc[v]
    BY <1>0, <1>5 DEF EndTurn
  <2>2. wrote'[s] = NoWrites /\ \A v \in Sessions \ {s} : wrote'[v] = wrote[v]
    BY <1>0, <1>5 DEF EndTurn
  <2>3. \A t \in Tiers : wrote'[s][t] = 0 /\ store[t][project[s]] \in Nat
    BY <1>0, <2>2 DEF NoWrites
  <2> QED BY <2>1, <2>2, <2>3
<1>6. ASSUME NEW s \in Sessions, StoreRecord(s)
      PROVE  WroteToStore'
  <2>1. \A t \in Tiers, p \in Projects :
          store'[t][p] >= store[t][p] /\ store[t][p] \in Nat /\ store'[t][p] \in Nat
    <3>1. Head(records[s]) \in Tiers
      <4>1. records[s] \in Seq(Tiers) /\ records[s] # <<>>
        BY <1>6 DEF StoreRecord, Types, TypeOK, Pending
      <4> QED BY <4>1, HeadTailProperties, Zenon
    <3>2. store' = [store EXCEPT ![Head(records[s])][project[s]] = @ + 1]
      BY <1>6 DEF StoreRecord, Write
    <3> QED BY <1>0, <3>1, <3>2
  <2>2. project' = project /\ pc[s] = "store" /\ \A v \in Sessions \ {s} : pc'[v] = pc[v]
    BY <1>0, <1>6 DEF StoreRecord, LeaveExtraction
  <2>3. CASE wrote' = wrote
    <3>1. ASSUME NEW v \in Sessions, NEW t \in Tiers PROVE wrote'[v][t] <= store'[t][project'[v]]
      <4>1. wrote[v][t] \in Nat /\ project[v] \in Projects /\ wrote[v][t] <= store[t][project[v]]
        BY <1>0
      <4> QED BY <2>1, <2>2, <2>3, <4>1
    <3>2. ASSUME NEW v \in Sessions, NEW t \in Tiers, pc'[v] \in {"idle", "extract", "store"}
          PROVE  wrote'[v][t] = 0
      <4>1. pc[v] \in {"idle", "extract", "store"}
        BY <2>2, <3>2
      <4> QED BY <2>3, <4>1
    <3> QED BY <3>1, <3>2
  <2>4. CASE /\ upcoming[s] = "inject" /\ pc' = [pc EXCEPT ![s] = upcoming[s]]
             /\ wrote' = [wrote EXCEPT ![s] = [tier \in Tiers |-> store'[tier][project[s]]]]
    <3>1. pc'[s] = "inject" /\ \A t \in Tiers : wrote'[s][t] = store'[t][project[s]]
      BY <1>0, <2>4
    <3>2. \A v \in Sessions \ {s} : wrote'[v] = wrote[v]
      BY <1>0, <2>4
    <3>3. ASSUME NEW v \in Sessions, NEW t \in Tiers PROVE wrote'[v][t] <= store'[t][project'[v]]
      <4>1. wrote[v][t] \in Nat /\ project[v] \in Projects /\ wrote[v][t] <= store[t][project[v]]
        BY <1>0
      <4>2. store'[t][project[v]] \in Nat
        BY <2>1, <4>1
      <4> QED BY <2>1, <2>2, <3>1, <3>2, <4>1, <4>2
    <3>4. ASSUME NEW v \in Sessions, NEW t \in Tiers, pc'[v] \in {"idle", "extract", "store"}
          PROVE  wrote'[v][t] = 0
      BY <2>2, <3>1, <3>2, <3>4
    <3> QED BY <3>3, <3>4
  <2> QED BY <1>6, <2>3, <2>4 DEF StoreRecord, LeaveExtraction
<1>7. ASSUME NEW s \in Sessions, Abandon(s)
      PROVE  WroteToStore'
  <2>1. \A t \in Tiers, p \in Projects :
          store'[t][p] >= store[t][p] /\ store[t][p] \in Nat /\ store'[t][p] \in Nat
    <3>1. CASE store' = store
      BY <1>0, <3>1
    <3>2. CASE pc[s] = "store" /\ Write(s)
      <4>1. Head(records[s]) \in Tiers
        <5>1. records[s] \in Seq(Tiers) /\ records[s] # <<>>
          BY <3>2 DEF Types, TypeOK, Pending
        <5> QED BY <5>1, HeadTailProperties, Zenon
      <4>2. store' = [store EXCEPT ![Head(records[s])][project[s]] = @ + 1]
        BY <3>2 DEF Write
      <4> QED BY <1>0, <4>1, <4>2
    <3> QED BY <1>7, <3>1, <3>2 DEF Abandon
  <2>2. /\ project' = project /\ wrote'[s] = NoWrites
        /\ \A v \in Sessions \ {s} : pc'[v] = pc[v] /\ wrote'[v] = wrote[v]
    BY <1>0, <1>7 DEF Abandon
  <2>3. \A t \in Tiers : wrote'[s][t] = 0
    BY <2>2 DEF NoWrites
  <2>4. ASSUME NEW v \in Sessions, NEW t \in Tiers PROVE wrote'[v][t] <= store'[t][project'[v]]
    <3>1. wrote[v][t] \in Nat /\ project[v] \in Projects /\ wrote[v][t] <= store[t][project[v]]
      BY <1>0
    <3> QED BY <2>1, <2>2, <2>3, <3>1
  <2>5. ASSUME NEW v \in Sessions, NEW t \in Tiers, pc'[v] \in {"idle", "extract", "store"}
        PROVE  wrote'[v][t] = 0
    BY <2>2, <2>3, <2>5
  <2> QED BY <2>4, <2>5
<1> QED
  BY <1>1, <1>3, <1>4, <1>5, <1>6, <1>7 DEF Next

\* What the look-up's caches see, and what it had shown before, see on.
LEMMA CacheSeesKept ==
  ASSUME Types, ReadsOwn, WroteToStore, CacheSees, [Next]_vars
  PROVE  CacheSees'
<1> SUFFICES ASSUME Undisturbed', NEW v \in Sessions, NEW t \in Tiers, Covered(t, project'[v]),
                    pc'[v] \in Tiers \cup {"answer"} \/ (pc'[v] = "inject" /\ ~ dirty'),
                    cache'[Slot(t, project'[v])] # Unread,
                    cache'[Slot(t, project'[v])].of = project'[v]
             PROVE  cache'[Slot(t, project'[v])].version >= wrote'[v][t]
  BY DEF CacheSees, Sees, Covered, Slot, SharedSlots
<1> DEFINE list == cache[Slot(t, project[v])]
<1>0. /\ pc \in [Sessions -> {"idle", "extract", "store", "inject"} \cup Tiers \cup {"answer"}]
      /\ wrote \in [Sessions -> [Tiers -> 0 .. MaxWrites]] /\ read \in [Sessions -> Lists \cup {Unread}]
      /\ store \in [Tiers -> [Projects -> 0 .. MaxWrites]] /\ project \in [Sessions -> Projects]
      /\ cache \in [Slots -> Lists \cup {Unread}] /\ Slot(t, project[v]) \in Slots
      /\ MaxWrites \in Nat /\ \A w \in Sessions : upcoming[w] \in {"inject", "idle"}
      /\ \A x \in Lists : x.version \in Nat
  <2>1. project[v] \in Projects
    BY DEF Types, TypeOK
  <2> QED BY <2>1, SlotTyped, MemoryBounds DEF Types, TypeOK, Lists
<1>1. /\ Undisturbed /\ faults' = faults
      /\ /\ pc[v] \in Tiers \cup {"answer"} \/ (pc[v] = "inject" /\ ~ dirty)
         /\ Covered(t, project[v]) /\ list # Unread /\ list.of = project[v]
         => list.version >= wrote[v][t]
  BY StaysDisturbed DEF CacheSees, Sees
<1>2. \A w \in Sessions : pc[w] \in {"idle", "extract", "store"} => wrote[w][t] = 0
  BY DEF WroteToStore
<1>3. ASSUME cache' = cache, project' = project, wrote'[v] = wrote[v],
             pc'[v] = pc[v] \/ pc[v] \in {"idle", "extract", "store"}, dirty' = dirty \/ dirty'
      PROVE  cache'[Slot(t, project'[v])].version >= wrote'[v][t]
  <2>1. CASE pc'[v] = pc[v]
    BY <1>1, <1>3, <2>1
  <2>2. CASE pc[v] \in {"idle", "extract", "store"}
    <3>1. wrote'[v][t] = 0
      BY <1>2, <1>3, <2>2
    <3>2. cache'[Slot(t, project'[v])] \in Lists
      BY <1>0, <1>3
    <3> QED BY <1>0, <3>1, <3>2
  <2> QED BY <1>3, <2>1, <2>2
<1>4. CASE UNCHANGED vars
  BY <1>3, <1>4 DEF vars
<1>5. ASSUME NEW s \in Sessions,
             StartTurn(s) \/ Extract(s) \/ ThreadReads(s) \/ ThreadFails(s) \/ StoreFails(s)
      PROVE  cache'[Slot(t, project'[v])].version >= wrote'[v][t]
  <2>1. UNCHANGED <<cache, project, wrote, dirty>>
    BY <1>5 DEF StartTurn, Extract, ThreadReads, ThreadFails, StoreFails, LeaveExtraction, caches
  <2>2. pc'[v] = pc[v] \/ pc[v] \in {"idle", "extract", "store"}
    BY <1>0, <1>5 DEF StartTurn, Extract, ThreadReads, ThreadFails, StoreFails, LeaveExtraction
  <2> QED BY <1>3, <2>1, <2>2
<1>6. ASSUME NEW s \in Sessions, EndTurn(s)
      PROVE  cache'[Slot(t, project'[v])].version >= wrote'[v][t]
  <2>1. UNCHANGED <<cache, project, dirty>> /\ v # s
    <3>1. pc'[s] \in {"extract", "idle"}
      BY <1>0, <1>6 DEF EndTurn
    <3> QED BY <1>6, <3>1 DEF EndTurn, caches, Tiers
  <2>2. pc'[v] = pc[v] /\ wrote'[v] = wrote[v]
    BY <1>0, <1>6, <2>1 DEF EndTurn
  <2> QED BY <1>3, <2>1, <2>2
<1>7. ASSUME NEW s \in Sessions, StoreRecord(s)
      PROVE  cache'[Slot(t, project'[v])].version >= wrote'[v][t]
  <2>1. UNCHANGED <<cache, project>> /\ pc[s] = "store"
    BY <1>7 DEF StoreRecord, LeaveExtraction
  <2>2. CASE Len(records[s]) # 1
    BY <1>3, <1>7, <2>1, <2>2 DEF StoreRecord
  <2>3. CASE Len(records[s]) = 1
    <3>1. dirty' = TRUE /\ pc' = [pc EXCEPT ![s] = upcoming[s]]
      BY <1>7, <2>3 DEF StoreRecord, LeaveExtraction
    <3>2. v # s
      BY <1>0, <3>1 DEF Tiers
    <3>3. wrote'[v] = wrote[v]
      BY <1>0, <1>7, <2>3, <3>2 DEF StoreRecord
    <3>4. pc'[v] = pc[v] /\ pc'[v] \in Tiers \cup {"answer"}
      BY <1>0, <3>1, <3>2
    <3> QED BY <1>1, <2>1, <3>3, <3>4
  <2> QED BY <2>2, <2>3
<1>8. ASSUME NEW s \in Sessions, Inject(s)
      PROVE  cache'[Slot(t, project'[v])].version >= wrote'[v][t]
  <2>1. UNCHANGED <<project, wrote>> /\ pc[s] = "inject" /\ pc' = [pc EXCEPT ![s] = pc'[s]]
    <3>1. UNCHANGED <<project, wrote>> /\ pc[s] = "inject" /\ \E p : pc' = [pc EXCEPT ![s] = p]
      BY <1>8, Zenon DEF Inject, LookUp
    <3> QED BY <1>0, <3>1
  <2>2. ~ dirty
    <3>1. dirty => cache' = Cleared(project[s])
      BY <1>8 DEF Inject
    <3> QED BY <1>0, <2>1, <3>1, CoveredCleared
  <2>3. cache' = cache /\ (v = s \/ pc'[v] = pc[v])
    BY <1>0, <1>8, <2>1, <2>2 DEF Inject
  <2> QED BY <1>1, <2>1, <2>2, <2>3
<1>9. ASSUME NEW s \in Sessions, Cache(s)
      PROVE  cache'[Slot(t, project'[v])].version >= wrote'[v][t]
  <2>1. UNCHANGED <<project, wrote, dirty>> /\ pc[s] \in Tiers /\ pc' = [pc EXCEPT ![s] = pc'[s]]
    <3>1. UNCHANGED <<project, wrote, dirty>> /\ pc[s] \in Tiers /\ \E p : pc' = [pc EXCEPT ![s] = p]
      BY <1>9, Zenon DEF Cache, LookUp
    <3> QED BY <1>0, <3>1
  <2>2. CASE cache'[Slot(t, project[v])] = cache[Slot(t, project[v])]
    <3>1. v = s \/ pc'[v] = pc[v]
      BY <1>0, <2>1
    <3> QED BY <1>1, <2>1, <2>2, <3>1
  <2>3. CASE cache'[Slot(t, project[v])] = read[s] /\ read[s].of = project[s]
             /\ read[s].version = store[t][project[s]]
    <3>1. project[s] = project[v] /\ project'[v] = project[v] /\ wrote'[v] = wrote[v]
      BY <2>1, <2>3
    <3>2. wrote[v][t] <= store[t][project[v]] /\ wrote[v][t] \in Nat /\ store[t][project[v]] \in Nat
      BY <1>0 DEF WroteToStore
    <3> QED BY <2>3, <3>1, <3>2
  <2>4. project[v] \in Projects
    BY <1>0
  <2> QED BY <1>9, <2>2, <2>3, <2>4, SlotAfterCache
<1>10. ASSUME NEW s \in Sessions, Abandon(s)
       PROVE  cache'[Slot(t, project'[v])].version >= wrote'[v][t]
  <2>1. UNCHANGED <<project, cache, dirty>> /\ pc'[s] = "idle"
        /\ \A w \in Sessions \ {s} : pc'[w] = pc[w] /\ wrote'[w] = wrote[w]
    BY <1>10, AbandonedQuietly
  <2>2. v # s
    BY <2>1 DEF Tiers
  <2> QED BY <1>3, <2>1, <2>2
<1> QED
  BY <1>4, <1>5, <1>6, <1>7, <1>8, <1>9, <1>10 DEF Next

\* A tier the look-up has passed goes on showing what it should.
LEMMA BlockSeesKept ==
  ASSUME Types, ReadsOwn, WroteToStore, BlockSees, Types', CacheSees', [Next]_vars
  PROVE  BlockSees'
<1> SUFFICES ASSUME Undisturbed', NEW v \in Sessions, pc'[v] \in Tiers \cup {"answer"},
                    NEW t \in Passed(pc'[v]), Covered(t, project'[v])
             PROVE  /\ block'[v][t] \in Lists
                    /\ block'[v][t].of = project'[v] => block'[v][t].version >= wrote'[v][t]
  BY DEF BlockSees, Sees, Covered, SharedSlots
<1>0. /\ pc \in [Sessions -> {"idle", "extract", "store", "inject"} \cup Tiers \cup {"answer"}]
      /\ wrote \in [Sessions -> [Tiers -> 0 .. MaxWrites]] /\ read \in [Sessions -> Lists \cup {Unread}]
      /\ store \in [Tiers -> [Projects -> 0 .. MaxWrites]] /\ project \in [Sessions -> Projects]
      /\ block \in [Sessions -> [Tiers -> Lists \cup {Unread}]]
      /\ \A w \in Sessions : upcoming[w] \in {"inject", "idle"}
      /\ t \in Tiers
  BY DEF Types, TypeOK, Passed, Tiers
<1>1. /\ Undisturbed /\ faults' = faults
      /\ pc[v] \in Tiers \cup {"answer"} /\ t \in Passed(pc[v]) /\ Covered(t, project[v])
         => /\ block[v][t] \in Lists
            /\ block[v][t].of = project[v] => block[v][t].version >= wrote[v][t]
  BY StaysDisturbed DEF BlockSees, Sees
<1>2. ASSUME pc'[v] = pc[v], project' = project, block'[v] = block[v], wrote'[v] = wrote[v]
      PROVE  /\ block'[v][t] \in Lists
             /\ block'[v][t].of = project'[v] => block'[v][t].version >= wrote'[v][t]
  BY <1>1, <1>2
<1>3. CASE UNCHANGED vars
  BY <1>2, <1>3 DEF vars
<1>4. ASSUME NEW s \in Sessions,
             \/ StartTurn(s) \/ EndTurn(s) \/ Extract(s) \/ StoreRecord(s) \/ StoreFails(s)
             \/ ThreadReads(s) \/ ThreadFails(s)
      PROVE  pc'[v] = pc[v] /\ project' = project /\ block'[v] = block[v] /\ wrote'[v] = wrote[v]
  <2>1. CASE EndTurn(s)
    <3>1. pc'[s] \in {"extract", "idle"}
      BY <1>0, <2>1 DEF EndTurn
    <3>2. v # s
      BY <3>1 DEF Tiers
    <3> QED BY <1>0, <2>1, <3>2 DEF EndTurn
  <2>2. CASE StoreRecord(s)
    <3>1. CASE Len(records[s]) # 1
      BY <2>2, <3>1 DEF StoreRecord
    <3>2. CASE Len(records[s]) = 1
      <4>1. pc' = [pc EXCEPT ![s] = upcoming[s]] /\ project' = project /\ block' = block
        BY <2>2, <3>2 DEF StoreRecord, LeaveExtraction
      <4>2. v # s
        BY <1>0, <4>1 DEF Tiers
      <4>3. wrote'[v] = wrote[v]
        BY <1>0, <2>2, <3>2, <4>2 DEF StoreRecord
      <4> QED BY <1>0, <4>1, <4>2, <4>3
    <3> QED BY <3>1, <3>2
  <2>3. CASE StartTurn(s) \/ Extract(s) \/ StoreFails(s) \/ ThreadReads(s) \/ ThreadFails(s)
    <3>1. UNCHANGED <<project, block, wrote>>
      BY <2>3 DEF StartTurn, Extract, StoreFails, LeaveExtraction, ThreadReads, ThreadFails
    <3>2. pc'[v] = pc[v]
      BY <1>0, <2>3 DEF StartTurn, Extract, StoreFails, LeaveExtraction, ThreadReads, ThreadFails, Tiers
    <3> QED BY <3>1, <3>2
  <2> QED BY <1>4, <2>1, <2>2, <2>3
<1>5. ASSUME NEW s \in Sessions, Inject(s) \/ Cache(s)
      PROVE  /\ UNCHANGED <<project, wrote>>
             /\ v # s => pc'[v] = pc[v] /\ block'[v] = block[v]
  BY <1>0, <1>5 DEF Inject, Cache, LookUp
<1>6. ASSUME NEW last, Hit(t, v, cache', last)
      PROVE  /\ Shown(t, v, cache') \in Lists
             /\ project' = project /\ Shown(t, v, cache').of = project[v]
                  => Shown(t, v, cache').version >= wrote'[v][t]
  <2>1. Shown(t, v, cache') \in Lists \cup {Unread} /\ Shown(t, v, cache') # Unread
    BY <1>0, <1>6, SlotTyped DEF Types, TypeOK, Shown, Hit
  <2>2. project' = project =>
          (cache'[Slot(t, project[v])].of = project[v]
             => cache'[Slot(t, project[v])].version >= wrote'[v][t])
    <3> SUFFICES ASSUME project' = project
                 PROVE  cache'[Slot(t, project[v])].of = project[v]
                          => cache'[Slot(t, project[v])].version >= wrote'[v][t]
      OBVIOUS
    <3>1. cache'[Slot(t, project'[v])] # Unread
      BY <2>1 DEF Shown
    <3>2. Sees(cache[Slot(t, project[v])], v, t)'
      BY <1>0, <3>1 DEF CacheSees, Slot, SharedSlots, Covered
    <3> QED BY <3>2 DEF Sees
  <2> QED BY <2>1, <2>2 DEF Shown
<1>7. ASSUME NEW tiers \in Rests, NEW b, LookUp(tiers, v, cache', lastTopic', b), project' = project,
             (\A i \in DOMAIN tiers : tiers[i] # t) =>
                b[t] \in Lists /\ (b[t].of = project[v] => b[t].version >= wrote'[v][t])
      PROVE  /\ block'[v][t] \in Lists
             /\ block'[v][t].of = project'[v] => block'[v][t].version >= wrote'[v][t]
  <2>1. PICK p \in Tiers \cup {"answer"} :
          \E shown :
            /\ pc' = [pc EXCEPT ![v] = p]
            /\ block' = [block EXCEPT ![v] = shown]
            /\ \A u \in Passed(p) :
                 \/ shown[u] = Shown(u, v, cache') /\ Hit(u, v, cache', lastTopic')
                 \/ shown[u] = b[u] /\ \A i \in DOMAIN tiers : tiers[i] # u
    BY <1>7, LookedUp DEF Types
  <2>2. PICK shown :
            /\ pc' = [pc EXCEPT ![v] = p]
            /\ block' = [block EXCEPT ![v] = shown]
            /\ \A u \in Passed(p) :
                 \/ shown[u] = Shown(u, v, cache') /\ Hit(u, v, cache', lastTopic')
                 \/ shown[u] = b[u] /\ \A i \in DOMAIN tiers : tiers[i] # u
    BY <2>1
  <2>3. pc'[v] = p /\ block'[v] = shown /\ t \in Passed(p)
    BY <1>0, <2>2
  <2>4. CASE shown[t] = Shown(t, v, cache') /\ Hit(t, v, cache', lastTopic')
    BY <1>6, <1>7, <2>3, <2>4
  <2>5. CASE shown[t] = b[t] /\ \A i \in DOMAIN tiers : tiers[i] # t
    BY <1>7, <2>3, <2>5
  <2> QED BY <2>2, <2>3, <2>4, <2>5
<1>8. ASSUME Inject(v)
      PROVE  /\ block'[v][t] \in Lists
             /\ block'[v][t].of = project'[v] => block'[v][t].version >= wrote'[v][t]
  <2> DEFINE all == <<"user", "project", "domain">>
  <2>1. all \in Rests /\ ~ \A i \in DOMAIN all : all[i] # t
    BY <1>0 DEF Rests, Tiers
  <2>2. LookUp(all, v, cache', lastTopic', NoBlock) /\ project' = project
    BY <1>8 DEF Inject
  <2> HIDE DEF all
  <2> QED BY <1>7, <2>1, <2>2
<1>9. ASSUME Cache(v)
      PROVE  /\ block'[v][t] \in Lists
             /\ block'[v][t].of = project'[v] => block'[v][t].version >= wrote'[v][t]
  <2> DEFINE b == [block[v] EXCEPT ![pc[v]] = read[v]]
  <2>1. LookUp(After(pc[v]), v, cache', lastTopic', b) /\ project' = project /\ pc[v] \in Tiers
    BY <1>9 DEF Cache
  <2>2. After(pc[v]) \in Rests
    BY <2>1 DEF After, Rests, Tiers
  <2>3. (\A i \in DOMAIN After(pc[v]) : After(pc[v])[i] # t) => t = pc[v] \/ t \in Passed(pc[v])
    <3>1. CASE pc[v] = "user"
      <4>1. After(pc[v]) = <<"project", "domain">>
        BY <3>1 DEF After
      <4> QED BY <1>0, <3>1, <4>1 DEF Tiers
    <3>2. CASE pc[v] = "project"
      <4>1. After(pc[v]) = <<"domain">> /\ Passed(pc[v]) = {"user"}
        BY <3>2 DEF After, Passed
      <4> QED BY <1>0, <3>2, <4>1 DEF Tiers
    <3>3. CASE pc[v] = "domain"
      BY <1>0, <3>3 DEF Passed, Tiers
    <3> QED BY <2>1, <3>1, <3>2, <3>3 DEF Tiers
  <2>4. CASE t = pc[v]
    <3>1. b[t] = read[v] /\ read[v] \in Lists /\ read[v].of = project[v]
          /\ read[v].version = store[t][project[v]] /\ wrote' = wrote
      BY <1>0, <1>9, <2>4 DEF Cache, ReadsOwn, Undisturbed
    <3>2. wrote[v][t] <= store[t][project[v]] /\ wrote[v][t] \in Nat /\ store[t][project[v]] \in Nat
      BY <1>0 DEF WroteToStore
    <3> HIDE DEF b
    <3> QED BY <1>7, <2>1, <2>2, <3>1, <3>2
  <2>5. CASE t # pc[v]
    <3>1. b[t] = block[v][t] /\ wrote' = wrote
      BY <1>0, <1>9, <2>5 DEF Cache
    <3> HIDE DEF b
    <3>2. Covered(t, project[v])
      BY <2>1
    <3> QED BY <1>1, <1>7, <2>1, <2>2, <2>3, <2>5, <3>1, <3>2
  <2> QED BY <2>4, <2>5
<1>10. ASSUME NEW s \in Sessions, Inject(s) \/ Cache(s)
       PROVE  /\ block'[v][t] \in Lists
              /\ block'[v][t].of = project'[v] => block'[v][t].version >= wrote'[v][t]
  BY <1>2, <1>5, <1>8, <1>9, <1>10
<1>11. ASSUME NEW s \in Sessions, Abandon(s)
       PROVE  pc'[v] = pc[v] /\ project' = project /\ block'[v] = block[v] /\ wrote'[v] = wrote[v]
  <2>1. project' = project /\ pc'[s] = "idle"
        /\ \A w \in Sessions \ {s} : pc'[w] = pc[w] /\ wrote'[w] = wrote[w] /\ block'[w] = block[w]
    BY <1>11, AbandonedQuietly
  <2>2. v # s
    BY <2>1 DEF Tiers
  <2> QED BY <2>1, <2>2
<1> QED
  BY <1>2, <1>3, <1>4, <1>10, <1>11 DEF Next

\* Every user and project list goes on being whole.
LEMMA WholeKept ==
  ASSUME Types, Whole, [Next]_vars
  PROVE  Whole'
<1>0. /\ pc \in [Sessions -> {"idle", "extract", "store", "inject"} \cup Tiers \cup {"answer"}]
      /\ read \in [Sessions -> Lists \cup {Unread}] /\ cache \in [Slots -> Lists \cup {Unread}]
      /\ block \in [Sessions -> [Tiers -> Lists \cup {Unread}]]
      /\ \A w \in Sessions : upcoming[w] \in {"inject", "idle"}
      /\ \A w \in Sessions : project[w] \in Projects
  BY DEF Types, TypeOK
<1>1. Full(Unread) /\ \A tier \in Tiers : Full(NoBlock[tier])
  BY DEF Full, NoBlock
<1>2. CASE UNCHANGED vars
  BY <1>2 DEF vars, Whole
<1>3. ASSUME NEW s \in Sessions,
             StartTurn(s) \/ Extract(s) \/ StoreRecord(s) \/ StoreFails(s)
      PROVE  Whole'
  <2>1. UNCHANGED <<cache, block, read>>
    BY <1>3 DEF StartTurn, Extract, StoreRecord, StoreFails, LeaveExtraction, caches
  <2>2. \A v \in Sessions \ {s} : pc'[v] = pc[v]
    BY <1>0, <1>3 DEF StartTurn, Extract, StoreRecord, StoreFails, LeaveExtraction
  <2>3. pc[s] \in {"idle", "extract", "store"}
    BY <1>3 DEF StartTurn, Extract, StoreRecord, StoreFails
  <2>4. read[s] = Unread
    BY <2>3 DEF Whole
  <2> QED BY <2>1, <2>2, <2>4 DEF Whole
<1>4. ASSUME NEW s \in Sessions, EndTurn(s) \/ Abandon(s)
      PROVE  Whole'
  <2>1. cache' = cache /\ block' = [block EXCEPT ![s] = NoBlock]
    BY <1>4 DEF EndTurn, Abandon, caches
  <2>2. read'[s] = Unread /\ \A v \in Sessions \ {s} : read'[v] = read[v]
    <3>1. CASE EndTurn(s)
      <4>1. pc[s] = "answer" /\ read' = read
        BY <3>1 DEF EndTurn
      <4> QED BY <4>1 DEF Whole
    <3>2. CASE Abandon(s)
      BY <1>0, <3>2 DEF Abandon
    <3> QED BY <1>4, <3>1, <3>2
  <2>3. \A v \in Sessions \ {s} : pc'[v] = pc[v]
    BY <1>0, <1>4 DEF EndTurn, Abandon
  <2>4. ASSUME NEW v \in Sessions, NEW tier \in Tiers \ {"domain"} PROVE Full(block'[v][tier])
    <3>1. CASE v = s
      BY <1>0, <1>1, <2>1, <3>1
    <3>2. CASE v # s
      BY <1>0, <2>1, <3>2 DEF Whole
    <3> QED BY <3>1, <3>2
  <2> QED BY <2>1, <2>2, <2>3, <2>4 DEF Whole
<1>5. ASSUME NEW s \in Sessions, ThreadReads(s) \/ ThreadFails(s)
      PROVE  Whole'
  <2>1. PICK list : read' = [read EXCEPT ![s] = list] /\ (pc[s] \in {"user", "project"} => Full(list))
    <3>1. CASE ThreadReads(s)
      <4> DEFINE n == store[pc[s]][project[s]]
      <4>1. PICK h \in Found(pc[s], n) :
              read' = [read EXCEPT ![s] = [of |-> project[s], version |-> n, hits |-> h]]
        BY <3>1 DEF ThreadReads
      <4> HIDE DEF n
      <4>2. pc[s] \in {"user", "project"} => Full([of |-> project[s], version |-> n, hits |-> h])
        BY DEF Found, Full
      <4> QED BY <4>1, <4>2
    <3>2. CASE ThreadFails(s)
      <4>1. Full([of |-> project[s], version |-> 0, hits |-> 0])
        BY DEF Full, ListLimit
      <4> QED BY <3>2, <4>1 DEF ThreadFails
    <3> QED BY <1>5, <3>1, <3>2
  <2>2. UNCHANGED <<pc, cache, block>> /\ pc[s] \in Tiers
    BY <1>5 DEF ThreadReads, ThreadFails, caches
  <2>3. read'[s] = list /\ \A v \in Sessions \ {s} : read'[v] = read[v]
    BY <1>0, <2>1
  <2> QED BY <2>1, <2>2, <2>3 DEF Whole, Tiers
<1>6. ASSUME NEW s \in Sessions, NEW tiers \in Rests, NEW last, NEW b,
             LookUp(tiers, s, cache', last, b),
             \A x \in Slots \ {"domain"} : Full(cache'[x]),
             \A tier \in Tiers \ {"domain"} : Full(b[tier]),
             read'[s] = Unread,
             \A v \in Sessions \ {s} : read'[v] = read[v]
      PROVE  Whole'
  <2>1. PICK p \in Tiers \cup {"answer"} :
          \E shown : /\ pc' = [pc EXCEPT ![s] = p]
                     /\ block' = [block EXCEPT ![s] = shown]
                     /\ \A u \in Tiers : shown[u] = Shown(u, s, cache') \/ shown[u] = b[u]
    BY <1>6, LookedUp DEF Types
  <2>2. PICK shown : /\ pc' = [pc EXCEPT ![s] = p]
                     /\ block' = [block EXCEPT ![s] = shown]
                     /\ \A u \in Tiers : shown[u] = Shown(u, s, cache') \/ shown[u] = b[u]
    BY <2>1
  <2>3. ASSUME NEW u \in Tiers \ {"domain"} PROVE Full(shown[u])
    <3>1. Slot(u, project[s]) \in Slots \ {"domain"}
      BY <1>0, SlotTyped, CacheAssumption DEF Slot, SharedSlots, Tiers
    <3>2. Full(Shown(u, s, cache'))
      BY <1>6, <3>1 DEF Shown
    <3>3. CASE shown[u] = Shown(u, s, cache')
      BY <3>2, <3>3
    <3>4. CASE shown[u] = b[u]
      BY <1>6, <3>4
    <3> QED BY <2>2, <3>3, <3>4
  <2>4. ASSUME NEW v \in Sessions, NEW tier \in Tiers \ {"domain"} PROVE Full(block'[v][tier])
    <3>1. CASE v = s
      BY <1>0, <2>2, <2>3, <3>1
    <3>2. CASE v # s
      BY <1>0, <2>2, <3>2 DEF Whole
    <3> QED BY <3>1, <3>2
  <2>5. \A v \in Sessions \ {s} : pc'[v] = pc[v]
    BY <1>0, <2>2
  <2> QED BY <1>6, <2>4, <2>5 DEF Whole
<1>7. ASSUME NEW s \in Sessions, Inject(s)
      PROVE  Whole'
  <2>1. pc[s] = "inject" /\ read' = read
    BY <1>7 DEF Inject
  <2>2. read[s] = Unread
    BY <2>1 DEF Whole
  <2>3. ASSUME NEW x \in Slots \ {"domain"} PROVE Full(cache'[x])
    <3>1. cache' = cache \/ cache' = Cleared(project[s])
      BY <1>7 DEF Inject
    <3>2. Full(cache[x])
      BY DEF Whole
    <3>3. Cleared(project[s])[x] \in {Unread, cache[x]}
      BY DEF Cleared
    <3> QED BY <1>1, <3>1, <3>2, <3>3
  <2> DEFINE all == <<"user", "project", "domain">>
  <2>4. all \in Rests /\ LookUp(all, s, cache', lastTopic', NoBlock)
    BY <1>7 DEF Rests, Inject
  <2>5. \A tier \in Tiers \ {"domain"} : Full(NoBlock[tier])
    BY <1>1
  <2> HIDE DEF all
  <2> QED BY <1>6, <2>1, <2>2, <2>3, <2>4, <2>5
<1>8. ASSUME NEW s \in Sessions, Cache(s)
      PROVE  Whole'
  <2> DEFINE tier == pc[s]
             b == [block[s] EXCEPT ![tier] = read[s]]
  <2>1. /\ tier \in Tiers /\ read[s] # Unread
        /\ cache' = [cache EXCEPT ![Slot(tier, project[s])] = read[s]]
        /\ LookUp(After(tier), s, cache', lastTopic', b)
        /\ read' = [read EXCEPT ![s] = Unread]
    BY <1>8 DEF Cache
  <2>2. tier # "domain" => Full(read[s])
    BY <2>1 DEF Whole
  <2>3. ASSUME NEW x \in Slots \ {"domain"} PROVE Full(cache'[x])
    <3>1. CASE x = Slot(tier, project[s])
      <4>1. tier # "domain"
        BY <3>1 DEF Slot, SharedSlots
      <4> HIDE DEF tier
      <4>2. cache'[x] = read[s]
        BY <1>0, <2>1, <3>1
      <4> QED BY <2>2, <4>1, <4>2
    <3>2. CASE x # Slot(tier, project[s])
      <4> HIDE DEF tier
      <4>1. cache'[x] = cache[x]
        BY <1>0, <2>1, <3>2
      <4> QED BY <4>1 DEF Whole
    <3> QED BY <3>1, <3>2
  <2>4. ASSUME NEW u \in Tiers \ {"domain"} PROVE Full(b[u])
    <3>1. CASE u = tier
      <4>1. b[u] = read[s]
        BY <1>0, <2>1, <3>1
      <4> QED BY <2>2, <3>1, <4>1
    <3>2. CASE u # tier
      <4>1. b[u] = block[s][u]
        BY <1>0, <3>2
      <4> QED BY <4>1 DEF Whole
    <3> QED BY <3>1, <3>2
  <2>5. After(tier) \in Rests
    BY <2>1 DEF After, Rests, Tiers
  <2>6. read'[s] = Unread /\ \A v \in Sessions \ {s} : read'[v] = read[v]
    BY <1>0, <2>1
  <2> HIDE DEF b, tier
  <2> QED BY <1>6, <2>1, <2>3, <2>4, <2>5, <2>6
<1> QED
  BY <1>2, <1>3, <1>4, <1>5, <1>7, <1>8 DEF Next

\* The caches' invariant holds in every reachable state.
LEMMA CacheInvariant == Spec => []CacheInv
<1>1. Init => CacheInv
  <2> SUFFICES ASSUME Init PROVE CacheInv
    OBVIOUS
  <2>1. Types
    BY TypesInit
  <2>2. ReadsOwn /\ Marked
    BY SlotTyped DEF Init, ReadsOwn, Marked, Accounted
  <2>5. Whole
    BY DEF Init, Whole, Full, NoBlock
  <2>3. WroteToStore
    <3>1. \A v \in Sessions, u \in Tiers : wrote[v][u] = 0 /\ store[u][project[v]] = 0
      BY DEF Init, NoWrites
    <3> QED BY <3>1 DEF WroteToStore
  <2>4. CacheSees /\ BlockSees
    BY DEF Init, CacheSees, BlockSees, Tiers
  <2> QED BY <2>1, <2>2, <2>3, <2>4, <2>5 DEF CacheInv
<1>2. CacheInv /\ [Next]_vars => CacheInv'
  BY TypesKept, ReadsOwnKept, WholeKept, MarkedKept, WroteToStoreKept, CacheSeesKept, BlockSeesKept DEF CacheInv
<1> QED
  BY <1>1, <1>2, PTL DEF Spec

\* While no store call fails, no list is overtaken and no extraction is cancelled while
\* it stores: in the slots an inject clears - the two all projects share and, where
\* there is one project, its own - a list is stale only with _dirty raised or about to
\* be, whatever the sessions of however many projects do.
THEOREM SharedSlotsMarked == Spec => []Marked
<1>1. CacheInv => Marked
  BY DEF CacheInv
<1> QED
  BY <1>1, CacheInvariant, PTL

\* The process serves one project, as the CLI does.
SingleProject == \A p, q \in Projects : p = q

\* With one project, and while none of the three happens, a stale list is cached only
\* while _dirty is raised, or while the extraction that will raise it is still storing.
THEOREM StaleMarked ==
  ASSUME SingleProject
  PROVE  Spec => []StaleIsMarked
<1>1. CacheInv => StaleIsMarked
  BY DEF CacheInv, Marked, StaleIsMarked, Covered, SingleProject
<1> QED
  BY <1>1, CacheInvariant, PTL

\* With one project whose tiers do not outgrow the listing, and while none of the three
\* happens, a turn is shown all the user and project memories its own opening
\* extraction stored, and its domain search was made on a store that held them,
\* whatever other sessions inject, store, cache and give up in between.
THEOREM ExtractionSeen ==
  ASSUME SingleProject, MaxWrites <= ListLimit
  PROVE  Spec => []TurnSeesItsExtraction
<1>1. CacheInv => TurnSeesItsExtraction
  <2> SUFFICES ASSUME CacheInv, Undisturbed, NEW s \in Sessions, pc[s] = "answer", NEW t \in Tiers
               PROVE  /\ block[s][t].version >= wrote[s][t]
                      /\ t # "domain" => block[s][t].hits >= wrote[s][t]
    BY DEF TurnSeesItsExtraction
  <2>1. t \in Passed(pc[s]) /\ project[s] \in Projects
    BY DEF Passed, CacheInv, Types, TypeOK
  <2>2. block[s][t] \in Lists /\ Sees(block[s][t], s, t)
    BY <2>1 DEF CacheInv, BlockSees, Covered, SingleProject
  <2>3. block[s][t].of = project[s] /\ block[s][t].version \in 0 .. MaxWrites
    BY <2>1, <2>2 DEF Lists, SingleProject
  <2>4. block[s][t].version >= wrote[s][t]
    BY <2>2, <2>3 DEF Sees
  <2>5. t # "domain" => block[s][t].hits = block[s][t].version
    <3>1. t # "domain" => Full(block[s][t])
      BY DEF CacheInv, Whole
    <3>2. block[s][t].version <= ListLimit
      BY <2>3, MemoryBounds DEF ListLimit
    <3>3. block[s][t] # Unread
      BY <2>2, UnreadAssumption
    <3> QED BY <3>1, <3>2, <3>3 DEF Full
  <2> QED BY <2>4, <2>5
<1> QED
  BY <1>1, CacheInvariant, PTL
===============================================================================
