----------------------------- MODULE HistoryProofs -----------------------------
(***************************************************************************)
(* Proofs about History for every number of calls and messages and every   *)
(* size of a batch.                                                        *)
(***************************************************************************)
EXTENDS History, FiniteSetTheorems, SequenceTheorems, WellFoundedInduction, TLAPS

(***************************************************************************)
(* Subsequences.                                                           *)
(***************************************************************************)

\* The positions in K are met once each and in their order.
LEMMA Enumerated ==
  ASSUME NEW n \in Nat, NEW K, K \subseteq 1 .. n
  PROVE  /\ Cardinality(K) \in Nat
         /\ \E p \in [1 .. Cardinality(K) -> K] :
              /\ \A k \in 1 .. Cardinality(K) : p[k] = CHOOSE i \in K : Rank(K, i) = k
              /\ \A i \in K : \E k \in 1 .. Cardinality(K) : p[k] = i
              /\ \A j, k \in 1 .. Cardinality(K) : j < k <=> p[j] < p[k]
              /\ K = 1 .. n => \A k \in 1 .. Cardinality(K) : p[k] = k
<1> DEFINE Upto(i) == {j \in K : j <= i}
           c == Cardinality(K)
<1>1. IsFiniteSet(K) /\ c \in Nat
  <2>1. IsFiniteSet(1 .. n)
    BY FS_Interval
  <2>2. IsFiniteSet(K)
    BY <2>1, FS_Subset
  <2> QED BY <2>2, FS_CardinalityType
<1>2. \A i \in K : i \in 1 .. n
  OBVIOUS
<1>3. ASSUME NEW i \in K
      PROVE  IsFiniteSet(Upto(i)) /\ Rank(K, i) = Cardinality(Upto(i)) /\ Rank(K, i) \in 1 .. c
  <2>1. Upto(i) \in SUBSET K /\ i \in Upto(i)
    BY <1>2
  <2>2. IsFiniteSet(Upto(i)) /\ Cardinality(Upto(i)) <= c
    BY <1>1, <2>1, FS_Subset
  <2>3. Cardinality(Upto(i)) \in Nat /\ Cardinality(Upto(i)) # 0
    <3>1. Upto(i) # {}
      BY <2>1
    <3> HIDE DEF Upto
    <3> QED BY <2>2, <3>1, FS_CardinalityType, FS_EmptySet
  <2>4. Rank(K, i) = Cardinality(Upto(i))
    BY DEF Rank
  <2> HIDE DEF Upto
  <2> QED BY <1>1, <2>2, <2>3, <2>4
<1>4. ASSUME NEW i \in K, NEW j \in K, i < j
      PROVE  Rank(K, i) < Rank(K, j)
  <2>1. Upto(i) \in SUBSET Upto(j) /\ j \in Upto(j) /\ j \notin Upto(i)
    <3>1. i \in Int /\ j \in Int /\ K \subseteq Int
      BY <1>2
    <3>2. i <= j /\ j <= j /\ ~ (j <= i)
      BY <1>4, <3>1
    <3>3. ASSUME NEW k \in Upto(i) PROVE k \in Upto(j)
      <4>1. k \in Int /\ k <= i
        BY <3>1
      <4> QED BY <1>4, <3>1, <4>1
    <3> QED BY <3>2, <3>3
  <2>2. Cardinality(Upto(i)) <= Cardinality(Upto(j)) /\ Cardinality(Upto(i)) # Cardinality(Upto(j))
    <3>1. IsFiniteSet(Upto(j))
      BY <1>3
    <3> HIDE DEF Upto
    <3> QED BY <2>1, <3>1, FS_Subset
  <2>3. /\ Rank(K, i) = Cardinality(Upto(i)) /\ Rank(K, i) \in 1 .. c
        /\ Rank(K, j) = Cardinality(Upto(j)) /\ Rank(K, j) \in 1 .. c
    BY <1>3
  <2> HIDE DEF Upto
  <2> QED BY <1>1, <2>2, <2>3
<1>5. \A k \in 1 .. c : \E i \in K : Rank(K, i) = k
  <2> DEFINE r == [i \in K |-> Rank(K, i)]
  <2>1. r \in [K -> 1 .. c]
    BY <1>3
  <2>2. \A i, j \in K : Rank(K, i) = Rank(K, j) => i = j
    <3> SUFFICES ASSUME NEW i \in K, NEW j \in K, i # j PROVE Rank(K, i) # Rank(K, j)
      OBVIOUS
    <3>1. i < j \/ j < i
      BY <1>2
    <3>2. Rank(K, i) \in 1 .. c /\ Rank(K, j) \in 1 .. c
      BY <1>3
    <3> QED BY <1>1, <1>4, <3>1, <3>2
  <2>3. r \in Injection(K, 1 .. c)
    BY <2>1, <2>2 DEF Injection, IsInjective
  <2>4. IsFiniteSet(1 .. c) /\ Cardinality(1 .. c) = c
    BY <1>1, FS_Interval
  <2>5. r \in Surjection(K, 1 .. c)
    <3> HIDE DEF r, c
    <3> QED BY <2>3, <2>4, FS_Injection DEF c
  <2> HIDE DEF c
  <2> QED BY <2>1, <2>5 DEF Surjection
<1> DEFINE p == [k \in 1 .. c |-> CHOOSE i \in K : Rank(K, i) = k]
<1>6. \A k \in 1 .. c : p[k] \in K /\ Rank(K, p[k]) = k
  BY <1>5
<1>7. p \in [1 .. c -> K] /\ \A k \in 1 .. c : p[k] = CHOOSE i \in K : Rank(K, i) = k
  BY <1>6
<1> HIDE DEF p
<1>8. \A i \in K : \E k \in 1 .. c : p[k] = i
  <2> SUFFICES ASSUME NEW i \in K PROVE p[Rank(K, i)] = i /\ Rank(K, i) \in 1 .. c
    OBVIOUS
  <2>1. Rank(K, i) \in 1 .. c
    BY <1>3
  <2>2. p[Rank(K, i)] \in K /\ Rank(K, p[Rank(K, i)]) = Rank(K, i)
    BY <1>6, <2>1
  <2>3. p[Rank(K, i)] < i \/ i < p[Rank(K, i)] \/ p[Rank(K, i)] = i
    <3>1. \A j \in K : j \in Int
      BY <1>2
    <3>2. i \in Int /\ p[Rank(K, i)] \in Int
      BY <2>2, <3>1, Zenon
    <3> QED BY <3>2
  <2>4. \A j \in K : Rank(K, j) \in Int
    <3>1. \A j \in K : Rank(K, j) \in 1 .. c
      BY <1>3, Zenon
    <3>2. 1 .. c \subseteq Int
      BY <1>1
    <3> QED BY <3>1, <3>2, Zenon
  <2>5. ~ (p[Rank(K, i)] < i) /\ ~ (i < p[Rank(K, i)])
    <3>1. Rank(K, i) \in Int
      BY <2>4
    <3>2. ASSUME p[Rank(K, i)] < i PROVE FALSE
      <4>1. Rank(K, p[Rank(K, i)]) < Rank(K, i)
        BY <1>4, <2>2, <3>2
      <4> QED BY <2>2, <3>1, <4>1
    <3>3. ASSUME i < p[Rank(K, i)] PROVE FALSE
      <4>1. Rank(K, i) < Rank(K, p[Rank(K, i)])
        BY <1>4, <2>2, <3>3
      <4> QED BY <2>2, <3>1, <4>1
    <3> QED BY <3>2, <3>3
  <2> QED BY <2>1, <2>3, <2>5
<1>9. \A j, k \in 1 .. c : j < k <=> p[j] < p[k]
  <2> SUFFICES ASSUME NEW j \in 1 .. c, NEW k \in 1 .. c PROVE j < k <=> p[j] < p[k]
    OBVIOUS
  <2>1. p[j] \in K /\ p[k] \in K /\ p[j] \in 1 .. n /\ p[k] \in 1 .. n
    BY <1>2, <1>6
  <2>2. p[j] < p[k] => j < k
    BY <1>4, <1>6, <2>1
  <2>3. p[k] < p[j] => k < j
    BY <1>4, <1>6, <2>1
  <2>4. p[j] = p[k] => j = k
    BY <1>6
  <2> QED BY <1>1, <2>1, <2>2, <2>3, <2>4
<1>10. K = 1 .. n => \A k \in 1 .. c : p[k] = k
  <2> SUFFICES ASSUME K = 1 .. n, NEW k \in 1 .. c PROVE p[k] = k
    OBVIOUS
  <2>1. p[k] \in 1 .. n /\ Rank(K, p[k]) = k /\ Rank(K, p[k]) = Cardinality(Upto(p[k]))
    BY <1>2, <1>3, <1>6
  <2>2. Upto(p[k]) = 1 .. p[k]
    <3>1. \A j : j \in Upto(p[k]) <=> j \in 1 .. n /\ j <= p[k]
      BY Zenon
    <3>2. \A j : j \in 1 .. p[k] <=> j \in 1 .. n /\ j <= p[k]
      BY <2>1
    <3> QED BY <3>1, <3>2, Zenon
  <2>3. Cardinality(1 .. p[k]) = p[k]
    BY <2>1, FS_Interval
  <2> QED BY <2>1, <2>2, <2>3
<1> QED
  BY <1>1, <1>7, <1>8, <1>9, <1>10

(***************************************************************************)
(* Messages and lists of them.                                             *)
(***************************************************************************)

\* A list of messages is a function on its positions.
LEMMA ListForm ==
  ASSUME NEW s \in Seq(Messages)
  PROVE  /\ Len(s) \in Nat
         /\ DOMAIN s = 1 .. Len(s)
         /\ \A i \in 1 .. Len(s) : s[i] \in Messages
BY LenProperties, ElementOfSeq

\* ... and such a function is a list.
LEMMA ListOf ==
  ASSUME NEW n \in Nat, NEW f \in [1 .. n -> Messages]
  PROVE  f \in Seq(Messages) /\ Len(f) = n /\ DOMAIN f = 1 .. n
<1>1. f \in Seq(Messages)
  BY SeqDef
<1>2. Len(f) \in Nat /\ 1 .. Len(f) = 1 .. n
  BY <1>1, LenProperties
<1>3. Len(f) = n
  BY <1>2
<1> QED
  BY <1>1, <1>3

\* What Keeping leaves of a message.
LEMMA MessageKept ==
  ASSUME NEW m \in Messages, NEW keep
  PROVE  /\ Keeping(m, keep) \in Messages
         /\ IsTool(Keeping(m, keep)) <=> IsTool(m)
         /\ Keeping(m, keep).calls = m.calls \cap keep
         /\ m.calls \subseteq keep => Keeping(m, keep) = m
<1>1. m = [kind |-> m.kind, calls |-> m.calls] /\ m.calls \subseteq Calls
  BY DEF Messages
<1>2. /\ Keeping(m, keep) \in Messages
      /\ Keeping(m, keep).kind = m.kind
      /\ Keeping(m, keep).calls = m.calls \cap keep
  BY DEF Keeping, Messages
<1>3. Keeping(m, keep) = [kind |-> m.kind, calls |-> m.calls \cap keep]
  BY <1>2 DEF Messages
<1>4. m.calls \subseteq keep => m.calls \cap keep = m.calls
  OBVIOUS
<1> QED
  BY <1>1, <1>2, <1>3, <1>4 DEF IsTool

\* The call-free messages, and the answers.
LEMMA Texts ==
  /\ System \in Messages /\ ~ IsTool(System) /\ System.calls = {}
  /\ Human \in Messages /\ ~ IsTool(Human) /\ Human.calls = {}
  /\ Summary \in Messages /\ ~ IsTool(Summary) /\ Summary.calls = {}
  /\ \A c \in SUBSET Calls :
       Reply(c) \in Messages /\ ~ IsTool(Reply(c)) /\ Reply(c).calls = c
  /\ \A c \in Calls : Answer(c) \in Messages /\ IsTool(Answer(c)) /\ Answer(c).calls = {c}
BY DEF System, Human, Summary, Reply, Answer, Message, Messages, IsTool

\* Which calls a list makes and answers, element by element.
LEMMA CallsTyped ==
  ASSUME NEW s \in Seq(Messages)
  PROVE  \A i \in 1 .. Len(s) : s[i].calls \subseteq Calls
BY ListForm DEF Messages

LEMMA MadeBy ==
  ASSUME NEW s \in Seq(Messages)
  PROVE  \A c : c \in Made(s) <=>
           \E i \in 1 .. Len(s) : ~ IsTool(s[i]) /\ c \in s[i].calls
BY ListForm DEF Made

LEMMA AnsweredBy ==
  ASSUME NEW s \in Seq(Messages)
  PROVE  \A c : c \in Answered(s) <=>
           \E i \in 1 .. Len(s) : IsTool(s[i]) /\ c \in s[i].calls
BY ListForm DEF Answered

LEMMA AnsweredAfter ==
  ASSUME NEW s, NEW i
  PROVE  \A c : c \in AnswersAfter(s, i) <=>
           \E j \in (i + 1) .. Len(s) :
              c \in s[j].calls /\ \A l \in (i + 1) .. j : IsTool(s[l])
BY DEF AnswersAfter

(***************************************************************************)
(* What each repair leaves of a list.                                      *)
(***************************************************************************)

\* The filter removes no call: every call has a name or, for tc_name, a type.
LEMMA NothingFiltered ==
  ASSUME NEW s \in Seq(Messages)
  PROVE  FilterInvalid(s) = s
<1> DEFINE t == FilterInvalid(s)
<1>1. Len(s) \in Nat /\ DOMAIN s = 1 .. Len(s) /\ \A i \in 1 .. Len(s) : s[i] \in Messages
  BY ListForm
<1>2. t = [i \in 1 .. Len(s) |->
             IF IsTool(s[i]) THEN s[i] ELSE Keeping(s[i], {c \in s[i].calls : TcName(c) # ""})]
  BY <1>1 DEF FilterInvalid
<1> HIDE DEF t
<1>3. ASSUME NEW i \in 1 .. Len(s) PROVE t[i] = s[i]
  <2>1. {c \in s[i].calls : TcName(c) # ""} = s[i].calls
    BY DEF TcName
  <2>2. Keeping(s[i], s[i].calls) = s[i]
    BY <1>1, MessageKept
  <2> QED BY <1>2, <2>1, <2>2
<1>4. t \in [1 .. Len(s) -> Messages]
  BY <1>1, <1>2, <1>3
<1>5. t \in Seq(Messages) /\ Len(t) = Len(s)
  BY <1>1, <1>4, ListOf
<1> QED
  BY <1>3, <1>5, SeqEqual DEF t

\* Dropping orphans keeps some messages in their order (p says which), answers only with
\* their call.
LEMMA OrphansDropped ==
  ASSUME NEW s \in Seq(Messages)
  PROVE  /\ DropOrphans(s) \in Seq(Messages)
         /\ \E p \in [1 .. Len(DropOrphans(s)) -> 1 .. Len(s)] :
              /\ \A k \in 1 .. Len(DropOrphans(s)) :
                   /\ IsTool(DropOrphans(s)[k]) <=> IsTool(s[p[k]])
                   /\ IsTool(s[p[k]]) => /\ DropOrphans(s)[k] = s[p[k]]
                                         /\ s[p[k]].calls \subseteq Made(s)
                   /\ ~ IsTool(s[p[k]]) =>
                        DropOrphans(s)[k].calls = s[p[k]].calls \cap Answered(s)
              /\ \A i \in 1 .. Len(s) :
                   (IsTool(s[i]) => s[i].calls \subseteq Made(s))
                     => \E k \in 1 .. Len(DropOrphans(s)) : p[k] = i
              /\ \A j, k \in 1 .. Len(DropOrphans(s)) : j < k <=> p[j] < p[k]
         /\ (\A i \in 1 .. Len(s) : IF IsTool(s[i]) THEN s[i].calls \subseteq Made(s)
                                                   ELSE s[i].calls \subseteq Answered(s))
              => DropOrphans(s) = s
<1> DEFINE K == {i \in 1 .. Len(s) : IsTool(s[i]) => s[i].calls \subseteq Made(s)}
           a == [i \in 1 .. Len(s) |-> IF IsTool(s[i]) THEN s[i] ELSE Keeping(s[i], Answered(s))]
           n == Cardinality(K)
           u == DropOrphans(s)
<1>1. Len(s) \in Nat /\ DOMAIN s = 1 .. Len(s) /\ \A i \in 1 .. Len(s) : s[i] \in Messages
  BY ListForm
<1>2. u = [k \in 1 .. n |-> a[CHOOSE i \in K : Rank(K, i) = k]]
  BY <1>1 DEF DropOrphans, Subsequence
<1>3. K \subseteq 1 .. Len(s)
  OBVIOUS
<1>4. \A i \in 1 .. Len(s) : i \in K <=> (IsTool(s[i]) => s[i].calls \subseteq Made(s))
  OBVIOUS
<1>5. \A i \in 1 .. Len(s) :
        /\ a[i] \in Messages
        /\ IsTool(a[i]) <=> IsTool(s[i])
        /\ IsTool(s[i]) => a[i] = s[i]
        /\ ~ IsTool(s[i]) => a[i].calls = s[i].calls \cap Answered(s)
        /\ ~ IsTool(s[i]) /\ s[i].calls \subseteq Answered(s) => a[i] = s[i]
  <2> SUFFICES ASSUME NEW i \in 1 .. Len(s)
               PROVE  /\ a[i] \in Messages
                      /\ IsTool(a[i]) <=> IsTool(s[i])
                      /\ IsTool(s[i]) => a[i] = s[i]
                      /\ ~ IsTool(s[i]) => a[i].calls = s[i].calls \cap Answered(s)
                      /\ ~ IsTool(s[i]) /\ s[i].calls \subseteq Answered(s) => a[i] = s[i]
    BY Zenon
  <2>1. s[i] \in Messages
    BY <1>1
  <2>2. CASE IsTool(s[i])
    <3>1. a[i] = s[i]
      BY <2>2
    <3> HIDE DEF a
    <3> QED BY <2>1, <2>2, <3>1
  <2>3. CASE ~ IsTool(s[i])
    <3>1. a[i] = Keeping(s[i], Answered(s))
      BY <2>3
    <3> HIDE DEF a
    <3> QED BY <2>1, <2>3, <3>1, MessageKept
  <2> QED BY <2>2, <2>3
<1> HIDE DEF K, a, u
<1>6. n \in Nat
  BY <1>1, <1>3, Enumerated
<1>7. PICK p \in [1 .. n -> K] :
        /\ \A k \in 1 .. n : p[k] = CHOOSE i \in K : Rank(K, i) = k
        /\ \A i \in K : \E k \in 1 .. n : p[k] = i
        /\ \A j, k \in 1 .. n : j < k <=> p[j] < p[k]
        /\ K = 1 .. Len(s) => \A k \in 1 .. n : p[k] = k
  BY <1>1, <1>3, Enumerated
<1> HIDE DEF n
<1>8. \A k \in 1 .. n : u[k] = a[p[k]] /\ p[k] \in K /\ p[k] \in 1 .. Len(s)
  BY <1>2, <1>3, <1>7
<1>9. u \in Seq(Messages) /\ Len(u) = n
  <2>1. u \in [1 .. n -> Messages]
    BY <1>2, <1>5, <1>8
  <2> QED BY <1>6, <2>1, ListOf
<1>10. ASSUME \A i \in 1 .. Len(s) : IF IsTool(s[i]) THEN s[i].calls \subseteq Made(s)
                                                   ELSE s[i].calls \subseteq Answered(s)
       PROVE  u = s
  <2>1. K = 1 .. Len(s)
    BY <1>3, <1>4, <1>10
  <2>2. n = Len(s)
    <3>1. Cardinality(1 .. Len(s)) = Len(s)
      BY <1>1, FS_Interval
    <3> QED BY <2>1, <3>1 DEF n
  <2>3. \A k \in 1 .. Len(s) : u[k] = s[k]
    BY <1>5, <1>7, <1>8, <1>10, <2>1, <2>2
  <2> QED BY <1>9, <2>2, <2>3, SeqEqual
<1>11. p \in [1 .. n -> 1 .. Len(s)]
  BY <1>3, <1>7
<1>12. \A k \in 1 .. n :
         /\ IsTool(u[k]) <=> IsTool(s[p[k]])
         /\ IsTool(s[p[k]]) => u[k] = s[p[k]] /\ s[p[k]].calls \subseteq Made(s)
         /\ ~ IsTool(s[p[k]]) => u[k].calls = s[p[k]].calls \cap Answered(s)
  BY <1>4, <1>5, <1>8
<1>13. \A i \in 1 .. Len(s) :
         (IsTool(s[i]) => s[i].calls \subseteq Made(s)) => \E k \in 1 .. n : p[k] = i
  BY <1>4, <1>7
<1> QED
  BY <1>6, <1>7, <1>9, <1>10, <1>11, <1>12, <1>13 DEF u

\* Demoting leaves a list alone whose calls are all answered right behind them.
LEMMA Demoted ==
  ASSUME NEW s \in Seq(Messages)
  PROVE  /\ Demote(s) \in Seq(Messages)
         /\ (\A i \in 1 .. Len(s) : IsTool(s[i]) \/ s[i].calls \subseteq AnswersAfter(s, i))
              => Demote(s) = s
<1> DEFINE d == Demote(s)
<1>1. Len(s) \in Nat /\ DOMAIN s = 1 .. Len(s) /\ \A i \in 1 .. Len(s) : s[i] \in Messages
  BY ListForm
<1>2. d = [i \in 1 .. Len(s) |-> IF IsTool(s[i]) \/ s[i].calls \subseteq AnswersAfter(s, i)
                                   THEN s[i] ELSE Keeping(s[i], {})]
  BY <1>1 DEF Demote
<1> HIDE DEF d
<1>3. \A i \in 1 .. Len(s) : Keeping(s[i], {}) \in Messages
  BY <1>1, MessageKept
<1>4. d \in [1 .. Len(s) -> Messages]
  BY <1>1, <1>2, <1>3
<1>5. d \in Seq(Messages) /\ Len(d) = Len(s)
  BY <1>1, <1>4, ListOf
<1>6. ASSUME \A i \in 1 .. Len(s) : IsTool(s[i]) \/ s[i].calls \subseteq AnswersAfter(s, i)
      PROVE  d = s
  <2>1. \A i \in 1 .. Len(s) : d[i] = s[i]
    BY <1>2, <1>6
  <2> QED BY <1>5, <2>1, SeqEqual
<1> QED
  BY <1>5, <1>6 DEF d

\* What the model is sent is a list of messages.
LEMMA Prepared ==
  ASSUME NEW s \in Seq(Messages)
  PROVE  Prepare(s) \in Seq(Messages)
<1>1. DropOrphans(s) \in Seq(Messages)
  BY OrphansDropped
<1> QED
  BY <1>1, NothingFiltered, Demoted DEF Prepare

(***************************************************************************)
(* Orderly lists, and what the repairs make of them.                       *)
(***************************************************************************)

\* A tool message answers one call, which no other answers; it stands after whoever
\* makes the call, with nothing but answers between.
OneCallEach(s) ==
  \A i \in 1 .. Len(s) : IsTool(s[i]) => \E c \in Calls : s[i].calls = {c}

NoneTwice(s) ==
  \A i, j \in 1 .. Len(s) : IsTool(s[i]) /\ IsTool(s[j]) /\ i # j => s[i].calls # s[j].calls

RightAfter(s) ==
  \A i, j \in 1 .. Len(s) : \A c \in Calls :
    IsTool(s[i]) /\ ~ IsTool(s[j]) /\ c \in s[i].calls /\ c \in s[j].calls
      => j < i /\ \A l \in (j + 1) .. i : IsTool(s[l])

Orderly(s) == OneCallEach(s) /\ NoneTwice(s) /\ RightAfter(s)

\* An answer whose call is there survives the repairs, with the call.
ResultsKept(g, r) ==
  \A i \in DOMAIN g :
    IsTool(g[i]) /\ g[i].calls \subseteq Made(g)
      => /\ g[i] \in ToSet(r)
         /\ g[i].calls \subseteq Made(r)

\* A list that keeps the rule is not touched.
LeftAlone(g, r) == Paired(g) => r = g

\* Of an orderly list phases 1 and 2 leave one that keeps the rule, with every
\* answer whose call is made.
LEMMA OrphansRepair ==
  ASSUME NEW s \in Seq(Messages), Orderly(s)
  PROVE  /\ DropOrphans(s) \in Seq(Messages)
         /\ Paired(DropOrphans(s))
         /\ \A i \in 1 .. Len(s) : IsTool(s[i]) /\ s[i].calls \subseteq Made(s) =>
              \E k \in 1 .. Len(DropOrphans(s)) : DropOrphans(s)[k] = s[i]
<1> DEFINE u == DropOrphans(s)
           n == Len(u)
<1>0. u \in Seq(Messages) /\ n \in Nat
  BY OrphansDropped, ListForm
<1>1. PICK p \in [1 .. n -> 1 .. Len(s)] :
        /\ \A k \in 1 .. n :
             /\ IsTool(u[k]) <=> IsTool(s[p[k]])
             /\ IsTool(s[p[k]]) => u[k] = s[p[k]] /\ s[p[k]].calls \subseteq Made(s)
             /\ ~ IsTool(s[p[k]]) => u[k].calls = s[p[k]].calls \cap Answered(s)
        /\ \A i \in 1 .. Len(s) :
             (IsTool(s[i]) => s[i].calls \subseteq Made(s)) => \E k \in 1 .. n : p[k] = i
        /\ \A j, k \in 1 .. n : j < k <=> p[j] < p[k]
  BY OrphansDropped
<1> HIDE DEF u, n
<1>2. Len(s) \in Nat /\ n \in Nat /\ n = Len(u) /\ DOMAIN u = 1 .. n /\ \A k \in 1 .. n : p[k] \in 1 .. Len(s)
  BY <1>0, <1>1, ListForm DEF n
<1>3. \A i \in 1 .. Len(s) : s[i].calls \subseteq Calls
  BY CallsTyped
\* Whatever stands between two kept positions is kept or not, but its kind is.
<1>4. ASSUME NEW j \in 1 .. n, NEW k \in 1 .. n, p[j] < p[k],
             \A l \in (p[j] + 1) .. p[k] : IsTool(s[l])
      PROVE  j < k /\ \A l \in (j + 1) .. k : IsTool(u[l])
  <2>1. j < k
    BY <1>1, <1>4
  <2>2. ASSUME NEW l \in (j + 1) .. k PROVE IsTool(u[l])
    <3>1. l \in 1 .. n /\ j < l /\ (l < k \/ l = k)
      BY <1>2, <2>2
    <3>2. p[j] < p[l] /\ (p[l] < p[k] \/ l = k)
      BY <1>1, <3>1
    <3>3. p[l] \in (p[j] + 1) .. p[k]
      BY <1>2, <3>1, <3>2
    <3> QED BY <1>1, <1>4, <3>1, <3>3
  <2> QED BY <2>1, <2>2
<1>5. ASSUME NEW k \in 1 .. n, ~ IsTool(u[k])
      PROVE  u[k].calls \subseteq AnswersAfter(u, k)
  <2> SUFFICES ASSUME NEW c \in u[k].calls
               PROVE  \E m \in (k + 1) .. Len(u) :
                        c \in u[m].calls /\ \A l \in (k + 1) .. m : IsTool(u[l])
    BY AnsweredAfter
  <2>1. ~ IsTool(s[p[k]]) /\ c \in s[p[k]].calls /\ c \in Answered(s) /\ c \in Calls
    BY <1>1, <1>2, <1>3, <1>5
  <2>2. PICK i \in 1 .. Len(s) : IsTool(s[i]) /\ c \in s[i].calls
    BY <2>1, AnsweredBy
  <2>3. p[k] < i /\ \A l \in (p[k] + 1) .. i : IsTool(s[l])
    BY <1>2, <2>1, <2>2 DEF Orderly, RightAfter
  <2>4. s[i].calls \subseteq Made(s)
    <3>1. c \in Made(s)
      BY <1>2, <2>1, MadeBy
    <3>2. PICK d \in Calls : s[i].calls = {d}
      BY <2>2 DEF Orderly, OneCallEach
    <3> QED BY <2>2, <3>1, <3>2
  <2>5. PICK m \in 1 .. n : p[m] = i
    BY <1>1, <2>4
  <2>6. k < m /\ \A l \in (k + 1) .. m : IsTool(u[l])
    BY <1>4, <2>3, <2>5
  <2>7. c \in u[m].calls
    BY <1>1, <2>2, <2>5
  <2>8. m \in (k + 1) .. Len(u)
    BY <1>2, <2>6
  <2> QED BY <2>6, <2>7, <2>8
<1>6. ASSUME NEW k \in 1 .. n, IsTool(u[k])
      PROVE  \E j \in 1 .. (k - 1) : /\ u[k].calls \subseteq u[j].calls
                                     /\ \A l \in (j + 1) .. k : IsTool(u[l])
                                     /\ ~ IsTool(u[j])
  <2>1. IsTool(s[p[k]]) /\ u[k] = s[p[k]] /\ s[p[k]].calls \subseteq Made(s)
    BY <1>1, <1>2, <1>6
  <2>2. PICK c \in Calls : s[p[k]].calls = {c}
    BY <1>2, <2>1 DEF Orderly, OneCallEach
  <2>3. PICK i \in 1 .. Len(s) : ~ IsTool(s[i]) /\ c \in s[i].calls
    BY <2>1, <2>2, MadeBy
  <2>4. i < p[k] /\ \A l \in (i + 1) .. p[k] : IsTool(s[l])
    BY <1>2, <2>1, <2>2, <2>3 DEF Orderly, RightAfter
  <2>5. PICK j \in 1 .. n : p[j] = i
    BY <1>1, <2>3
  <2>6. j < k /\ \A l \in (j + 1) .. k : IsTool(u[l])
    BY <1>4, <2>4, <2>5
  <2>7. c \in Answered(s)
    BY <1>2, <2>1, <2>2, AnsweredBy
  <2>8. ~ IsTool(u[j]) /\ c \in u[j].calls
    BY <1>1, <2>3, <2>5, <2>7
  <2>9. j \in 1 .. (k - 1)
    BY <2>6
  <2> QED BY <2>1, <2>2, <2>6, <2>8, <2>9
<1>7. ASSUME NEW k \in 1 .. n, NEW j \in 1 .. n, j # k, IsTool(u[k]), IsTool(u[j])
      PROVE  u[j].calls # u[k].calls
  <2>1. p[j] # p[k]
    <3>1. j < k \/ k < j
      BY <1>7
    <3>2. p[j] < p[k] \/ p[k] < p[j]
      BY <1>1, <3>1
    <3> QED BY <1>2, <3>2
  <2>2. u[j] = s[p[j]] /\ u[k] = s[p[k]] /\ IsTool(s[p[j]]) /\ IsTool(s[p[k]])
    BY <1>1, <1>7
  <2> QED BY <1>2, <2>1, <2>2 DEF Orderly, NoneTwice
<1>8. Paired(u)
  BY <1>2, <1>5, <1>6, <1>7 DEF Paired
<1>9. ASSUME NEW i \in 1 .. Len(s), IsTool(s[i]), s[i].calls \subseteq Made(s)
      PROVE  \E k \in 1 .. Len(u) : u[k] = s[i]
  BY <1>1, <1>2, <1>9
<1> QED
  BY <1>0, <1>8, <1>9 DEF u

\* What keeps the rule stays as it is: in phases 1 and 2, and in the strict order.
LEMMA PairedStays ==
  ASSUME NEW s \in Seq(Messages), Paired(s)
  PROVE  DropOrphans(s) = s /\ Demote(s) = s
<1>1. Len(s) \in Nat /\ DOMAIN s = 1 .. Len(s)
  BY ListForm
<1>2. ASSUME NEW i \in 1 .. Len(s), IsTool(s[i]) PROVE s[i].calls \subseteq Made(s)
  <2>1. PICK j \in 1 .. (i - 1) : s[i].calls \subseteq s[j].calls /\ ~ IsTool(s[j])
    BY <1>1, <1>2 DEF Paired
  <2>2. j \in 1 .. Len(s)
    BY <1>1
  <2> QED BY <2>1, <2>2, MadeBy
<1>3. ASSUME NEW i \in 1 .. Len(s), ~ IsTool(s[i])
      PROVE  s[i].calls \subseteq AnswersAfter(s, i) /\ s[i].calls \subseteq Answered(s)
  <2>1. s[i].calls \subseteq AnswersAfter(s, i)
    BY <1>1, <1>3 DEF Paired
  <2>2. ASSUME NEW c \in s[i].calls PROVE c \in Answered(s)
    <3>1. PICK j \in (i + 1) .. Len(s) : c \in s[j].calls /\ \A l \in (i + 1) .. j : IsTool(s[l])
      BY <2>1, AnsweredAfter
    <3>2. j \in 1 .. Len(s) /\ j \in (i + 1) .. j
      BY <1>1
    <3> QED BY <3>1, <3>2, AnsweredBy
  <2> QED BY <2>1, <2>2
<1>4. DropOrphans(s) = s
  BY <1>2, <1>3, OrphansDropped
<1>5. Demote(s) = s
  BY <1>3, Demoted
<1> QED
  BY <1>4, <1>5

\* The three repairs together, on an orderly list.
LEMMA Repaired ==
  ASSUME NEW s \in Seq(Messages), Orderly(s)
  PROVE  /\ Paired(Prepare(s))
         /\ ResultsKept(s, Prepare(s))
<1> DEFINE u == DropOrphans(s)
<1>1. DOMAIN s = 1 .. Len(s)
  BY ListForm
<1>2. Prepare(s) = Demote(u)
  BY NothingFiltered DEF Prepare
<1>3. /\ u \in Seq(Messages)
      /\ Paired(u)
      /\ \A i \in 1 .. Len(s) : IsTool(s[i]) /\ s[i].calls \subseteq Made(s) =>
           \E k \in 1 .. Len(u) : u[k] = s[i]
  BY OrphansRepair
<1> HIDE DEF u
<1>4. Prepare(s) = u
  BY <1>2, <1>3, PairedStays
<1>5. ASSUME NEW i \in 1 .. Len(s), IsTool(s[i]), s[i].calls \subseteq Made(s)
      PROVE  s[i] \in ToSet(u) /\ s[i].calls \subseteq Made(u)
  <2>1. PICK k \in 1 .. Len(u) : u[k] = s[i]
    BY <1>3, <1>5
  <2>2. Len(u) \in Nat /\ DOMAIN u = 1 .. Len(u)
    BY <1>3, ListForm
  <2>3. PICK j \in 1 .. (k - 1) : u[k].calls \subseteq u[j].calls /\ ~ IsTool(u[j])
    BY <1>3, <1>5, <2>1, <2>2 DEF Paired
  <2>4. j \in 1 .. Len(u)
    BY <2>2
  <2>5. s[i].calls \subseteq Made(u)
    BY <1>3, <2>1, <2>3, <2>4, MadeBy
  <2> QED BY <2>1, <2>2, <2>5 DEF ToSet
<1> QED
  BY <1>1, <1>3, <1>4, <1>5 DEF ResultsKept

\* ... and on any list that keeps the rule.
LEMMA PreparedIsSame ==
  ASSUME NEW s \in Seq(Messages)
  PROVE  LeftAlone(s, Prepare(s))
BY NothingFiltered, PairedStays DEF LeftAlone, Prepare

(***************************************************************************)
(* What the nodes make of an orderly list.                                 *)
(***************************************************************************)

\* Texts in front of a tail of an orderly list.
LEMMA TailOrderly ==
  ASSUME NEW s \in Seq(Messages), Orderly(s), NEW r \in Seq(Messages),
         NEW d \in Nat, NEW e \in 0 .. Len(s), Len(r) = d + (Len(s) - e),
         \A i \in 1 .. d : ~ IsTool(r[i]) /\ r[i].calls = {},
         \A i \in 1 .. (Len(s) - e) : r[d + i] = s[e + i]
  PROVE  Orderly(r)
<1>1. Len(s) \in Nat
  BY ListForm
<1>2. ASSUME NEW i \in 1 .. Len(r), ~ (i <= d)
      PROVE  r[i] = s[e + (i - d)] /\ e + (i - d) \in 1 .. Len(s)
  <2>1. i - d \in 1 .. (Len(s) - e) /\ d + (i - d) = i
    BY <1>1, <1>2
  <2>2. r[d + (i - d)] = s[e + (i - d)]
    BY <2>1
  <2> QED BY <1>1, <2>1, <2>2
<1>3. ASSUME NEW i \in 1 .. Len(r), IsTool(r[i]) PROVE ~ (i <= d)
  BY <1>3
<1>4. OneCallEach(r)
  <2> SUFFICES ASSUME NEW i \in 1 .. Len(r), IsTool(r[i])
               PROVE  \E c \in Calls : r[i].calls = {c}
    BY DEF OneCallEach
  <2>1. r[i] = s[e + (i - d)] /\ e + (i - d) \in 1 .. Len(s)
    BY <1>2, <1>3
  <2> QED BY <2>1 DEF Orderly, OneCallEach
<1>5. NoneTwice(r)
  <2> SUFFICES ASSUME NEW i \in 1 .. Len(r), NEW j \in 1 .. Len(r),
                      IsTool(r[i]), IsTool(r[j]), i # j
               PROVE  r[i].calls # r[j].calls
    BY DEF NoneTwice
  <2>1. /\ r[i] = s[e + (i - d)] /\ e + (i - d) \in 1 .. Len(s)
        /\ r[j] = s[e + (j - d)] /\ e + (j - d) \in 1 .. Len(s)
    BY <1>2, <1>3
  <2>2. e + (i - d) # e + (j - d)
    OBVIOUS
  <2> QED BY <2>1, <2>2 DEF Orderly, NoneTwice
<1>6. RightAfter(r)
  <2> SUFFICES ASSUME NEW i \in 1 .. Len(r), NEW j \in 1 .. Len(r), NEW c \in Calls,
                      IsTool(r[i]), ~ IsTool(r[j]), c \in r[i].calls, c \in r[j].calls
               PROVE  j < i /\ \A l \in (j + 1) .. i : IsTool(r[l])
    BY DEF RightAfter
  <2>1. ~ (i <= d) /\ ~ (j <= d)
    <3>1. ~ (j <= d)
      <4> SUFFICES ASSUME j <= d PROVE FALSE
        OBVIOUS
      <4>1. j \in 1 .. d
        OBVIOUS
      <4> QED BY <4>1
    <3> QED BY <1>3, <3>1
  <2>2. /\ r[i] = s[e + (i - d)] /\ e + (i - d) \in 1 .. Len(s)
        /\ r[j] = s[e + (j - d)] /\ e + (j - d) \in 1 .. Len(s)
    BY <1>2, <2>1
  <2>3. e + (j - d) < e + (i - d) /\ \A l \in ((e + (j - d)) + 1) .. (e + (i - d)) : IsTool(s[l])
    BY <2>2 DEF Orderly, RightAfter
  <2>4. j < i
    BY <2>3
  <2>5. ASSUME NEW l \in (j + 1) .. i PROVE IsTool(r[l])
    <3>1. l \in 1 .. Len(r) /\ ~ (l <= d)
      BY <1>1, <2>1
    <3>2. r[l] = s[e + (l - d)]
      BY <1>2, <3>1
    <3>3. e + (l - d) \in ((e + (j - d)) + 1) .. (e + (i - d))
      OBVIOUS
    <3> QED BY <2>3, <3>2, <3>3
  <2> QED BY <2>4, <2>5
<1> QED
  BY <1>4, <1>5, <1>6 DEF Orderly

\* A text that makes calls nobody knows yet.
LEMMA TextAppended ==
  ASSUME NEW s \in Seq(Messages), Orderly(s), NEW m \in Messages, ~ IsTool(m),
         \A i \in 1 .. Len(s) : s[i].calls \cap m.calls = {}
  PROVE  Orderly(Append(s, m))
<1> DEFINE r == Append(s, m)
           n == Len(s)
<1>1. /\ n \in Nat /\ Len(r) = n + 1 /\ r[n + 1] = m
      /\ \A i \in 1 .. n : r[i] = s[i]
  BY AppendProperties, ListForm
<1> HIDE DEF r
<1>2. \A i \in 1 .. Len(r) : i \in 1 .. n \/ i = n + 1
  BY <1>1
<1>3. ASSUME NEW i \in 1 .. Len(r), IsTool(r[i]) PROVE i \in 1 .. n /\ r[i] = s[i]
  BY <1>1, <1>2, <1>3
<1>4. OneCallEach(r)
  BY <1>3 DEF Orderly, OneCallEach
<1>5. NoneTwice(r)
  BY <1>3 DEF Orderly, NoneTwice
<1>6. RightAfter(r)
  <2> SUFFICES ASSUME NEW i \in 1 .. Len(r), NEW j \in 1 .. Len(r), NEW c \in Calls,
                      IsTool(r[i]), ~ IsTool(r[j]), c \in r[i].calls, c \in r[j].calls
               PROVE  j < i /\ \A l \in (j + 1) .. i : IsTool(r[l])
    BY DEF RightAfter
  <2>1. i \in 1 .. n /\ r[i] = s[i]
    BY <1>3
  <2>2. j \in 1 .. n /\ r[j] = s[j]
    BY <1>1, <1>2, <2>1
  <2>3. j < i /\ \A l \in (j + 1) .. i : IsTool(s[l])
    BY <2>1, <2>2 DEF Orderly, RightAfter
  <2>4. \A l \in (j + 1) .. i : l \in 1 .. n
    BY <1>1, <2>1, <2>2
  <2> QED BY <1>1, <2>3, <2>4
<1> QED
  BY <1>4, <1>5, <1>6 DEF Orderly, r

\* Answers, each to a call of its own, right after the message that makes them.
LEMMA AnswersAppended ==
  ASSUME NEW s \in Seq(Messages), Orderly(s), Len(s) # 0, ~ IsTool(s[Len(s)]),
         NEW k \in Nat, NEW f \in [1 .. k -> Calls],
         \A i, j \in 1 .. k : i # j => f[i] # f[j],
         \A i \in 1 .. k : f[i] \in s[Len(s)].calls,
         \A i \in 1 .. k : \A j \in 1 .. (Len(s) - 1) : f[i] \notin s[j].calls,
         NEW r \in Seq(Messages), Len(r) = Len(s) + k,
         \A i \in 1 .. Len(s) : r[i] = s[i],
         \A i \in 1 .. k : r[Len(s) + i] = Answer(f[i])
  PROVE  Orderly(r)
<1> DEFINE n == Len(s)
<1>1. n \in Nat /\ n # 0 /\ n \in 1 .. n
  BY ListForm
<1>2. ASSUME NEW i \in 1 .. Len(r), ~ (i <= n)
      PROVE  i - n \in 1 .. k /\ IsTool(r[i]) /\ r[i].calls = {f[i - n]} /\ f[i - n] \in Calls
  <2>1. i - n \in 1 .. k /\ n + (i - n) = i
    BY <1>1, <1>2
  <2>2. r[n + (i - n)] = Answer(f[i - n]) /\ f[i - n] \in Calls
    BY <2>1
  <2>3. r[i] = Answer(f[i - n])
    BY <2>1, <2>2
  <2> QED BY <2>1, <2>2, <2>3, Texts
<1>3. ASSUME NEW i \in 1 .. Len(r), i <= n
      PROVE  i \in 1 .. n /\ r[i] = s[i]
  BY <1>1, <1>3
\* No earlier message mentions a call that is answered now, but the one that makes it.
<1>4. ASSUME NEW j \in 1 .. n, NEW i \in 1 .. k, f[i] \in s[j].calls PROVE j = n
  <2>1. j \in 1 .. (n - 1) \/ j = n
    BY <1>1
  <2> QED BY <1>4, <2>1
<1>5. OneCallEach(r)
  <2> SUFFICES ASSUME NEW i \in 1 .. Len(r), IsTool(r[i])
               PROVE  \E c \in Calls : r[i].calls = {c}
    BY DEF OneCallEach
  <2>1. CASE i <= n
    <3>1. i \in 1 .. Len(s) /\ r[i] = s[i]
      BY <1>3, <2>1
    <3>2. \E c \in Calls : s[i].calls = {c}
      BY <3>1 DEF Orderly, OneCallEach
    <3> QED BY <3>1, <3>2
  <2>2. CASE ~ (i <= n)
    BY <1>2, <2>2
  <2> QED BY <2>1, <2>2
<1>6. ASSUME NEW i \in 1 .. Len(r), NEW j \in 1 .. Len(r),
             IsTool(r[i]), IsTool(r[j]), i <= n, ~ (j <= n)
      PROVE  r[i].calls # r[j].calls
  <2>1. i \in 1 .. n /\ r[i] = s[i] /\ i # n
    BY <1>3, <1>6
  <2>2. r[j].calls = {f[j - n]} /\ j - n \in 1 .. k
    BY <1>2, <1>6
  <2>3. f[j - n] \notin s[i].calls
    BY <1>4, <2>1, <2>2
  <2> QED BY <2>1, <2>2, <2>3
<1>7. NoneTwice(r)
  <2> SUFFICES ASSUME NEW i \in 1 .. Len(r), NEW j \in 1 .. Len(r),
                      IsTool(r[i]), IsTool(r[j]), i # j
               PROVE  r[i].calls # r[j].calls
    BY DEF NoneTwice
  <2>1. CASE i <= n /\ j <= n
    BY <1>3, <2>1 DEF Orderly, NoneTwice
  <2>2. CASE i <= n /\ ~ (j <= n)
    BY <1>6, <2>2
  <2>3. CASE ~ (i <= n) /\ j <= n
    BY <1>6, <2>3
  <2>4. CASE ~ (i <= n) /\ ~ (j <= n)
    <3>1. /\ i - n \in 1 .. k /\ r[i].calls = {f[i - n]}
          /\ j - n \in 1 .. k /\ r[j].calls = {f[j - n]}
      BY <1>2, <2>4
    <3>2. i - n # j - n
      BY <1>1
    <3>3. f[i - n] # f[j - n]
      BY <3>1, <3>2
    <3> QED BY <3>1, <3>3
  <2> QED BY <2>1, <2>2, <2>3, <2>4
<1>8. RightAfter(r)
  <2> SUFFICES ASSUME NEW i \in 1 .. Len(r), NEW j \in 1 .. Len(r), NEW c \in Calls,
                      IsTool(r[i]), ~ IsTool(r[j]), c \in r[i].calls, c \in r[j].calls
               PROVE  j < i /\ \A l \in (j + 1) .. i : IsTool(r[l])
    BY DEF RightAfter
  <2>1. j <= n
    BY <1>2
  <2>2. j \in 1 .. n /\ r[j] = s[j]
    BY <1>3, <2>1
  <2>3. CASE i <= n
    <3>1. i \in 1 .. n /\ r[i] = s[i]
      BY <1>3, <2>3
    <3>2. j < i /\ \A l \in (j + 1) .. i : IsTool(s[l])
      BY <2>2, <3>1 DEF Orderly, RightAfter
    <3>3. \A l \in (j + 1) .. i : l \in 1 .. n
      BY <1>1, <2>2, <3>1
    <3> QED BY <3>2, <3>3
  <2>4. CASE ~ (i <= n)
    <3>1. i - n \in 1 .. k /\ c = f[i - n]
      BY <1>2, <2>4
    <3>2. j = n
      BY <1>4, <2>2, <3>1
    <3>3. \A l \in (n + 1) .. i : l \in 1 .. Len(r) /\ ~ (l <= n)
      BY <1>1
    <3> QED BY <1>1, <1>2, <2>4, <3>2, <3>3
  <2> QED BY <2>3, <2>4
<1> QED
  BY <1>5, <1>7, <1>8 DEF Orderly

(***************************************************************************)
(* The inductive invariant.                                                *)
(***************************************************************************)

\* The calls of the history are numbered, and it begins with a text.
Numbered ==
  /\ \A i \in 1 .. Len(history) : history[i].calls \subseteq 1 .. used
  /\ history # <<>> => ~ IsTool(history[1]) /\ history[1].calls = {}
  /\ at # "idle" => history # <<>>

\* After the agent node the reply stands last, and makes the newest calls.
ReplyIsLast ==
  at \in {"routing", "tools", "gate"} =>
    /\ ~ IsTool(history[Len(history)])
    /\ \E m \in 0 .. used :
         /\ history[Len(history)].calls = (m + 1) .. used
         /\ \A i \in 1 .. (Len(history) - 1) : history[i].calls \subseteq 1 .. m
    /\ at = "gate" => history[Len(history)].calls \cap gated # {}

HistoryInv ==
  /\ TypeOK
  /\ Orderly(history) /\ Numbered /\ ReplyIsLast
  /\ Paired(sent)
  /\ ResultsKept(given, sent)
  /\ LeftAlone(given, sent)

LEMMA InvStart == Init => HistoryInv
<1> SUFFICES ASSUME Init PROVE HistoryInv
  OBVIOUS
<1>1. /\ at = "idle" /\ history = <<>> /\ used = 0 /\ nameless = {} /\ gated = {}
      /\ confirmed = FALSE /\ given = <<>> /\ sent = <<>>
  BY DEF Init
<1>2. <<>> \in Seq(Messages) /\ Len(<<>>) = 0 /\ DOMAIN <<>> = {}
  BY EmptySeq
<1>3. 1 .. 0 = {}
  OBVIOUS
<1>4. confirmed \in BOOLEAN
  BY <1>1
<1>5. TypeOK
  BY <1>1, <1>2, <1>4, CallBounds DEF TypeOK
<1>6. Orderly(<<>>)
  BY <1>2, <1>3 DEF Orderly, OneCallEach, NoneTwice, RightAfter
<1>7. Numbered /\ ReplyIsLast
  BY <1>1, <1>2 DEF Numbered, ReplyIsLast
<1>8. Paired(<<>>)
  BY <1>2 DEF Paired
<1>9. ResultsKept(<<>>, <<>>) /\ LeftAlone(<<>>, <<>>)
  BY <1>2 DEF ResultsKept, LeftAlone
<1> QED
  BY <1>1, <1>5, <1>6, <1>7, <1>8, <1>9 DEF HistoryInv

\* The list a compaction leaves, behind the system prompt.
LEMMA CompactedOrderly ==
  ASSUME HistoryInv, history # <<>>, NEW s \in Compacted
  PROVE  <<System>> \o s \in Seq(Messages) /\ Orderly(<<System>> \o s)
<1> DEFINE n == Len(history)
<1>1. /\ history \in Seq(Messages) /\ n \in Nat /\ n # 0 /\ Orderly(history)
      /\ \A i \in 1 .. n : history[i] \in Messages
  BY ListForm, EmptySeq DEF HistoryInv, TypeOK
<1>2. history[1] \in Messages /\ ~ IsTool(history[1]) /\ history[1].calls = {}
  BY <1>1 DEF HistoryInv, Numbered
<1>3. <<System>> \in Seq(Messages) /\ Len(<<System>>) = 1 /\ <<System>>[1] = System
  BY Texts
<1>4. CASE s = history
  <2> DEFINE r == <<System>> \o history
  <2>1. /\ r \in Seq(Messages) /\ Len(r) = 1 + n
        /\ \A i \in 1 .. (1 + n) : r[i] = IF i <= 1 THEN <<System>>[i] ELSE history[i - 1]
    BY <1>1, <1>3, ConcatProperties
  <2> HIDE DEF r
  <2>2. \A i \in 1 .. 1 : ~ IsTool(r[i]) /\ r[i].calls = {}
    <3>1. r[1] = System
      BY <1>1, <1>3, <2>1
    <3> QED BY <3>1, Texts
  <2>3. \A i \in 1 .. (n - 0) : r[1 + i] = history[0 + i]
    BY <1>1, <2>1
  <2>4. Len(r) = 1 + (n - 0) /\ 0 \in 0 .. n /\ 1 \in Nat
    BY <1>1, <2>1
  <2>5. Orderly(r)
    BY <1>1, <2>1, <2>2, <2>3, <2>4, TailOrderly
  <2> QED BY <1>4, <2>1, <2>5 DEF r
<1>5. ASSUME NEW k \in 3 .. n, s = <<history[1], Summary>> \o SubSeq(history, k, n)
      PROVE  <<System>> \o s \in Seq(Messages) /\ Orderly(<<System>> \o s)
  <2> DEFINE q == SubSeq(history, k, n)
             h == <<history[1], Summary>>
             r == <<System>> \o s
  <2>1. k \in Int /\ n \in Int /\ k <= n /\ \A i \in k .. n : history[i] \in Messages
    BY <1>1
  <2>2. /\ q \in Seq(Messages) /\ Len(q) = n - k + 1
        /\ \A i \in 1 .. (n - k + 1) : q[i] = history[k + i - 1]
    BY <2>1, SubSeqProperties
  <2> HIDE DEF q
  <2>3. h \in Seq(Messages) /\ Len(h) = 2 /\ h[1] = history[1] /\ h[2] = Summary
    BY <1>2, Texts
  <2> HIDE DEF h
  <2>4. s = h \o q
    BY <1>5 DEF h, q
  <2>5. /\ s \in Seq(Messages) /\ Len(s) = 2 + (n - k + 1)
        /\ \A i \in 1 .. (2 + (n - k + 1)) : s[i] = IF i <= 2 THEN h[i] ELSE q[i - 2]
    <3>1. /\ s \in Seq(Messages) /\ Len(s) = Len(h) + Len(q)
          /\ \A i \in 1 .. Len(h) + Len(q) : s[i] = IF i <= Len(h) THEN h[i] ELSE q[i - Len(h)]
      BY <2>2, <2>3, <2>4, ConcatProperties, Zenon
    <3> QED BY <2>2, <2>3, <3>1
  <2>6. /\ r \in Seq(Messages) /\ Len(r) = 1 + (2 + (n - k + 1))
        /\ \A i \in 1 .. (1 + (2 + (n - k + 1))) : r[i] = IF i <= 1 THEN <<System>>[i] ELSE s[i - 1]
    <3>1. /\ r \in Seq(Messages) /\ Len(r) = Len(<<System>>) + Len(s)
          /\ \A i \in 1 .. Len(<<System>>) + Len(s) :
               r[i] = IF i <= Len(<<System>>) THEN <<System>>[i] ELSE s[i - Len(<<System>>)]
      BY <1>3, <2>5, ConcatProperties, Zenon
    <3> HIDE DEF r
    <3> QED BY <1>3, <2>5, <3>1
  <2> HIDE DEF r
  <2>7. r[1] = System /\ r[2] = history[1] /\ r[3] = Summary
    <3>1. 1 \in 1 .. (2 + (n - k + 1)) /\ 2 \in 1 .. (2 + (n - k + 1))
      BY <2>1
    <3>2. s[1] = history[1] /\ s[2] = Summary
      BY <2>3, <2>5, <3>1
    <3>3. \A i \in 1 .. 3 : i \in 1 .. (1 + (2 + (n - k + 1)))
      BY <2>1
    <3> QED BY <1>3, <2>6, <3>2, <3>3
  <2>8. \A i \in 1 .. 3 : ~ IsTool(r[i]) /\ r[i].calls = {}
    <3>1. \A i \in 1 .. 3 : i = 1 \/ i = 2 \/ i = 3
      OBVIOUS
    <3> QED BY <1>2, <2>7, <3>1, Texts
  <2>9. ASSUME NEW i \in 1 .. (n - (k - 1)) PROVE r[3 + i] = history[(k - 1) + i]
    <3>1. /\ 3 + i \in 1 .. (1 + (2 + (n - k + 1))) /\ ~ (3 + i <= 1) /\ (3 + i) - 1 = 2 + i
          /\ 2 + i \in 1 .. (2 + (n - k + 1)) /\ ~ (2 + i <= 2) /\ (2 + i) - 2 = i
          /\ i \in 1 .. (n - k + 1) /\ k + i - 1 = (k - 1) + i
      BY <2>1
    <3>2. r[3 + i] = s[2 + i]
      BY <2>6, <3>1
    <3>3. s[2 + i] = q[i]
      BY <2>5, <3>1
    <3>4. q[i] = history[(k - 1) + i]
      BY <2>2, <3>1
    <3> QED BY <3>2, <3>3, <3>4
  <2>10. Len(r) = 3 + (n - (k - 1)) /\ k - 1 \in 0 .. n /\ 3 \in Nat
    BY <2>1, <2>6
  <2>11. Orderly(r)
    BY <1>1, <2>6, <2>8, <2>9, <2>10, TailOrderly
  <2> QED BY <2>6, <2>11 DEF r
<1> QED
  BY <1>4, <1>5 DEF Compacted

\* What is sent then.
LEMMA SendsKeeps ==
  ASSUME HistoryInv, history # <<>>, Sends
  PROVE  /\ given' \in Seq(Messages) /\ sent' \in Seq(Messages)
         /\ Paired(sent')
         /\ ResultsKept(given', sent')
         /\ LeftAlone(given', sent')
<1>1. PICK s \in Compacted : given' = <<System>> \o s /\ sent' = Prepare(<<System>> \o s)
  BY DEF Sends
<1> DEFINE g == <<System>> \o s
<1>2. g \in Seq(Messages) /\ Orderly(g)
  BY CompactedOrderly
<1> HIDE DEF g
<1>3. Prepare(g) \in Seq(Messages)
  BY <1>2, Prepared
<1>4. Paired(Prepare(g)) /\ ResultsKept(g, Prepare(g))
  BY <1>2, Repaired
<1>5. LeftAlone(g, Prepare(g))
  BY <1>2, PreparedIsSame
<1>6. given' = g /\ sent' = Prepare(g)
  BY <1>1 DEF g
<1> QED
  BY <1>2, <1>3, <1>4, <1>5, <1>6

\* What TypeOK, Orderly and Numbered say of a history after n calls.
Sound(s, n) ==
  /\ s \in Seq(Messages) /\ Orderly(s)
  /\ \A i \in 1 .. Len(s) : s[i].calls \subseteq 1 .. n
  /\ s # <<>> => ~ IsTool(s[1]) /\ s[1].calls = {}

\* The invariant in the form the nodes' proofs use.
LEMMA HistorySound ==
  ASSUME HistoryInv
  PROVE  /\ Sound(history, used) /\ used \in Nat /\ 1 .. used \subseteq Calls
         /\ at # "idle" => history # <<>>
BY CallBounds DEF HistoryInv, TypeOK, Numbered, Sound, Calls

\* A text appended, with calls of its own.
LEMMA TextKeepsSound ==
  ASSUME NEW s, NEW n \in Nat, Sound(s, n), NEW m \in Messages, ~ IsTool(m),
         \A i \in 1 .. Len(s) : s[i].calls \cap m.calls = {},
         s = <<>> => m.calls = {}, m.calls \subseteq 1 .. n
  PROVE  /\ Sound(Append(s, m), n) /\ Append(s, m) # <<>>
         /\ Len(Append(s, m)) = Len(s) + 1 /\ Append(s, m)[Len(s) + 1] = m
         /\ \A i \in 1 .. Len(s) : Append(s, m)[i] = s[i]
<1> DEFINE r == Append(s, m)
<1>1. s \in Seq(Messages) /\ Len(s) \in Nat /\ Orderly(s)
  BY ListForm DEF Sound
<1>2. /\ r \in Seq(Messages) /\ r # <<>> /\ Len(r) = Len(s) + 1 /\ r[Len(s) + 1] = m
      /\ \A i \in 1 .. Len(s) : r[i] = s[i]
  BY <1>1, AppendProperties
<1>3. Orderly(r)
  BY <1>1, TextAppended
<1> HIDE DEF r
<1>4. ASSUME NEW i \in 1 .. Len(r) PROVE r[i].calls \subseteq 1 .. n
  <2>1. CASE i = Len(s) + 1
    BY <1>2, <2>1
  <2>2. CASE i # Len(s) + 1
    <3>1. i \in 1 .. Len(s)
      BY <1>1, <1>2, <2>2
    <3> QED BY <1>2, <3>1 DEF Sound
  <2> QED BY <2>1, <2>2
<1>5. ~ IsTool(r[1]) /\ r[1].calls = {}
  <2>1. CASE s = <<>>
    <3>1. Len(s) + 1 = 1
      BY <2>1, EmptySeq
    <3> QED BY <1>2, <2>1, <3>1
  <2>2. CASE s # <<>>
    <3>1. 1 \in 1 .. Len(s)
      BY <1>1, <2>2, EmptySeq
    <3>2. r[1] = s[1]
      BY <1>2, <3>1
    <3> QED BY <2>2, <3>2 DEF Sound
  <2> QED BY <2>1, <2>2
<1> QED
  BY <1>2, <1>3, <1>4, <1>5 DEF Sound, r

\* Answers to calls of the last message.
LEMMA AnswersKeepSound ==
  ASSUME HistoryInv, at \in {"tools", "gate"},
         NEW k \in Nat, NEW f \in [1 .. k -> Calls],
         \A i, j \in 1 .. k : i # j => f[i] # f[j],
         \A i \in 1 .. k : f[i] \in history[Len(history)].calls
  PROVE  LET r == history \o [i \in 1 .. k |-> Answer(f[i])]
         IN  Sound(r, used) /\ r # <<>>
<1> DEFINE n == Len(history)
           a == [i \in 1 .. k |-> Answer(f[i])]
           r == history \o a
<1>1. /\ history \in Seq(Messages) /\ n \in Nat /\ n # 0 /\ Orderly(history)
      /\ \A i \in 1 .. n : history[i].calls \subseteq 1 .. used
      /\ ~ IsTool(history[1]) /\ history[1].calls = {}
  BY HistorySound, ListForm, EmptySeq DEF Sound
<1>2. \A i \in 1 .. k : /\ Answer(f[i]) \in Messages
                        /\ Answer(f[i]).calls = {f[i]}
  BY Texts
<1>3. a \in Seq(Messages) /\ Len(a) = k /\ \A i \in 1 .. k : a[i] = Answer(f[i])
  <2>1. a \in [1 .. k -> Messages]
    BY <1>2
  <2>2. \A i \in 1 .. k : a[i] = Answer(f[i])
    OBVIOUS
  <2> HIDE DEF a
  <2> QED BY <2>1, <2>2, ListOf
<1> HIDE DEF a
<1>4. /\ r \in Seq(Messages) /\ Len(r) = n + k
      /\ \A i \in 1 .. (n + k) : r[i] = IF i <= n THEN history[i] ELSE a[i - n]
  <2>1. /\ r \in Seq(Messages) /\ Len(r) = n + Len(a)
        /\ \A i \in 1 .. n + Len(a) : r[i] = IF i <= n THEN history[i] ELSE a[i - n]
    <3>1. history \in Seq(Messages) /\ a \in Seq(Messages)
      BY <1>1, <1>3
    <3> QED BY <3>1, ConcatProperties
  <2> QED BY <1>3, <2>1
<1> HIDE DEF r
<1>5. \A i \in 1 .. n : r[i] = history[i]
  <2> SUFFICES ASSUME NEW i \in 1 .. n PROVE r[i] = history[i]
    OBVIOUS
  <2>1. i \in 1 .. (n + k) /\ i <= n
    BY <1>1
  <2> QED BY <1>4, <2>1, Zenon
<1>6. \A i \in 1 .. k : r[n + i] = Answer(f[i])
  <2> SUFFICES ASSUME NEW i \in 1 .. k PROVE r[n + i] = Answer(f[i])
    OBVIOUS
  <2>1. n + i \in 1 .. (n + k) /\ ~ (n + i <= n) /\ (n + i) - n = i
    BY <1>1
  <2>2. r[n + i] = a[i]
    BY <1>4, <2>1
  <2> QED BY <1>3, <2>2
<1>7. ~ IsTool(history[n])
  BY DEF HistoryInv, ReplyIsLast
<1>8. ASSUME NEW i \in 1 .. k, NEW j \in 1 .. (n - 1) PROVE f[i] \notin history[j].calls
  <2>1. PICK m \in 0 .. used :
          /\ history[n].calls = (m + 1) .. used
          /\ \A l \in 1 .. (n - 1) : history[l].calls \subseteq 1 .. m
    BY DEF HistoryInv, ReplyIsLast
  <2>2. f[i] \in (m + 1) .. used
    BY <2>1
  <2>3. f[i] \notin 1 .. m
    BY <2>2
  <2> QED BY <1>8, <2>1, <2>3
<1>9. Orderly(r)
  BY <1>1, <1>4, <1>5, <1>6, <1>7, <1>8, AnswersAppended
<1>10. ASSUME NEW i \in 1 .. Len(r) PROVE r[i].calls \subseteq 1 .. used
  <2>1. CASE i <= n
    <3>1. i \in 1 .. n
      BY <1>1, <1>4, <2>1
    <3> QED BY <1>1, <1>5, <3>1
  <2>2. CASE ~ (i <= n)
    <3>1. i - n \in 1 .. k /\ n + (i - n) = i
      BY <1>1, <1>4, <2>2
    <3>2. r[n + (i - n)] = Answer(f[i - n])
      BY <1>6, <3>1
    <3>3. r[i].calls = {f[i - n]} /\ f[i - n] \in history[n].calls
      BY <1>2, <3>1, <3>2
    <3>4. n \in 1 .. n
      BY <1>1
    <3> QED BY <1>1, <3>3, <3>4
  <2> QED BY <2>1, <2>2
<1>11. r # <<>> /\ r[1] = history[1]
  <2>1. 1 \in 1 .. n /\ n + k # 0
    BY <1>1
  <2> QED BY <1>4, <1>5, <2>1, EmptySeq
<1> QED
  BY <1>1, <1>4, <1>9, <1>10, <1>11 DEF Sound, r, a

\* What was sent stays as good, whatever the rest of the step does.
LEMMA SentStays ==
  ASSUME HistoryInv, UNCHANGED <<given, sent>>
  PROVE  /\ given' \in Seq(Messages) /\ sent' \in Seq(Messages)
         /\ Paired(sent')
         /\ ResultsKept(given', sent')
         /\ LeftAlone(given', sent')
BY DEF HistoryInv, TypeOK

\* The invariant from what its parts have become.
LEMMA InvAgain ==
  ASSUME used' \in 0 .. MaxCalls, Sound(history', used'),
         at' \in {"idle", "agent", "routing", "tools", "gate"},
         at' # "idle" => history' # <<>>,
         nameless' \subseteq 1 .. used', gated' \subseteq (1 .. used') \ nameless',
         confirmed' \in BOOLEAN,
         ReplyIsLast',
         given' \in Seq(Messages), sent' \in Seq(Messages),
         Paired(sent'),
         ResultsKept(given', sent'), LeftAlone(given', sent')
  PROVE  HistoryInv'
<1>1. TypeOK'
  BY Zenon DEF TypeOK, Sound
<1>2. Orderly(history') /\ Numbered'
  BY Zenon DEF Sound, Numbered
<1> QED
  BY <1>1, <1>2, Zenon DEF HistoryInv

\* Every node keeps the invariant.
LEMMA InvStep ==
  ASSUME HistoryInv, [Next]_vars
  PROVE  HistoryInv'
<1>1. /\ Sound(history, used) /\ used \in Nat /\ 1 .. used \subseteq Calls
      /\ at # "idle" => history # <<>>
      /\ Len(history) \in Nat
  BY HistorySound, ListForm DEF HistoryInv, TypeOK
<1>2. /\ at \in {"idle", "agent", "routing", "tools", "gate"} /\ used \in 0 .. MaxCalls
      /\ nameless \subseteq 1 .. used /\ gated \subseteq (1 .. used) \ nameless
      /\ confirmed \in BOOLEAN
  BY DEF HistoryInv, TypeOK
\* A step after which no reply waits, that sends nothing and makes no call.
<1>3. ASSUME at' \in {"idle", "agent"}, Sound(history', used), history' # <<>>,
             confirmed' \in BOOLEAN,
             UNCHANGED <<used, nameless, gated, given, sent>>
      PROVE  HistoryInv'
  <2>1. ReplyIsLast'
    BY <1>3 DEF ReplyIsLast
  <2>2. /\ given' \in Seq(Messages) /\ sent' \in Seq(Messages) /\ Paired(sent')
        /\ ResultsKept(given', sent') /\ LeftAlone(given', sent')
    BY <1>3, SentStays
  <2>3. /\ used' \in 0 .. MaxCalls /\ Sound(history', used')
        /\ at' \in {"idle", "agent", "routing", "tools", "gate"}
        /\ nameless' \subseteq 1 .. used' /\ gated' \subseteq (1 .. used') \ nameless'
    BY <1>2, <1>3
  <2> QED BY <1>3, <2>1, <2>2, <2>3, InvAgain
\* The user's or the system's next text.
<1>4. ASSUME at' = "agent", history' = Append(history, Human),
             UNCHANGED <<used, nameless, gated, confirmed, given, sent>>
      PROVE  HistoryInv'
  <2>1. Sound(history', used) /\ history' # <<>>
    BY <1>1, <1>4, Texts, TextKeepsSound
  <2> QED BY <1>2, <1>3, <1>4, <2>1
<1>5. CASE NewTurn
  BY <1>4, <1>5 DEF NewTurn
<1>6. CASE AgentReplies
  <2>1. PICK n \in 0 .. MaxBatch :
          /\ used + n <= MaxCalls
          /\ used' = used + n
          /\ history' = Append(history, Reply(Fresh(n)))
          /\ \E bad \in SUBSET Fresh(n) : nameless' = nameless \cup bad
          /\ \E g \in SUBSET (Fresh(n) \ nameless') : gated' = gated \cup g
    BY <1>6 DEF AgentReplies
  <2>2. at = "agent" /\ at' = "routing" /\ Sends /\ UNCHANGED confirmed
    BY <1>6 DEF AgentReplies
  <2>3. n \in Nat /\ used' \in 0 .. MaxCalls /\ used' \in Nat
    BY <1>1, <2>1, CallBounds
  <2> DEFINE m == Reply(Fresh(n))
  <2>4. Fresh(n) \in SUBSET Calls /\ Fresh(n) \subseteq 1 .. used' /\ 1 .. used \subseteq 1 .. used'
    BY <1>1, <2>1, <2>3, CallBounds DEF Fresh, Calls
  <2>5. m \in Messages /\ ~ IsTool(m) /\ m.calls = Fresh(n)
    BY <2>4, Texts
  <2>6. (1 .. used) \cap Fresh(n) = {}
    BY <1>1, <2>3 DEF Fresh
  <2>7. /\ Sound(history, used') /\ history # <<>>
        /\ \A i \in 1 .. Len(history) : history[i].calls \subseteq 1 .. used
    BY <1>1, <2>2, <2>4 DEF Sound
  <2>8. \A i \in 1 .. Len(history) : history[i].calls \cap m.calls = {}
    BY <2>5, <2>6, <2>7
  <2> HIDE DEF m
  <2>9. /\ Sound(history', used') /\ history' # <<>>
        /\ Len(history') = Len(history) + 1 /\ history'[Len(history) + 1] = m
        /\ \A i \in 1 .. Len(history) : history'[i] = history[i]
    <3>1. m.calls \subseteq 1 .. used' /\ (history = <<>> => m.calls = {}) /\ history' = Append(history, m)
      BY <2>1, <2>4, <2>5, <2>7 DEF m
    <3> QED BY <2>3, <2>5, <2>7, <2>8, <3>1, TextKeepsSound
  <2>10. ReplyIsLast'
    <3>1. Len(history') = Len(history) + 1 /\ Len(history') - 1 = Len(history)
      BY <1>1, <2>9
    <3>2. ~ IsTool(history'[Len(history')]) /\ history'[Len(history')].calls = (used + 1) .. used'
      BY <2>1, <2>5, <2>9, <3>1 DEF Fresh
    <3>3. used \in 0 .. used'
      BY <1>1, <2>1, <2>3
    <3>4. \A i \in 1 .. (Len(history') - 1) : history'[i].calls \subseteq 1 .. used
      BY <2>7, <2>9, <3>1
    <3> QED BY <2>2, <3>2, <3>3, <3>4 DEF ReplyIsLast
  <2>11. /\ nameless' \subseteq 1 .. used'
         /\ gated' \subseteq (1 .. used') \ nameless'
    BY <1>2, <2>1, <2>4, <2>6
  <2>12. /\ given' \in Seq(Messages) /\ sent' \in Seq(Messages) /\ Paired(sent')
         /\ ResultsKept(given', sent') /\ LeftAlone(given', sent')
    BY <2>2, <2>7, SendsKeeps
  <2>13. confirmed' \in BOOLEAN
    BY <1>2, <2>2
  <2> QED BY <2>2, <2>3, <2>9, <2>10, <2>11, <2>12, <2>13, InvAgain
<1>7. CASE AgentFails
  <2>1. /\ at = "agent" /\ Sends /\ at' \in {"agent", "idle"}
        /\ UNCHANGED <<history, used, nameless, gated, confirmed>>
    BY <1>7 DEF AgentFails
  <2>2. /\ given' \in Seq(Messages) /\ sent' \in Seq(Messages) /\ Paired(sent')
        /\ ResultsKept(given', sent') /\ LeftAlone(given', sent')
    BY <1>1, <2>1, SendsKeeps
  <2>3. ReplyIsLast'
    BY <2>1 DEF ReplyIsLast
  <2>4. /\ used' \in 0 .. MaxCalls /\ Sound(history', used')
        /\ at' \in {"idle", "agent", "routing", "tools", "gate"} /\ history' # <<>>
        /\ nameless' \subseteq 1 .. used' /\ gated' \subseteq (1 .. used') \ nameless'
        /\ confirmed' \in BOOLEAN
    BY <1>1, <1>2, <2>1
  <2> QED BY <2>2, <2>3, <2>4, InvAgain
<1>8. CASE RouteToTools
  <2>1. /\ at = "routing" /\ UNCHANGED <<history, used, nameless, gated, confirmed, given, sent>>
        /\ at' \in {"idle", "tools", "gate"}
        /\ at' = "gate" => history[Len(history)].calls \cap gated # {}
    BY <1>8 DEF RouteToTools, Blocked, LastCalls, Last
  <2>2. ReplyIsLast'
    BY <2>1 DEF HistoryInv, ReplyIsLast
  <2>3. /\ given' \in Seq(Messages) /\ sent' \in Seq(Messages) /\ Paired(sent')
        /\ ResultsKept(given', sent') /\ LeftAlone(given', sent')
    BY <2>1, SentStays
  <2>4. /\ used' \in 0 .. MaxCalls /\ Sound(history', used')
        /\ at' \in {"idle", "agent", "routing", "tools", "gate"} /\ history' # <<>>
        /\ nameless' \subseteq 1 .. used' /\ gated' \subseteq (1 .. used') \ nameless'
        /\ confirmed' \in BOOLEAN
    BY <1>1, <1>2, <2>1
  <2> QED BY <2>2, <2>3, <2>4, InvAgain
<1>9. CASE RouteText
  <2>1. CASE at' = "idle" /\ UNCHANGED history
    <3>1. history' # <<>> /\ UNCHANGED <<used, nameless, gated, confirmed, given, sent>>
      BY <1>1, <1>9, <2>1 DEF RouteText
    <3> QED BY <1>1, <1>2, <1>3, <2>1, <3>1
  <2>2. CASE at' = "agent" /\ history' = Append(history, Human)
    BY <1>4, <1>9, <2>2 DEF RouteText
  <2> QED BY <1>9, <2>1, <2>2 DEF RouteText
<1>10. CASE ToolsAnswer
  <2> DEFINE calls == history[Len(history)].calls
  <2>1. /\ at = "tools" /\ at' \in {"agent", "idle"}
        /\ history' = history \o [i \in 1 .. Cardinality(calls) |->
                                    Answer(used - Cardinality(calls) + i)]
        /\ UNCHANGED <<used, nameless, gated, confirmed, given, sent>>
    BY <1>10 DEF ToolsAnswer, LastCalls, Last
  <2>2. PICK m \in 0 .. used : calls = (m + 1) .. used
    BY <2>1 DEF HistoryInv, ReplyIsLast
  <2> DEFINE k == used - m
             f == [i \in 1 .. k |-> m + i]
  <2>3. k \in Nat /\ Cardinality(calls) = k
    <3>1. m \in Nat /\ k \in Nat
      BY <1>1
    <3>2. Cardinality((m + 1) .. used) = k
      <4>1. m + 1 \in Int /\ used \in Int /\ m <= used
        BY <1>1, <3>1
      <4>2. Cardinality((m + 1) .. used) = IF m + 1 > used THEN 0 ELSE used - (m + 1) + 1
        BY <4>1, FS_Interval, Zenon
      <4> QED BY <1>1, <3>1, <4>1, <4>2
    <3> QED BY <2>2, <3>1, <3>2
  <2>4. f \in [1 .. k -> Calls]
    <3>1. \A i \in 1 .. k : m + i \in 1 .. used
      BY <1>1
    <3> QED BY <1>1, <3>1
  <2>5. \A i, j \in 1 .. k : i # j => f[i] # f[j]
    BY <1>1
  <2>6. \A i \in 1 .. k : f[i] \in calls
    BY <1>1, <2>2
  <2>7. \A i \in 1 .. k : used - k + i = f[i]
    BY <1>1
  <2>8. history' = history \o [i \in 1 .. k |-> Answer(f[i])]
    BY <2>1, <2>3, <2>7
  <2> HIDE DEF f, k
  <2>9. Sound(history', used) /\ history' # <<>>
    BY <2>1, <2>3, <2>4, <2>5, <2>6, <2>8, AnswersKeepSound
  <2> QED BY <1>2, <1>3, <2>1, <2>9
<1>11. CASE GateAnswers
  <2> DEFINE c == FirstBlocked
             h == history \o <<Answer(c)>>
  <2>1. /\ at = "gate" /\ at' = "agent" /\ confirmed' = TRUE
        /\ \E redirected \in BOOLEAN : history' = h \o IF redirected THEN <<Human>> ELSE <<>>
        /\ UNCHANGED <<used, nameless, gated, given, sent>>
    BY <1>11 DEF GateAnswers
  <2>2. c \in history[Len(history)].calls /\ c \in Calls
    <3>1. Blocked = history[Len(history)].calls \cap gated
      BY DEF Blocked, LastCalls, Last
    <3>2. Blocked # {} /\ Blocked \subseteq 1 .. used
      BY <1>2, <2>1, <3>1 DEF HistoryInv, ReplyIsLast
    <3>3. Blocked \subseteq Nat
      BY <1>1, <3>2
    <3>4. PICK d \in Blocked : \A e \in Blocked : <<e, d>> \notin OpToRel(<, Nat)
      BY <3>2, <3>3, NatLessThanWellFounded, WFMin, Zenon
    <3>5. \A e \in Blocked : d <= e
      <4> SUFFICES ASSUME NEW e \in Blocked PROVE d <= e
        OBVIOUS
      <4>1. d \in Nat /\ e \in Nat
        BY <3>3
      <4>2. ~ (e < d)
        BY <3>4, <4>1 DEF OpToRel
      <4> QED BY <4>1, <4>2
    <3>6. c \in Blocked
      BY <3>5, Zenon DEF FirstBlocked
    <3> HIDE DEF c
    <3> QED BY <1>1, <3>1, <3>2, <3>6
  <2> DEFINE f == [i \in 1 .. 1 |-> c]
  <2> HIDE DEF c
  <2>3. <<Answer(c)>> = [i \in 1 .. 1 |-> Answer(f[i])]
    <3>1. \A i \in 1 .. 1 : f[i] = c
      OBVIOUS
    <3> HIDE DEF f
    <3> QED BY <3>1
  <2>4. Sound(h, used) /\ h # <<>>
    <3>1. f \in [1 .. 1 -> Calls] /\ \A i \in 1 .. 1 : f[i] \in history[Len(history)].calls
      BY <2>2
    <3>2. \A i, j \in 1 .. 1 : i # j => f[i] # f[j]
      OBVIOUS
    <3> HIDE DEF f
    <3>3. LET r == history \o [i \in 1 .. 1 |-> Answer(f[i])] IN Sound(r, used) /\ r # <<>>
      <4>1. 1 \in Nat
        OBVIOUS
      <4> QED BY <2>1, <3>1, <3>2, <4>1, AnswersKeepSound
    <3> QED BY <2>3, <3>3
  <2> HIDE DEF h, f
  <2>5. Sound(history', used) /\ history' # <<>>
    <3>1. h \in Seq(Messages)
      BY <2>4 DEF Sound
    <3>2. CASE history' = h \o <<>>
      <4>1. history' = h
        BY <3>1, <3>2, ConcatEmptySeq
      <4> QED BY <2>4, <4>1
    <3>3. CASE history' = h \o <<Human>>
      <4>1. history' = Append(h, Human)
        BY <3>1, <3>3, Texts, AppendIsConcat
      <4> QED BY <1>1, <2>4, <4>1, Texts, TextKeepsSound
    <3> QED BY <2>1, <3>2, <3>3
  <2>6. confirmed' \in BOOLEAN
    BY <2>1
  <2> QED BY <1>3, <2>1, <2>5, <2>6
<1>12. CASE TurnGivenUp
  <2>1. history' # <<>> /\ at' = "idle" /\ UNCHANGED <<history, used, nameless, gated, confirmed, given, sent>>
    BY <1>1, <1>12 DEF TurnGivenUp
  <2> QED BY <1>1, <1>2, <1>3, <2>1
<1>13. CASE UNCHANGED vars
  BY <1>13 DEF vars, HistoryInv, TypeOK, Numbered, ReplyIsLast
<1> QED
  BY <1>5, <1>6, <1>7, <1>8, <1>9, <1>10, <1>11, <1>12, <1>13 DEF Next

\* The inductive invariant: the history is orderly at any time, so the repairs turn
\* whatever the model is handed into a list that keeps the APIs' rule.
THEOREM HistoryInvariant == Spec => []HistoryInv
<1>1. Init => HistoryInv
  BY InvStart
<1>2. HistoryInv /\ [Next]_vars => HistoryInv'
  BY InvStep
<1> QED
  BY <1>1, <1>2, PTL DEF Spec

\* Every variable of the loop keeps its type.
THEOREM TypeCorrect == Spec => []TypeOK
<1>1. HistoryInv => TypeOK
  BY DEF HistoryInv
<1> QED
  BY <1>1, HistoryInvariant, PTL

\* Whatever turns were given up and calls blocked, and wherever the history was cut,
\* the list the model is sent keeps the APIs' rule.
THEOREM PairsAreSent == Spec => []SentIsPaired
<1>1. HistoryInv => SentIsPaired
  BY DEF HistoryInv, SentIsPaired
<1> QED
  BY <1>1, HistoryInvariant, PTL

\* The repairs lose no result: an answer whose call was in the list is sent,
\* with its call.
THEOREM ResultsArrive == Spec => []ResultsAreSent
<1>1. HistoryInv => ResultsAreSent
  BY DEF HistoryInv, ResultsKept, ResultsAreSent
<1> QED
  BY <1>1, HistoryInvariant, PTL

\* A list that already keeps the rule is sent as it is.
THEOREM PairedIsSentAsIs == Spec => []PairedIsLeftAlone
<1>1. HistoryInv => PairedIsLeftAlone
  BY DEF HistoryInv, LeftAlone, PairedIsLeftAlone
<1> QED
  BY <1>1, HistoryInvariant, PTL
===============================================================================
