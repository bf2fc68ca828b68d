---------------------------- MODULE FileCacheProofs ----------------------------
(***************************************************************************)
(* Proofs about FileCache for every set of threads and files, every size   *)
(* of the cache, and every number of writes and ticks.                     *)
(***************************************************************************)
EXTENDS FileCache, FiniteSetTheorems, SequenceTheorems, TLAPS

(***************************************************************************)
(* What a step leaves in the cache.                                        *)
(***************************************************************************)

\* Eviction keeps a part of the entries.
LEMMA EvictedKeeps ==
  ASSUME NEW s \in Seq(Entries)
  PROVE  /\ Evicted(s) \in Seq(Entries)
         /\ \A i \in DOMAIN Evicted(s) : \E j \in DOMAIN s : Evicted(s)[i] = s[j]
<1>1. s \in Seq(Entries) /\ Len(s) \in Nat /\ DOMAIN s = 1 .. Len(s) /\ \A i \in 1 .. Len(s) : s[i] \in Entries
  BY LenProperties, ElementOfSeq
<1>2. MaxSize \div 4 \in Nat
  BY SizeAssumption
<1> DEFINE q == MaxSize \div 4
           t == SubSeq(s, q + 1, Len(s))
<1>3. q \in Nat
  BY <1>2
<1> HIDE DEF q
<1>4. /\ t \in Seq(Entries)
      /\ Len(t) = IF q + 1 <= Len(s) THEN Len(s) - (q + 1) + 1 ELSE 0
      /\ \A i \in 1 .. (Len(s) - (q + 1) + 1) : t[i] = s[(q + 1) + i - 1]
  <2>1. q + 1 \in Int /\ Len(s) \in Int /\ \A i \in (q + 1) .. Len(s) : s[i] \in Entries
    BY <1>1, <1>3
  <2> QED BY <2>1, SubSeqProperties
<1>5. Evicted(s) = IF Len(s) >= MaxSize THEN t ELSE s
  BY DEF Evicted, q
<1> HIDE DEF t
<1>6. \A i \in DOMAIN t : \E j \in DOMAIN s : t[i] = s[j]
  <2> SUFFICES ASSUME NEW i \in DOMAIN t PROVE \E j \in DOMAIN s : t[i] = s[j]
    OBVIOUS
  <2>1. DOMAIN t = 1 .. Len(t)
    BY <1>4, LenProperties
  <2>2. i \in 1 .. (Len(s) - q)
    <3>1. CASE q + 1 <= Len(s)
      <4>1. Len(t) = Len(s) - q
        BY <1>1, <1>3, <1>4, <3>1
      <4> QED BY <2>1, <4>1
    <3>2. CASE ~ (q + 1 <= Len(s))
      <4>1. Len(t) = 0
        BY <1>4, <3>2
      <4> QED BY <2>1, <4>1
    <3> QED BY <3>1, <3>2
  <2>3. q + i \in 1 .. Len(s) /\ (q + 1) + i - 1 = q + i /\ Len(s) - (q + 1) + 1 = Len(s) - q
    BY <1>1, <1>3, <2>2
  <2>4. t[i] = s[(q + 1) + i - 1]
    BY <1>4, <2>2, <2>3
  <2> QED BY <1>1, <2>3, <2>4
<1> QED
  BY <1>1, <1>4, <1>5, <1>6

\* put adds its entry to a part of those that were there.
LEMMA AfterPut ==
  ASSUME TypeOK, NEW w \in Workers, kind[w] # "write", target[w] \in Files, PutResult(w)
  PROVE  /\ cache' \in Seq(Entries)
         /\ \A i \in DOMAIN cache' : \/ cache'[i] = [key |-> Key(w), value |-> result[w]]
                                     \/ \E j \in DOMAIN cache : cache'[i] = cache[j]
<1> DEFINE s == Evicted(cache)
           e == [key |-> Key(w), value |-> result[w]]
           at == {i \in DOMAIN s : s[i].key = e.key}
<1>1. /\ s \in Seq(Entries)
      /\ \A i \in DOMAIN s : \E j \in DOMAIN cache : s[i] = cache[j]
  BY EvictedKeeps DEF TypeOK
<1>2. e \in Entries
  <2>1. Key(w) \in Keys
    BY DEF TypeOK, Keys, Key
  <2> QED BY <2>1 DEF TypeOK, Entries
<1>3. cache' = IF at = {} THEN Append(s, e) ELSE [i \in DOMAIN s |-> IF i \in at THEN e ELSE s[i]]
  BY DEF PutResult, Put
<1> HIDE DEF s, e, at
<1>4. Len(s) \in Nat /\ DOMAIN s = 1 .. Len(s) /\ \A i \in 1 .. Len(s) : s[i] \in Entries
  BY <1>1, LenProperties, ElementOfSeq
<1>5. CASE at = {}
  <2>1. /\ Append(s, e) \in Seq(Entries) /\ Len(Append(s, e)) = Len(s) + 1
        /\ \A i \in 1 .. Len(s) : Append(s, e)[i] = s[i]
        /\ Append(s, e)[Len(s) + 1] = e
    BY <1>1, <1>2, AppendProperties
  <2>2. DOMAIN Append(s, e) = 1 .. (Len(s) + 1)
    BY <2>1, LenProperties
  <2>3. cache' = Append(s, e)
    BY <1>3, <1>5
  <2> QED BY <1>1, <1>4, <2>1, <2>2, <2>3 DEF e
<1>6. CASE at # {}
  <2>1. cache' = [i \in 1 .. Len(s) |-> IF i \in at THEN e ELSE s[i]]
    BY <1>3, <1>4, <1>6
  <2>2. cache' \in [1 .. Len(s) -> Entries]
    BY <1>2, <1>4, <2>1
  <2>3. cache' \in Seq(Entries)
    BY <1>4, <2>2, SeqDef
  <2> QED BY <1>1, <1>4, <2>1, <2>3 DEF e
<1> QED
  BY <1>5, <1>6

\* A write leaves no entry of its file.
LEMMA AfterDrop ==
  ASSUME TypeOK, NEW w \in Workers, Drop(w)
  PROVE  /\ cache' \in Seq(Entries)
         /\ \A i \in DOMAIN cache' : \E j \in DOMAIN cache :
              cache'[i] = cache[j] /\ cache[j].key.file # target[w]
<1> DEFINE K == Stays(target[w])
<1>1. /\ cache \in Seq(Entries) /\ Len(cache) \in Nat /\ DOMAIN cache = 1 .. Len(cache)
      /\ \A i \in DOMAIN cache : cache[i] \in Entries
  <2>1. cache \in Seq(Entries)
    BY DEF TypeOK
  <2> QED BY <2>1, LenProperties, ElementOfSeq
<1>2. K \in SUBSET DOMAIN cache /\ \A i \in K : cache[i].key.file # target[w]
  BY DEF Stays
<1>3. Cardinality(K) \in Nat
  <2>1. IsFiniteSet(1 .. Len(cache))
    BY <1>1, FS_Interval
  <2>2. IsFiniteSet(K)
    BY <1>1, <1>2, <2>1, FS_Subset
  <2> QED BY <2>2, FS_CardinalityType
<1>4. PICK p \in [1 .. Cardinality(K) -> K] : cache' = [i \in DOMAIN p |-> cache[p[i]]]
  BY DEF Drop, InOrder
<1> HIDE DEF K
<1>5. cache' \in [1 .. Cardinality(K) -> Entries]
  BY <1>1, <1>2, <1>4
<1>6. cache' \in Seq(Entries)
  BY <1>3, <1>5, SeqDef
<1> QED
  BY <1>2, <1>4, <1>6

(***************************************************************************)
(* Types, and the steps of a tool.                                         *)
(***************************************************************************)

Writing == {"open", "fill", "drop"}

\* A worker that does nothing holds nothing; one that does works on a file, whose
\* content is in its window, and only a write is at a write's steps.
Steps ==
  \A w \in Workers :
    /\ pc[w] = "idle" => target[w] = NoFile
    /\ pc[w] # "idle" => target[w] \in Files /\ disk[target[w]].content \in window[w]
    /\ kind[w] = "write" <=> pc[w] \in Writing
    /\ pc[w] = "stat" => kind[w] = "read"
    /\ kind[w] = "search" => stamp[w] = 0
    /\ pc[w] \in {"idle", "stat"} \cup Writing => stamp[w] = 0

Typed == TypeOK /\ Steps

\* What a file changes to comes into the windows of all who work on it.
LEMMA Changed ==
  ASSUME Typed, NEW f \in Files, NEW content \in Contents, Change(f, content, clock),
         UNCHANGED <<kind, target, stamp, clock>>
  PROVE  /\ disk' \in [Files -> [content : Contents, mtime : 0 .. MaxClock]]
         /\ disk'[f].content = content /\ disk'[f].mtime = clock
         /\ \A g \in Files \ {f} : disk'[g] = disk[g]
         /\ window' \in [Workers -> SUBSET Contents]
         /\ \A w \in Workers : window'[w] = IF target[w] = f THEN window[w] \cup {content}
                                                             ELSE window[w]
         /\ \A w \in Workers : pc[w] # "idle" => disk'[target[w]].content \in window'[w]
BY DEF Typed, TypeOK, Steps, Change

\* Every step keeps the types and the tools' steps.
LEMMA TypedKept ==
  ASSUME Typed, [Next]_vars
  PROVE  Typed'
<1> USE DEF Typed
<1>1. CASE UNCHANGED vars
  BY <1>1 DEF vars, TypeOK, Steps
<1>2. ASSUME NEW w \in Workers, Query(w) PROVE Typed'
  <2>1. PICK k \in {"read", "search"}, f \in Files :
          /\ kind' = [kind EXCEPT ![w] = k] /\ target' = [target EXCEPT ![w] = f]
          /\ window' = [window EXCEPT ![w] = Current(f)]
    BY <1>2 DEF Query
  <2>2. Current(f) \in SUBSET Contents /\ disk[f].content \in Current(f)
    BY DEF Current, TypeOK
  <2>3. pc' = [pc EXCEPT ![w] = IF k = "read" THEN "stat" ELSE "get"]
        /\ UNCHANGED <<stamp, result, disk, cache, writes, clock, blurred>> /\ pc[w] = "idle"
    BY <1>2, <2>1 DEF Query, Becomes, TypeOK
  <2>4. TypeOK'
    BY <2>1, <2>2, <2>3 DEF TypeOK
  <2>5. Steps'
    BY <2>1, <2>2, <2>3 DEF TypeOK, Steps, Writing
  <2> QED BY <2>4, <2>5
<1>3. ASSUME NEW w \in Workers, Stat(w) PROVE Typed'
  <2>1. target[w] \in Files /\ 0 \in 0 .. MaxClock /\ kind[w] = "read"
    BY <1>3, FileBounds DEF Stat, Steps, TypeOK, Writing
  <2>2. TypeOK'
    <3>1. stamp' \in [Workers -> 0 .. MaxClock]
      BY <1>3, <2>1 DEF Stat, TypeOK
    <3> QED BY <1>3, <3>1 DEF Stat, Becomes, TypeOK
  <2>3. Steps'
    BY <1>3, <2>1 DEF Stat, Becomes, TypeOK, Steps, Writing
  <2> QED BY <2>2, <2>3
<1>4. ASSUME NEW w \in Workers, Hit(w) PROVE Typed'
  <2>1. Get(Key(w)) \in Contents
    <3>1. PICK i \in DOMAIN cache : cache[i].key = Key(w)
      BY <1>4 DEF Hit, Has
    <3>2. Get(Key(w)) = cache[CHOOSE j \in DOMAIN cache : cache[j].key = Key(w)].value
      BY DEF Get
    <3>3. \A j \in DOMAIN cache : cache[j].value \in Contents
      <4>1. cache \in Seq(Entries)
        BY DEF TypeOK
      <4>2. \A j \in DOMAIN cache : cache[j] \in Entries
        BY <4>1, LenProperties, ElementOfSeq
      <4> QED BY <4>2 DEF Entries
    <3> QED BY <3>1, <3>2, <3>3
  <2>2. TypeOK'
    BY <1>4, <2>1 DEF Hit, Becomes, TypeOK
  <2>3. Steps'
    BY <1>4 DEF Hit, Becomes, TypeOK, Steps, Writing
  <2> QED BY <2>2, <2>3
<1>5. ASSUME NEW w \in Workers, Miss(w) PROVE Typed'
  <2>1. TypeOK'
    BY <1>5 DEF Miss, Becomes, TypeOK
  <2>2. Steps'
    BY <1>5 DEF Miss, Becomes, TypeOK, Steps, Writing
  <2> QED BY <2>1, <2>2
<1>6. ASSUME NEW w \in Workers, Scan(w) PROVE Typed'
  <2>1. target[w] \in Files
    BY <1>6 DEF Scan, Steps
  <2>2. TypeOK'
    BY <1>6, <2>1 DEF Scan, Becomes, TypeOK
  <2>3. Steps'
    BY <1>6 DEF Scan, Becomes, TypeOK, Steps, Writing
  <2> QED BY <2>2, <2>3
<1>7. ASSUME NEW w \in Workers, PutResult(w) PROVE Typed'
  <2>1. cache' \in Seq(Entries)
    BY <1>7, AfterPut DEF PutResult, Steps, Writing
  <2>2. TypeOK'
    BY <1>7, <2>1 DEF PutResult, Becomes, TypeOK
  <2>3. Steps'
    BY <1>7 DEF PutResult, Becomes, TypeOK, Steps, Writing
  <2> QED BY <2>2, <2>3
<1>8. ASSUME NEW w \in Workers, Release(w), UNCHANGED <<disk, writes, clock>>,
             cache' \in Seq(Entries), blurred' \in BOOLEAN
      PROVE  Typed'
  <2>1. TypeOK'
    <3>1. 0 \in 0 .. MaxClock /\ Absent \in Contents
      BY FileBounds DEF Contents, Absent
    <3>2. /\ pc' \in [Workers -> {"idle", "stat", "get", "scan", "put", "done", "open", "fill", "drop"}]
          /\ kind' \in [Workers -> {"read", "search", "write"}]
          /\ target' \in [Workers -> Files \cup {NoFile}] /\ stamp' \in [Workers -> 0 .. MaxClock]
      BY <1>8, <3>1 DEF Release, Becomes, TypeOK
    <3>3. result' \in [Workers -> Contents] /\ window' \in [Workers -> SUBSET Contents]
      BY <1>8, <3>1 DEF Release, TypeOK
    <3> QED BY <1>8, <3>2, <3>3 DEF TypeOK
  <2>2. Steps'
    BY <1>8 DEF Release, Becomes, TypeOK, Steps, Writing
  <2> QED BY <2>1, <2>2
<1>9. ASSUME NEW w \in Workers, Return(w) PROVE Typed'
  BY <1>8, <1>9 DEF Return, TypeOK
<1>10. ASSUME NEW w \in Workers, WriteFile(w) \/ EditFile(w) PROVE Typed'
  <2>1. PICK f \in Files :
          /\ target' = [target EXCEPT ![w] = f] /\ kind' = [kind EXCEPT ![w] = "write"]
          /\ window' = [window EXCEPT ![w] = {disk[f].content}]
          /\ pc' = [pc EXCEPT ![w] = "open"] /\ pc[w] = "idle"
          /\ UNCHANGED <<stamp, result, disk, cache, writes, clock, blurred>>
    BY <1>10 DEF WriteFile, EditFile, Becomes
  <2>2. TypeOK'
    BY <2>1 DEF TypeOK
  <2>3. Steps'
    BY <2>1 DEF TypeOK, Steps, Writing
  <2> QED BY <2>2, <2>3
<1>11. ASSUME NEW w \in Workers, Truncate(w) \/ Fill(w) PROVE Typed'
  <2>1. target[w] \in Files /\ kind[w] = "write" /\ stamp[w] = 0 /\ writes' \in 0 .. MaxWrites
        /\ Torn \in Contents /\ writes + 1 \in Contents /\ blurred' \in BOOLEAN
    <3>1. target[w] \in Files /\ kind[w] = "write" /\ stamp[w] = 0
      BY <1>11 DEF Truncate, Fill, Steps, Writing
    <3>2. writes' \in 0 .. MaxWrites /\ Torn \in Contents /\ writes + 1 \in Contents
      BY <1>11, FileBounds DEF Truncate, Fill, TypeOK, Torn, Contents
    <3>3. blurred' \in BOOLEAN
      BY <1>11, Zenon DEF Truncate, Fill
    <3> QED BY <3>1, <3>2, <3>3
  <2>2. /\ \E content \in Contents : Change(target[w], content, clock)
        /\ UNCHANGED <<kind, target, stamp, clock>>
    BY <1>11, <2>1 DEF Truncate, Fill
  <2>3. /\ disk' \in [Files -> [content : Contents, mtime : 0 .. MaxClock]]
        /\ window' \in [Workers -> SUBSET Contents]
        /\ \A v \in Workers : pc[v] # "idle" => disk'[target[v]].content \in window'[v]
    BY <2>1, <2>2, Changed
  <2>4. /\ pc' \in [Workers -> {"idle", "stat", "get", "scan", "put", "done", "open", "fill", "drop"}]
        /\ pc'[w] \in {"fill", "drop"} /\ pc[w] \in {"open", "fill"}
        /\ \A v \in Workers \ {w} : pc'[v] = pc[v]
    BY <1>11 DEF Truncate, Fill, Becomes, TypeOK
  <2>5. TypeOK'
    BY <1>11, <2>1, <2>2, <2>3, <2>4 DEF Truncate, Fill, TypeOK
  <2>6. Steps'
    BY <2>1, <2>2, <2>3, <2>4 DEF Steps, Writing
  <2> QED BY <2>5, <2>6
<1>12. ASSUME NEW w \in Workers, WriteFails(w) PROVE Typed'
  <2>1. blurred' \in BOOLEAN
    BY <1>12 DEF WriteFails
  <2> QED BY <1>8, <1>12, <2>1 DEF WriteFails, TypeOK
<1>13. ASSUME NEW w \in Workers, Drop(w) PROVE Typed'
  BY <1>8, <1>13, AfterDrop DEF Drop, TypeOK
<1>14. ASSUME NEW f \in Files, CommandChanges(f) PROVE Typed'
  <2>1. /\ writes' \in 0 .. MaxWrites /\ writes + 1 \in Contents /\ Absent \in Contents
        /\ blurred' \in BOOLEAN
    BY <1>14, FileBounds DEF CommandChanges, TypeOK, Contents, Absent
  <2>2. /\ \E content \in Contents : Change(f, content, clock)
        /\ UNCHANGED <<pc, kind, target, stamp, result, cache, clock>>
    BY <1>14, <2>1 DEF CommandChanges
  <2>3. /\ disk' \in [Files -> [content : Contents, mtime : 0 .. MaxClock]]
        /\ window' \in [Workers -> SUBSET Contents]
        /\ \A v \in Workers : pc[v] # "idle" => disk'[target[v]].content \in window'[v]
    BY <2>2, Changed
  <2>4. TypeOK'
    BY <2>1, <2>2, <2>3 DEF TypeOK
  <2>5. Steps'
    BY <2>2, <2>3 DEF Steps
  <2> QED BY <2>4, <2>5
<1>15. CASE Tick
  <2>1. clock' \in 0 .. MaxClock
    BY <1>15, FileBounds DEF Tick, TypeOK
  <2>2. TypeOK'
    BY <1>15, <2>1 DEF Tick, tool, TypeOK
  <2>3. Steps'
    BY <1>15 DEF Tick, tool, Steps
  <2> QED BY <2>2, <2>3
<1> QED
  BY <1>1, <1>2, <1>3, <1>4, <1>5, <1>6, <1>7, <1>9, <1>10, <1>11, <1>12, <1>13, <1>14, <1>15 DEF Next

(***************************************************************************)
(* Times and windows.                                                      *)
(***************************************************************************)

\* No mtime is of the future, and no stamp newer than the file.
Times ==
  /\ \A f \in Files : disk[f].mtime <= clock
  /\ \A w \in Workers : pc[w] # "idle" => stamp[w] <= disk[target[w]].mtime
  /\ \A i \in DOMAIN cache : cache[i].key.stamp <= disk[cache[i].key.file].mtime

\* A query's window holds all that a write under way on its file has replaced.
Windows ==
  \A w, u \in Workers :
    /\ pc[w] # "idle" /\ kind[w] # "write" /\ kind[u] = "write" /\ target[u] = target[w]
    => window[u] \subseteq window[w]

\* An entry was there before, or a query has just put it.
LEMMA EntriesFrom ==
  ASSUME Typed, [Next]_vars, NEW i \in DOMAIN cache'
  PROVE  \/ \E j \in DOMAIN cache : cache'[i] = cache[j]
         \/ \E w \in Workers : PutResult(w) /\ cache'[i] = [key |-> Key(w), value |-> result[w]]
<1>1. CASE cache' = cache
  BY <1>1
<1>2. ASSUME NEW w \in Workers, PutResult(w)
      PROVE  \/ \E j \in DOMAIN cache : cache'[i] = cache[j]
             \/ cache'[i] = [key |-> Key(w), value |-> result[w]]
  BY <1>2, AfterPut DEF PutResult, Typed, Steps, Writing
<1>3. ASSUME NEW w \in Workers, Drop(w)
      PROVE  \E j \in DOMAIN cache : cache'[i] = cache[j]
  BY <1>3, AfterDrop DEF Typed
<1>4. \/ cache' = cache \/ \E w \in Workers : PutResult(w) \/ Drop(w)
  BY DEF Next, vars, Query, Stat, Hit, Miss, Scan, Return, WriteFile, EditFile, Truncate, Fill,
         WriteFails, CommandChanges, Tick
<1> QED
  BY <1>1, <1>2, <1>3, <1>4

\* Files only change by Change, at the clock's time.
LEMMA FilesFrom ==
  ASSUME Typed, [Next]_vars, NEW f \in Files
  PROVE  \/ disk'[f] = disk[f]
         \/ disk'[f].mtime = clock /\ clock' = clock
<1>1. CASE disk' = disk
  BY <1>1
<1>2. ASSUME NEW g \in Files, NEW content, Change(g, content, clock), clock' = clock
      PROVE  disk'[f] = disk[f] \/ (disk'[f].mtime = clock /\ clock' = clock)
  BY <1>2 DEF Change, Typed, TypeOK
<1>3. ASSUME NEW w \in Workers, Truncate(w) \/ Fill(w)
      PROVE  disk'[f] = disk[f] \/ (disk'[f].mtime = clock /\ clock' = clock)
  <2>1. target[w] \in Files
    BY <1>3 DEF Truncate, Fill, Typed, Steps
  <2> QED BY <1>2, <1>3, <2>1 DEF Truncate, Fill
<1>4. ASSUME NEW g \in Files, CommandChanges(g)
      PROVE  disk'[f] = disk[f] \/ (disk'[f].mtime = clock /\ clock' = clock)
  BY <1>2, <1>4 DEF CommandChanges
<1>5. \/ disk' = disk \/ \E w \in Workers : Truncate(w) \/ Fill(w)
      \/ \E g \in Files : CommandChanges(g)
  BY DEF Next, vars, Query, Stat, Hit, Miss, Scan, PutResult, Return, WriteFile, EditFile,
         WriteFails, Drop, Tick
<1> QED
  BY <1>1, <1>3, <1>4, <1>5

\* A stamp is taken from the file, or the worker had it before and goes on.
LEMMA StampsFrom ==
  ASSUME Typed, [Next]_vars, NEW w \in Workers, pc'[w] # "idle"
  PROVE  \/ stamp'[w] = 0
         \/ target'[w] = target[w] /\ stamp'[w] = disk[target[w]].mtime /\ disk' = disk
         \/ target'[w] = target[w] /\ stamp'[w] = stamp[w] /\ pc[w] # "idle"
<1> USE DEF Typed
<1>1. CASE UNCHANGED vars
  BY <1>1 DEF vars
<1>2. ASSUME NEW v \in Workers, Query(v) \/ WriteFile(v) \/ EditFile(v)
      PROVE  \/ stamp'[w] = 0
             \/ target'[w] = target[w] /\ stamp'[w] = stamp[w] /\ pc[w] # "idle"
  <2>1. CASE v = w
    BY <1>2, <2>1 DEF Query, WriteFile, EditFile, Steps
  <2>2. CASE v # w
    BY <1>2, <2>2 DEF Query, WriteFile, EditFile, Becomes, TypeOK
  <2> QED BY <2>1, <2>2
<1>3. ASSUME NEW v \in Workers, Stat(v)
      PROVE  \/ stamp'[w] = 0
             \/ target'[w] = target[w] /\ stamp'[w] = disk[target[w]].mtime /\ disk' = disk
             \/ target'[w] = target[w] /\ stamp'[w] = stamp[w] /\ pc[w] # "idle"
  BY <1>3 DEF Stat, Becomes, TypeOK
<1>4. ASSUME NEW v \in Workers, Return(v) \/ WriteFails(v) \/ Drop(v)
      PROVE  target'[w] = target[w] /\ stamp'[w] = stamp[w] /\ pc[w] # "idle"
  BY <1>4 DEF Return, WriteFails, Drop, Release, Becomes, TypeOK
<1>5. ASSUME NEW v \in Workers,
             \/ Hit(v) \/ Miss(v) \/ Scan(v) \/ PutResult(v) \/ Truncate(v) \/ Fill(v)
      PROVE  target'[w] = target[w] /\ stamp'[w] = stamp[w] /\ pc[w] # "idle"
  BY <1>5 DEF Hit, Miss, Scan, PutResult, Truncate, Fill, Becomes, TypeOK
<1>6. ASSUME NEW f \in Files, CommandChanges(f)
      PROVE  target'[w] = target[w] /\ stamp'[w] = stamp[w] /\ pc[w] # "idle"
  BY <1>6 DEF CommandChanges
<1>7. CASE Tick
  BY <1>7 DEF Tick, tool
<1> QED
  BY <1>1, <1>2, <1>3, <1>4, <1>5, <1>6, <1>7 DEF Next

\* Times stay in order: files only get newer.
LEMMA TimesKept ==
  ASSUME Typed, Times, Typed', [Next]_vars
  PROVE  Times'
<1>0. /\ \A f \in Files : disk[f].mtime \in Nat /\ disk'[f].mtime \in Nat
      /\ clock \in Nat /\ clock' \in Nat
      /\ \A w \in Workers : stamp[w] \in Nat /\ stamp'[w] \in Nat
                         /\ (pc[w] # "idle" => target[w] \in Files)
                         /\ (pc'[w] # "idle" => target'[w] \in Files)
      /\ cache \in Seq(Entries) /\ cache' \in Seq(Entries)
  BY DEF Typed, TypeOK, Steps
<1>1. \A f \in Files : disk'[f].mtime <= clock'
  <2>0. clock' = clock \/ clock' = clock + 1
    BY DEF Next, vars, Query, Stat, Hit, Miss, Scan, PutResult, Return, WriteFile, EditFile,
                Truncate, Fill, WriteFails, Drop, CommandChanges, Tick
  <2>1. clock' >= clock
    BY <1>0, <2>0
  <2> QED BY <1>0, <2>1, FilesFrom DEF Times
<1>2. \A f \in Files : disk'[f].mtime >= disk[f].mtime
  BY <1>0, FilesFrom DEF Times
<1>3. ASSUME NEW w \in Workers, pc'[w] # "idle"
      PROVE  stamp'[w] <= disk'[target'[w]].mtime
  <2>1. target'[w] \in Files
    BY <1>0, <1>3
  <2>2. \/ stamp'[w] = 0
        \/ target'[w] = target[w] /\ stamp'[w] = disk[target[w]].mtime /\ disk' = disk
        \/ target'[w] = target[w] /\ stamp'[w] = stamp[w] /\ pc[w] # "idle"
    BY <1>3, StampsFrom
  <2>3. CASE stamp'[w] = 0
    BY <1>0, <2>1, <2>3
  <2>4. CASE target'[w] = target[w] /\ stamp'[w] = disk[target[w]].mtime /\ disk' = disk
    BY <1>0, <2>1, <2>4
  <2>5. CASE target'[w] = target[w] /\ stamp'[w] = stamp[w] /\ pc[w] # "idle"
    <3>1. /\ target[w] \in Files /\ stamp[w] <= disk[target[w]].mtime
          /\ disk[target[w]].mtime <= disk'[target[w]].mtime
      BY <1>0, <1>2, <2>5 DEF Times
    <3> QED BY <1>0, <2>5, <3>1
  <2> QED BY <2>2, <2>3, <2>4, <2>5
<1>4. ASSUME NEW i \in DOMAIN cache'
      PROVE  cache'[i].key.stamp <= disk'[cache'[i].key.file].mtime
  <2>1. CASE \E j \in DOMAIN cache : cache'[i] = cache[j]
    <3>1. PICK j \in DOMAIN cache : cache'[i] = cache[j]
      BY <2>1
    <3>2. cache[j] \in Entries
      BY <1>0, LenProperties, ElementOfSeq
    <3>3. cache[j].key.file \in Files /\ cache[j].key.stamp \in Nat
      BY <3>2 DEF Entries, Keys
    <3>4. cache[j].key.stamp <= disk[cache[j].key.file].mtime
      BY DEF Times
    <3> QED BY <1>0, <1>2, <3>1, <3>3, <3>4
  <2>2. ASSUME NEW w \in Workers, PutResult(w), cache'[i] = [key |-> Key(w), value |-> result[w]]
        PROVE  cache'[i].key.stamp <= disk'[cache'[i].key.file].mtime
    <3>1. cache'[i].key.stamp = stamp[w] /\ cache'[i].key.file = target[w]
          /\ disk' = disk /\ pc[w] # "idle"
      BY <2>2 DEF Key, PutResult
    <3> QED BY <3>1 DEF Times
  <2> QED BY <2>1, <2>2, EntriesFrom
<1> QED
  BY <1>1, <1>3, <1>4 DEF Times

\* v's tool begins.
Begins(v) == Query(v) \/ WriteFile(v) \/ EditFile(v)

\* A step that changes a file.
Changes(f) ==
  /\ \/ \E w \in Workers : target[w] = f /\ (Truncate(w) \/ Fill(w))
     \/ CommandChanges(f)
  /\ \E content \in Contents : Change(f, content, clock)
  /\ UNCHANGED <<kind, target, stamp, result, cache, clock>>
  /\ \A w \in Workers : pc'[w] # pc[w] => pc[w] \in {"open", "fill"} /\ pc'[w] \in {"fill", "drop"}

\* A step that neither begins a tool nor changes a file leaves those who work on what
\* they work at.
Carries ==
  /\ UNCHANGED disk
  /\ \A w \in Workers : pc'[w] # "idle" =>
       pc[w] # "idle" /\ kind'[w] = kind[w] /\ target'[w] = target[w] /\ window'[w] = window[w]

\* There are no other steps.
LEMMA StepsSplit ==
  ASSUME Typed, [Next]_vars
  PROVE  (\E v \in Workers : Begins(v)) \/ (\E f \in Files : Changes(f)) \/ Carries
<1> USE DEF Typed
<1>1. CASE UNCHANGED vars \/ Tick
  <2>1. UNCHANGED <<pc, kind, target, window, disk>>
    BY <1>1 DEF vars, Tick, tool
  <2> QED BY <2>1 DEF Carries, TypeOK, Steps
<1>2. ASSUME NEW v \in Workers,
             Stat(v) \/ Hit(v) \/ Miss(v) \/ Scan(v) \/ PutResult(v)
      PROVE  Carries
  BY <1>2 DEF Stat, Hit, Miss, Scan, PutResult, Becomes, TypeOK, Carries
<1>3. ASSUME NEW v \in Workers, Return(v) \/ WriteFails(v) \/ Drop(v)
      PROVE  Carries
  BY <1>3 DEF Return, WriteFails, Drop, Release, Becomes, TypeOK, Carries
<1>4. ASSUME NEW v \in Workers, Truncate(v) \/ Fill(v)
      PROVE  Changes(target[v]) /\ target[v] \in Files
  <2>1. target[v] \in Files
    BY <1>4 DEF Truncate, Fill, Steps
  <2>2. Torn \in Contents /\ (writes < MaxWrites => writes + 1 \in Contents)
    BY FileBounds DEF TypeOK, Torn, Contents
  <2>3. \E content \in Contents : Change(target[v], content, clock)
    BY <1>4, <2>2 DEF Truncate, Fill
  <2>4. /\ UNCHANGED <<kind, target, stamp, result, cache, clock>>
        /\ \A w \in Workers : pc'[w] # pc[w] => pc[w] \in {"open", "fill"} /\ pc'[w] \in {"fill", "drop"}
    BY <1>4 DEF Truncate, Fill, Becomes, TypeOK, Writing
  <2> QED BY <1>4, <2>1, <2>3, <2>4 DEF Changes
<1>5. ASSUME NEW f \in Files, CommandChanges(f)
      PROVE  Changes(f)
  <2>1. Absent \in Contents /\ (writes < MaxWrites => writes + 1 \in Contents)
    BY FileBounds DEF TypeOK, Absent, Contents
  <2>2. \E content \in Contents : Change(f, content, clock)
    BY <1>5, <2>1 DEF CommandChanges
  <2> QED BY <1>5, <2>2 DEF CommandChanges, Changes
<1> QED
  BY <1>1, <1>2, <1>3, <1>4, <1>5 DEF Next, Begins

\* Who goes on working goes on working at the same, and its window only grows.
LEMMA WindowsGrow ==
  ASSUME Typed, [Next]_vars, NEW w \in Workers, pc[w] # "idle", pc'[w] # "idle"
  PROVE  kind'[w] = kind[w] /\ target'[w] = target[w] /\ window[w] \subseteq window'[w]
<1>1. ASSUME NEW v \in Workers, Begins(v)
      PROVE  kind'[w] = kind[w] /\ target'[w] = target[w] /\ window[w] \subseteq window'[w]
  <2>1. v # w
    BY <1>1 DEF Begins, Query, WriteFile, EditFile
  <2> QED BY <1>1, <2>1 DEF Begins, Query, WriteFile, EditFile, Typed, TypeOK
<1>2. ASSUME NEW f \in Files, Changes(f)
      PROVE  kind'[w] = kind[w] /\ target'[w] = target[w] /\ window[w] \subseteq window'[w]
  BY <1>2 DEF Changes, Change
<1>3. CASE Carries
  BY <1>3 DEF Carries
<1> QED
  BY <1>1, <1>2, <1>3, StepsSplit

\* A query's window goes on holding what the writes under way have replaced.
LEMMA WindowsKept ==
  ASSUME Typed, Windows, Typed', [Next]_vars
  PROVE  Windows'
<1> SUFFICES ASSUME NEW w \in Workers, NEW u \in Workers, pc'[w] # "idle", kind'[w] # "write",
                    kind'[u] = "write", target'[u] = target'[w]
             PROVE  window'[u] \subseteq window'[w]
  BY DEF Windows
<1>0. pc'[u] # "idle" /\ u # w
  BY DEF Typed, Steps, Writing
<1>1. ASSUME NEW v \in Workers, Begins(v)
      PROVE  window'[u] \subseteq window'[w]
  <2>1. pc[v] = "idle" /\ \A x \in Workers \ {v} :
          pc'[x] = pc[x] /\ kind'[x] = kind[x] /\ target'[x] = target[x] /\ window'[x] = window[x]
    BY <1>1 DEF Begins, Query, WriteFile, EditFile, Becomes, Typed, TypeOK
  <2>2. CASE v = w
    <3>1. Query(w)
      BY <1>1, <2>2 DEF Begins, WriteFile, EditFile, Typed, TypeOK
    <3>2. PICK f \in Files : target' = [target EXCEPT ![w] = f] /\ window' = [window EXCEPT ![w] = Current(f)]
      BY <3>1 DEF Query
    <3>3. window'[w] = Current(f) /\ kind[u] = "write" /\ target[u] = f /\ window'[u] = window[u]
      BY <1>0, <2>1, <2>2, <3>2 DEF Typed, TypeOK
    <3> QED BY <3>3 DEF Current
  <2>3. CASE v = u
    <3>1. WriteFile(u) \/ EditFile(u)
      BY <1>1, <2>3 DEF Begins, Query, Typed, TypeOK
    <3>2. PICK f \in Files : /\ target' = [target EXCEPT ![u] = f]
                             /\ window' = [window EXCEPT ![u] = {disk[f].content}]
      BY <3>1 DEF WriteFile, EditFile
    <3>3. window'[u] = {disk[f].content} /\ target[w] = f /\ window'[w] = window[w] /\ pc[w] # "idle"
      BY <1>0, <2>1, <2>3, <3>2 DEF Typed, TypeOK
    <3> QED BY <3>3 DEF Typed, Steps
  <2>4. CASE v # w /\ v # u
    BY <2>1, <2>4 DEF Windows
  <2> QED BY <2>2, <2>3, <2>4
<1>2. ASSUME NEW f \in Files, Changes(f)
      PROVE  window'[u] \subseteq window'[w]
  <2>1. pc[w] # "idle" /\ kind' = kind /\ target' = target
    BY <1>2 DEF Changes, Writing
  <2>2. window[u] \subseteq window[w]
    BY <2>1 DEF Windows
  <2> QED BY <1>2, <2>1, <2>2 DEF Changes, Change
<1>3. CASE Carries
  BY <1>0, <1>3 DEF Carries, Windows
<1> QED
  BY <1>1, <1>2, <1>3, StepsSplit

(***************************************************************************)
(* What is cached, and what is on its way there.                           *)
(***************************************************************************)

\* A result on its way to the cache was in the file during the query.
Found == \A w \in Workers : pc[w] = "put" => result[w] \in window[w]

Clear(k, f) == ~ blurred /\ Indistinct(k.kind, k.stamp, disk[f].mtime)

\* One whose key the file still has is what the file holds.
PutIsCurrent ==
  \A w \in Workers : pc[w] = "put" /\ Clear(Key(w), target[w]) => result[w] = disk[target[w]].content

\* A result that a query about to look for it will find in the cache.
PutIsSeen ==
  \A w, v \in Workers :
    pc[w] = "get" /\ pc[v] = "put" /\ Key(v) = Key(w) /\ ~ blurred => result[v] \in window[w]

\* An entry whose key the file still has is what the file holds, or what a write
\* that will drop it has replaced.
EntryIsCurrent ==
  \A i \in DOMAIN cache :
    LET key == cache[i].key
    IN Clear(key, key.file) =>
         \/ cache[i].value = disk[key.file].content
         \/ \E u \in Workers : /\ pc[u] \in {"fill", "drop"} /\ target[u] = key.file
                               /\ cache[i].value \in window[u]

\* An entry that a query about to look for it will find.
EntryIsSeen ==
  \A w \in Workers : \A i \in DOMAIN cache :
    pc[w] = "get" /\ cache[i].key = Key(w) /\ ~ blurred => cache[i].value \in window[w]

FreshInv == /\ TypeOK /\ Steps /\ Times /\ Windows /\ Found
            /\ PutIsCurrent /\ PutIsSeen /\ EntryIsCurrent /\ EntryIsSeen /\ QueryIsFresh

\* blurred is never taken back.
LEMMA BlurredStays ==
  ASSUME Typed, [Next]_vars, ~ blurred'
  PROVE  ~ blurred
BY Zenon DEF Next, vars, Query, Stat, Hit, Miss, Scan, PutResult, Return, WriteFile, EditFile,
         Truncate, Fill, WriteFails, Drop, CommandChanges, Tick

\* Who is about to put has just scanned its file, or had a result already.
LEMMA PutFrom ==
  ASSUME Typed, [Next]_vars, NEW w \in Workers, pc'[w] = "put"
  PROVE  /\ kind'[w] = kind[w] /\ target'[w] = target[w] /\ stamp'[w] = stamp[w] /\ pc[w] # "idle"
         /\ \/ pc[w] = "put" /\ result'[w] = result[w]
            \/ Scan(w) /\ result'[w] = disk[target[w]].content /\ disk' = disk /\ window' = window
<1> USE DEF Typed
<1>1. CASE UNCHANGED vars \/ Tick
  BY <1>1 DEF vars, Tick, tool
<1>2. ASSUME NEW v \in Workers, Query(v) \/ WriteFile(v) \/ EditFile(v)
      PROVE  /\ kind'[w] = kind[w] /\ target'[w] = target[w] /\ stamp'[w] = stamp[w]
             /\ pc[w] = "put" /\ result'[w] = result[w]
  BY <1>2 DEF Query, WriteFile, EditFile, Becomes, TypeOK
<1>3. ASSUME NEW v \in Workers,
             \/ Stat(v) \/ Hit(v) \/ Miss(v) \/ PutResult(v) \/ Truncate(v) \/ Fill(v)
      PROVE  /\ kind'[w] = kind[w] /\ target'[w] = target[w] /\ stamp'[w] = stamp[w]
             /\ pc[w] = "put" /\ result'[w] = result[w]
  BY <1>3 DEF Stat, Hit, Miss, PutResult, Truncate, Fill, Becomes, TypeOK
<1>4. ASSUME NEW v \in Workers, Return(v) \/ WriteFails(v) \/ Drop(v)
      PROVE  /\ kind'[w] = kind[w] /\ target'[w] = target[w] /\ stamp'[w] = stamp[w]
             /\ pc[w] = "put" /\ result'[w] = result[w]
  BY <1>4 DEF Return, WriteFails, Drop, Release, Becomes, TypeOK
<1>5. ASSUME NEW v \in Workers, Scan(v)
      PROVE  /\ kind'[w] = kind[w] /\ target'[w] = target[w] /\ stamp'[w] = stamp[w] /\ pc[w] # "idle"
             /\ \/ pc[w] = "put" /\ result'[w] = result[w]
                \/ Scan(w) /\ result'[w] = disk[target[w]].content /\ disk' = disk /\ window' = window
  BY <1>5 DEF Scan, Becomes, TypeOK
<1>6. ASSUME NEW f \in Files, CommandChanges(f)
      PROVE  /\ kind'[w] = kind[w] /\ target'[w] = target[w] /\ stamp'[w] = stamp[w]
             /\ pc[w] = "put" /\ result'[w] = result[w]
  BY <1>6 DEF CommandChanges
<1> QED
  BY <1>1, <1>2, <1>3, <1>4, <1>5, <1>6 DEF Next

\* Who is about to look into the cache was so before, or has just come to it, with a
\* key its file still has.
LEMMA GetFrom ==
  ASSUME Typed, [Next]_vars, NEW w \in Workers, pc'[w] = "get"
  PROVE  \/ /\ pc[w] = "get" /\ kind'[w] = kind[w] /\ target'[w] = target[w]
            /\ stamp'[w] = stamp[w]
         \/ /\ disk' = disk /\ cache' = cache /\ blurred' = blurred
            /\ \A v \in Workers \ {w} : /\ pc'[v] = pc[v] /\ kind'[v] = kind[v] /\ result'[v] = result[v]
                                        /\ target'[v] = target[v] /\ window'[v] = window[v]
                                        /\ stamp'[v] = stamp[v]
            /\ Indistinct(kind'[w], stamp'[w], disk[target'[w]].mtime)
<1> USE DEF Typed
<1>1. CASE UNCHANGED vars \/ Tick
  BY <1>1 DEF vars, Tick, tool
<1>2. ASSUME NEW v \in Workers, Query(v)
      PROVE  \/ /\ pc[w] = "get" /\ kind'[w] = kind[w] /\ target'[w] = target[w]
                /\ stamp'[w] = stamp[w]
             \/ kind'[w] = "search" /\ v = w
  BY <1>2 DEF Query, Becomes, TypeOK
<1>3. ASSUME NEW v \in Workers, Stat(v)
      PROVE  \/ /\ pc[w] = "get" /\ kind'[w] = kind[w] /\ target'[w] = target[w]
                /\ stamp'[w] = stamp[w]
             \/ stamp'[w] \in {0, disk[target'[w]].mtime} /\ v = w
  BY <1>3 DEF Stat, Becomes, TypeOK
<1>4. ASSUME NEW v \in Workers, Query(v) \/ Stat(v), v = w
      PROVE  /\ disk' = disk /\ cache' = cache /\ blurred' = blurred
             /\ \A u \in Workers \ {w} : /\ pc'[u] = pc[u] /\ kind'[u] = kind[u] /\ result'[u] = result[u]
                                         /\ target'[u] = target[u] /\ window'[u] = window[u]
                                         /\ stamp'[u] = stamp[u]
  BY <1>4 DEF Query, Stat, Becomes, TypeOK
<1>5. ASSUME NEW v \in Workers,
             \/ Hit(v) \/ Miss(v) \/ Scan(v) \/ PutResult(v) \/ WriteFile(v) \/ EditFile(v)
      PROVE  pc[w] = "get" /\ kind'[w] = kind[w] /\ target'[w] = target[w] /\ stamp'[w] = stamp[w]
  BY <1>5 DEF Hit, Miss, Scan, PutResult, WriteFile, EditFile, Becomes, TypeOK
<1>6. ASSUME NEW v \in Workers,
             \/ Return(v) \/ WriteFails(v) \/ Drop(v) \/ Truncate(v) \/ Fill(v)
      PROVE  pc[w] = "get" /\ kind'[w] = kind[w] /\ target'[w] = target[w] /\ stamp'[w] = stamp[w]
  BY <1>6 DEF Return, WriteFails, Drop, Truncate, Fill, Release, Becomes, TypeOK
<1>7. ASSUME NEW f \in Files, CommandChanges(f)
      PROVE  pc[w] = "get" /\ kind'[w] = kind[w] /\ target'[w] = target[w] /\ stamp'[w] = stamp[w]
  BY <1>7 DEF CommandChanges
<1> QED
  BY <1>1, <1>2, <1>3, <1>4, <1>5, <1>6, <1>7 DEF Next, Indistinct

\* A result found stays found.
LEMMA FoundKept ==
  ASSUME Typed, Found, [Next]_vars
  PROVE  Found'
<1> SUFFICES ASSUME NEW w \in Workers, pc'[w] = "put" PROVE result'[w] \in window'[w]
  BY DEF Found
<1>1. window[w] \subseteq window'[w]
  BY PutFrom, WindowsGrow
<1>2. CASE pc[w] = "put" /\ result'[w] = result[w]
  BY <1>1, <1>2 DEF Found
<1>3. CASE Scan(w) /\ result'[w] = disk[target[w]].content
  BY <1>1, <1>3 DEF Scan, Typed, Steps
<1> QED
  BY <1>2, <1>3, PutFrom

\* A file that changes under a result on its way to the cache leaves its key behind,
\* or blurs it.
LEMMA PutIsCurrentKept ==
  ASSUME Typed, PutIsCurrent, [Next]_vars
  PROVE  PutIsCurrent'
<1> SUFFICES ASSUME NEW w \in Workers, pc'[w] = "put", ~ blurred',
                    Indistinct(kind'[w], stamp'[w], disk'[target'[w]].mtime)
             PROVE  result'[w] = disk'[target'[w]].content
  BY DEF PutIsCurrent, Clear, Key, Indistinct
<1>1. /\ kind'[w] = kind[w] /\ target'[w] = target[w] /\ stamp'[w] = stamp[w] /\ pc[w] # "idle"
      /\ \/ pc[w] = "put" /\ result'[w] = result[w]
         \/ Scan(w) /\ result'[w] = disk[target[w]].content /\ disk' = disk
  BY PutFrom
<1>2. CASE Scan(w) /\ result'[w] = disk[target[w]].content /\ disk' = disk
  BY <1>1, <1>2
<1>3. CASE pc[w] = "put" /\ result'[w] = result[w]
  <2>1. CASE disk'[target[w]] = disk[target[w]]
    <3>1. Clear(Key(w), target[w])
      BY <1>1, <2>1, BlurredStays DEF Clear, Key
    <3> QED BY <1>1, <1>3, <2>1, <3>1 DEF PutIsCurrent
  <2>2. ASSUME NEW f \in Files, Changes(f), disk'[target[w]] # disk[target[w]]
        PROVE  FALSE
    <3>1. target[w] = f
      BY <1>1, <2>2 DEF Changes, Change, Typed, TypeOK, Steps
    <3>2. disk'[f].mtime = clock
      BY <2>2 DEF Changes, Change, Typed, TypeOK
    <3>3. PutUnderWay(f, clock)
      BY <1>1, <1>3, <3>1, <3>2 DEF PutUnderWay
    <3> QED BY <2>2, <3>1, <3>3 DEF Changes, Truncate, Fill, CommandChanges
  <2>3. ASSUME NEW v \in Workers, Begins(v)
        PROVE  disk' = disk
    BY <2>3 DEF Begins, Query, WriteFile, EditFile
  <2> QED BY <2>1, <2>2, <2>3, StepsSplit DEF Carries
<1> QED
  BY <1>1, <1>2, <1>3

\* A query about to look for a result finds it in its window, whichever of the two
\* came first.
LEMMA PutIsSeenKept ==
  ASSUME Typed, PutIsSeen, PutIsCurrent, Typed', [Next]_vars
  PROVE  PutIsSeen'
<1> SUFFICES ASSUME NEW w \in Workers, NEW v \in Workers, pc'[w] = "get", pc'[v] = "put",
                    kind'[v] = kind'[w], target'[v] = target'[w], stamp'[v] = stamp'[w], ~ blurred'
             PROVE  result'[v] \in window'[w]
  BY DEF PutIsSeen, Key
<1>1. disk'[target'[w]].content \in window'[w] /\ w # v /\ ~ blurred
  BY BlurredStays DEF Typed, Steps
<1>2. /\ kind'[v] = kind[v] /\ target'[v] = target[v] /\ stamp'[v] = stamp[v] /\ pc[v] # "idle"
      /\ \/ pc[v] = "put" /\ result'[v] = result[v]
         \/ Scan(v) /\ result'[v] = disk[target[v]].content /\ disk' = disk
  BY PutFrom
<1>3. CASE Scan(v) /\ result'[v] = disk[target[v]].content /\ disk' = disk
  BY <1>1, <1>2, <1>3
<1>4. CASE pc[v] = "put" /\ result'[v] = result[v]
  <2>1. CASE pc[w] = "get" /\ kind'[w] = kind[w] /\ target'[w] = target[w] /\ stamp'[w] = stamp[w]
    <3>1. Key(v) = Key(w)
      BY <1>2, <2>1 DEF Key
    <3>2. window[w] \subseteq window'[w]
      BY <2>1, WindowsGrow
    <3> QED BY <1>1, <1>4, <2>1, <3>1, <3>2 DEF PutIsSeen
  <2>2. CASE disk' = disk /\ Indistinct(kind'[w], stamp'[w], disk[target'[w]].mtime)
    <3>1. Clear(Key(v), target[v])
      BY <1>1, <1>2, <2>2 DEF Clear, Key
    <3> QED BY <1>1, <1>2, <1>4, <2>2, <3>1 DEF PutIsCurrent
  <2> QED BY <2>1, <2>2, GetFrom
<1> QED
  BY <1>2, <1>3, <1>4

\* An entry a query about to look will find is in its window.
LEMMA EntryIsSeenKept ==
  ASSUME Typed, Windows', EntryIsSeen, EntryIsCurrent, PutIsSeen, Typed', [Next]_vars
  PROVE  EntryIsSeen'
<1> SUFFICES ASSUME NEW w \in Workers, NEW i \in DOMAIN cache', pc'[w] = "get",
                    cache'[i].key = Key(w)', ~ blurred'
             PROVE  cache'[i].value \in window'[w]
  BY DEF EntryIsSeen
<1>1. /\ disk'[target'[w]].content \in window'[w] /\ ~ blurred
      /\ Key(w)' = [kind |-> kind'[w], file |-> target'[w], stamp |-> stamp'[w]]
      /\ kind'[w] # "write"
  BY BlurredStays DEF Typed, Steps, Key, Writing
<1>2. ASSUME NEW v \in Workers, PutResult(v), cache'[i] = [key |-> Key(v), value |-> result[v]]
      PROVE  cache'[i].value \in window'[w]
  <2>1. Key(w)' = Key(w) /\ pc[w] = "get" /\ window' = window /\ pc[v] = "put"
    BY <1>2 DEF PutResult, Becomes, Key, Typed, TypeOK
  <2>2. Key(v) = Key(w) /\ cache'[i].value = result[v]
    BY <1>2, <2>1
  <2> QED BY <1>1, <2>1, <2>2 DEF PutIsSeen
<1>3. ASSUME NEW j \in DOMAIN cache, cache'[i] = cache[j]
      PROVE  cache'[i].value \in window'[w]
  <2>1. CASE pc[w] = "get" /\ kind'[w] = kind[w] /\ target'[w] = target[w] /\ stamp'[w] = stamp[w]
    <3>1. cache[j].key = Key(w)
      BY <1>1, <1>3, <2>1 DEF Key
    <3>2. window[w] \subseteq window'[w]
      BY <2>1, WindowsGrow
    <3> QED BY <1>1, <1>3, <2>1, <3>1, <3>2 DEF EntryIsSeen
  <2>2. CASE /\ disk' = disk
             /\ \A v \in Workers \ {w} : pc'[v] = pc[v] /\ kind'[v] = kind[v]
                                       /\ target'[v] = target[v] /\ window'[v] = window[v]
             /\ Indistinct(kind'[w], stamp'[w], disk[target'[w]].mtime)
    <3>1. /\ cache[j].key.kind = kind'[w] /\ cache[j].key.file = target'[w]
          /\ cache[j].key.stamp = stamp'[w]
      BY <1>1, <1>3
    <3>2. Clear(cache[j].key, cache[j].key.file)
      BY <1>1, <2>2, <3>1 DEF Clear
    <3>3. CASE cache[j].value = disk[cache[j].key.file].content
      BY <1>1, <1>3, <2>2, <3>1, <3>3
    <3>4. ASSUME NEW u \in Workers, pc[u] \in {"fill", "drop"}, target[u] = cache[j].key.file,
                 cache[j].value \in window[u]
          PROVE  cache'[i].value \in window'[w]
      <4>1. u # w
        <5>1. CASE u = w
          <6>1. pc[w] # "idle" /\ kind[w] = "write"
            BY <3>4, <5>1 DEF Typed, Steps, Writing
          <6> QED BY <1>1, <6>1, WindowsGrow
        <5> QED BY <5>1
      <4>2. kind'[u] = "write" /\ target'[u] = target'[w] /\ window'[u] = window[u]
        BY <2>2, <3>1, <3>4, <4>1 DEF Typed, Steps, Writing
      <4> QED BY <1>1, <1>3, <3>4, <4>2 DEF Windows
    <3> QED BY <3>2, <3>3, <3>4 DEF EntryIsCurrent
  <2> QED BY <2>1, <2>2, GetFrom
<1> QED
  BY <1>2, <1>3, EntriesFrom

\* A write between its truncation and its drop goes on, unless it is the one that
\* fails or drops.
LEMMA WriteGoesOn ==
  ASSUME Typed, [Next]_vars, NEW u \in Workers, pc[u] \in {"fill", "drop"},
         ~ WriteFails(u), ~ Drop(u)
  PROVE  pc'[u] \in {"fill", "drop"} /\ target'[u] = target[u] /\ window[u] \subseteq window'[u]
<1>1. pc'[u] \in {"fill", "drop"}
  <2> USE DEF Typed
  <2>1. CASE UNCHANGED vars \/ Tick
    BY <2>1 DEF vars, Tick, tool
  <2>2. ASSUME NEW v \in Workers, Query(v) \/ WriteFile(v) \/ EditFile(v) \/ Stat(v) \/ Hit(v)
        PROVE  pc'[u] \in {"fill", "drop"}
    BY <2>2 DEF Query, WriteFile, EditFile, Stat, Hit, Becomes, TypeOK
  <2>3. ASSUME NEW v \in Workers,
               Miss(v) \/ Scan(v) \/ PutResult(v) \/ Return(v) \/ Truncate(v) \/ Fill(v)
        PROVE  pc'[u] \in {"fill", "drop"}
    BY <2>3 DEF Miss, Scan, PutResult, Return, Release, Truncate, Fill, Becomes, TypeOK
  <2>4. ASSUME NEW v \in Workers, WriteFails(v) \/ Drop(v)
        PROVE  pc'[u] \in {"fill", "drop"}
    <3>1. v # u
      BY <2>4
    <3> QED BY <2>4, <3>1 DEF WriteFails, Drop, Release, Becomes, TypeOK
  <2>5. ASSUME NEW f \in Files, CommandChanges(f)
        PROVE  pc'[u] \in {"fill", "drop"}
    BY <2>5 DEF CommandChanges
  <2> QED BY <2>1, <2>2, <2>3, <2>4, <2>5 DEF Next
<1> QED
  BY <1>1, WindowsGrow

\* An entry stays current, or a write that will drop it is under way, or blurs.
LEMMA EntryIsCurrentKept ==
  ASSUME Typed, Times, EntryIsCurrent, PutIsCurrent, Typed', [Next]_vars
  PROVE  EntryIsCurrent'
<1> SUFFICES ASSUME NEW i \in DOMAIN cache', ~ blurred',
                    Indistinct(cache'[i].key.kind, cache'[i].key.stamp, disk'[cache'[i].key.file].mtime)
             PROVE  \/ cache'[i].value = disk'[cache'[i].key.file].content
                    \/ \E u \in Workers : /\ pc'[u] \in {"fill", "drop"} /\ target'[u] = cache'[i].key.file
                                          /\ cache'[i].value \in window'[u]
  BY DEF EntryIsCurrent, Clear, Indistinct
<1>0. ~ blurred
  BY BlurredStays
<1>1. ASSUME NEW w \in Workers, PutResult(w), cache'[i] = [key |-> Key(w), value |-> result[w]]
      PROVE  cache'[i].value = disk'[cache'[i].key.file].content
  <2>1. /\ cache'[i].key = Key(w) /\ cache'[i].value = result[w] /\ cache'[i].key.file = target[w]
        /\ disk' = disk /\ pc[w] = "put"
    BY <1>1 DEF PutResult, Key
  <2>2. Clear(Key(w), target[w])
    BY <1>0, <2>1 DEF Clear
  <2> QED BY <2>1, <2>2 DEF PutIsCurrent
<1>2. ASSUME NEW j \in DOMAIN cache, cache'[i] = cache[j]
      PROVE  \/ cache'[i].value = disk'[cache'[i].key.file].content
             \/ \E u \in Workers : /\ pc'[u] \in {"fill", "drop"} /\ target'[u] = cache'[i].key.file
                                   /\ cache'[i].value \in window'[u]
  <2> DEFINE key == cache[j].key
             f == key.file
  <2>0. f \in Files /\ key.stamp \in Nat /\ key.stamp <= disk[f].mtime /\ disk[f].mtime <= clock
        /\ disk[f].mtime \in Nat /\ clock \in Nat
    <3>1. cache \in Seq(Entries)
      BY DEF Typed, TypeOK
    <3>2. cache[j] \in Entries
      BY <3>1, LenProperties, ElementOfSeq
    <3>3. f \in Files /\ key.stamp \in Nat
      BY <3>2 DEF Entries, Keys
    <3> QED BY <3>3 DEF Times, Typed, TypeOK
  <2>1. ASSUME disk'[f] = disk[f]
        PROVE  \/ cache[j].value = disk[f].content
               \/ \E u \in Workers : /\ pc[u] \in {"fill", "drop"} /\ target[u] = f
                                     /\ cache[j].value \in window[u]
    <3>1. Clear(key, f)
      BY <1>0, <1>2, <2>1 DEF Clear
    <3> QED BY <3>1 DEF EntryIsCurrent
  <2>2. ASSUME NEW u \in Workers, pc[u] \in {"fill", "drop"}, target[u] = f,
               cache[j].value \in window[u]
        PROVE  \E v \in Workers : /\ pc'[v] \in {"fill", "drop"} /\ target'[v] = f
                                  /\ cache[j].value \in window'[v]
    <3>1. ~ WriteFails(u)
      <4> SUFFICES ASSUME WriteFails(u) PROVE FALSE
        OBVIOUS
      <4>1. disk' = disk /\ pc[u] = "fill"
        BY <2>2 DEF WriteFails
      <4>2. Kept(target[u], disk[target[u]].mtime)
        BY <1>2, <2>2, <4>1 DEF Kept
      <4> QED BY <4>1, <4>2 DEF WriteFails
    <3>2. ~ Drop(u)
      <4> SUFFICES ASSUME Drop(u) PROVE FALSE
        OBVIOUS
      <4>1. cache'[i].key.file # target[u]
        BY AfterDrop DEF Typed
      <4> QED BY <1>2, <2>2, <4>1
    <3> QED BY <2>2, <3>1, <3>2, WriteGoesOn
  <2>3. CASE disk'[f] = disk[f]
    BY <1>2, <2>1, <2>2, <2>3
  <2>4. ASSUME NEW g \in Files, Changes(g), disk'[f] # disk[f]
        PROVE  \E v \in Workers : /\ pc'[v] \in {"fill", "drop"} /\ target'[v] = f
                                  /\ cache[j].value \in window'[v]
    <3>1. g = f
      BY <2>0, <2>4 DEF Changes, Change, Typed, TypeOK
    <3>2. disk'[f].mtime = clock
      BY <2>4, <3>1 DEF Changes, Change, Typed, TypeOK
    <3>3. Indistinct(key.kind, key.stamp, clock)
      BY <1>2, <3>2
    <3>4. ~ CommandChanges(g)
      <4>1. Kept(g, clock)
        BY <3>1, <3>3 DEF Kept
      <4> QED BY <4>1 DEF CommandChanges
    <3>5. PICK w \in Workers : target[w] = f /\ (Truncate(w) \/ Fill(w))
      BY <2>4, <3>1, <3>4 DEF Changes
    <3>6. Clear(key, f)
      <4>1. key.kind = "search" \/ key.stamp = 0 \/ key.stamp = disk[f].mtime
        BY <2>0, <3>3 DEF Indistinct
      <4> QED BY <1>0, <4>1 DEF Clear, Indistinct
    <3>7. CASE cache[j].value = disk[f].content
      <4>1. disk[f].content \in window[w] /\ pc[w] # "idle"
        BY <3>5 DEF Truncate, Fill, Typed, Steps
      <4>2. pc'[w] \in {"fill", "drop"}
        BY <3>5 DEF Truncate, Fill, Becomes, Typed, TypeOK
      <4> QED BY <3>5, <3>7, <4>1, <4>2, WindowsGrow
    <3>8. CASE \E u \in Workers : /\ pc[u] \in {"fill", "drop"} /\ target[u] = f
                                  /\ cache[j].value \in window[u]
      BY <2>2, <3>8
    <3> QED BY <3>6, <3>7, <3>8 DEF EntryIsCurrent
  <2>5. ASSUME NEW v \in Workers, Begins(v)
        PROVE  disk' = disk
    BY <2>5 DEF Begins, Query, WriteFile, EditFile
  <2> QED BY <1>2, <2>3, <2>4, <2>5, StepsSplit DEF Carries
<1> QED
  BY <1>1, <1>2, EntriesFrom

\* Who returns with a result has found it in its window.
LEMMA QueryIsFreshKept ==
  ASSUME Typed, Found, EntryIsSeen, QueryIsFresh, Typed', [Next]_vars
  PROVE  QueryIsFresh'
<1> SUFFICES ASSUME NEW w \in Workers, pc'[w] = "done", ~ blurred'
             PROVE  result'[w] \in window'[w]
  BY DEF QueryIsFresh
<1>0. ~ blurred
  BY BlurredStays
<1>1. CASE pc[w] = "done" /\ result'[w] = result[w]
  BY <1>0, <1>1, WindowsGrow DEF QueryIsFresh
<1>2. CASE Hit(w)
  <2>1. PICK i \in DOMAIN cache : cache[i].key = Key(w) /\ cache[i].value = Get(Key(w))
    BY <1>2 DEF Hit, Has, Get
  <2>2. pc[w] = "get" /\ window' = window /\ result'[w] = Get(Key(w))
    BY <1>2 DEF Hit, Typed, TypeOK
  <2> QED BY <1>0, <2>1, <2>2 DEF EntryIsSeen
<1>3. CASE Scan(w)
  <2>1. pc[w] # "idle" /\ window' = window /\ result'[w] = disk[target[w]].content
    BY <1>3 DEF Scan, Typed, TypeOK
  <2> QED BY <2>1 DEF Typed, Steps
<1>4. CASE PutResult(w)
  <2>1. pc[w] = "put" /\ window' = window /\ result' = result
    BY <1>4 DEF PutResult
  <2> QED BY <2>1 DEF Found
<1>5. (pc[w] = "done" /\ result'[w] = result[w]) \/ Hit(w) \/ Scan(w) \/ PutResult(w)
  <2> USE DEF Typed
  <2>1. CASE UNCHANGED vars \/ Tick
    BY <2>1 DEF vars, Tick, tool
  <2>2. ASSUME NEW v \in Workers, v = w, ~ Hit(w), ~ Scan(w), ~ PutResult(w),
               \/ Query(v) \/ Stat(v) \/ Miss(v) \/ Return(v) \/ WriteFile(v) \/ EditFile(v)
               \/ Truncate(v) \/ Fill(v) \/ WriteFails(v) \/ Drop(v)
        PROVE  FALSE
    BY <2>2 DEF Query, Stat, Miss, Return, WriteFile, EditFile, Truncate, Fill, WriteFails, Drop,
                Release, Becomes, TypeOK
  <2>3. ASSUME NEW v \in Workers, v # w,
               \/ Query(v) \/ Stat(v) \/ Hit(v) \/ Miss(v) \/ Scan(v) \/ PutResult(v)
        PROVE  pc[w] = "done" /\ result'[w] = result[w]
    BY <2>3 DEF Query, Stat, Hit, Miss, Scan, PutResult, Becomes, TypeOK
  <2>4. ASSUME NEW v \in Workers, v # w,
               \/ Return(v) \/ WriteFile(v) \/ EditFile(v)
               \/ Truncate(v) \/ Fill(v) \/ WriteFails(v) \/ Drop(v)
        PROVE  pc[w] = "done" /\ result'[w] = result[w]
    BY <2>4 DEF Return, WriteFile, EditFile, Truncate, Fill, WriteFails, Drop, Release, Becomes, TypeOK
  <2>5. ASSUME NEW f \in Files, CommandChanges(f)
        PROVE  pc[w] = "done" /\ result'[w] = result[w]
    BY <2>5 DEF CommandChanges
  <2> QED BY <2>1, <2>2, <2>3, <2>4, <2>5 DEF Next
<1> QED
  BY <1>1, <1>2, <1>3, <1>4, <1>5

\* The cache's invariant holds in every reachable state.
LEMMA FreshInvariant == Spec => []FreshInv
<1>1. Init => FreshInv
  <2> SUFFICES ASSUME Init PROVE FreshInv
    OBVIOUS
  <2>1. TypeOK
    <3>1. Absent \in Contents /\ 0 \in 0 .. MaxClock /\ 1 \in 0 .. MaxClock /\ 0 \in 0 .. MaxWrites
      BY FileBounds DEF Contents, Absent
    <3>2. /\ pc \in [Workers -> {"idle", "stat", "get", "scan", "put", "done", "open", "fill", "drop"}]
          /\ kind \in [Workers -> {"read", "search", "write"}]
          /\ target \in [Workers -> Files \cup {NoFile}] /\ stamp \in [Workers -> 0 .. MaxClock]
      BY <3>1 DEF Init
    <3>3. result \in [Workers -> Contents] /\ window \in [Workers -> SUBSET Contents]
      BY <3>1 DEF Init
    <3>4. disk \in [Files -> [content : Contents, mtime : 0 .. MaxClock]]
      BY <3>1 DEF Init
    <3>5. cache \in Seq(Entries) /\ writes \in 0 .. MaxWrites /\ clock \in 0 .. MaxClock
      BY <3>1, EmptySeq DEF Init
    <3>6. blurred \in BOOLEAN
      BY Zenon DEF Init
    <3> QED BY <3>2, <3>3, <3>4, <3>5, <3>6 DEF TypeOK
  <2>2. Steps
    BY DEF Init, Steps, Writing
  <2>3. Times
    BY DEF Init, Times
  <2>4. /\ Windows /\ Found /\ PutIsCurrent /\ PutIsSeen /\ EntryIsCurrent /\ EntryIsSeen
        /\ QueryIsFresh
    BY DEF Init, Windows, Found, PutIsCurrent, PutIsSeen, EntryIsCurrent, EntryIsSeen, QueryIsFresh
  <2> QED BY <2>1, <2>2, <2>3, <2>4 DEF FreshInv
<1>2. FreshInv /\ [Next]_vars => FreshInv'
  BY TypedKept, TimesKept, WindowsKept, FoundKept, PutIsCurrentKept, PutIsSeenKept,
     EntryIsCurrentKept, EntryIsSeenKept, QueryIsFreshKept DEF FreshInv, Typed
<1> QED
  BY <1>1, <1>2, PTL DEF Spec

\* In every reachable state the variables have their types.  That the keys that are
\* put are queries' keys needs the order of a tool's steps as well.
THEOREM TypeCorrect == Spec => []TypeOK
<1>1. FreshInv => TypeOK
  BY DEF FreshInv
<1> QED
  BY <1>1, FreshInvariant, PTL

\* Every query returns what its file held at some moment of the query, whatever other
\* threads and commands write meanwhile, until an entry was put, or left behind, that
\* its key cannot tell from newer content.
THEOREM QueriesAreFresh == Spec => []QueryIsFresh
<1>1. FreshInv => QueryIsFresh
  BY DEF FreshInv
<1> QED
  BY <1>1, FreshInvariant, PTL
===============================================================================
