------------------------------- MODULE FileCache -------------------------------
(***************************************************************************)
(* The file tools and the cache their results are kept in (file_ops.py).   *)
(*                                                                         *)
(* Tools run in threads, several at a time: every call into the file       *)
(* system and every hold of the cache's lock is a step of its own.  A file *)
(* is the number of the write it holds and the mtime that write gave it;   *)
(* write_text truncates before it writes.  Commands run by the execute     *)
(* tool change files without the cache being told.                         *)
(*                                                                         *)
(* A search is a grep of one file.  grep and glob_files over a directory   *)
(* cache alike, except that no write ever drops what they found.           *)
(***************************************************************************)
EXTENDS Naturals, Sequences, FiniteSets

CONSTANTS Workers,    \* threads tools run in
          Files,
          NoFile,     \* a worker's target while it has none
          MaxSize,    \* _max_size
          MaxWrites,  \* bound: changes to files
          MaxClock    \* bound: ticks of the file system's clock

ASSUME FileAssumption == NoFile \notin Files
ASSUME SizeAssumption == MaxSize \in Nat /\ MaxSize >= 4
ASSUME FileBounds     == MaxWrites \in Nat /\ MaxClock \in Nat \ {0}

VARIABLES
  pc,      \* per worker: the step its tool is at
  kind,    \* per worker: "read", "search" or "write"
  target,  \* per worker: the file its tool is about
  stamp,   \* per worker: the mtime its read saw, 0 for a search
  result,  \* per worker: what its query found
  window,  \* per worker: what its file has held since its query, or its write, began
  disk,    \* per file: its content and its mtime
  cache,   \* _data, oldest entry first
  writes,  \* how many changes files have seen
  clock,   \* the file system's clock
  blurred  \* a cache entry was made, or left, that its key does not tell from newer content

tool == <<pc, kind, target, stamp, result, window>>
vars == <<pc, kind, target, stamp, result, window, disk, cache, writes, clock, blurred>>

Absent == 0            \* no such file
Torn   == MaxWrites + 1 \* truncated, not yet written
Contents == 0 .. (MaxWrites + 1)

Keys    == [kind : {"read", "search"}, file : Files, stamp : 0 .. MaxClock]
Entries == [key : Keys, value : Contents]

TypeOK ==
  /\ pc \in [Workers -> {"idle", "stat", "get", "scan", "put", "done",
                         "open", "fill", "drop"}]
  /\ kind \in [Workers -> {"read", "search", "write"}]
  /\ target \in [Workers -> Files \cup {NoFile}]
  /\ stamp \in [Workers -> 0 .. MaxClock]
  /\ result \in [Workers -> Contents]
  /\ window \in [Workers -> SUBSET Contents]
  /\ disk \in [Files -> [content : Contents, mtime : 0 .. MaxClock]]
  /\ cache \in Seq(Entries)
  /\ writes \in 0 .. MaxWrites
  /\ clock \in 0 .. MaxClock
  /\ blurred \in BOOLEAN

Init ==
  /\ pc = [w \in Workers |-> "idle"]
  /\ kind = [w \in Workers |-> "read"]
  /\ target = [w \in Workers |-> NoFile]
  /\ stamp = [w \in Workers |-> 0]
  /\ result = [w \in Workers |-> Absent]
  /\ window = [w \in Workers |-> {}]
  /\ disk = [f \in Files |-> [content |-> Absent, mtime |-> 0]]
  /\ cache = <<>>
  /\ writes = 0 /\ clock = 1 /\ blurred = FALSE

Exists(f) == disk[f].content # Absent

(***************************************************************************)
(* The cache.                                                              *)
(***************************************************************************)

Key(w) == [kind |-> kind[w], file |-> target[w], stamp |-> stamp[w]]

Has(key) == \E i \in DOMAIN cache : cache[i].key = key
Get(key) == cache[CHOOSE i \in DOMAIN cache : cache[i].key = key].value

\* put: the oldest quarter goes when the cache is full, whether or not the key is new.
Evicted(s) == IF Len(s) >= MaxSize THEN SubSeq(s, MaxSize \div 4 + 1, Len(s)) ELSE s

\* A key that is there keeps its place.
Put(s, entry) ==
  LET at == {i \in DOMAIN s : s[i].key = entry.key}
  IN IF at = {} THEN Append(s, entry)
     ELSE [i \in DOMAIN s |-> IF i \in at THEN entry ELSE s[i]]

\* Fault: what searches found stays.
StaysWithSearches(f) ==
  {i \in DOMAIN cache : cache[i].key.file # f \/ cache[i].key.kind = "search"}

\* invalidate_path drops what it knows of f: the entries that stay ...
Stays(f) == {i \in DOMAIN cache : cache[i].key.file # f}

\* ... and their order.
InOrder(K) ==
  {p \in [1 .. Cardinality(K) -> K] : \A i, j \in DOMAIN p : i < j => p[i] < p[j]}

(***************************************************************************)
(* read_file, grep and glob_files.                                         *)
(***************************************************************************)

Becomes(w, at) == pc' = [pc EXCEPT ![w] = at]

\* What a query of f that begins now may return: what f holds, or what a write that
\* has not returned yet has replaced.
Current(f) ==
  {disk[f].content} \cup
  UNION {window[v] : v \in {u \in Workers : kind[u] = "write" /\ target[u] = f}}

\* A path that does not exist is reported, and nothing is cached.
Query(w) ==
  /\ pc[w] = "idle"
  /\ \E k \in {"read", "search"} : kind' = [kind EXCEPT ![w] = k]
  /\ \E f \in Files :
       /\ Exists(f)
       /\ target' = [target EXCEPT ![w] = f]
       /\ window' = [window EXCEPT ![w] = Current(f)]
  /\ Becomes(w, IF kind'[w] = "read" THEN "stat" ELSE "get")
  /\ UNCHANGED <<stamp, result, disk, cache, writes, clock, blurred>>

\* Fault: a stat that fails leaves no mtime.
StatBare(w) ==
  /\ pc[w] = "stat"
  /\ stamp' = [stamp EXCEPT ![w] = IF Exists(target[w]) THEN disk[target[w]].mtime ELSE NoFile]
  /\ Becomes(w, "get")
  /\ UNCHANGED <<kind, target, result, window, disk, cache, writes, clock, blurred>>

\* A stat that fails reads as mtime 0.
Stat(w) ==
  /\ pc[w] = "stat"
  /\ stamp' = [stamp EXCEPT ![w] = IF Exists(target[w]) THEN disk[target[w]].mtime ELSE 0]
  /\ Becomes(w, "get")
  /\ UNCHANGED <<kind, target, result, window, disk, cache, writes, clock, blurred>>

Hit(w) ==
  /\ pc[w] = "get" /\ Has(Key(w))
  /\ result' = [result EXCEPT ![w] = Get(Key(w))]
  /\ Becomes(w, "done")
  /\ UNCHANGED <<kind, target, stamp, window, disk, cache, writes, clock, blurred>>

Miss(w) ==
  /\ pc[w] = "get" /\ ~ Has(Key(w))
  /\ Becomes(w, "scan")
  /\ UNCHANGED <<kind, target, stamp, result, window, disk, cache, writes, clock, blurred>>

\* A read of a file that has gone is an error; a search of it finds nothing.
Scan(w) ==
  /\ pc[w] = "scan"
  /\ result' = [result EXCEPT ![w] = disk[target[w]].content]
  /\ Becomes(w, IF kind[w] = "read" /\ ~ Exists(target[w]) THEN "done" ELSE "put")
  /\ UNCHANGED <<kind, target, stamp, window, disk, cache, writes, clock, blurred>>

\* The result is kept although its file may have changed since; a read's key tells
\* the two apart unless they are of one tick.
PutResult(w) ==
  /\ pc[w] = "put"
  /\ cache' = Put(Evicted(cache), [key |-> Key(w), value |-> result[w]])
  /\ Becomes(w, "done")
  /\ UNCHANGED <<kind, target, stamp, result, window, disk, writes, clock, blurred>>

\* Back to a worker that does nothing.
Release(w) ==
  /\ Becomes(w, "idle")
  /\ kind' = [kind EXCEPT ![w] = "read"]
  /\ target' = [target EXCEPT ![w] = NoFile]
  /\ stamp' = [stamp EXCEPT ![w] = 0]
  /\ result' = [result EXCEPT ![w] = Absent]
  /\ window' = [window EXCEPT ![w] = {}]

Return(w) ==
  /\ pc[w] = "done"
  /\ Release(w)
  /\ UNCHANGED <<disk, cache, writes, clock, blurred>>

(***************************************************************************)
(* write_file, edit_file and the execute tool.                             *)
(***************************************************************************)

\* A key of these would not tell what a file held from what it holds at time.
Indistinct(k, m, time) == k = "search" \/ m \in {0, time}

\* A result of f on its way to the cache, or in it, under such a key.
PutUnderWay(f, time) ==
  \E w \in Workers : pc[w] = "put" /\ target[w] = f /\ Indistinct(kind[w], stamp[w], time)

Kept(f, time) ==
  \E i \in DOMAIN cache :
    cache[i].key.file = f /\ Indistinct(cache[i].key.kind, cache[i].key.stamp, time)

\* The file's content and mtime change under whoever is working on it.
Change(f, content, time) ==
  /\ disk' = [disk EXCEPT ![f] = [content |-> content, mtime |-> time]]
  /\ window' = [w \in Workers |-> IF target[w] = f THEN window[w] \cup {content}
                                                    ELSE window[w]]

\* A write the policy refuses, and an edit whose text is not there, change nothing.
WriteFile(w) ==
  /\ pc[w] = "idle"
  /\ \E f \in Files :
       /\ target' = [target EXCEPT ![w] = f]
       /\ window' = [window EXCEPT ![w] = {disk[f].content}]
  /\ kind' = [kind EXCEPT ![w] = "write"]
  /\ Becomes(w, "open")
  /\ UNCHANGED <<stamp, result, disk, cache, writes, clock, blurred>>

EditFile(w) ==
  /\ pc[w] = "idle"
  /\ \E f \in Files :
       /\ disk[f].content \notin {Absent, Torn}
       /\ target' = [target EXCEPT ![w] = f]
       /\ window' = [window EXCEPT ![w] = {disk[f].content}]
  /\ kind' = [kind EXCEPT ![w] = "write"]
  /\ Becomes(w, "open")
  /\ UNCHANGED <<stamp, result, disk, cache, writes, clock, blurred>>

Truncate(w) ==
  /\ pc[w] = "open" /\ writes < MaxWrites
  /\ Change(target[w], Torn, clock)
  /\ blurred' = (blurred \/ PutUnderWay(target[w], clock))
  /\ Becomes(w, "fill")
  /\ UNCHANGED <<kind, target, stamp, result, cache, writes, clock>>

Fill(w) ==
  /\ pc[w] = "fill" /\ writes < MaxWrites
  /\ writes' = writes + 1
  /\ Change(target[w], writes + 1, clock)
  /\ blurred' = (blurred \/ PutUnderWay(target[w], clock))
  /\ Becomes(w, "drop")
  /\ UNCHANGED <<kind, target, stamp, result, cache, clock>>

\* The error is returned, and what the cache holds of the file stays.
WriteFails(w) ==
  /\ pc[w] \in {"open", "fill"}
  /\ blurred' = (blurred \/ (pc[w] = "fill" /\ Kept(target[w], disk[target[w]].mtime)))
  /\ Release(w)
  /\ UNCHANGED <<disk, cache, writes, clock>>

Drop(w) ==
  /\ pc[w] = "drop"
  /\ \E p \in InOrder(Stays(target[w])) : cache' = [i \in DOMAIN p |-> cache[p[i]]]
  /\ Release(w)
  /\ UNCHANGED <<disk, writes, clock, blurred>>

\* A command writes or removes a file; nobody tells the cache.
CommandChanges(f) ==
  /\ writes < MaxWrites
  /\ writes' = writes + 1
  /\ \E content \in {writes + 1, Absent} : Change(f, content, clock)
  /\ blurred' = (blurred \/ PutUnderWay(f, clock) \/ Kept(f, clock))
  /\ UNCHANGED <<pc, kind, target, stamp, result, cache, clock>>

Tick ==
  /\ clock < MaxClock
  /\ clock' = clock + 1
  /\ UNCHANGED <<tool, disk, cache, writes, blurred>>

Next ==
  \/ \E w \in Workers :
       \/ Query(w) \/ Stat(w) \/ Hit(w) \/ Miss(w) \/ Scan(w) \/ PutResult(w) \/ Return(w)
       \/ WriteFile(w) \/ EditFile(w) \/ Truncate(w) \/ Fill(w) \/ WriteFails(w) \/ Drop(w)
  \/ \E f \in Files : CommandChanges(f)
  \/ Tick

Spec == Init /\ [][Next]_vars

(***************************************************************************)
(* Properties.                                                             *)
(***************************************************************************)

\* A query returns what its file held at some moment of the query, cached or not
\* and whatever is written meanwhile, unless an entry was ever put, or left by a
\* command, that its key does not tell from what the file holds by then.
QueryIsFresh ==
  \A w \in Workers : pc[w] = "done" /\ ~ blurred => result[w] \in window[w]
===============================================================================
