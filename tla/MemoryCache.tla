------------------------------ MODULE MemoryCache ------------------------------
(***************************************************************************)
(* The long-term memory (MemoryMiddleware): extract_and_store writes what  *)
(* a turn taught, inject puts the user, project and domain memories into   *)
(* the prompt through caches that all sessions of the process share, and   *)
(* _dirty tells the next inject that the store has moved on.               *)
(*                                                                         *)
(* A list of memories is the project it was read for, how many writes the  *)
(* store held then and how many of them it shows.  Every await ends a      *)
(* step, and a client that goes away may cancel its turn at any of them;   *)
(* the store is read in a thread, and what it read is put into the cache   *)
(* in a later step.  The store and the LLM that extracts are external.     *)
(***************************************************************************)
EXTENDS Naturals, Sequences, FiniteSets

CONSTANTS Sessions,
          Projects,
          Topics,      \* user texts, alike or not
          NoTopic,     \* _last_domain_query = ""
          Unread,      \* nothing cached, or nothing read yet
          MaxWrites,   \* bound: records in the store
          MaxRecords,  \* bound: records one extraction yields
          MaxFaults    \* bound: store calls that fail

Tiers == {"user", "project", "domain"}

ASSUME CacheAssumption == /\ NoTopic \notin Topics
                          /\ Projects \cap Tiers = {}
ASSUME SessionsAssumption == IsFiniteSet(Sessions)
ASSUME MemoryBounds    == MaxWrites \in Nat /\ MaxRecords \in Nat /\ MaxFaults \in Nat

VARIABLES
  pc,        \* per session: where its turn stands
  project,   \* per session: project_id
  topic,     \* per session: its last user text
  records,   \* per session: the tiers of the records still to be written
  upcoming,  \* per session: where the extraction leads, to "inject" or "idle"
  wrote,     \* per session and tier: what its opening extraction left in the store
  read,      \* per session: the list its thread has read
  block,     \* per session and tier: what the prompt will show
  store,     \* per tier and project: how many records have been written
  cache,     \* _user_cache, _domain_cache and _project_cache
  lastTopic, \* _last_domain_query
  dirty,     \* _dirty
  faults,    \* how many store calls have failed
  overtaken, \* a list was older than the store when it was put into a cache
  cut        \* a turn was cancelled while its extraction stored

turn    == <<pc, project, topic, records, upcoming, wrote, read, block>>
caches  == <<cache, lastTopic, dirty>>
history == <<faults, overtaken, cut>>
vars    == <<pc, project, topic, records, upcoming, wrote, read, block, store,
             cache, lastTopic, dirty, faults, overtaken, cut>>

\* The tiers whose cache has one slot whatever the project is.
SharedSlots == {"user", "domain"}
Slots == SharedSlots \cup Projects

Slot(tier, p) == IF tier \in SharedSlots THEN tier ELSE p

Lists == [of : Projects, version : 0 .. MaxWrites, hits : 0 .. MaxWrites]

ASSUME UnreadAssumption == Unread \notin Lists

TypeOK ==
  /\ pc \in [Sessions -> {"idle", "extract", "store", "inject"} \cup Tiers \cup {"answer"}]
  /\ project \in [Sessions -> Projects]
  /\ topic \in [Sessions -> Topics \cup {NoTopic}]
  /\ records \in [Sessions -> Seq(Tiers)]
  /\ upcoming \in [Sessions -> {"inject", "idle"}]
  /\ wrote \in [Sessions -> [Tiers -> 0 .. MaxWrites]]
  /\ read \in [Sessions -> Lists \cup {Unread}]
  /\ block \in [Sessions -> [Tiers -> Lists \cup {Unread}]]
  /\ store \in [Tiers -> [Projects -> 0 .. MaxWrites]]
  /\ cache \in [Slots -> Lists \cup {Unread}]
  /\ lastTopic \in Topics \cup {NoTopic}
  /\ dirty \in BOOLEAN
  /\ faults \in 0 .. MaxFaults
  /\ overtaken \in BOOLEAN
  /\ cut \in BOOLEAN

NoBlock == [tier \in Tiers |-> Unread]
NoWrites == [tier \in Tiers |-> 0]

Init ==
  /\ pc = [s \in Sessions |-> "idle"]
  /\ project \in [Sessions -> Projects]
  /\ topic = [s \in Sessions |-> NoTopic]
  /\ records = [s \in Sessions |-> <<>>]
  /\ upcoming = [s \in Sessions |-> "idle"]
  /\ wrote = [s \in Sessions |-> NoWrites]
  /\ read = [s \in Sessions |-> Unread]
  /\ block = [s \in Sessions |-> NoBlock]
  /\ store = [tier \in Tiers |-> [p \in Projects |-> 0]]
  /\ cache = [x \in Slots |-> Unread]
  /\ lastTopic = NoTopic /\ dirty = FALSE
  /\ faults = 0 /\ overtaken = FALSE /\ cut = FALSE

(***************************************************************************)
(* extract_and_store.                                                      *)
(***************************************************************************)

\* A thread's first message is extracted from before memories are injected,
\* later ones are not.
StartTurn(s) ==
  /\ pc[s] = "idle"
  /\ \E t \in Topics : topic' = [topic EXCEPT ![s] = t]
  /\ pc' = [pc EXCEPT ![s] = "extract"] \/ pc' = [pc EXCEPT ![s] = "inject"]
  /\ upcoming' = [upcoming EXCEPT ![s] = "inject"]
  /\ UNCHANGED <<project, records, wrote, read, block, store, caches, history>>

\* The turn ends with an extraction, or by safe_stop without one.
EndTurn(s) ==
  /\ pc[s] = "answer"
  /\ pc' = [pc EXCEPT ![s] = "extract"] \/ pc' = [pc EXCEPT ![s] = "idle"]
  /\ upcoming' = [upcoming EXCEPT ![s] = "idle"]
  /\ wrote' = [wrote EXCEPT ![s] = NoWrites]
  /\ block' = [block EXCEPT ![s] = NoBlock]
  /\ topic' = [topic EXCEPT ![s] = NoTopic]
  /\ UNCHANGED <<project, records, read, store, caches, history>>

\* What sessions of p have still to write to a tier, r being the records by session.
Planned(r, tier, p) ==
  {x \in Sessions \X (1 .. MaxRecords) :
     project[x[1]] = p /\ x[2] \in DOMAIN r[x[1]] /\ r[x[1]][x[2]] = tier}

\* Bound: what is written and what is still to be written.
WithinBound(tier, p) ==
  store[tier][p] + Cardinality(Planned(records', tier, p)) <= MaxWrites

\* The LLM names new records, or none; a reply that does not parse names none.
Extract(s) ==
  /\ pc[s] = "extract"
  /\ \E n \in 0 .. MaxRecords : \E r \in [1 .. n -> Tiers] :
       records' = [records EXCEPT ![s] = r]
  /\ \A tier \in Tiers : WithinBound(tier, project[s])
  /\ pc' = [pc EXCEPT ![s] = IF records'[s] = <<>> THEN upcoming[s] ELSE "store"]
  /\ UNCHANGED <<project, topic, upcoming, wrote, read, block, store, caches, history>>

Write(s) ==
  LET tier == Head(records[s])
  IN store' = [store EXCEPT ![tier][project[s]] = @ + 1]

\* Where the extraction leads; one that opens a turn is remembered.
LeaveExtraction(s) ==
  /\ pc' = [pc EXCEPT ![s] = upcoming[s]]
  /\ records' = [records EXCEPT ![s] = <<>>]
  /\ UNCHANGED <<project, topic, upcoming, read, block>>

\* Fault: only the extraction that ends a turn raises the flag.
StoreRecordFinalOnly(s) ==
  /\ pc[s] = "store"
  /\ Write(s)
  /\ IF Len(records[s]) = 1
       THEN /\ LeaveExtraction(s)
            /\ dirty' = (dirty \/ upcoming[s] = "idle")
            /\ wrote' = IF upcoming[s] = "inject"
                        THEN [wrote EXCEPT ![s] = [tier \in Tiers |-> store'[tier][project[s]]]]
                        ELSE wrote
       ELSE /\ records' = [records EXCEPT ![s] = Tail(@)]
            /\ UNCHANGED <<pc, project, topic, upcoming, wrote, read, block, dirty>>
  /\ UNCHANGED <<cache, lastTopic, history>>

\* One record after the other; the flag is raised when all are written.
StoreRecord(s) ==
  /\ pc[s] = "store"
  /\ Write(s)
  /\ IF Len(records[s]) = 1
       THEN /\ LeaveExtraction(s)
            /\ dirty' = TRUE
            /\ wrote' = IF upcoming[s] = "inject"
                        THEN [wrote EXCEPT ![s] = [tier \in Tiers |-> store'[tier][project[s]]]]
                        ELSE wrote
       ELSE /\ records' = [records EXCEPT ![s] = Tail(@)]
            /\ UNCHANGED <<pc, project, topic, upcoming, wrote, read, block, dirty>>
  /\ UNCHANGED <<cache, lastTopic, history>>

\* A write raises: the rest is dropped, and the flag stays as it was.
StoreFails(s) ==
  /\ pc[s] = "store" /\ faults < MaxFaults
  /\ faults' = faults + 1
  /\ LeaveExtraction(s)
  /\ UNCHANGED <<wrote, store, caches, overtaken, cut>>

(***************************************************************************)
(* inject.                                                                 *)
(***************************************************************************)

\* The caches are looked up tier by tier; what is there goes into the block at
\* once, the first tier that is not is read.
Hit(tier, s, kept, last) ==
  /\ kept[Slot(tier, project[s])] # Unread
  /\ tier = "domain" => last = topic[s]

Shown(tier, s, kept) == kept[Slot(tier, project[s])]

\* From tier on, with the caches as they now are.
LookUp(tiers, s, kept, last, b) ==
  LET missing == {i \in DOMAIN tiers : ~ Hit(tiers[i], s, kept, last)}
      first   == IF missing = {} THEN Len(tiers) + 1
                 ELSE CHOOSE i \in missing : \A j \in missing : i <= j
      found   == {tiers[i] : i \in 1 .. (first - 1)}
  IN /\ pc' = [pc EXCEPT ![s] = IF missing = {} THEN "answer" ELSE tiers[first]]
     /\ block' = [block EXCEPT ![s] =
                    [tier \in Tiers |-> IF tier \in found THEN Shown(tier, s, kept)
                                                          ELSE b[tier]]]

\* Fault: the user cache is not cleared.
ClearedUserless(p) == [x \in Slots |-> IF x \in {"domain", p} THEN Unread ELSE cache[x]]

\* _dirty clears the shared caches and this project's.
Cleared(p) == [x \in Slots |-> IF x \in SharedSlots \cup {p} THEN Unread ELSE cache[x]]

Inject(s) ==
  /\ pc[s] = "inject"
  /\ cache' = IF dirty THEN Cleared(project[s]) ELSE cache
  /\ lastTopic' = IF dirty THEN NoTopic ELSE lastTopic
  /\ dirty' = FALSE
  /\ LookUp(<<"user", "project", "domain">>, s, cache', lastTopic', NoBlock)
  /\ UNCHANGED <<project, topic, records, upcoming, wrote, read, store, history>>

\* How many of n writes a read may show: the user and project tiers are listed, the
\* domain tier is searched for the user's text.
ListLimit == 200
SearchLimit == 10

Found(tier, n) ==
  IF tier = "domain" THEN {h \in 0 .. n : h <= SearchLimit}
                     ELSE {IF n <= ListLimit THEN n ELSE ListLimit}

\* The thread reads the tier's memories of this project ...
ThreadReads(s) ==
  /\ pc[s] \in Tiers /\ read[s] = Unread
  /\ LET n == store[pc[s]][project[s]]
     IN \E h \in Found(pc[s], n) :
          read' = [read EXCEPT ![s] = [of |-> project[s], version |-> n, hits |-> h]]
  /\ UNCHANGED <<pc, project, topic, records, upcoming, wrote, block, store, caches, history>>

\* Fault: a failed read yields no list.
ThreadFailsBare(s) ==
  /\ pc[s] \in Tiers /\ read[s] = Unread /\ faults < MaxFaults
  /\ faults' = faults + 1
  /\ read' = [read EXCEPT ![s] = <<>>]
  /\ UNCHANGED <<pc, project, topic, records, upcoming, wrote, block, store, caches, overtaken, cut>>

\* ... or fails, which is taken for an empty list.
ThreadFails(s) ==
  /\ pc[s] \in Tiers /\ read[s] = Unread /\ faults < MaxFaults
  /\ faults' = faults + 1
  /\ read' = [read EXCEPT ![s] = [of |-> project[s], version |-> 0, hits |-> 0]]
  /\ UNCHANGED <<pc, project, topic, records, upcoming, wrote, block, store, caches, overtaken, cut>>

After(tier) == CASE tier = "user"    -> <<"project", "domain">>
                 [] tier = "project" -> <<"domain">>
                 [] tier = "domain"  -> <<>>

\* Back on the event loop: the list is cached and shown, the look-up goes on.
Cache(s) ==
  LET tier == pc[s]
  IN /\ tier \in Tiers /\ read[s] # Unread
     /\ cache' = [cache EXCEPT ![Slot(tier, project[s])] = read[s]]
     /\ lastTopic' = IF tier = "domain" THEN topic[s] ELSE lastTopic
     /\ overtaken' = (overtaken \/ read[s].version # store[tier][project[s]])
     /\ LookUp(After(tier), s, cache', lastTopic', [block[s] EXCEPT ![tier] = read[s]])
     /\ read' = [read EXCEPT ![s] = Unread]
     /\ UNCHANGED <<project, topic, records, upcoming, wrote, store, dirty, faults, cut>>

(***************************************************************************)
(* The client goes away.                                                   *)
(***************************************************************************)

\* The turn is cancelled where it waits, and no handler runs: CancelledError is no
\* Exception.  Of the records still to be written none is, or the one whose write
\* is under way; _dirty stays as it was.
Abandon(s) ==
  /\ pc[s] # "idle"
  /\ pc' = [pc EXCEPT ![s] = "idle"]
  /\ upcoming' = [upcoming EXCEPT ![s] = "idle"]
  /\ records' = [records EXCEPT ![s] = <<>>]
  /\ wrote' = [wrote EXCEPT ![s] = NoWrites]
  /\ read' = [read EXCEPT ![s] = Unread]
  /\ block' = [block EXCEPT ![s] = NoBlock]
  /\ topic' = [topic EXCEPT ![s] = NoTopic]
  /\ UNCHANGED store \/ (pc[s] = "store" /\ Write(s))
  /\ cut' = (cut \/ pc[s] = "store")
  /\ UNCHANGED <<project, caches, faults, overtaken>>

Next ==
  \E s \in Sessions :
    \/ StartTurn(s) \/ EndTurn(s)
    \/ Extract(s) \/ StoreRecord(s) \/ StoreFails(s)
    \/ Inject(s) \/ ThreadReads(s) \/ ThreadFails(s) \/ Cache(s)
    \/ Abandon(s)

Spec == Init /\ [][Next]_vars

(***************************************************************************)
(* Properties.                                                             *)
(***************************************************************************)

\* No store call has failed, no list was overtaken by a write on its way to the
\* cache and no extraction was cancelled while it stored: the three ways a cache goes
\* stale without a sign.
Undisturbed == faults = 0 /\ ~ overtaken /\ ~ cut

\* A cached list holds what the store holds, or _dirty says that it does not, or the
\* extraction that will say so is still writing.
Accounted(tier, p) ==
  LET list == cache[Slot(tier, p)]
  IN list # Unread /\ list.of = p
       => \/ list.version = store[tier][p]
          \/ dirty
          \/ \E s \in Sessions : pc[s] = "store" /\ project[s] = p

\* While nothing of the three has happened, every cache is accounted for, through
\* turns that end, turns that are given up before they store, and writes of several
\* sessions between a read and its caching.
StaleIsMarked ==
  Undisturbed => \A tier \in Tiers : \A p \in Projects : Accounted(tier, p)

\* _dirty's comment: set True after extract_and_store.  A client that goes away
\* between two writes is enough to leave records stored and the flag down.
StoredIsMarked ==
  faults = 0 /\ ~ overtaken => \A tier \in Tiers : \A p \in Projects : Accounted(tier, p)

\* While nothing of the three has happened, a turn is shown all the user and project
\* memories its own opening extraction stored, and its domain search was made on a
\* store that held them, whatever the other sessions did to the shared caches.
TurnSeesItsExtraction ==
  Undisturbed =>
    \A s \in Sessions : pc[s] = "answer" =>
      \A tier \in Tiers :
        /\ block[s][tier].version >= wrote[s][tier]
        /\ tier # "domain" => block[s][tier].hits >= wrote[s][tier]

\* inject's docstring: every tier is isolated by project_id.
ShowsOwnProject ==
  \A s \in Sessions : pc[s] = "answer" =>
    \A tier \in Tiers : block[s][tier].hits > 0 => block[s][tier].of = project[s]
===============================================================================
