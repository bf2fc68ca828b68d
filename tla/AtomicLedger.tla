----------------------------- MODULE AtomicLedger -----------------------------
(***************************************************************************)
(* What the todo ledger promises its callers when every call is taken as   *)
(* one step: a table of rows that is written as a whole, whose rows are    *)
(* flipped one at a time, and in which the harness's own advances respect  *)
(* what a row already says.                                                *)
(***************************************************************************)
CONSTANTS Ids, None, Statuses, Terminal

VARIABLE rows   \* id -> status, None for an id without a row

Tables == [Ids -> Statuses \cup {None}]
Empty  == [i \in Ids |-> None]

Init == rows = Empty

\* write_todos: only while no row is terminal, and never with an empty list.
Write ==
  /\ \A i \in Ids : rows[i] \notin Terminal
  /\ rows' \in Tables \ {Empty}

\* update_todo: any row, any status but the harness's own.
Update ==
  \E i \in Ids, s \in Statuses \ {"verify_failed"} :
    /\ rows[i] # None
    /\ rows' = [rows EXCEPT ![i] = s]

\* auto-advance: a row that is there, is not there yet, and is not completed.
Advance ==
  \E i \in Ids, s \in {"in_progress", "completed", "verify_failed"} :
    /\ rows[i] \notin {None, s, "completed"}
    /\ rows' = [rows EXCEPT ![i] = s]

Clear == rows' = Empty

Next == Write \/ Update \/ Advance \/ Clear
Spec == Init /\ [][Next]_rows
=============================================================================
