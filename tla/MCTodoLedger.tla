----------------------------- MODULE MCTodoLedger -----------------------------
(***************************************************************************)
(* Small instances of TodoLedger.                                          *)
(***************************************************************************)
EXTENDS TodoLedger

R(i, s) == [id |-> i, status |-> s]

\* A plan of two rows, a plan that names one id twice with other statuses and
\* a third id in between, and a list that carries statuses of an earlier turn.
MCTodoLists ==
  LET Pairs == {<<i, j>> \in Ids \X Ids : i # j} IN
  {<<R(p[1], "pending"), R(p[2], "pending")>> : p \in Pairs}
    \cup {<<R(p[1], "pending"), R(p[2], "in_progress"), R(p[1], "completed")>> : p \in Pairs}
    \cup {<<R(i, "verify_failed")>> : i \in Ids}
=============================================================================
