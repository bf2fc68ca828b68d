------------------------------ MODULE MCTaskTool ------------------------------
(***************************************************************************)
(* Small instances of TaskTool.                                            *)
(***************************************************************************)
EXTENDS TaskTool, TLC

CONSTANT LongIds   \* the ids that read as one of the others when cut (TASK-12: TASK-1)

\* The planner registers the other tasks as pending, in some order: which is of no
\* interest.  The long ids stand for tasks delegated outside the plan.
MCTodoLists ==
  LET Planned == Ids \ LongIds
  IN {CHOOSE s \in [1 .. Cardinality(Planned) -> [id : Planned, status : {"pending"}]] :
        {s[k].id : k \in DOMAIN s} = Planned}

MCClipped == [i \in Ids |-> IF i \in LongIds THEN Ids \ LongIds ELSE {}]

\* Threads are interchangeable.
ThreadSymmetry == Permutations(Workers)
=============================================================================
