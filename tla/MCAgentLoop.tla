----------------------------- MODULE MCAgentLoop -----------------------------
(***************************************************************************)
(* AgentLoop with the plans and the replies the runs use.                  *)
(***************************************************************************)
EXTENDS AgentLoop

MCPlans == {[open |-> 2, done |-> 0, failed |-> 0]}
SmallPlans == {[open |-> 1, done |-> 0, failed |-> 0]}

\* Text, reading, planning, direct and classified work.
MCReplies == {{}, {"read"}, {"planner"}, {"coder"}, {"auto_coder"}}
WorkReplies == {{}, {"planner"}, {"coder"}}
=============================================================================
