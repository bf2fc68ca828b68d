------------------------------- MODULE MCHistory -------------------------------
(***************************************************************************)
(* Small instances of History.                                             *)
(***************************************************************************)
EXTENDS History
===============================================================================
