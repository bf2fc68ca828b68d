----------------------------- MODULE MCMemoryCache -----------------------------
(***************************************************************************)
(* Small instances of MemoryCache.                                         *)
(***************************************************************************)
EXTENDS MemoryCache, TLC

\* Sessions and topics are told apart by nothing but their names.
Symmetry == Permutations(Sessions) \cup Permutations(Topics)
===============================================================================
