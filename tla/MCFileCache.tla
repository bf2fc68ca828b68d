------------------------------ MODULE MCFileCache ------------------------------
(***************************************************************************)
(* Small instances of FileCache.                                           *)
(***************************************************************************)
EXTENDS FileCache, TLC

\* Workers are told apart by nothing but their names.
Symmetry == Permutations(Workers)
===============================================================================
