----------------------------- MODULE MCHitlStream -----------------------------
(***************************************************************************)
(* Small instances of HitlStream.                                          *)
(***************************************************************************)
EXTENDS HitlStream
===============================================================================
