---------------------------- MODULE MCShellReaper ----------------------------
(***************************************************************************)
(* Small instances of ShellReaper.                                         *)
(***************************************************************************)
EXTENDS ShellReaper
===============================================================================
