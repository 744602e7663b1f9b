---------------------------- MODULE MCUtilFiles ----------------------------
(***************************************************************************)
(* An instance of UtilFiles for TLC: every tree of two names and a given   *)
(* depth.                                                                  *)
(***************************************************************************)
EXTENDS UtilFiles
=============================================================================
