----------------------------- MODULE MC_Checker -----------------------------
(***************************************************************************)
(* Instance of Checker: two checkers are the current one and one replaced  *)
(* while it is still at work.                                              *)
(***************************************************************************)
EXTENDS Checker
=============================================================================
