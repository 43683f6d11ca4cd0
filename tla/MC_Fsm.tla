------------------------------- MODULE MC_Fsm -------------------------------
(* Instances of Fsm for TLC. *)
EXTENDS Fsm
=============================================================================
