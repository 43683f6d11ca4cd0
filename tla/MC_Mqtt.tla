------------------------------ MODULE MC_Mqtt -------------------------------
(***************************************************************************)
(* Instances of Mqtt: three client instances are one in use and two whose  *)
(* threads have not ended.                                                 *)
(***************************************************************************)
EXTENDS Mqtt
=============================================================================
