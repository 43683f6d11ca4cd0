--------------------------- MODULE MC_Descriptors ---------------------------
(* An instance of Descriptors for TLC. *)
EXTENDS Descriptors, TLC

\* Devices are only compared with one another.
Symmetry == Permutations(Devices)
=============================================================================
