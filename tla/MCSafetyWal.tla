---------------------------- MODULE MCSafetyWal ----------------------------
(* The validator's voting rules over restarts, for TLC. *)
EXTENDS SafetyWal, TLC

HashSymmetry == Permutations(Hash)
=============================================================================
