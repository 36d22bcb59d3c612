----------------------------- MODULE MCSlashing -----------------------------
(* Small instances of SlashingPipeline for TLC. *)
EXTENDS SlashingPipeline

CONSTANTS o, p, e1, e2, r1, r2

(* Two equivocations of one validator, at blocks 1 and 2. *)
MCOffenderOf == [i \in Id |-> o]
MCBlockOf == [i \in Id |-> IF i = e1 THEN 1 ELSE 2]
=============================================================================
