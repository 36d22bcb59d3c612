------------------------------ MODULE Finality ------------------------------
(***************************************************************************)
(* What the consensus promises its users: the finalised blocks form a set  *)
(* that only grows and never holds two different blocks of one height      *)
(* (docs/ARCHITECTURE.md, "DECIDE -- block final").                        *)
(***************************************************************************)
EXTENDS Naturals

CONSTANTS Hash, BlockNumber

VARIABLE final

Init == final = {}

Finalise(h) ==
    /\ \A g \in final : BlockNumber[g] # BlockNumber[h]
    /\ final' = final \cup {h}

Next == \E h \in Hash : Finalise(h)

Spec == Init /\ [][Next]_final
=============================================================================
