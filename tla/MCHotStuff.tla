----------------------------- MODULE MCHotStuff -----------------------------
(* Small instances of HotStuff for TLC. *)
EXTENDS HotStuff, TLC

CONSTANTS a1, a2, b1, b2, v1, v2, v3, bz, Genesis

(* a1, a2: two blocks of height 1; b1, b2: blocks of height 2 on a1 / a2. *)
MCBlockNumber == [h \in Hash |-> IF h \in {a1, a2} THEN 1 ELSE 2]
MCBlockEpoch == [h \in Hash |-> 0]
MCBlockParent == [h \in Hash |-> CASE h = b1 -> a1 [] h = b2 -> a2 [] OTHER -> Genesis]

(* Every block offered is by the leader of its height. *)
MCCoinbase == [h \in Hash |-> v1]
MCProposerOf(n) == v1

(* Everything the faulty validators can usefully sign. *)
AllByzData ==
    {d \in [hash : Hash, number : {1, 2}, phase : Phase, epoch : {0, 1}] :
        /\ d.number = MCBlockNumber[d.hash]
        /\ d.epoch = IF d.phase = Prepare THEN 0 ELSE 1}

ByzPrepare == {d \in AllByzData : d.phase = Prepare}

(* Where Hash = {a1, a2}: the two blocks differ in nothing but the hash. *)
ForkSymmetry == Permutations(Live) \cup Permutations(Hash)
=============================================================================
