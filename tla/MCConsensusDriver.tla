------------------------- MODULE MCConsensusDriver -------------------------
(* Small instances of ConsensusDriver for TLC. *)
EXTENDS ConsensusDriver, TLC

CONSTANTS n1, n2

(* n1 is alone in its configuration; n2 knows n1 and itself. *)
Pioneer == (n1 :> <<n1>>) @@ (n2 :> <<n2, n1>>)

(* Both configure both, each itself first. *)
Pair == (n1 :> <<n1, n2>>) @@ (n2 :> <<n2, n1>>)

MCStakeOrder == <<n1, n2>>
MCDraw(seed, round) == Len(seed) + round

MCGenesis == [number |-> 0, coinbase |-> n1]
SomeSeeds == {ZeroSeed, <<MCGenesis>>}
RealSeed == {<<MCGenesis>>}
=============================================================================
