CONSTANTS
    n1 = n1
    n2 = n2
    Nodes = {n1, n2}
    Configured <- Pioneer
    StakeOrder <- MCStakeOrder
    Draw <- MCDraw
    GenesisSeeds <- RealSeed
    StakingTxs = {FALSE, TRUE}
    EpochLength = 2
    MaxBlockRange = 2
    VoteChanCap = 3
    MaxHeight = 3
    MaxRound = 2
    MaxEvents = 1
SPECIFICATION Spec
INVARIANT SameBlocks
