CONSTANTS
    n1 = n1
    n2 = n2
    Nodes = {n1, n2}
    Configured <- Pair
    StakeOrder <- MCStakeOrder
    Draw <- MCDraw
    GenesisSeeds <- RealSeed
    StakingTxs = {FALSE}
    EpochLength = 2
    MaxBlockRange = 2
    VoteChanCap = 3
    MaxHeight = 2
    MaxRound = 3
    MaxEvents = 0
SPECIFICATION Spec
INVARIANT LeaderAgreed
