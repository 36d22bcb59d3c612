CONSTANTS
    n1 = n1
    n2 = n2
    Nodes = {n1, n2}
    Configured <- Pioneer
    StakeOrder <- MCStakeOrder
    Draw <- MCDraw
    GenesisSeeds <- SomeSeeds
    StakingTxs = {FALSE}
    EpochLength = 2
    MaxBlockRange = 2
    VoteChanCap = 2
    MaxHeight = 4
    MaxRound = 2
    MaxEvents = 2
SPECIFICATION FairSpec
INVARIANTS OneChain SeedsVerify DecidedReachesDisk
PROPERTIES KeepsCommitting FetchesRange
