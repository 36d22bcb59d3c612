SPECIFICATION FairSpec
CONSTANTS
    Address <- MCAddress
    Coinbase <- MCCoinbase
    Tx <- MCTxOrder
    PeerBodies <- MCPeerBodies
    Committer = {"producer", "importer"}
    MaxPending = 3
    MaxQueued = 1
    MaxSlots = 3
    MaxNonceGap = 1
    MinTip = 1
    Intrinsic = 1
    BlockGasLimit = 4
    GenesisBaseFee = 7
    GenesisBalance = 60
    BlockReward = 1
    ProduceEmptyBlocks = FALSE
    PrunerChoices = {TRUE, FALSE}
    RetainBlocks = 1
    MayOverlap = FALSE
    MaxHeight = 2
    MaxCrashes = 1
INVARIANT CandidateInNonceOrder
