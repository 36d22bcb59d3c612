SPECIFICATION FairSpec
CONSTANTS
    Address <- MCAddress
    Coinbase <- MCCoinbase
    Tx <- MCTx
    PeerBodies <- MCPeerBodies
    Committer = {"producer", "importer"}
    MaxPending = 2
    MaxQueued = 1
    MaxSlots = 2
    MaxNonceGap = 1
    MinTip = 1
    Intrinsic = 1
    BlockGasLimit = 4
    GenesisBaseFee = 7
    GenesisBalance = 60
    BlockReward = 1
    ProduceEmptyBlocks = FALSE
    PrunerChoices = {TRUE, FALSE}
    RetainBlocks = 1
    MayOverlap = TRUE
    MaxHeight = 2
    MaxCrashes = 1
PROPERTY ParentIsHead
