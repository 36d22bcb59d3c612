CONSTANTS
    a1 = a1
    a2 = a2
    b1 = b1
    b2 = b2
    v1 = v1
    v2 = v2
    v3 = v3
    bz = bz
    Genesis = Genesis
    Hash = {a1, a2}
    Validators = {v1, v2, v3, bz}
    Byzantine = {bz}
    Live = {v1, v2, v3}
    ByzData <- ByzPrepare
    BlockNumber <- MCBlockNumber
    BlockEpoch <- MCBlockEpoch
    BlockParent <- MCBlockParent
    Coinbase <- MCCoinbase
    ProposerOf <- MCProposerOf
    StoreCapacity = 2
    MaxParent = 0
    MaxRound = 0
    MaxRestarts = 0
    Persist = TRUE
SPECIFICATION Spec
INVARIANT QuorumFormsQc
