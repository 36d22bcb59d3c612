CONSTANTS
    v1 = v1
    v2 = v2
    d1 = d1
    d2 = d2
    evm = evm
    Configured = {v1}
    Candidate = {v2}
    Delegator = {d1, d2}
    Rank <- MCRank
    Module = {evm}
    Menus <- MCMenus
    Funds = 4
    MinSelfStake = 4
    CommissionBps = 2000
    MaxValidators = 2
    UnbondingPeriod = 1
    RewardInterval = 3
    IntervalMint = 20
    BlockReward = 1
    EpochLength = 2
    SlashWei = 1
    Outcomes = {"Jailed"}
    ReporterReward = 0
    MaxHeight = 6
    MaxCalls = 4
    MaxPerBlock = 2
    MaxSlashes = 1
    MaxCrashes = 1
SPECIFICATION Spec
INVARIANTS TypeOK EscrowSolvent LedgerMatchesAggregate NoInflation ExecutedInEffect
PROPERTIES JailHolds OverdueExecuted
SYMMETRY DelegatorSymmetry
