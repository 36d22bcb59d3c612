CONSTANTS
    o = o
    p = p
    e1 = e1
    e2 = e2
    r1 = r1
    r2 = r2
    Validators = {o, p}
    Reporters = {r1, r2}
    Id = {e1, e2}
    OffenderOf <- MCOffenderOf
    BlockOf <- MCBlockOf
    MinStake = 40
    SlashBps = 500
    Window = 1
    EpochLength = 2
    MaxHeight = 6
    MaxIngest = 2
    MaxImports = 1
    MaxCrashes = 2
SPECIFICATION FairSpec
INVARIANTS TypeOK DebitedAtMostOnce BurntOnlyAfterWindow RegistryIsOnDisk AppealBondKept
PROPERTIES Lifecycle PendingIsResolved
