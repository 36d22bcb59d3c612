CONSTANTS
    Hash = {h1, h2}
    MaxNumber = 1
    MaxEpoch = 1
    MaxBallots = 2
    Persist = TRUE
    WriteMayFail = FALSE
SPECIFICATION Spec
INVARIANTS TypeOK OneVotePerTenure WalCoversVotes
PROPERTY VotesNeverGoBack
SYMMETRY HashSymmetry
