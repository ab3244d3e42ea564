CONSTANTS
    a = a
    b = b
    c = c
    None = None
    Peers = {a, b, c}
    PieceCount = 2
    Blocks = {1}
    Traits <- Failing
    MaxAvail = 3
SPECIFICATION Spec
SYMMETRY Symmetric
INVARIANTS
    DuplicateOnlyInEndgame
    UnpendingIsShared
    EndgameCovers
    RequestsRecorded
    CancelReachesEveryDuplicate
    AvailabilityExact
    IdleHasNothingToOffer
