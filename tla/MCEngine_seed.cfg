CONSTANTS
    a = a
    b = b
    c = c
    None = None
    Peers = {a, b}
    PieceCount = 3
    Blocks = {1}
    Traits <- SeedAndFlaky
    MaxAvail = 2
SPECIFICATION FairSpec
PROPERTIES
    TransferCompletes
    WaitersEventuallyReleased
