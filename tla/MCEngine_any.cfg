CONSTANTS
    a = a
    b = b
    c = c
    None = None
    Peers = {a, b}
    PieceCount = 2
    Blocks = {1, 2}
    Traits <- AnyPeer
    MaxAvail = 3
SPECIFICATION Spec
SYMMETRY Symmetric
INVARIANTS
    TypeOK
    AdvertisedIsHeld
    ChokedIsIdle
    AvailabilityNeverUnder
PROPERTIES
    Implements
