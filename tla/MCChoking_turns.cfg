CONSTANTS
    a = a
    b = b
    c = c
    None = None
    Conns = {a, b, c}
    AddrOf <- OwnAddress
    Traits <- Mixed
    MaxUnchoked = 1
    OptimisticEvery = 2
    MaxBytes = 0
    MayStop = FALSE
SPECIFICATION FairSpec
INVARIANTS
    SlotBound
PROPERTIES
    InterestedGetTurns
    UninterestedYield
    ChangesAreSeen
