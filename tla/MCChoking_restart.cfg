CONSTANTS
    a = a
    b = b
    c = c
    None = None
    Conns = {a, b}
    AddrOf <- OwnAddress
    Traits <- Busy
    MaxUnchoked = 1
    OptimisticEvery = 2
    MaxBytes = 1
    MayStop = TRUE
SPECIFICATION Spec
SYMMETRY Symmetric
INVARIANTS
    TypeOK
    OptimisticIsRegistered
PROPERTIES
    RoundIsApplied
