CONSTANTS
    t1 = t1
    t2 = t2
    Tasks = {t1, t2}
    NoTask = NoTask
    Saves = {1, 2}
    MaxJobs = 2
    PieceLength = 2
    Layouts <- MCLayouts
SPECIFICATION Spec
INVARIANTS
    TypeOK
    HeldIsStored
    SavedIsFound
SYMMETRY TaskSymmetry
