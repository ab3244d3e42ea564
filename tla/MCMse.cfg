CONSTANTS
    Hashes = {h1, h2}
    Initiators = {"aiobt", "foreign"}
SPECIFICATION FairSpec
CHECK_DEADLOCK FALSE
INVARIANTS
    TypeOK
PROPERTIES
    Implements
    EveryAttemptEnds
    CompatibleConnects
