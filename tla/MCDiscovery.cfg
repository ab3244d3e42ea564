CONSTANTS
    n1 = n1
    n2 = n2
    Nodes = {n1, n2}
    Listeners = {n1}
    Busy = {n1, n2}
    Hashes = {1, 2}
    Library <- Library1
    MaxBatch = 1
    QueueSize = 1
    MaxFound = 2
SPECIFICATION FairSpec
INVARIANTS
    TypeOK
PROPERTIES
    RoundsTellWhatIsHere
    SharersConnect
