CONSTANTS
    h1 = h1
    h2 = h2
    u = u
    w = w
    Calls = {c1, c2}
    Urls = {h1, h2, u, w}
    Scheme <- Scheme1
    AnnounceList <- List
    AnnounceUrl <- NoUrl
    Moods <- Moods1
    Tids = {1, 2}
    Retries = 1
SPECIFICATION FairSpec
INVARIANTS
    TypeOK
    AllTriedBeforeFailing
    PromotionLasts
PROPERTIES
    CallsSucceed
