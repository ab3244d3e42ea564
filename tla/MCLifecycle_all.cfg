CONSTANTS
    app = app
    dial = dial
    found = found
    incoming = incoming
    Callers = {app}
    Dials = {}
    Found = {found}
    Incoming = {incoming}
    Host = Host
    Nobody = Nobody
    MaxSessions = 2
SPECIFICATION Spec
CHECK_DEADLOCK FALSE
INVARIANTS
    ChokingFollowsState
    ListedIsAlive
    LeftIsQuiet
