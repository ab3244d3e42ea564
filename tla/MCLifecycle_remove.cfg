CONSTANTS
    app = app
    dial = dial
    found = found
    incoming = incoming
    Callers = {app}
    Dials = {dial}
    Found = {}
    Incoming = {incoming}
    Host = Host
    Nobody = Nobody
    MaxSessions = 1
SPECIFICATION FairSpec
CHECK_DEADLOCK FALSE
PROPERTIES
    RemovalIsSignalled
