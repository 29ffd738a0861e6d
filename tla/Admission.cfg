SPECIFICATION FairServer
CONSTANTS
    remote = remote
    local = local
    Sockets <- MCSockets
    Sends <- MCSends
    Local = {local}
    MaxFrames = 2
    MaxUnauthenticated = 1
    MaxInFlight = 1
    MaxPerWindow = 1
    MaxLogins = 1
INVARIANTS
    ServerIsSound
PROPERTIES
    NobodyCutOff
    NobodyLingers
\* A server may be stopped, and every socket used up.
CHECK_DEADLOCK FALSE
