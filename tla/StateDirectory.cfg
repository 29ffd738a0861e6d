SPECIFICATION MCSpec
CONSTANTS
    u1 = u1
    u2 = u2
    Uids = {u1, u2}
    None = None
    Writers = {"presence", "offers"}
    MaxSignIns = 2
    MaxRestarts = 1
    Hosts = {"host"}
    Peers = {"host", "other"}
    Ids = {"s1", "s2"}
    MaxLoads = 3
INVARIANTS
    OwnerIsSound
    StateIsSound
    FirstKeepsItsSocket
PROPERTIES
    SignInSettles
    RemovalIsSound
\* The bounds run out: no more loads.
CHECK_DEADLOCK FALSE
