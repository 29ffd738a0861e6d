SPECIFICATION FairSpec
CONSTANTS
    m1 = m1
    m2 = m2
    None = None
    Msgs = {m1, m2}
    FollowUps = {m2}
    ReportFirst = TRUE
    MaxCopies = 3
    MaxEvents = 2
INVARIANTS
    MessagesAreSound
    NothingVanishes
PROPERTIES
    EverythingSettles
\* Nothing is left to do when every message is settled.
CHECK_DEADLOCK FALSE
