SPECIFICATION FairFeedSpec
CONSTANTS
    s1 = s1
    s2 = s2
    Sessions = {s1, s2}
    Open = {s1}
    Room = 1
    MaxPieces = 1
    MaxMessages = 2
    MaxHeld = 1
    MaxLinks = 1
    Events = {"loss"}
INVARIANTS
    FeedIsSound
PROPERTIES
    FeedInOrder
    StalledIsClosed
\* The bounds run out: no more turns, pieces or redials.
CHECK_DEADLOCK FALSE
