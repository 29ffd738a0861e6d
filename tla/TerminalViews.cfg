SPECIFICATION ViewsSpec
CONSTANTS
    s1 = s1
    s2 = s2
    h = h
    none = none
    Sessions = {s1, s2}
    Host = h
    NoOne = none
    MaxObjects = 2
    MaxMessages = 2
    MaxPanes = 2
    MaxCommands = 1
    MaxRewrites = 1
    MaxElsewhere = 1
INVARIANTS ViewsAreSound
PROPERTIES NoticeStays ListActsOnItsRow
SYMMETRY Symmetry
CHECK_DEADLOCK FALSE
