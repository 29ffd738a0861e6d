SPECIFICATION FairSpec
CONSTANTS
    c1 = c1
    c2 = c2
    Clients = {c1, c2}
    MaxOffers = 2
    MaxLanes = 2
    MaxReports = 1
    MaxQueue = 1
    Events = {"failure", "teardown"}
PROPERTIES
    NobodyLeftWaiting
\* The bounds run out: no more offers, reports or admissions.
CHECK_DEADLOCK FALSE
