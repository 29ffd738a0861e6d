SPECIFICATION Spec
CONSTANTS
    c1 = c1
    c2 = c2
    Clients = {c1, c2}
    MaxOffers = 2
    MaxLanes = 1
    MaxReports = 2
    MaxQueue = 1
    Events = {"failure", "teardown", "unreadable report"}
SYMMETRY ClientSymmetry
INVARIANTS
    AnswerNotReapplied
    NoBridgeAfterTeardown
    Inductive
PROPERTIES
    ConnectedLaneKept
\* The bounds run out: no more offers, reports or admissions.
CHECK_DEADLOCK FALSE
