SPECIFICATION Spec
CONSTANTS
    s1 = s1
    s2 = s2
    Sessions = {s1, s2}
    None = None
    MaxRuntimes = 2
    MaxAgents = 3
    MaxOps = 2
    Scopes <- MCScopes
SYMMETRY SessionSymmetry
INVARIANTS
    SessionsAreHeldOnce
    NothingStranded
    RowsAreTrue
    OneAgent
PROPERTIES
    ClosedStaysClosed
\* The bounds run out: no more runtimes, agents or operations.
CHECK_DEADLOCK FALSE
