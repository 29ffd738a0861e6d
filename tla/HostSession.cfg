SPECIFICATION FairSpec
CONSTANTS
    MaxTurns = 2
    MaxAsks = 2
    MaxReloads = 2
    MaxEdits = 1
INVARIANTS
    RecordIsSound
PROPERTIES
    ReloadSettles
    AskIsAnswered
\* The host may stay idle.
CHECK_DEADLOCK FALSE
