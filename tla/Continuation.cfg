SPECIFICATION FairSpec
CONSTANTS
    p1 = p1
    p2 = p2
    t1 = t1
    Sessions = {p1, p2}
    Tasks = {t1}
    None = None
    Root = p1
    MaxLevel = 2
    MaxStops = 1
    Events = {"tasks", "subagents", "prompt", "stop", "despawn", "reload", "goal"}
INVARIANTS
    RunsAreSound
PROPERTIES
    ReportsKeepThePromise
    EndIsFinal
    EveryoneIsAnswered
\* A session may be despawned for good.
CHECK_DEADLOCK FALSE
