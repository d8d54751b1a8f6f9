SPECIFICATION FairSpec
CONSTANTS
    Signals = {2, 15}
    NoSignal = 0
    MaxForeign = 1
INVARIANTS
    NothingOutlivesTheLauncher
    GraceBeforeKill
PROPERTIES
    StopEnds
CHECK_DEADLOCK FALSE
