\* Two startups, and two backends, of each desktop shell, for TLC.
SPECIFICATION Spec
CONSTANTS
    MaxBackends = 2
    MaxStarts = 2
    MissLimit = 2
    MaxLaunches = 2
INVARIANTS
    ProcessesAreKept
    ReadyIsWatched

CHECK_DEADLOCK FALSE
