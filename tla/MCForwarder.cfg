SPECIFICATION FairSpec
CONSTANTS
    Events = {e1, e2}
    None = None
    WindowSeconds = 3
    MaxCatchupLag = 1
    Tolerance = 2
    MaxBatch = 2
    EventsPerUpdate = 2
    StartTimes <- LiveOrHistory
    MaxDelay = 1
    MaxTime = 7
    MaxFaults = 1
    MaxCrashes = 1
INVARIANTS
    WindowedCoverage
    RealtimeCoverage
    ResumesFromSaved
PROPERTIES
    EventuallyForwarded
CHECK_DEADLOCK FALSE
