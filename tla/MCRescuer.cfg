SPECIFICATION FairSpec
CONSTANTS
    e1 = e1
    e2 = e2
    e3 = e3
    e4 = e4
    alice = alice
    bob = bob
    Events = {e1, e2, e3, e4}
    Authors = {alice, bob}
    Author <- MCAuthor
    CreatedAt <- MCCreatedAt
    Unreadable = {e4}
    Workers = {w1, w2}
    BatchSize = 2
    MinBatch = 1
    Limit = 0
    ExportBuffer = 1
    MaxFaults = 1
    MaxChanges = 2
INVARIANTS
    NoLoss
    SummaryAddsUp
    RescuesEverything
PROPERTIES
    OldestFirst
    RunTerminates
CHECK_DEADLOCK FALSE
