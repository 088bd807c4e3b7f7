SPECIFICATION FairSpec
CONSTANTS
    e1 = e1
    e2 = e2
    e3 = e3
    e4 = e4
    ann = ann
    ben = ben
    None = None
    Input <- MCInput
    Authors = {ann, ben}
    Author <- MCAuthor
    Malformed = {e4}
    Keep = {e1, e2, e3}
    TTL = 1
    Timeout = 1
    CacheSize = 1
    BufferSize = 2
    MaxTime = 3
    MaxFaults = 1
    MaxChanges = 1
INVARIANTS
    CountersAddUp
PROPERTIES
    DecisionsFresh
    QueueDrains
CHECK_DEADLOCK FALSE
