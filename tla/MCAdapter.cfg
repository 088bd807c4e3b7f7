CONSTANTS
    Indexes <- MCIndexes
    SampleCap = 4
    Spread = 2
    Worlds <- MCWorlds
    MaxStarts = 2
SPECIFICATION AdapterFairSpec
INVARIANTS ReadyMeansQueryable OnlyReliableServed
PROPERTIES HealthyGetsReady
CHECK_DEADLOCK FALSE
