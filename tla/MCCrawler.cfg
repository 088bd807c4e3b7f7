SPECIFICATION FairSpec
CONSTANTS
    Keys <- MCKeys
    Valid <- MCValid
    Lower <- MCLower
    Legacy <- MCLegacy
    Limit = 1
    Cadence = 1
    Base = 1
    Ratio = 2
    MaxBackoff = 2
    MaxTime = 2
    Relays = {r1, r2}
    Events <- MCEvents
    Author <- MCAuthor
    CreatedAt <- MCCreatedAt
    Follows <- MCFollows
    Seed = "a"
    Class <- MCClass
    Threshold <- MCThreshold
    QuorumPct = 50
    SampleEvery = 1
    MaxFaults = 1
INVARIANTS GraphConsistent NoneForgotten NoneStuckOnOpenConnection
PROPERTIES NewestWins FrontierDrains
CHECK_DEADLOCK FALSE
