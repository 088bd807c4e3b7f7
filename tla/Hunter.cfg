SPECIFICATION FairSpec
CONSTANTS
    Keys = {1, 2, 3}
    Posting = {2, 3}
    None = None
    Limits = {1, None}
    PageLimit = 2
    MaxAttempts = 2
    ChannelCap = 1
    AuthorsPerCall = 2
    RequestLimit = 1
    WriteBatch = 2
    MaxStarts = 2
    MaxFaults = 1
    MaxKills = 1
    MaxGrowth = 1
INVARIANTS
    NoneSkipped
    DoneAccounted
PROPERTIES
    Terminates
CHECK_DEADLOCK FALSE
