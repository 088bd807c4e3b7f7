CONSTANTS
    Events <- MCEvents
    Created <- MCCreated
    Attr <- MCAttr
    Decode <- MCDecode
    TagNames = {"t"}
    None = None
    Unreadable <- MCUnreadable
    Initial <- MCInitial
    Numberings <- MCNumberings
    Filters <- MCFilters
    KeyRank <- MCKeyRank
    Spelt <- MCSpelt
    Limit = 1
    WindowSize = 1
    MaxRounds = 2
    Top = Top
    End = End
    MaxInserts = 1
    MaxDeletes = 1
SPECIFICATION FairSpec
PROPERTIES FeedSpec WalkEnds
CHECK_DEADLOCK FALSE
