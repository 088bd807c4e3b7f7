CONSTANTS
    Lower <- MCLower
    Chars <- MCChars
    Host <- MCHost
    NoHost = ""
    HostRank <- MCHostRank
    Emoji <- MCEmoji
    Clings <- MCClings
    Rounding = {0, 1}
    Hashtag <- MCHashtag
    Words <- MCWords
    Posts <- MCPosts
    Bits = 4
    Offset = 4
    Prime = 3
    Log2 <- MCLog2
    HammingThreshold = 1
    ShingleSize = 2
    MinEvents = 2
    EntropyLow = 1000
    EntropyHigh = 3000
    MinLenForLow = 4
    EmojiKnee = 400
    HashtagKnee = 500
    UrlRatioKnee = 800
    DomainKnee = 900
    PTagsKnee = 1500
    TTagsKnee = 0
    MinEvents4 = 2
    MaxEvents = 4
SPECIFICATION LayersSpec
INVARIANTS ClustersAreComponents OrderFree
CHECK_DEADLOCK FALSE
