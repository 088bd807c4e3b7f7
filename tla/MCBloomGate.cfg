SPECIFICATION GateFairSpec
CONSTANTS
    ann = ann
    garbage = garbage
    forwarder = forwarder
    NoKey = NoKey
    Nil = Nil
    Torn = Torn
    Uids = {1, 2, 3}
    Keys = {ann, forwarder, garbage}
    PubkeyOf <- MCPubkeyOf
    Invalid = {garbage}
    Hardcoded = {forwarder}
    PageSize = 2
    Retries = 1
    FetchRetries = 0
    MaxWrites = 1
    MaxFailures = 1
    MaxCrashes = 1
INVARIANTS
    LoadIsComplete
    OnlyPublished
PROPERTIES
    NeverRejectsMember
    EventsAnswered
    Converges
CHECK_DEADLOCK FALSE
