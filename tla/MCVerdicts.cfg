SPECIFICATION Spec
CONSTANTS
    None = None
    Keys <- MCKeys
    Walks <- MCWalks
    Listed <- MCListed
    Content <- MCContent
    Layers <- MCLayers
    SeedOrder <- MCOrder
    Configs <- MCConfigs
    Fits <- MCFits
    LabelSets <- MCLabelSets
    BatchSize = 1
    MaxStarts = 2
    MaxKills = 1
    MaxTunes = 1
    MaxExports = 1
    MaxLabels = 1
INVARIANTS DoneIsReproducible ReviewIsFinal AdoptedAgrees ListedIsNeverAbsent
CHECK_DEADLOCK FALSE
