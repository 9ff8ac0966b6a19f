SPECIFICATION ListSpec
CONSTANTS
    a = a
    b = b
    c = c
    z = z
    Transfers <- PairFiles
    Blocks <- PairBlocks
    Tgt <- PairTargets
    SrcChoices <- PairMatches
    ZeroDomain <- NoZero
    Versions = {3}
    Caches <- PairLimits
    CacheBlocks = 8
    SourceData <- PairData
    TargetBlocks <- PairBlocks
    Extended <- NoBlocks
INVARIANTS
    NeverOversize
