SPECIFICATION ListSpec
CONSTANTS
    a = a
    b = b
    c = c
    z = z
    Transfers <- Files
    Blocks <- ImageBlocks
    Tgt <- Targets
    SrcChoices <- Matches
    ZeroDomain <- TheZero
    Versions = {2}
    Caches <- CacheLimits
    CacheBlocks = 16
    SourceData <- OldData
    TargetBlocks <- ImageBlocks
    Extended <- AfterImage
INVARIANTS
    EraseFirstUnread
