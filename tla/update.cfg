SPECIFICATION UpdateSpec
CONSTANTS
    a = a
    b = b
    c = c
    z = z
    Transfers <- Files
    Blocks <- ImageBlocks
    Tgt <- Targets
    SrcChoices <- Matches
    ZeroDomain <- TheZero
    Versions = {1, 2, 3}
    Caches <- CacheLimits
    CacheBlocks = 16
    SourceData <- OldData
    TargetBlocks <- ImageBlocks
    Extended <- AfterImage
    NewData <- FreshData
    Zeros <- ZeroBlock
    Erased <- ErasedBlock
INVARIANTS
    UpdateTypeOK
    NoReadAfterWrite
    NeverAborted
    StashesPaired
    PeelingExact
    PlanFits
    PlanConsistent
    StashesExact
    ReadsServed
    ImageCorrect
    PeakAnnounced
PROPERTIES
    FittingPlanKept
    UpdateEnds
