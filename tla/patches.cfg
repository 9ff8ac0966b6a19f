SPECIFICATION Spec
CONSTANTS
    w1 = w1
    w2 = w2
    w3 = w3
    Workers <- ThreeWorkers
    PatchLen <- FourPatches
    TargetSize <- FourTargets
    MayFail <- FailTwo
    Fallback = TRUE
INVARIANTS
    PatchesComplete
PROPERTIES
    ProgramEnds
