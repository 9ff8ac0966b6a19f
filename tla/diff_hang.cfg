SPECIFICATION Spec
CONSTANTS
    w1 = w1
    w2 = w2
    Nobody = Nobody
    Workers <- TwoWorkers
    FileSize <- EmptyFile
PROPERTY AllFinish
CHECK_DEADLOCK FALSE
