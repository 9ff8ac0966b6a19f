SPECIFICATION Spec
CONSTANTS
    m1 = m1
    m2 = m2
    r1 = r1
    r2 = r2
    Wrapped <- TwoWrapped
    NinjaOnes <- OneNinja
    Plain <- TwoPlain
    Pool = 2
    NinjaDefault = 10
INVARIANTS
    TokensConserved
    JobsBounded
PROPERTIES
    WrapperEnds
