SPECIFICATION SearchSpec
CONSTANTS
    SearchTexts = {"", "c", "cat", "dog"}
    Blank = ""
    Short = {"", "c"}
    NoQuery = "none"
    Pages = 2
    MaxStore = 1
    ResultLinks = 2
    MaxUses = 4
INVARIANTS
    PageNotLocked
    AddressIsQuery
    QuietIsCurrent
PROPERTIES
    LoadingEnds
CHECK_DEADLOCK FALSE
