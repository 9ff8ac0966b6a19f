SPECIFICATION PagesSpec
CONSTANTS
    Slides = 3
    Scroll = 1
    MaxClicks = 4
    Sections = {"A", "A1", "B", "S"}
    NoSection = "none"
    NavParent <- Sectioned
    Sticky = {"S"}
    Tables = {1, 2}
    Rows = {1, 2}
    MaxToggles = 4
    MaxResults = 7
    Stacks = 3
    Heights = {2, 5, 9}
    MaxCards = 5
    Items <- SomeItems
    Resources <- SomeResources
    MaxFilters = 3
    Posts = {"p", "q"}
    Videos = {"v", "u"}
    Nothing = "nothing"
    Trees = {"gms", "gcm"}
    TreeParent <- GoogleTree
    PageNode = "g3"
    Namespaces = {"n1", "n2"}
    MaxLoads = 4
    MaxItems = 4
    MaxDepth = 3
    Answers <- SomeAnswers
    TableTexts <- SomeMatches
    ROW_COUNT = 2
    MaxKeys = 5
    TreeNodes <- Packages
    Mom <- PackageOf
    NoMom = "none"
    NodeLevel <- Since
    ApiLevels = {1, 2}
    MaxTreeUses = 4
    slideTotal = 6
    slidesAtOnce = 3
    MaxEvents = 4
    All <- Site
    Collections <- Collected
    SiteMap <- Mapped
    Visits <- Seen
    Queries <- Asked
    Limits = {2, 9}
    MaxLists = 2
    Copies <- Repetitive
    Alphabet = {"a", "b", "."}
    Words <- TwoWords
    MaxLabel = 5
    Windows = {"x", "y"}
    NoWindow = "none"
    Paths = {"a", "b", "c", "front"}
    Fronts = {"front"}
    PAGES_TO_STORE_ = 2
    Toasts = {"t", "u"}
    Navs = {"n1", "n2"}
    Landing <- LandedIn
    Levels = {1, 2, 3}
    MinLevel <- SinceLevel
    Langs = {"en", "ja", "ko"}
    DefaultLang = "en"
    MaxActs = 4
    Guides = 5
    Keywords = 2
    Lessons = {1}
    TutorialOf <- Tutorial
    Localized <- Translated
    LangOf <- Languages
    Technical <- Articles
    TagClass <- Classes
    TagParams <- Params
    MaxTyped = 2
    PdkPages <- Frames
    WindowHeights = {300, 700}
    PaneWidths = {200, 320}
    PaneHeights = {100, 500}
    MaxPanes = 4
    MaxNodes = 5
    Counts = {0, 1, 19, 20, 50}
    MaxSearches = 4
INVARIANT NegativesExclude
CHECK_DEADLOCK FALSE
