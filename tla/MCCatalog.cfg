SPECIFICATION Spec
CONSTANTS
    FenScale = 1
    Codes <- MCCodes
    Windows <- MCWindows
    PageSize = 2
    Tables <- MCTables
    Texts <- MCTexts
    SortKeys = {"name", "latest_nav_date", "ret_30", "ret_360", "listed"}
    InitialSort = "ret_360"
    MaxLoads = 3
INVARIANTS
    ShownIsAsked
    PagesAreTheList
PROPERTY
    LoadingEnds
