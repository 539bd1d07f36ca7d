SPECIFICATION Spec
CONSTANTS
    FenScale = 6001
    Navs = {1000, 1500}
    ManualNavs = {1500}
    Cash = {601}
    Declared <- MCDeclared
    RedeemShares = {1203}
    RedeemCash = {200}
    DisplayLagDays = 1
    MaxDay = 3
    MaxEntries = 3
INVARIANTS
    TypeOK
    GapIsFromPrices
    CalendarAddsUp
    SegmentIsOwnHistory
    TodayNotInDaily
PROPERTY
    DeclaredIsShown
