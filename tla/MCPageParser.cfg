SPECIFICATION Spec
CONSTANTS
    Texts <- MCTexts
    Blank = ""
    Says <- MCSays
    NavOf <- MCNavOf
    DayOf <- MCDayOf
    UpperOf <- MCUpperOf
    Lines <- MCLines
    MaxLines = 5
INVARIANTS
    RowsUnderOwnHead
    RefreshAgreesWithCrawl
CHECK_DEADLOCK FALSE
