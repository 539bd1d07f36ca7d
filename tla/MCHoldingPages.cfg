CONSTANTS
    A = A
    B = B
    Blank = Blank
    Empty = Empty
    Runs = 2
    Products = {A, B}
    Crawled = {A}
    Typed <- MCTyped
    Norm <- MCNorm
    Upper <- MCUpper
    First <- MCFirst
    MaxDay = 2
    MaxRows = 2
SPECIFICATION HoldingSpec
INVARIANTS
    PreviewIsOfBox
    DetailCurrent
    VoidAccepted
PROPERTIES
    PushesPosted
CHECK_DEADLOCK FALSE
