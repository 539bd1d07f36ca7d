SPECIFICATION WordSpec
CONSTANTS
    BuyCash = {1, 5, 12}
    BuyShares = {1, 2, 3}
    RedeemCash = {0, 2, 9}
    RedeemShares = {0, 1, 2, 4}
    MaxEntries = 5
    FenScale = 10
    Half = 16
INVARIANTS
    TypeOK
    MoneyConserved
    ClearedHasNoCost
    WordExact
    ReplayReturns
PROPERTY
    AverageCostKept
CHECK_DEADLOCK FALSE
