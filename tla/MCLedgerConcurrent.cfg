SPECIFICATION Spec
CONSTANTS
    u1 = u1
    u2 = u2
    r1 = r1
    r2 = r2
    Users <- MCUsers
    Requests <- MCRequests
    Ops <- MCOps
    Shares = {1}
    MaxDay = 1
    MaxLag = 0
    MaxEntries = 3
    MaxAccounts = 3
    Crashes = TRUE
    WriteFaults = TRUE
    Delisting = TRUE
SYMMETRY MCSymmetry
INVARIANTS
    TypeOK
    TablesConsistent
    NoEmptyAccount
