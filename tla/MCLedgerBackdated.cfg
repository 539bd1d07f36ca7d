SPECIFICATION Spec
CONSTANTS
    r1 = r1
    Users = {u1}
    Requests <- MCRequests
    Ops <- MCOps
    Shares = {1, 2}
    MaxDay = 2
    MaxLag = 1
    MaxEntries = 4
    MaxAccounts = 2
    Crashes = FALSE
    WriteFaults = FALSE
    Delisting = FALSE
INVARIANT
    Replayable
