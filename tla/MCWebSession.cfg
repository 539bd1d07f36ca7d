SPECIFICATION Spec
CONSTANTS
    c1 = c1
    c2 = c2
    b1 = b1
    ann = ann
    Ann = Ann
    bob = bob
    p = p
    q = q
    short = short
    long = long
    Calls <- MCCalls
    Browsers <- MCBrowsers
    Of <- MCOf
    Names <- MCNames
    Fold <- MCFold
    Passwords <- MCPasswords
    Short = {short}
    Long = {long}
    Forms <- MCForms
    Null = Null
    Second = 2
    TTL = 2
    MaxNow = 2
    MaxSessions = 2
SYMMETRY MCSymmetry
INVARIANTS
    AuthTypeOK
    NamesDistinct
    PasswordKnown
    SessionLasts
    ShownIsActing
PROPERTY
    ClosedAfterFirst
CHECK_DEADLOCK FALSE
