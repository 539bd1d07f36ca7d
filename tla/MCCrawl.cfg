SPECIFICATION Spec
CONSTANTS
    a = a
    b = b
    x1 = x1
    x2 = x2
    y1 = y1
    Codes <- MCCodes
    Days = {1}
    Units = {1}
    Crawlers = {x1}
    Refreshers = {}
    MaxSite = 3
    PageSize = 1
    MaxPages = 2
    MaxRuns = 2
    Undated = TRUE
    FetchFaults = TRUE
    StoreFaults = TRUE
    Crashes = TRUE
INVARIANTS
    ObservationsMatch
    SnapshotBacksObservation
    CatalogueRecorded
PROPERTIES
    UnlistsOnlyUnseen
