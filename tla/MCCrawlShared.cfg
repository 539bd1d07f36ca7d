SPECIFICATION FairSpec
CONSTANTS
    a = a
    b = b
    x1 = x1
    x2 = x2
    y1 = y1
    Codes <- MCCodes
    Days = {1}
    Units = {1}
    Crawlers <- MCCrawlers
    Refreshers = {y1}
    MaxSite = 2
    PageSize = 1
    MaxPages = 1
    MaxRuns = 2
    Undated = TRUE
    FetchFaults = TRUE
    StoreFaults = TRUE
    Crashes = TRUE
INVARIANTS
    OneCrawl
    CatalogueRecorded
PROPERTY
    CrawlEnds
