----------------------------- MODULE CrawlRunner -----------------------------
(***************************************************************************)
(* The crawl of the bank's catalogue (crawl.Runner) and the refresh of one *)
(* product, over the tables product, nav_snapshot, crawl_run and           *)
(* nav_observation.  A crawl is started by the cron, at startup or by a    *)
(* request, each in a goroutine of its own; refreshes run in the           *)
(* goroutines of their requests and do not take the crawl's slot.          *)
(*                                                                         *)
(* Each action is one SQL statement, one page fetched or one critical      *)
(* section of the mutex.  The bank's site is outside the program: its      *)
(* catalogue is a sequence of products cut into pages that may change      *)
(* between two fetches, and what a row says of a product (the date and the *)
(* unit NAV) is chosen when the row is used.                               *)
(***************************************************************************)
EXTENDS Integers, Sequences, SequencesExt

CONSTANTS
    Codes,       \* product codes
    Days,        \* NAV dates
    Units,       \* unit NAVs
    Crawlers,    \* goroutines that may run a crawl
    Refreshers,  \* goroutines that may refresh a product
    MaxSite,     \* bound: rows in the site's catalogue
    PageSize,    \* rows on a page
    MaxPages,    \* Runner.MaxPages
    MaxRuns,     \* bound: rows of crawl_run
    Undated,     \* TRUE: a row may have no NAV date
    FetchFaults, \* TRUE: a page may be unreadable, blank or without a table
    StoreFaults, \* TRUE: a write to the database may fail
    Crashes      \* TRUE: the server may stop and restart at any point

ASSUME BoundsAssumption ==
    /\ MaxSite \in Nat
    /\ PageSize \in Nat \ {0}
    /\ MaxPages \in Nat \ {0}
    /\ MaxRuns \in Nat
    /\ {Undated, FetchFaults, StoreFaults, Crashes} \subseteq BOOLEAN

\* What the code stores when a row has no unit NAV.
NoUnit == 0
ASSUME UnitsAssumption == Units \subseteq Nat \ {NoUnit}

VARIABLES
    site,        \* the products of the catalogue, in its order
    running,     \* Runner.running
    runs,        \* crawl_run: runs[id] is the status of the run id
    product,     \* product: listed and last_seen_page by code
    snapshot,    \* rows of nav_snapshot
    observation, \* rows of nav_observation
    c,           \* c[x]: where the crawl of x is, and its local variables
    f            \* f[y]: where the refresh of y is, and its local variables

tables == <<runs, product, snapshot, observation>>
vars == <<site, running, tables, c, f>>

Statuses == {"running", "success", "partial", "fail"}
Sites == SeqOf(Codes, MaxSite)

\* last_seen_page of a product that has no row.
NoPage == 0

Nav == [code : Codes, day : Days, unit : Units \cup {NoUnit}]
NavRow == {n \in Nav : n.unit # NoUnit}
ObservationRow == [run : Nat, code : Codes, day : Days,
                   unit : Units \cup {NoUnit}]
NoRow == [code |-> "no row"]

Idle == [pc |-> "idle"]

\* whole, alone and skipped are no variables of the program.  whole: the pages
\* read so far are those of one unchanged catalogue; alone: nobody else wrote
\* what this crawl writes of the products; skipped: products whose row had no
\* date.
Crawl == [pc : {"start", "page", "row", "snapshot", "observe", "select",
                "unlist", "finish", "release"},
          run : Nat, page : 0..MaxPages, errs : BOOLEAN,
          rows : Sites, row : Nav \cup {NoRow}, obs : SUBSET Nav,
          missing : SUBSET Codes,
          whole : BOOLEAN, alone : BOOLEAN, skipped : SUBSET Codes]

Refresh == [pc : {"fetch", "upsert", "snapshot"}, code : Codes,
            page : 1..MaxPages, row : Nav \cup {NoRow}]

-----------------------------------------------------------------------------
(* The site. *)

PageRows(page) ==
    SubSeq(site, (page - 1) * PageSize + 1,
           IF page * PageSize <= Len(site) THEN page * PageSize
                                           ELSE Len(site))

\* Pages the site has; the first one exists also when the catalogue is empty.
HasPage(page) == page = 1 \/ PageRows(page) # <<>>

SiteChange ==
    /\ site' \in Sites \ {site}
    /\ c' = [x \in Crawlers |->
               IF c[x] = Idle THEN Idle ELSE [c[x] EXCEPT !.whole = FALSE]]
    /\ UNCHANGED <<running, tables, f>>

-----------------------------------------------------------------------------
(* The tables. *)

Listed == {code \in Codes : product[code].listed}

Goto(x, crawl) == c' = [c EXCEPT ![x] = crawl]

\* Mutant of UpsertProduct: the page is only written by the insert.
UpsertProductKeepingPage(code, page) ==
    product' = [product EXCEPT
                  ![code] = [listed |-> TRUE,
                             page |-> IF @.page = NoPage THEN page
                                                         ELSE @.page]]

UpsertProduct(code, page) ==
    product' = [product EXCEPT ![code] = [listed |-> TRUE, page |-> page]]

UpsertSnapshot(row) ==
    snapshot' = {s \in snapshot : s.code # row.code \/ s.day # row.day}
                  \cup {row}

Observation(run, row) ==
    [run |-> run, code |-> row.code, day |-> row.day, unit |-> row.unit]

\* The primary key is (crawl_run_id, product_code).
InsertObservation(run, row) ==
    /\ \A o \in observation : o.run # run \/ o.code # row.code
    /\ observation' = observation \cup {Observation(run, row)}

\* Mutant of UpdateObservation: the row keeps its values.
UpdateObservationNot(run, row) == UNCHANGED observation

UpdateObservation(run, row) ==
    observation' = {IF o.run = run /\ o.code = row.code
                    THEN Observation(run, row) ELSE o : o \in observation}

-----------------------------------------------------------------------------
(* The crawl. *)

Init ==
    /\ site \in Sites
    /\ running = FALSE
    /\ runs = <<>>
    /\ product = [code \in Codes |-> [listed |-> FALSE, page |-> NoPage]]
    /\ snapshot = {}
    /\ observation = {}
    /\ c = [x \in Crawlers |-> Idle]
    /\ f = [y \in Refreshers |-> Idle]

\* Mutant of Acquire: the flag is set without a test.
AcquireUntested(x) ==
    /\ c[x] = Idle
    /\ Len(runs) < MaxRuns
    /\ running' = TRUE
    /\ Goto(x, [pc |-> "start", run |-> 0, page |-> 0, errs |-> FALSE,
                rows |-> <<>>, row |-> NoRow, obs |-> {}, missing |-> {},
                whole |-> TRUE, alone |-> TRUE, skipped |-> {}])
    /\ UNCHANGED <<site, tables, f>>

\* acquire: a trigger that finds the slot taken returns ErrBusy.
Acquire(x) ==
    /\ c[x] = Idle
    /\ Len(runs) < MaxRuns
    /\ ~running
    /\ running' = TRUE
    /\ Goto(x, [pc |-> "start", run |-> 0, page |-> 0, errs |-> FALSE,
                rows |-> <<>>, row |-> NoRow, obs |-> {}, missing |-> {},
                whole |-> TRUE, alone |-> TRUE, skipped |-> {}])
    /\ UNCHANGED <<site, tables, f>>

\* Mutant of StartCrawl: no deferred release on the early return.
StartCrawlKeepingSlot(x) ==
    /\ c[x].pc = "start"
    /\ \/ /\ runs' = Append(runs, "running")
          /\ Goto(x, [c[x] EXCEPT !.pc = "page", !.run = Len(runs) + 1])
       \/ /\ StoreFaults
          /\ Goto(x, Idle)
          /\ UNCHANGED runs
    /\ UNCHANGED <<site, running, product, snapshot, observation, f>>

\* StartCrawl; when it fails, execute returns and the slot is released.
StartCrawl(x) ==
    /\ c[x].pc = "start"
    /\ \/ /\ runs' = Append(runs, "running")
          /\ Goto(x, [c[x] EXCEPT !.pc = "page", !.run = Len(runs) + 1])
       \/ /\ StoreFaults
          /\ Goto(x, [c[x] EXCEPT !.pc = "release"])
          /\ UNCHANGED runs
    /\ UNCHANGED <<site, running, product, snapshot, observation, f>>

\* Mutant of AfterScan: products are unlisted after a partial crawl too.
AfterScanAlways(q) == [q EXCEPT !.pc = IF q.page = 0 THEN "finish"
                                                     ELSE "select"]

\* After the loop over the pages: only a crawl without errors that read a page
\* goes on to MarkMissingUnlisted.
AfterScan(q) ==
    [q EXCEPT !.pc = IF q.page = 0 \/ q.errs THEN "finish" ELSE "select"]

Erring(q) == [q EXCEPT !.errs = TRUE]

\* After a row: the next one, the next page, or the end of the loop.
AfterRow(q) ==
    IF q.rows # <<>> THEN [q EXCEPT !.pc = "row"]
    ELSE IF q.page < MaxPages THEN [q EXCEPT !.pc = "page"]
    ELSE AfterScan([q EXCEPT !.whole = @ /\ ~HasPage(q.page + 1)])

\* One iteration of the loop over the pages, up to the rows of the page.
FetchPage(x) ==
    /\ c[x].pc = "page"
    /\ LET q == c[x]
           read == [q EXCEPT !.page = @ + 1]
       IN \/ /\ HasPage(q.page + 1)
             /\ Goto(x, AfterRow([read EXCEPT !.rows = PageRows(q.page + 1)]))
          \/ /\ ~HasPage(q.page + 1)  \* status 404
             /\ Goto(x, AfterScan(q))
          \/ /\ FetchFaults           \* timeout, status >= 400, parse error
             /\ Goto(x, AfterScan(Erring(q)))
          \/ /\ FetchFaults           \* a blank page, or a later one without rows
             /\ Goto(x, AfterScan([q EXCEPT !.whole = FALSE]))
          \/ /\ FetchFaults           \* a first page without rows counts as read
             /\ q.page = 0
             /\ Goto(x, AfterRow([read EXCEPT !.whole = FALSE]))
    /\ UNCHANGED <<site, running, tables, f>>

NextRow(q) == [q EXCEPT !.rows = Tail(@), !.row = NoRow]

\* A row without a NAV date is passed over, before UpsertProduct.
SkipRow(x) ==
    /\ Undated
    /\ c[x].pc = "row"
    /\ Goto(x, AfterRow([NextRow(c[x]) EXCEPT
                           !.skipped = @ \cup {Head(c[x].rows)}]))
    /\ UNCHANGED <<site, running, tables, f>>

Seen(q) == {o.code : o \in q.obs}

\* UpsertProduct for the next row, and what the row then has to be written to.
ReadRow(x) ==
    /\ c[x].pc = "row"
    /\ LET q == c[x]
           code == Head(q.rows)
       IN \/ /\ UpsertProduct(code, q.page)
             /\ \E day \in Days, unit \in Units \cup {NoUnit} :
                  LET row == [code |-> code, day |-> day, unit |-> unit]
                  IN Goto(x, IF unit # NoUnit
                             THEN [q EXCEPT !.pc = "snapshot", !.row = row]
                             ELSE IF code \in Seen(q) THEN AfterRow(NextRow(q))
                             ELSE [q EXCEPT !.pc = "observe", !.row = row])
          \/ /\ StoreFaults
             /\ Goto(x, AfterRow(Erring(NextRow(q))))
             /\ UNCHANGED product
    /\ UNCHANGED <<site, running, runs, snapshot, observation, f>>

\* Mutant of WriteSnapshot: a failure is noted and the row still observed.
WriteSnapshotOrNot(x) ==
    /\ c[x].pc = "snapshot"
    /\ LET q == c[x]
       IN \/ /\ UpsertSnapshot(q.row)
             /\ Goto(x, IF q.row \in q.obs THEN AfterRow(NextRow(q))
                        ELSE [q EXCEPT !.pc = "observe"])
          \/ /\ StoreFaults
             /\ Goto(x, [Erring(q) EXCEPT !.pc = "observe"])
             /\ UNCHANGED snapshot
    /\ UNCHANGED <<site, running, runs, product, observation, f>>

\* UpsertSnapshot for the row; the same sighting again needs no observation.
WriteSnapshot(x) ==
    /\ c[x].pc = "snapshot"
    /\ LET q == c[x]
       IN \/ /\ UpsertSnapshot(q.row)
             /\ Goto(x, IF q.row \in q.obs THEN AfterRow(NextRow(q))
                        ELSE [q EXCEPT !.pc = "observe"])
          \/ /\ StoreFaults
             /\ Goto(x, AfterRow(Erring(NextRow(q))))
             /\ UNCHANGED snapshot
    /\ UNCHANGED <<site, running, runs, product, observation, f>>

\* InsertObservation at the first sighting in this crawl, UpdateObservation at
\* a later one, and then the map obs (of which seen is the domain).
Observe(x) ==
    /\ c[x].pc = "observe"
    /\ LET q == c[x]
           others == {o \in q.obs : o.code # q.row.code}
       IN \/ /\ IF q.row.code \in Seen(q)
                THEN UpdateObservation(q.run, q.row)
                ELSE InsertObservation(q.run, q.row)
             /\ Goto(x, AfterRow(NextRow([q EXCEPT
                                            !.obs = others \cup {q.row}])))
          \/ /\ StoreFaults
             /\ Goto(x, AfterRow(Erring(NextRow(q))))
             /\ UNCHANGED observation
    /\ UNCHANGED <<site, running, runs, product, snapshot, f>>

AfterUnlist(q) ==
    [q EXCEPT !.pc = IF q.missing = {} THEN "finish" ELSE "unlist"]

\* MarkMissingUnlisted reads the listed products; the query may fail halfway.
SelectMissing(x) ==
    /\ c[x].pc = "select"
    /\ LET missing == Listed \ Seen(c[x])
       IN \/ Goto(x, AfterUnlist([c[x] EXCEPT !.missing = missing]))
          \/ /\ StoreFaults
             /\ \E part \in SUBSET missing :
                  Goto(x, AfterUnlist([c[x] EXCEPT !.missing = part,
                                                   !.alone = FALSE]))
    /\ UNCHANGED <<site, running, tables, f>>

\* MarkMissingUnlisted updates them one by one; its error is ignored.
UnlistOne(x) ==
    /\ c[x].pc = "unlist"
    /\ \E code \in c[x].missing :
         \/ /\ product' = [product EXCEPT ![code].listed = FALSE]
            /\ Goto(x, AfterUnlist([c[x] EXCEPT !.missing = @ \ {code}]))
         \/ /\ StoreFaults
            /\ Goto(x, [c[x] EXCEPT !.pc = "finish", !.alone = FALSE])
            /\ UNCHANGED product
    /\ UNCHANGED <<site, running, runs, snapshot, observation, f>>

Status(q) == IF q.page = 0 THEN "fail"
             ELSE IF q.errs THEN "partial" ELSE "success"

FinishCrawl(x) ==
    /\ c[x].pc = "finish"
    /\ \/ runs' = [runs EXCEPT ![c[x].run] = Status(c[x])]
       \/ StoreFaults /\ UNCHANGED runs
    /\ Goto(x, [c[x] EXCEPT !.pc = "release"])
    /\ UNCHANGED <<site, running, product, snapshot, observation, f>>

Release(x) ==
    /\ c[x].pc = "release"
    /\ running' = FALSE
    /\ Goto(x, Idle)
    /\ UNCHANGED <<site, tables, f>>

-----------------------------------------------------------------------------
(* The refresh of one product (RefreshProduct). *)

RefreshRead(y) ==
    /\ f[y] = Idle
    /\ \E code \in Codes :
         /\ product[code].page # NoPage
         /\ f' = [f EXCEPT ![y] = [pc |-> "fetch", code |-> code,
                                   page |-> product[code].page,
                                   row |-> NoRow]]
    /\ UNCHANGED <<site, running, tables, c>>

\* Mutant of RefreshFetch: a product that is not found is unlisted.
RefreshFetchUnlisting(y) ==
    /\ f[y].pc = "fetch"
    /\ \/ /\ \E i \in DOMAIN PageRows(f[y].page) :
               PageRows(f[y].page)[i] = f[y].code
          /\ \E row \in Nav :
               /\ row.code = f[y].code
               /\ f' = [f EXCEPT ![y].pc = "upsert", ![y].row = row]
          /\ UNCHANGED product
       \/ /\ f' = [f EXCEPT ![y] = Idle]
          /\ product' = [product EXCEPT ![f[y].code].listed = FALSE]
    /\ UNCHANGED <<site, running, runs, snapshot, observation, c>>

\* The page recorded for the product is read.  pickProductRow finds a dated
\* row of the product on it, with its unit NAV if it has one.
RefreshFetch(y) ==
    /\ f[y].pc = "fetch"
    /\ \/ /\ \E i \in DOMAIN PageRows(f[y].page) :
               PageRows(f[y].page)[i] = f[y].code
          /\ \E row \in Nav :
               /\ row.code = f[y].code
               /\ f' = [f EXCEPT ![y].pc = "upsert", ![y].row = row]
       \/ f' = [f EXCEPT ![y] = Idle]
    /\ UNCHANGED <<site, running, tables, c>>

\* UpsertProduct with the page that was read some statements earlier.
RefreshUpsert(y) ==
    /\ f[y].pc = "upsert"
    /\ UpsertProduct(f[y].code, f[y].page)
    /\ f' = [f EXCEPT ![y] = IF f[y].row.unit = NoUnit THEN Idle
                             ELSE [f[y] EXCEPT !.pc = "snapshot"]]
    /\ c' = [x \in Crawlers |->
               IF c[x] = Idle THEN Idle ELSE [c[x] EXCEPT !.alone = FALSE]]
    /\ UNCHANGED <<site, running, runs, snapshot, observation>>

RefreshSnapshot(y) ==
    /\ f[y].pc = "snapshot"
    /\ UpsertSnapshot(f[y].row)
    /\ f' = [f EXCEPT ![y] = Idle]
    /\ UNCHANGED <<site, running, runs, product, observation, c>>

\* A write of the refresh fails; the handler replies with an error.
RefreshFail(y) ==
    /\ StoreFaults
    /\ f[y].pc \in {"upsert", "snapshot"}
    /\ f' = [f EXCEPT ![y] = Idle]
    /\ UNCHANGED <<site, running, tables, c>>

-----------------------------------------------------------------------------
\* The process stops and starts again: only the database is kept.
Crash ==
    /\ Crashes
    /\ running \/ \E y \in Refreshers : f[y] # Idle
    /\ running' = FALSE
    /\ c' = [x \in Crawlers |-> Idle]
    /\ f' = [y \in Refreshers |-> Idle]
    /\ UNCHANGED <<site, tables>>

Execute(x) ==
    \/ StartCrawl(x)    \/ FetchPage(x) \/ SkipRow(x)     \/ ReadRow(x)
    \/ WriteSnapshot(x) \/ Observe(x)   \/ SelectMissing(x)
    \/ UnlistOne(x)     \/ FinishCrawl(x) \/ Release(x)

RefreshStep(y) ==
    \/ RefreshRead(y)   \/ RefreshFetch(y) \/ RefreshUpsert(y)
    \/ RefreshSnapshot(y) \/ RefreshFail(y)

Next ==
    \/ \E x \in Crawlers : Acquire(x) \/ Execute(x)
    \/ \E y \in Refreshers : RefreshStep(y)
    \/ SiteChange
    \/ Crash

Spec == Init /\ [][Next]_vars

\* A crawl that was started goes on: every fetch ends, at the latest with the
\* timeout of the HTTP client, and every other step is local.
FairSpec == Spec /\ \A x \in Crawlers : WF_vars(Execute(x))

-----------------------------------------------------------------------------
Executing == {x \in Crawlers : c[x] # Idle}

\* Type invariant.
TypeOK ==
    /\ site \in Sites
    /\ running \in BOOLEAN
    /\ runs \in Seq(Statuses)
    /\ product \in [Codes -> [listed : BOOLEAN, page : 0..MaxPages]]
    /\ snapshot \subseteq NavRow
    /\ observation \subseteq ObservationRow
    /\ \A o \in observation : o.run \in DOMAIN runs
    /\ c \in [Crawlers -> {Idle} \cup Crawl]
    /\ f \in [Refreshers -> {Idle} \cup Refresh]

\* "At most one crawl executes at a time", whoever triggers it, whatever fails
\* and wherever it returns early; and the flag that Busy shows says so.
OneCrawl ==
    /\ \A x, y \in Executing : x = y
    /\ running <=> Executing # {}

\* "One crawl, one product, one observation", and for the crawl in progress
\* the map obs, by which it decides between insert, update and nothing, is what
\* the table holds, whichever of its writes failed.
ObservationsMatch ==
    /\ \A o, p \in observation : o.run = p.run /\ o.code = p.code => o = p
    /\ \A x \in Executing :
         {o \in observation : o.run = c[x].run} =
           {Observation(c[x].run, row) : row \in c[x].obs}

\* An observed unit NAV is never lost: its date has a snapshot, although the
\* two are written by two statements.
SnapshotBacksObservation ==
    \A o \in observation : o.unit # NoUnit =>
        \E s \in snapshot : s.code = o.code /\ s.day = o.day

\* x is about to record the success of a crawl that read the whole catalogue.
ReadAll(x) ==
    /\ c[x].pc = "finish"
    /\ Status(c[x]) = "success"
    /\ c[x].whole

\* A successful crawl of a catalogue that did not change meanwhile leaves its
\* dated products listed, whatever refreshes do in between; without them and
\* without faults it leaves no other product listed, and the page recorded for
\* each product is one that a refresh will find it on.
CatalogueRecorded ==
    \A x \in Crawlers : ReadAll(x) =>
        /\ Range(site) \ c[x].skipped \subseteq Listed
        /\ c[x].alone => /\ Listed \subseteq Range(site)
                         /\ \A code \in Listed \ c[x].skipped :
                              code \in Range(PageRows(product[code].page))

\* Only a crawl that read a page, had no error and made no observation of a
\* product stops listing it.
UnlistsOnlyUnseen ==
    [][\A code \in Listed : code \notin Listed' =>
         \E x \in Crawlers :
            /\ c[x].pc = "unlist"
            /\ Status(c[x]) = "success"
            /\ \A o \in observation : o.run # c[x].run \/ o.code # code]_vars

\* The slot is always given back, so that the next trigger is not refused for
\* ever.
CrawlEnds == running ~> ~running
=============================================================================
