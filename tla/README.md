# A TLA+ model of money-tacker

money-tacker keeps, for a few users, what they hold of the wealth products that
Bank of China sells, and what these earned. It is one Go process: an HTTP API
(`internal/server`) over an SQLite file (`internal/store`), a crawler of the
bank's public list of net asset values (`internal/crawl`), the arithmetic of
profit (`internal/pnl`, `internal/money`) and a Vue front end (`web/`).

These modules model its core, the TLC configurations check them on small
instances, and the proof modules prove the main invariants for every instance
with TLAPS. Paths below are relative to `src/`.

## 1. Inventory

| component | state | operations | what makes it correct |
| --- | --- | --- | --- |
| holding accounts (`server.go` writeBuy, handleRedeem, handleVoid, handleDeleteHolding; `store.go`) | tables `holding`, `ledger_entry` | first buy, append, redeem, void the last entry, delete the account | one account per user and product, entries in the account of their user, an account comes with its first buy, every ledger can be replayed, only the latest entry is voided |
| replay (`pnl.Replay`, `money.Amortize`) | a fold over the active entries | buy, redeem | no money appears or disappears by rounding, a cleared account has no cost, the average cost is kept |
| crawl (`crawl/runner.go`) | the flag `running`; tables `crawl_run`, `product`, `nav_snapshot`, `nav_observation` | scan the pages, write each row, unlist what was not seen, record the status | at most one at a time, the slot is always given back, one observation per crawl and product backed by a snapshot, only a full scan unlists |
| refresh of one product (`crawl/refresh.go`) | `product`, `nav_snapshot` | read the page recorded for a product, write its newest NAV | may run beside a crawl without spoiling what it records |
| start-up and cron (`cmd/server/main.go`) | none | trigger a crawl | a trigger that finds a crawl running starts none |
| schema and handle (`internal/db`, `migrations`) | the SQLite file | one connection, foreign keys on | a statement is atomic, a handler is not |
| daily profit, calendar, gap, returns (`pnl.go`) | none | pure functions of entries and NAVs | profit of the days adds up to the cumulative profit but for a known gap |
| fixed-point money (`money.go`) | none | multiply-and-divide in 128 bits, parse, format | exact while the result fits 64 bits, no panic, rounding direction |
| users and sessions (`server.go`, `store.go`) | tables `user`, `session` | register, log in, log out, who am I, change the password | with registration closed nobody registers after the first, names are distinct, nobody acts without a password of the user, a session lasts its hours |
| read side of the API (`server.go` holdingViews and others) | none | list, overview, detail | one bad account does not take the others down |
| catalogue listing (`catalog.go`, `Products.vue`) | in the browser: what is asked for, the answers on their way, what is shown | filter, sort, page; type, tick, click | the pages are the whole list in order; a late answer does not overwrite a newer one |
| session in the browser (`session.ts`, `router.ts`, `Login.vue`, `Register.vue`, `Account.vue`) | the cookie, the account in the store, the page | load, submit a form, take an answer | the account shown is the one the server acts for |
| opening and keeping an account (`NewHolding.vue`, `HoldingDetail.vue`) | the form, what was looked up, the list of entries, requests on their way | type, look up, submit; buy, redeem, void, refresh, delete, load | what may be submitted is what was looked up, a page at rest shows the account as it is, the button of the void names the entry the server voids |
| page parser (`parse.go`) | the headings in force and the rows so far | read a line, start a table, pick a row | a row is read under the headings of the table that is walked; a refresh takes the row a crawl takes |
| configuration (`config.go`), the other web pages | none | read the environment, show | |

How they interact. Requests, the cron job and the start-up crawl are goroutines
of one process; they share the database handle and `Runner.running`. The handle
has one connection (`db.go:34`), so that every SQL statement is atomic and
statements of different goroutines interleave freely: no handler opens a
transaction. The crawl writes `product.listed`, which gates a buy; crawl and
refresh write `nav_snapshot`, from which the API computes shares and profit.

Hard behaviours: a check and the write it permits are two statements
(redeem, void, first buy, append, delete); the server may stop between two
statements; a write in the middle of a crawl may fail and the crawl goes on;
answers reach the browser late, in another order, or never, while the user goes on;
the bank's pages change, vanish or come back blank between two fetches; entries
may be dated back; rounding accumulates over redemptions. `PROJECT.json` lists
each hazard at its line, with the properties that are about it.

## 2. Modules

### Holding accounts

`Ledger` has the two tables as sets of rows and one record `req[r]` per request
in progress with the local variables of its handler. One action is one SQL
statement with the Go code up to the next one:

| code | actions |
| --- | --- |
| `writeBuy` (create or append) | `BuyStart` (product, gate, amount, day, shares), `BuyLookup` (HoldingByUserCode), `CreateHolding`, `Insert`, `Cleanup` |
| `handleRedeem` | `HoldingLookup`, `RedeemCheck` (ListLedger, Replay, the test of the shares), `Insert` |
| `handleVoid` | `HoldingLookup`, `VoidCheck` (LastActiveLedger), `VoidLedger` |
| `handleDeleteHolding` | `HoldingLookup`, `DeleteAccount` |
| the process, the clock, a crawl | `Crash`, `Tick`, `SetListed` |

Rows get ids the way SQLite gives them to an `INTEGER PRIMARY KEY` without
`AUTOINCREMENT`: one more than the largest in use, so that an id can come back.
There is one product, so that an account is identified by its user. Cash is
left out: which number of shares a request stands for is chosen from `Shares`,
0 included for a redemption by amount, which rounds down. `WriteFaults` lets every
statement that writes return an error: the handlers answer 500, except that the error
of the clean-up after a failed first buy is ignored (`server.go:372`). The field `by` of
an entry and the variable `stranded` are ghosts: who sent the entry; which accounts were
without an entry when their first buy was given up, by a stop or by a clean-up that
failed as well. A row leaves `stranded` when it gets an entry or is deleted.

`AccountBook` is the abstract specification: an account is the list of its
balances after each entry in force, and every operation is one atomic step.
`LedgerBook` has the refinement mapping (`AccountOf`: an account whose first buy
is still being written is not open yet) and states `ImplementsBook`; the step
`OpenEmpty` of the book, an account without its first buy, is there for `Crashes` and
`WriteFaults` only.

`Position` has `pnl.State` and what one entry does to it, with the amortized cost
of `money.Amortize`. `Replay` is the loop of `pnl.Replay` with the cash: one step
per entry, including its two early returns of an error. `MoneyWord` is `money.go`
on machine words of any width (the constant `Half`, 2^63 in the code): two-word
products, the panic of `bits.Div64`, the wrap-around of the conversion back, and
parsing and formatting by what they do to the number. `WordReplay` extends
`Replay` with the same loop on words; both read the same entries, so that each
state has the exact position and the one that the program computes.

### What an account earned

`Money` has the multiply-and-divide functions with their rounding and the
conversions between cash and shares; its integers are unbounded. `Pnl` has every
function of `pnl.go` under its name in the code, over a sequence of entries and a
function from days to NAVs (0: none); days are numbers. `HoldingPnl` is one
account while all of this changes:

| code | actions |
| --- | --- |
| `writeBuy`: amounts, NAV and shares of a first buy, of one with a declared profit, of a further one | `Create`, `CreateDeclared`, `Buy` |
| `handleRedeem` (all, by shares, by amount), `handleVoid`, `handleDeleteHolding` | `Redeem`, `Void`, `DeleteHolding` |
| `UpsertSnapshot` of a crawl or a refresh, for any day so far | `Publish` |
| the clock | `Tick` |

Its handlers are atomic, because `Ledger` has their statements, and here it is
numbers that matter. What `holdingViews` and `handleHoldingPnl` show is computed
by operators (`CumulativeFen`, `DailyPnlFen`, `CalendarRows`, `Gap`). A voided entry
leaves the list; in the code it still counts for the first day of the calendar
(`server.go:610`), which adds days without profit.

### The list of products

`Catalog` is `handleProductCatalog`: which products match, in which order, and
which are on a page. `CatalogPage` is `Products.vue`, one action per event of the
browser with the code that runs until the next await:

| code | actions |
| --- | --- |
| the watchers of the text and of the box, the timer of 250 ms | `TypeText`, `TimerFires`, `ToggleUnlisted` |
| the heads of the columns, the pager | `ClickSort`, `Prev`, `NextPage` |
| `load` up to its await, and after it | `Load` (part of the above), `Answer`, `Fail` |

A button acts only when the template shows it and does not disable it. An answer
is computed when it arrives; the table of products stays as it is. The column of the
first request is the constant `InitialSort` (`ret_360` in `Products.vue:23`).

### Users, sessions and the browser

`Auth` has the tables `user` and `session` and one record `call[c]` per request
with the locals of its handler. A password is its own hash, a token the number of
its session, and `Fold` forgets the case of a name (`account` is `COLLATE NOCASE`).

| code | actions |
| --- | --- |
| `handleRegister` | `RegisterCount`, `RegisterInsert`, `CreateSession` |
| `handleLogin` | `LoginCompare`, `CreateSession` |
| `handleLogout` | `Logout` (its error is ignored, the row may stay) |
| the middleware `auth`, `handleMe` | `Authenticate` |
| `handlePassword` | `Authenticate`, `PasswordCompare`, `UpdatePassword` |
| a failing statement, the process, the clock | `StatementFails`, `Restart` (reads `REGISTER_OPEN` anew), `Tick` |

`former` and `empty` of a call are ghosts: the passwords that were replaced while
it was under way, and whether it was sent when there was no user. In `AuthSpec`
clients send any request with any cookie that was given out.

`WebSession` extends `Auth` with the browsers that use it: the cookie, the store
`session.ts`, the guard of the router and the three pages with forms
(`Reload`, `Submit`, `TakeForm`, `TakeRefresh`, `CookieExpires`). Of a page only
whether it is public is kept. `BrowsersAreClients` shows that the composition
implements `AuthSpec`.

### The pages of an account

`HoldingPages` is one tab with `NewHolding.vue` and `HoldingDetail.vue`. A slot
`fetch[s]` holds one run of an async function with the request that it waits for.

| code | actions |
| --- | --- |
| the router: a page is left, another one mounts | `OpenList`, `OpenNew`, `OpenDetail` |
| `NewHolding.vue`: the box and its watcher, `lookup` before and after its awaits, `submit` | `Type`, `Lookup`, `LookupNothing`, `TakeLookup`, `Submit`, `TakeCreate` |
| `HoldingDetail.vue`: the actions, what follows their awaits, `load` | `Write` (buy, redeem), `VoidLast`, `Refresh`, `RemoveAccount`, `TakeAct`, `TakeRemove`, `TakeLoad` |
| the handlers, in one step each | `Serve` |
| lost requests and answers, a crawl, the same user in another tab | `Lose`, `Crawl`, `WriteElsewhere` |

A run goes on after its page was left (`live` is then false), as an async
function does, and may still navigate. Three fields are ghosts: `form.typed`, the box
was edited since the lookup; `detail.disturbed`, actions overlapped or the account was
written from elsewhere; `detail.removeFailed`, the page was told that a removal failed
and no action was begun since that reads the account again. A removal that fails changes
nothing on the page, not even its error (`HoldingDetail.vue:128-132`), while its request
may have been served and only the answer lost. A submit whose box is empty by the time it
is answered goes to `/holdings/`, which is the list. `Lose` is also the abort of the
browser: a request given up before it is served is not served later, which is a bound.
That a button is disabled while its own refresh is under way is
not modelled: the page may do more here than there. The specification is named
`HoldingSpec`, apart from the `Spec` of `CatalogPage`, so that one module of proofs
can extend both.

### Pages of the bank

`PageParser` is `ParsePage` line by line. A text of a cell is told apart by the
columns it is a heading of, by the number and the date it is read as, and by the text it
is in upper case (`UpperOf`). `First` has
every value that the search through a Go map may return. `PickProductRow` is the
choice of a refresh, `CrawlRow` what the loop of a crawl does with the same rows
when nothing fails; `head` and `from` are ghosts. `refresh.go:63` compares
`strings.ToUpper(row.Code)`, a crawl keeps the code as it is: both are modelled so. A
table inside a table needs no action of its own: `Find("tr")` (`parse.go:34`) takes its
lines as lines of the outer table, and `Find("table")` comes to it later as one more
table; "the table that is walked" below means the one whose loop reads the line.

### Crawl and refresh

`CrawlRunner` has the four tables, the flag `running`, one record of locals per
goroutine that crawls (`c[x]`) and per goroutine that refreshes (`f[y]`), and
the bank's catalogue `site`, which `SiteChange` replaces at any time.

| code | actions |
| --- | --- |
| `acquire`, `release` | `Acquire`, `Release` |
| `execute`: StartCrawl, loop over pages | `StartCrawl`, `FetchPage` |
| `execute`: one row | `SkipRow` (no date), `ReadRow` (UpsertProduct), `WriteSnapshot`, `Observe` (insert or update) |
| `MarkMissingUnlisted` | `SelectMissing`, `UnlistOne` |
| `execute`: status | `FinishCrawl` |
| `RefreshProduct` | `RefreshRead`, `RefreshFetch`, `RefreshUpsert`, `RefreshSnapshot`, `RefreshFail` |
| the process | `Crash` (only the tables survive) |

What a row says of a product (its date and unit NAV, or none) is chosen when it
is used, so that the same product may appear twice with different values. A code
has one spelling here, in upper case; `PageParser` has the others. The
constants `Undated`, `FetchFaults`, `StoreFaults` and `Crashes` switch the
faults. A unit NAV of 0 stands for a row without one, as in the code. Three
ghost fields of a crawl let the properties say under which conditions they
hold: `whole` (the pages read are those of one unchanged catalogue, read to its
end), `alone` (no refresh wrote a product and no unlisting failed meanwhile)
and `skipped` (products whose row had no date).

## 3. What the runs check

| run | instance | properties | what it shows |
| --- | --- | --- | --- |
| LedgerSerial | 1 user, 1 request, 2 days, shares {1, 2}, 4 entries, crashes, failing writes | `Replayable`, `VoidsOnlyLatest`, `ImplementsBook` | handled one at a time and not dated back, the requests implement the account book, whatever fails |
| LedgerConcurrent | 2 users, 2 requests, 3 entries, 3 accounts, crashes, failing writes, delisting | `TypeOK`, `TablesConsistent`, `NoEmptyAccount` | the keys hold under interleaving; only a stop, or a failed clean-up, leaves an account without its first buy |
| Replay | lists of up to 5 entries, read exactly and on words of -16..15 | `TypeOK`, `MoneyConserved`, `ClearedHasNoCost`, `AverageCostKept`, `WordExact`, `ReplayReturns` | rounding loses no money; on words the replay does not panic, and the result is the exact one while the totals fit |
| Crawl | 1 crawl at a time, 2 products, a catalogue of up to 3 rows, pages of 1 row of which 2 are read, 2 runs, every fault | `ObservationsMatch`, `SnapshotBacksObservation`, `CatalogueRecorded`, `UnlistsOnlyUnseen` | what the tables say after any failure |
| CrawlShared | 2 triggers, 1 refresh, catalogue of up to 2 rows of which 1 is read, every fault | `OneCrawl`, `CatalogueRecorded`, `CrawlEnds` | the slot, and a refresh beside the crawl |
| HoldingPnl | 1 account, 3 days, 3 entries, 2 NAVs, a scale of 6001, one declared loss | `TypeOK`, `GapIsFromPrices`, `CalendarAddsUp`, `SegmentIsOwnHistory`, `TodayNotInDaily`, `DeclaredIsShown` | the profit of the days adds up to the cumulative profit, but for what was paid beside the NAV |
| Catalog | 3 products, 6 tables, pages of 2, 3 requests | `ShownIsAsked`, `PagesAreTheList`, `LoadingEnds` | order, pages and answers out of order |
| WebSession | 1 browser with 2 requests at a time, 3 names of which 2 differ in case, 4 passwords, 2 sessions of 2 ticks in seconds of 2 | `AuthTypeOK`, `NamesDistinct`, `PasswordKnown`, `SessionLasts`, `ShownIsActing`, `ClosedAfterFirst` | who is registered, signed in and shown, with lost answers, failing statements and restarts |
| HoldingPages | 1 tab with 2 async functions at a time, 2 products, 4 texts in the box, 2 days, 2 entries | `PreviewIsOfBox`, `DetailCurrent`, `VoidAccepted`, `PushesPosted` | what the pages show and send is what was looked up and what is there |
| PageParser | pages of up to 5 lines out of 13, one with a code in lower case, in any number of tables | `RowsUnderOwnHead`, `RefreshAgreesWithCrawl` | rows and headings, and the two readers of a page |

Two runs end in a counterexample. Each states what a document of the repository
says and shows that the code does otherwise:

* LedgerBackdated (`Replayable`): buy today, redeem with yesterday's date.
  `handleRedeem` compares with the shares after all entries; the replay in the
  order of dates then fails, and with it every page of the account.
* LedgerDelete (`OwnEntries`): an account is deleted between the lookup and the
  insert of an append, another user opens one and gets the same row id.

`GapIsFromPrices` is the exact account of the collection gap: it is the sum over
the entries of what was paid beside the NAV from which the entry is counted, to
within one fen per division. A redemption priced at the NAV before its day,
whose own NAV is published later, is such an entry, and its difference stays in
the gap.

More disagreements, and places where the code is surprising, have no run of their own.
Most are a condition of the property that would meet them, named below; dropping the
condition gives the counterexample.

* `Replayable` is checked with one request at a time: two redemptions, or a
  redemption and a void, checked before either is written, break it.
  `docs/技术设计.md:122` wants the check and the write in one transaction.
* A stop between `CreateHolding` and the first `InsertLedger` leaves an empty
  account, and so does a first buy whose insert fails and whose clean-up fails too
  (`server.go:372` ignores the error), although `docs/技术设计.md:324` puts both in one
  transaction. `NoEmptyAccount` has `stranded` for these two, and says that no other
  course of events leaves one; the abstract book has the step `OpenEmpty`.
* The void goes by the largest id, as `docs/技术设计.md:258` says and
  `CONTEXT.md:72`, which speaks of the order in time, does not. The two agree when
  nothing is dated back, where `VoidsOnlyLatest` is checked. The page offers the
  last entry by date: with an entry dated back its button names one that the
  server refuses (the condition of `VoidAccepted`).
* `CatalogueRecorded` leaves out products whose row had no NAV date (`skipped`):
  a full crawl unlists them although they are on the page (`CONTEXT.md:16`).
* A removal whose answer is lost leaves the deleted account on its page, at rest and
  without an error: nothing catches the failure (`HoldingDetail.vue:128-132`).
  `DetailCurrent` allows it (`removeFailed`) for an account that is gone, and until
  the next action; an account that is there is shown as it is after a failed removal too.
* A refresh of a product whose code is on its page in other letters takes that row, and
  then writes it under the code as the page has it (`refresh.go:41`), as a crawl
  does: the product that was asked for stays as it was.
* On the first NAV date what is bought that day has a profit when its price is not
  the NAV: `docs/技术设计.md:315` says so and `CONTEXT.md:120` puts the day at 0. (`GapIsFromPrices` follows the
  code; no property has this as a condition.)
* `ClosedAfterFirst` allows every call that was sent while there was no user:
  several first registrations at once all succeed, where `README.md:70` speaks of
  the first account only.
* Ask for the next page of a long list while a shorter one is loading: the page is
  then behind the last one, and `Products.vue:131` says that nothing matches. The pager
  leads back only when the shorter list has more than one page. (No property excludes it.)
* `PushesPosted` is stated for a box that is left alone while the submit is under
  way; otherwise the page of another account is opened (`NewHolding.vue:156`).
* Two sign-ins at once may leave the cookie of one and the name of the other
  (`crossed` in `ShownIsActing`); actions that overlap may leave an older list on
  the page (`disturbed` in `DetailCurrent`).
* `RowsUnderOwnHead` is checked with headings of which each field has one. When two
  contain a wanted text, `first` takes either. On the documented page that is so
  for the daily return alone
  (`docs/中国银行理财产品净值数据源说明.md:89`), which nothing reads again.

### Bounds

Two requests are enough for each race of the ledger: it takes one request
between two statements of another, and a third actor adds only what happens
after. One request at a time has four entries, a buy, two redemptions and a void after
them; with two, three entries are a first buy, an append to it and one in another account,
or in the same account opened again; three
accounts allow a row id to be deleted and given out again to another user.
`Room` holds a request back only when accepting it could exceed a bound, and
`Replay` stops after `MaxEntries`, so that it alone is checked without
deadlock. Two products and pages of one row already give the repeated row, the
product that moves to another page, the page behind `MaxPages` and the product
that is missing; two runs of `crawl_run` give a crawl after a failed, partial
or interrupted one. One date and one NAV suffice because a row may also have no
NAV, so that there are two different sightings. Three days and three entries
give an entry between two NAVs, a NAV that arrives after a later one, a clearing
with a buy after it, and one dated back. The scale 6001 stands for 1e14: it is
more than twice each NAV, as `NavsAssumption` asks, and with the NAVs 1000 and
1500 every division leaves a rest. Three products on pages of two have ties,
missing values and a second page, and three requests the overtaking of each.
Symmetry is used for users and
requests, in runs whose properties are invariants or of one step.

Words of 32 values overflow in a sum and in a product within five entries. One
browser with two requests has two registrations, two sign-ins and a sign-out that
overtake each other; another browser would only be another client of the server,
which the theorems cover. Two ticks of time, a session of two and a second of two
give a session that is cut off before its end and one that is not. A change to a
password that is too long is left to the theorems. Two async functions are a lookup
beside a lookup, a submit or a load, and two entries give one dated before the
other. Five lines are a heading and rows of two tables, or a heading with four
rows of one product, in both spellings. `Free` takes the first free slot, which loses nothing since the
slots are alike, and a page that writes is not left meanwhile (the bound
`Unwritten`), except by the answer of a submit or a removal.

### Fairness

`CrawlEnds` assumes weak fairness of `Execute(x)`, the steps of a goroutine that
crawls: every fetch ends, at the latest with the client's timeout of 30 seconds
(`main.go:29`), every other step is a local statement, and the loops over rows,
pages and missing products are finite. Nothing is assumed of triggers,
refreshes, the site or crashes.

`LoadingEnds` assumes weak fairness of `Settle`: a fetch of the browser ends with
an answer or an error. That the user sends at most `MaxLoads` requests is part of
it: somebody who never stops clicking never sees the list at rest.

## 4. What is proved

Each theorem holds for every value of the constants that the named `ASSUME`s
allow; what it assumes beyond them is said here. Each rests on an inductive
invariant, which is the property with what an actor knows between two of its steps.

* `FoldProofs` has no system in it: sums over finite sets do not depend on the order
  in which elements are chosen, and a fold of a sequence goes through it from the
  left. A sum goes through sums, multiples and numbers that are near each other, and a
  table adds up to the same by rows and by columns. The prover cannot instantiate an induction rule; where a proof needs
  one, the set of the cases without the wanted fact is taken, and its least element
  (`SmallestIn`, from `WFMin`) refutes itself.
* `LedgerProofs`, whatever the requests do: `TypesAlways` and
  `TablesConsistentAlways` (the inductive invariant `IInv` adds that ids in use are
  bounded, so that they have a largest one and `NewRowid` is new);
  `NoEmptyAccountAlways`, with every fault, adds that only a first
  buy ever comes to insert an account (`CreatesAreFirstBuys`);
  `OwnEntriesWithoutDeletion` assumes that no client asks for a deletion and
  writes do not fail (a failed first buy deletes its account), and adds that a handler's row id belongs to its user:
  exactly what LedgerDelete breaks.
* `LedgerProofs`, under `Serial` (one request at a time, nothing dated back; crashes
  and failures at any statement are allowed): `ReplayableAlways`,
  `VoidsOnlyLatestAlways`, `ImplementsBookAlways`, `NeverOverdrawnAlways`. The
  inductive invariant `SInv` adds to `IInv` and `CreatesAreFirstBuys` that the ids are in
  the order of the days (`InOrder`), that no day is in the future (`DaysPassed`), and
  that what a handler has checked still holds when it writes (`Checked`). The balance after an entry is a sum
  over the entries before it; an insert is after all of them and a void of
  the last one before none, so that the other balances stay. The refinement goes step
  by step: each statement is one operation of the book or a stutter. `BInv` adds
  that a request about to insert has been prepared for what it inserts.
  `NeverOverdrawnAlways` says in terms of the tables what the book promises.
* `ReplayProofs`, exact numbers. `ReplayCorrect`: the types (in particular that neither
  shares nor cost become negative), `MoneyConserved` and `ClearedHasNoCost`, for every
  list of entries. It rests on lemmas on `Amortize`: it never exceeds the cost,
  and division loses less than one unit. `AverageCostKeptAlways`: the action
  property, from the same invariant. `NeverNegative` and `ClearedHasNoCostAlways`
  are its parts.
* `ReplayProofs`, words of any width. `MulDivExact`: the product of two words
  does no harm when the quotient fits. `ReplayAlwaysReturns`: no list of entries makes
  the replay panic, not even one whose totals have been wrapped: the position stays
  in words, and a redemption that passes the tests divides by at least the shares
  it redeems, so that the quotient is at most the cost. `WordReplayIsExact`: while every
  total fits, by the invariant that the two positions are equal.
  `FormatThenParse`: parsing undoes formatting, for every word but the least, whose
  units are lost.
* `HoldingPnlProofs`. The inductive invariant `HInv`: every NAV that is there is
  positive and of a day so far, the entries are numbered in the order of their days
  (`Listed`), and there are none while the account is not opened. `TypesAlways` is
  its part on the entries.
  - `CalendarAddsUpAlways`: the calendar has every day with a NAV, and any other day
    adds 0 to what is collected.
  - `TodayNotInDailyAlways` assumes `DisplayLagDays > 0` as the configured default of 1
    has it (with a lag of 0 the day shown is today and an entry of today does count).
  - `SegmentIsOwnHistoryAlways`: the entries from the last buy that finds no shares
    replay from nothing to what the whole list replays to, because a cleared
    account has no cost.
  - `DeclaredIsShownAlways`, an action property, follows from the step that opens the
    account and `DeclaredProfitExact`, for every amount, profit and NAV below half the
    scale: shares rounded down, then their worth rounded to the nearest fen, give back
    the amount.
  - `GapIsFromPricesAlways`: the invariant `GInv` adds that an opened account has a NAV.
    What a day collects is the sum over the entries so far of their signed shares
    times the move of the NAV, beside what was bought that day. Exchanging the sum
    over days with that over entries leaves for each entry its shares times all
    moves after its day, which telescope to the latest NAV less the one from which the
    entry is counted. There is one division for each day, one for each
    entry and one for the whole holding, and each loses less than a fen.
* `PagesProofs`, of the list of products. `ShownIsAskedAlways`: the inductive
  invariant adds that the requests have different numbers up to `seq`, that loading means that the last
  one is not answered, and that it asks for the present `query` unless the timer
  runs; what the server answers is an arbitrary function there.
  `PagesAreTheListAlways` is about that function. What a row precedes is a strict
  order on codes and values, missing values last in both directions; a finite set with
  such an order is listed by counting for each row those ahead of it, so that the
  sorted list which `SortCatalog` chooses exists; the pages cut it at multiples
  of their size, and joining the first `k` of them gives its first `k` pages. The
  invariant `QInv` only says that the table is one of `Tables` and the query has its fields.
* `PagesProofs`, of the pages of an account. `PreviewIsOfBoxAlways`,
  `DetailCurrentAlways`, `VoidAcceptedAlways` and `PushesPostedAlways` come from one
  inductive invariant, `PagesInv`: the types, with ids that have a largest one; on the
  form, that the last lookup and it alone is what it is busy with (`LookedUp`); that
  a load is of the page shown and a product is found for its code only
  (`Found`); that a form with a submit under way still shows what was posted unless it
  was edited (`Posted`); on a page that was not disturbed, that its one action is all
  that may write, that what a load has read is what the account is, and that a removal
  under way finds the account shown as it is or has already deleted it (`Current`);
  and that a void under way names the last entry of the list from which it was chosen
  (`VoidNamed`). For the void, that last entry by date has the largest id as well,
  unless something was dated back.
* `CrawlRunnerProofs`. `OneCrawlAlways`, `ObservationsAlways`,
  `SnapshotBacksObservationAlways` and `UnlistsOnlyUnseenAlways`. The inductive
  invariant `IInv` adds to the
  invariants that the locals fit the place where the crawl is (`LocalsOK`: a
  row in hand when it is written, a run after StartCrawl, no product of
  `missing` among those seen, a page read and no error when it unlists) and
  that a row about to be observed has its snapshot (`RowsOK`). Each action of a
  crawl is first shown to be a move of one goroutine (`Moves`), and the
  invariant is then shown to survive every move. `CatalogueRecordedAlways` adds, for
  each crawl under way, where each product of its catalogue is: seen or skipped, in
  the page at hand, or on a page not read yet; that what it has seen is listed; and,
  while no refresh wrote a product, with the page on which it was seen.
* `WebSessionProofs`. `AuthCorrect` and its parts `AuthTypesAlways` and
  `NamesDistinctAlways`: types, distinct names and `PasswordKnown`; the
  inductive invariant is their conjunction with what a call knows at each
  stage. `RegistrationCloses`: the action property, from the invariant that a call
  that has passed the count was sent with no user there, or with registration
  open. `SessionsLast`: every row has the `Expiry` of its creation and every token
  one row. `BrowsersAreClients`: `Spec => AuthSpec`, a step at a time, so that all of
  this holds of the server that browsers use. `ShownIsActingAlways`, of the
  composition: the invariant `WebInv` has the types, that the call of a reload is `/me`,
  that a page behind the guard is shown exactly when an account is known, and that
  unless forms crossed one request at a time is under way, whose cookie or answer is of
  the account shown.
* `PageParserProofs`. `RowsUnderOwnHeadAlways` assumes `OneColumnEach`, that no line of
  headings has two columns for one field; with two, `first` returns either
  (see section 3). `RefreshAgreesAlways` assumes nothing of the page: the row that
  `PickProductRow` keeps and the one that a crawl writes last are both the last dated
  row of the product in any spelling, one with a unit NAV before one without, by what the two
  folds have after each row.

The assumptions are the named `ASSUME`s of the modules, which TLC evaluates in
the runs: numbers are natural, the sets of codes and products are finite, a page has
at least one row, a table of products is a function from codes to rows, a stored
unit NAV is not 0, and twice a NAV is less than the scale.

Every safety property of a passing run is stated by one of these theorems. Only
model-checked are `CrawlEnds` and `LoadingEnds`: liveness and ENABLED are outside the
prover.

## 5. Not modelled

* The digits of a decimal, of a date and of a percentage, the HTML library under the
  parser, messages and the text of a crawl's summary: text only.
* The overview, which adds up accounts, and the lists of crawls and NAVs, which
  format rows. `Crawls.vue` loads as `Products.vue` does; the other pages load once
  and keep no state of their own.
* Sorting the list by issuer or showing who holds what: text beside what is modelled.
* Of the configuration everything but `REGISTER_OPEN`, `SESSION_HOURS` and
  `DISPLAY_LAG_DAYS` (`DisplayLagDays` of `HoldingPnl`): addresses, paths, the schedule.
  The largest number of pages is no setting; it is 250 (`runner.go:111`), and
  `MaxPages` in `CrawlRunner`. Migrations and pragmas of the database.
* The expression of the cron job and what a browser caches: outside of the code.

## 6. Plan

1. `Ledger`, `LedgerBook`, `AccountBook`, `Replay`, `CrawlRunner` with their
   runs and first theorems: done.
2. `Position`, `Money`, `Pnl`, `HoldingPnl`: done, over unbounded integers.
3. `Catalog`, `CatalogPage`: done.
4. `MoneyWord`, `WordReplay` with the proofs that the replay does not panic and that
   its result is exact: done.
5. `Auth`, `WebSession`: done, with the proofs of the server.
6. `HoldingPages`, `PageParser`: done.
7. Theorems of `Ledger` and its refinement, `CrawlRunner`, `CatalogPage`,
   `HoldingPages`, `WebSession`, `PageParser`, `HoldingPnl`: done; no safety property
   of a run is without one.
8. A composition of `CrawlRunner` and `Ledger` over `product.listed`, shown to
   implement both, so that their theorems hold of it.
9. Liveness of the pages: a lookup ends, a page that loads comes to rest.
