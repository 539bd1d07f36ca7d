-------------------------- MODULE CrawlRunnerProofs --------------------------
(***************************************************************************)
(* What holds of the crawl for any catalogue, any number of goroutines and *)
(* refreshes, and whatever fetch or statement fails.                       *)
(***************************************************************************)
EXTENDS CrawlRunner, SequenceTheorems, TLAPS

\* What the locals of a crawl are at each place of the program.
LocalOK(q) ==
    /\ q \in Crawl
    /\ q.pc = "page" => q.page < MaxPages
    /\ q.pc \in {"row", "snapshot", "observe"} => q.rows # <<>>
    /\ q.pc \in {"snapshot", "observe"} => q.row \in Nav
    /\ q.pc = "snapshot" => q.row.unit # NoUnit
    /\ q.pc \in {"select", "unlist"} => q.page # 0 /\ ~q.errs
    /\ q.pc = "unlist" => q.missing \cap Seen(q) = {}
    /\ q.run = 0 => q.obs = {}
    /\ q.pc = "start" => q.run = 0 /\ q.page = 0
    /\ q.run = 0 => q.pc \in {"start", "release"}

\* The same for a refresh.
RefreshOK(q) ==
    /\ q \in Refresh
    /\ q.pc \in {"upsert", "snapshot"} => q.row \in Nav
    /\ q.pc = "snapshot" => q.row.unit # NoUnit

LocalsOK ==
    /\ c \in [Crawlers -> {Idle} \cup Crawl]
    /\ f \in [Refreshers -> {Idle} \cup Refresh]
    /\ \A x \in Crawlers : c[x] = Idle \/ LocalOK(c[x])
    /\ \A y \in Refreshers : f[y] = Idle \/ RefreshOK(f[y])

\* Steps that go from locals q to locals r without reading a row of the page.
SameRun(q, r) == r.run = q.run /\ r.obs = q.obs

\* The idle record is known by its pc.
LEMMA IdleNotOther ==
  ASSUME NEW q, q.pc # "idle"
  PROVE  q # Idle
BY DEF Idle

\* The locals of a crawl are not the idle record.
LEMMA CrawlNotIdle == \A q \in Crawl : q # Idle /\ q.pc # "idle"
BY DEF Crawl, Idle

\* Nor are those of a refresh.
LEMMA RefreshNotIdle == \A q \in Refresh : q # Idle /\ q.pc # "idle"
BY DEF Refresh, Idle

\* A page is a list of products that is no longer than the catalogue.
LEMMA PageRowsTyped ==
  ASSUME site \in Sites, NEW page \in Nat \ {0}
  PROVE  PageRows(page) \in Sites
<1>1. PICK n \in 0..MaxSite : site \in [1..n -> Codes]
  BY DEF Sites, SeqOf
<1>2. Len(site) = n
  BY <1>1, BoundsAssumption
<1> DEFINE m == (page - 1) * PageSize + 1
           k == IF page * PageSize <= Len(site) THEN page * PageSize ELSE Len(site)
<1>3. m \in Int /\ m >= 1 /\ k \in Int /\ k <= n /\ k >= 0 /\ k <= page * PageSize
  <2>1. (page - 1) * PageSize \in Nat /\ page * PageSize \in Nat
    BY BoundsAssumption
  <2> QED BY <1>2, <2>1, BoundsAssumption
<1>4. PageRows(page) = SubSeq(site, m, k)
  BY DEF PageRows
<1>5. CASE k < m
  <2>1. SubSeq(site, m, k) = [i \in 1..0 |-> site[i + m - 1]]
    BY <1>3, <1>5, SMT
  <2>2. [i \in 1..0 |-> site[i + m - 1]] \in [1..0 -> Codes]
    OBVIOUS
  <2>3. 0 \in 0..MaxSite
    BY BoundsAssumption
  <2> QED BY <1>4, <2>1, <2>2, <2>3 DEF Sites, SeqOf
<1>6. CASE k >= m
  <2>1. k - m + 1 \in 0..MaxSite
    BY <1>1, <1>3, <1>6, BoundsAssumption
  <2>2. SubSeq(site, m, k) = [i \in 1..(k - m + 1) |-> site[i + m - 1]]
    BY <1>3, <1>6
  <2>3. \A i \in 1..(k - m + 1) : site[i + m - 1] \in Codes
    BY <1>1, <1>3, <1>6
  <2>4. SubSeq(site, m, k) \in [1..(k - m + 1) -> Codes]
    BY <2>2, <2>3
  <2> QED BY <1>4, <2>1, <2>4 DEF Sites, SeqOf
<1> QED BY <1>3, <1>5, <1>6

\* What is left of a page after its first row.
LEMMA TailTyped ==
  ASSUME NEW s \in Sites, s # <<>>
  PROVE  Tail(s) \in Sites /\ Head(s) \in Codes
<1>1. PICK n \in 0..MaxSite : s \in [1..n -> Codes]
  BY DEF Sites, SeqOf
<1>2. n # 0
  <2>1. SUFFICES ASSUME n = 0 PROVE FALSE
    OBVIOUS
  <2>2. s \in Seq(Codes) /\ Len(s) = 0
    BY <1>1, <2>1
  <2> QED BY <2>2
<1>3. s \in Seq(Codes) /\ Len(s) = n
  BY <1>1, BoundsAssumption
<1>4. Tail(s) \in Seq(Codes) /\ Len(Tail(s)) = n - 1
  BY <1>2, <1>3, BoundsAssumption, HeadTailProperties
<1>5. Tail(s) \in [1..(n - 1) -> Codes]
  BY <1>4, LenProperties
<1>6. n - 1 \in 0..MaxSite
  BY <1>2, BoundsAssumption
<1>7. Head(s) \in Codes
  BY <1>2, <1>3
<1> QED BY <1>5, <1>6, <1>7 DEF Sites, SeqOf

\* The locals after the loop over the pages fit the place.
LEMMA AfterScanOK ==
  ASSUME NEW q \in Crawl, q.run # 0
  PROVE  LocalOK(AfterScan(q)) /\ SameRun(q, AfterScan(q))
<1> DEFINE r == AfterScan(q)
<1>1. r = [q EXCEPT !.pc = IF q.page = 0 \/ q.errs THEN "finish" ELSE "select"]
  BY DEF AfterScan
<1>2. r \in Crawl
  BY <1>1 DEF Crawl
<1>3. r.pc = (IF q.page = 0 \/ q.errs THEN "finish" ELSE "select")
      /\ r.page = q.page /\ r.errs = q.errs /\ r.run = q.run /\ r.obs = q.obs
  BY <1>1 DEF Crawl
<1> QED BY <1>2, <1>3 DEF LocalOK, SameRun

\* The variables that the rest of a row or of a page does not change.
LEMMA AfterRowOK ==
  ASSUME NEW q \in Crawl, q.run # 0
  PROVE  LocalOK(AfterRow(q)) /\ SameRun(q, AfterRow(q))
<1>1. CASE q.rows # <<>>
  <2> DEFINE r == AfterRow(q)
  <2>1. r = [q EXCEPT !.pc = "row"]
    BY <1>1 DEF AfterRow
  <2>2. r \in Crawl /\ r.pc = "row" /\ r.rows = q.rows /\ r.run = q.run /\ r.obs = q.obs
    BY <2>1 DEF Crawl
  <2> QED BY <1>1, <2>2 DEF LocalOK, SameRun
<1>2. CASE q.rows = <<>> /\ q.page < MaxPages
  <2> DEFINE r == AfterRow(q)
  <2>1. r = [q EXCEPT !.pc = "page"]
    BY <1>2 DEF AfterRow
  <2>2. r \in Crawl /\ r.pc = "page" /\ r.page = q.page /\ r.run = q.run /\ r.obs = q.obs
    BY <2>1 DEF Crawl
  <2> QED BY <1>2, <2>2 DEF LocalOK, SameRun
<1>3. CASE q.rows = <<>> /\ ~(q.page < MaxPages)
  <2> DEFINE p == [q EXCEPT !.whole = @ /\ ~HasPage(q.page + 1)]
  <2>1. AfterRow(q) = AfterScan(p)
    BY <1>3 DEF AfterRow
  <2>2. (q.whole /\ ~HasPage(q.page + 1)) \in BOOLEAN
    BY Zenon
  <2>3. p \in Crawl /\ p.run = q.run /\ p.obs = q.obs
    BY <2>2 DEF Crawl
  <2> HIDE DEF p
  <2> QED BY <2>1, <2>3, AfterScanOK DEF SameRun
<1> QED BY <1>1, <1>2, <1>3

\* Noting an error changes no type and no run.
LEMMA ErringOK ==
  ASSUME NEW q \in Crawl
  PROVE  Erring(q) \in Crawl /\ SameRun(q, Erring(q)) /\ Erring(q).pc = q.pc
BY DEF Erring, SameRun, Crawl

\* Dropping the first row changes no type and no run.
LEMMA NextRowOK ==
  ASSUME NEW q \in Crawl, q.rows # <<>>
  PROVE  NextRow(q) \in Crawl /\ SameRun(q, NextRow(q))
<1>1. Tail(q.rows) \in Sites
  BY TailTyped DEF Crawl
<1> QED BY <1>1 DEF NextRow, SameRun, Crawl

-----------------------------------------------------------------------------
HasKey(table, row) == \E s \in table : s.code = row.code /\ s.day = row.day

\* The run of a crawl has a row, and a unit NAV about to be observed has its
\* snapshot.
RowsOK ==
    \A x \in Executing :
        /\ c[x].run # 0 => c[x].run \in DOMAIN runs
        /\ c[x].pc = "observe" /\ c[x].row.unit # NoUnit =>
             HasKey(snapshot, c[x].row)

IInv ==
    /\ TypeOK
    /\ LocalsOK
    /\ RowsOK
    /\ OneCrawl
    /\ ObservationsMatch
    /\ SnapshotBacksObservation

\* What a step of a crawl makes of its locals, next to the slot: it keeps its
\* run and its map obs, or starts a run, or observes a row.
StartsRun(x, r) ==
    /\ c[x].run = 0 /\ c[x].obs = {} /\ r.obs = {}
    /\ r.run = Len(runs) + 1
    /\ runs' = Append(runs, "running")
    /\ observation' = observation

Observes(x, r) ==
    /\ c[x].pc = "observe"
    /\ r.run = c[x].run
    /\ r.obs = {o \in c[x].obs : o.code # c[x].row.code} \cup {c[x].row}
    /\ IF c[x].row.code \in Seen(c[x])
       THEN UpdateObservation(c[x].run, c[x].row)
       ELSE InsertObservation(c[x].run, c[x].row)

Moves(x, r) ==
    /\ LocalOK(r)
    /\ c' = [c EXCEPT ![x] = r]
    /\ r.pc = "observe" /\ r.row.unit # NoUnit => HasKey(snapshot', r.row)
    /\ \/ SameRun(c[x], r) /\ observation' = observation
       \/ StartsRun(x, r)
       \/ Observes(x, r)

\* A crawl at a statement has locals that fit it.
LEMMA Locals ==
  ASSUME IInv, NEW x \in Crawlers, c[x].pc # "idle"
  PROVE  c[x] \in Crawl /\ LocalOK(c[x]) /\ x \in Executing
BY DEF IInv, LocalsOK, LocalOK, Idle, Executing

\* The locals after StartCrawl.
LEMMA SetPcAndRun ==
  ASSUME NEW q \in Crawl, NEW n \in Nat
  PROVE  LET r == [q EXCEPT !.pc = "page", !.run = n]
         IN /\ r \in Crawl /\ r.pc = "page" /\ r.page = q.page
            /\ r.run = n /\ r.obs = q.obs
<1> DEFINE p == [q EXCEPT !.pc = "page"]
<1>1. p \in Crawl /\ p.pc = "page" /\ p.page = q.page /\ p.obs = q.obs
  BY DEF Crawl
<1> HIDE DEF p
<1> DEFINE r == [p EXCEPT !.run = n]
<1>2. r \in Crawl /\ r.pc = p.pc /\ r.page = p.page /\ r.run = n /\ r.obs = p.obs
  BY <1>1 DEF Crawl
<1>3. r = [q EXCEPT !.pc = "page", !.run = n]
  BY DEF p
<1> HIDE DEF r
<1> QED BY <1>1, <1>2, <1>3

\* StartCrawl is a move: it starts a run or gives up.
LEMMA StartCrawlMoves ==
  ASSUME IInv, NEW x \in Crawlers, StartCrawl(x)
  PROVE  \E r : Moves(x, r)
<1>1. c[x] \in Crawl /\ LocalOK(c[x]) /\ c[x].pc = "start"
  BY Locals DEF StartCrawl
<1>2. c[x].run = 0 /\ c[x].obs = {} /\ c[x].page = 0
  BY <1>1 DEF LocalOK
<1>3. CASE /\ runs' = Append(runs, "running")
           /\ c' = [c EXCEPT ![x] = [c[x] EXCEPT !.pc = "page", !.run = Len(runs) + 1]]
  <2> DEFINE r == [c[x] EXCEPT !.pc = "page", !.run = Len(runs) + 1]
  <2>1. Len(runs) \in Nat
    BY DEF IInv, TypeOK
  <2>2. /\ r \in Crawl /\ r.pc = "page" /\ r.page = c[x].page
        /\ r.run = Len(runs) + 1 /\ r.obs = c[x].obs
    <3>1. Len(runs) + 1 \in Nat
      BY <2>1
    <3> QED BY <1>1, <3>1, SetPcAndRun, Zenon
  <2>3. LocalOK(r)
    BY <1>2, <2>1, <2>2, BoundsAssumption DEF LocalOK
  <2>4. StartsRun(x, r)
    BY <1>2, <1>3, <2>2 DEF StartsRun, StartCrawl
  <2>5. c' = [c EXCEPT ![x] = r]
    BY <1>3
  <2> QED BY <2>2, <2>3, <2>4, <2>5 DEF Moves
<1>4. CASE c' = [c EXCEPT ![x] = [c[x] EXCEPT !.pc = "release"]]
  <2> DEFINE r == [c[x] EXCEPT !.pc = "release"]
  <2>1. /\ r \in Crawl /\ r.pc = "release" /\ r.run = c[x].run /\ r.obs = c[x].obs
    BY <1>1 DEF Crawl
  <2>2. LocalOK(r) /\ SameRun(c[x], r)
    BY <1>2, <2>1 DEF LocalOK, SameRun
  <2>3. observation' = observation
    BY DEF StartCrawl
  <2>4. c' = [c EXCEPT ![x] = r]
    BY <1>4
  <2> QED BY <2>1, <2>2, <2>3, <2>4 DEF Moves
<1> QED BY <1>3, <1>4 DEF StartCrawl, Goto

\* A step that sets the locals to r, with nothing observed and no row read.
LEMMA QuietMoves ==
  ASSUME NEW x \in Crawlers, NEW r, LocalOK(r), SameRun(c[x], r),
         c' = [c EXCEPT ![x] = r], observation' = observation,
         r.pc # "observe"
  PROVE  \E s : Moves(x, s)
BY DEF Moves

\* Neither the end of the scan nor the end of a row is about to observe.
LEMMA AfterScanNotObserve ==
  ASSUME NEW q \in Crawl
  PROVE  AfterScan(q).pc # "observe" /\ AfterRow(q).pc # "observe"
<1>1. \A p \in Crawl : AfterScan(p).pc # "observe"
  BY DEF AfterScan, Crawl
<1> DEFINE p == [q EXCEPT !.whole = @ /\ ~HasPage(q.page + 1)]
<1>2. (q.whole /\ ~HasPage(q.page + 1)) \in BOOLEAN
  BY Zenon
<1>3. p \in Crawl
  BY <1>2 DEF Crawl
<1>4. [q EXCEPT !.pc = "row"].pc # "observe" /\ [q EXCEPT !.pc = "page"].pc # "observe"
  BY DEF Crawl
<1>5. AfterRow(q) \in {[q EXCEPT !.pc = "row"], [q EXCEPT !.pc = "page"], AfterScan(p)}
  BY DEF AfterRow
<1> HIDE DEF p
<1> QED BY <1>1, <1>3, <1>4, <1>5

\* FetchPage is a move, in each of its five outcomes.
LEMMA FetchPageMoves ==
  ASSUME IInv, NEW x \in Crawlers, FetchPage(x)
  PROVE  \E r : Moves(x, r)
<1> DEFINE q == c[x]
           read == [q EXCEPT !.page = @ + 1]
<1>1. q \in Crawl /\ LocalOK(q) /\ q.pc = "page"
  BY Locals DEF FetchPage
<1>2. q.run # 0 /\ q.page < MaxPages /\ q.page \in 0..MaxPages
  BY <1>1 DEF LocalOK, Crawl
<1>3. read \in Crawl /\ read.run = q.run /\ read.obs = q.obs
  BY <1>1, <1>2, BoundsAssumption DEF Crawl
<1>4. observation' = observation
  BY DEF FetchPage, tables
<1>5. CASE Goto(x, AfterRow([read EXCEPT !.rows = PageRows(q.page + 1)]))
  <2> DEFINE p == [read EXCEPT !.rows = PageRows(q.page + 1)]
  <2>1. PageRows(q.page + 1) \in Sites
    <3>1. q.page + 1 \in Nat \ {0}
      BY <1>2, BoundsAssumption
    <3>2. site \in Sites
      BY DEF IInv, TypeOK
    <3> QED BY <3>1, <3>2, PageRowsTyped
  <2>2. p \in Crawl /\ p.run = q.run /\ p.obs = q.obs
    BY <1>3, <2>1 DEF Crawl
  <2>3. c' = [c EXCEPT ![x] = AfterRow(p)]
    BY <1>5 DEF Goto
  <2> HIDE DEF p
  <2>4. LocalOK(AfterRow(p)) /\ SameRun(q, AfterRow(p)) /\ AfterRow(p).pc # "observe"
    BY <1>2, <2>2, AfterRowOK, AfterScanNotObserve DEF SameRun
  <2> QED BY <1>4, <2>3, <2>4, QuietMoves
<1>6. CASE Goto(x, AfterScan(q))
  BY <1>1, <1>2, <1>4, <1>6, AfterScanOK, AfterScanNotObserve, QuietMoves DEF Goto
<1>7. CASE Goto(x, AfterScan(Erring(q)))
  <2>1. Erring(q) \in Crawl /\ SameRun(q, Erring(q))
    BY <1>1, ErringOK
  <2>2. LocalOK(AfterScan(Erring(q))) /\ SameRun(q, AfterScan(Erring(q)))
    BY <1>2, <2>1, AfterScanOK DEF SameRun
  <2> QED BY <1>4, <1>7, <2>1, <2>2, AfterScanNotObserve, QuietMoves DEF Goto
<1>8. CASE Goto(x, AfterScan([q EXCEPT !.whole = FALSE]))
  <2> DEFINE p == [q EXCEPT !.whole = FALSE]
  <2>1. p \in Crawl /\ p.run = q.run /\ p.obs = q.obs
    BY <1>1 DEF Crawl
  <2>2. c' = [c EXCEPT ![x] = AfterScan(p)]
    BY <1>8 DEF Goto
  <2> HIDE DEF p
  <2>3. LocalOK(AfterScan(p)) /\ SameRun(q, AfterScan(p))
    BY <1>2, <2>1, AfterScanOK DEF SameRun
  <2> QED BY <1>4, <2>1, <2>2, <2>3, AfterScanNotObserve, QuietMoves
<1>9. CASE Goto(x, AfterRow([read EXCEPT !.whole = FALSE]))
  <2> DEFINE p == [read EXCEPT !.whole = FALSE]
  <2>1. p \in Crawl /\ p.run = q.run /\ p.obs = q.obs
    BY <1>3 DEF Crawl
  <2>2. c' = [c EXCEPT ![x] = AfterRow(p)]
    BY <1>9 DEF Goto
  <2> HIDE DEF p
  <2>3. LocalOK(AfterRow(p)) /\ SameRun(q, AfterRow(p))
    BY <1>2, <2>1, AfterRowOK DEF SameRun
  <2> QED BY <1>4, <2>1, <2>2, <2>3, AfterScanNotObserve, QuietMoves
<1> QED BY <1>5, <1>6, <1>7, <1>8, <1>9 DEF FetchPage

\* A row is done with: the loop goes on with the locals p of the same run.
LEMMA RowDone ==
  ASSUME NEW x \in Crawlers, NEW p \in Crawl, SameRun(c[x], p), c[x].run # 0,
         c' = [c EXCEPT ![x] = AfterRow(p)], observation' = observation
  PROVE  \E r : Moves(x, r)
<1>1. /\ LocalOK(AfterRow(p))
      /\ SameRun(c[x], AfterRow(p))
      /\ AfterRow(p).pc # "observe"
  BY AfterRowOK, AfterScanNotObserve DEF SameRun
<1> QED BY <1>1, QuietMoves

\* A row fails: the error is noted first.
LEMMA RowFailed ==
  ASSUME NEW x \in Crawlers, c[x] \in Crawl, c[x].rows # <<>>, c[x].run # 0,
         c' = [c EXCEPT ![x] = AfterRow(Erring(NextRow(c[x])))],
         observation' = observation
  PROVE  \E r : Moves(x, r)
<1>1. NextRow(c[x]) \in Crawl /\ SameRun(c[x], NextRow(c[x]))
  BY NextRowOK
<1>2. Erring(NextRow(c[x])) \in Crawl /\ SameRun(c[x], Erring(NextRow(c[x])))
  BY <1>1, ErringOK DEF SameRun
<1> QED BY <1>2, RowDone

\* SkipRow is a move.
LEMMA SkipRowMoves ==
  ASSUME IInv, NEW x \in Crawlers, SkipRow(x)
  PROVE  \E r : Moves(x, r)
<1>1. c[x] \in Crawl /\ LocalOK(c[x]) /\ c[x].pc = "row"
  BY Locals DEF SkipRow
<1>2. c[x].rows # <<>> /\ c[x].run # 0 /\ c[x].rows \in Sites
  BY <1>1 DEF LocalOK, Crawl
<1> DEFINE n == NextRow(c[x])
           p == [n EXCEPT !.skipped = @ \cup {Head(c[x].rows)}]
<1>3. n \in Crawl /\ SameRun(c[x], n)
  BY <1>1, <1>2, NextRowOK
<1>4. Head(c[x].rows) \in Codes
  BY <1>2, TailTyped
<1>5. p \in Crawl /\ SameRun(c[x], p)
  <2> HIDE DEF n
  <2> QED BY <1>3, <1>4 DEF Crawl, SameRun
<1>6. c' = [c EXCEPT ![x] = AfterRow(p)] /\ observation' = observation
  BY DEF SkipRow, Goto, tables
<1> HIDE DEF p
<1> QED BY <1>2, <1>5, <1>6, RowDone

\* The locals with a row in hand.
LEMMA SetRow ==
  ASSUME NEW q \in Crawl, NEW row \in Nav, NEW pc \in {"snapshot", "observe"}
  PROVE  LET r == [q EXCEPT !.pc = pc, !.row = row]
         IN /\ r \in Crawl /\ r.pc = pc /\ r.row = row /\ r.rows = q.rows
            /\ SameRun(q, r)
<1> DEFINE p == [q EXCEPT !.pc = pc]
<1>1. p \in Crawl /\ p.pc = pc /\ p.rows = q.rows /\ SameRun(q, p)
  BY DEF Crawl, SameRun
<1> HIDE DEF p
<1> DEFINE r == [p EXCEPT !.row = row]
<1>2. r \in Crawl /\ r.pc = p.pc /\ r.row = row /\ r.rows = p.rows /\ SameRun(p, r)
  BY <1>1 DEF Crawl, SameRun
<1>3. r = [q EXCEPT !.pc = pc, !.row = row]
  BY DEF p
<1> HIDE DEF r
<1> QED BY <1>1, <1>2, <1>3 DEF SameRun

\* ReadRow is a move.
LEMMA ReadRowMoves ==
  ASSUME IInv, NEW x \in Crawlers, ReadRow(x)
  PROVE  \E r : Moves(x, r)
<1> DEFINE q == c[x]
           code == Head(q.rows)
<1>1. q \in Crawl /\ LocalOK(q) /\ q.pc = "row"
  BY Locals DEF ReadRow
<1>2. q.rows # <<>> /\ q.run # 0 /\ q.rows \in Sites
  BY <1>1 DEF LocalOK, Crawl
<1>3. code \in Codes
  BY <1>2, TailTyped
<1>4. observation' = observation
  BY DEF ReadRow
<1>5. ASSUME NEW day \in Days, NEW unit \in Units \cup {NoUnit},
             Goto(x, IF unit # NoUnit
                     THEN [q EXCEPT !.pc = "snapshot",
                             !.row = [code |-> code, day |-> day, unit |-> unit]]
                     ELSE IF code \in Seen(q) THEN AfterRow(NextRow(q))
                     ELSE [q EXCEPT !.pc = "observe",
                             !.row = [code |-> code, day |-> day, unit |-> unit]])
      PROVE  \E r : Moves(x, r)
  <2> DEFINE row == [code |-> code, day |-> day, unit |-> unit]
  <2>1. row \in Nav /\ row.unit = unit
    BY <1>3 DEF Nav
  <2> HIDE DEF row
  <2>2. CASE unit # NoUnit
    <3> DEFINE r == [q EXCEPT !.pc = "snapshot", !.row = row]
    <3>1. /\ r \in Crawl /\ r.pc = "snapshot" /\ r.row = row
          /\ r.rows = q.rows /\ SameRun(q, r)
      BY <1>1, <2>1, SetRow
    <3>2. c' = [c EXCEPT ![x] = r]
      BY <1>5, <2>2 DEF Goto, row
    <3> HIDE DEF r
    <3>3. LocalOK(r)
      BY <1>2, <2>1, <2>2, <3>1 DEF LocalOK, SameRun
    <3> QED BY <1>4, <3>1, <3>2, <3>3, QuietMoves
  <2>3. CASE unit = NoUnit /\ code \in Seen(q)
    <3>1. NextRow(q) \in Crawl /\ SameRun(q, NextRow(q))
      BY <1>1, <1>2, NextRowOK
    <3>2. c' = [c EXCEPT ![x] = AfterRow(NextRow(q))]
      BY <1>5, <2>3 DEF Goto
    <3> QED BY <1>2, <1>4, <3>1, <3>2, RowDone
  <2>4. CASE unit = NoUnit /\ code \notin Seen(q)
    <3> DEFINE r == [q EXCEPT !.pc = "observe", !.row = row]
    <3>1. /\ r \in Crawl /\ r.pc = "observe" /\ r.row = row
          /\ r.rows = q.rows /\ SameRun(q, r)
      BY <1>1, <2>1, SetRow
    <3>2. c' = [c EXCEPT ![x] = r]
      BY <1>5, <2>4 DEF Goto, row
    <3> HIDE DEF r
    <3>3. LocalOK(r)
      BY <1>2, <2>1, <3>1 DEF LocalOK, SameRun
    <3> QED BY <1>4, <2>1, <2>4, <3>1, <3>2, <3>3 DEF Moves
  <2> QED BY <2>2, <2>3, <2>4
<1>6. CASE Goto(x, AfterRow(Erring(NextRow(q))))
  BY <1>1, <1>2, <1>4, <1>6, RowFailed DEF Goto
<1> QED BY <1>5, <1>6 DEF ReadRow

\* WriteSnapshot is a move: a row to observe has a snapshot by then.
LEMMA WriteSnapshotMoves ==
  ASSUME IInv, NEW x \in Crawlers, WriteSnapshot(x)
  PROVE  \E r : Moves(x, r)
<1> DEFINE q == c[x]
<1>1. q \in Crawl /\ LocalOK(q) /\ q.pc = "snapshot"
  BY Locals DEF WriteSnapshot
<1>2. q.rows # <<>> /\ q.run # 0 /\ q.row \in Nav
  BY <1>1 DEF LocalOK
<1>3. observation' = observation
  BY DEF WriteSnapshot
<1>4. CASE Goto(x, AfterRow(NextRow(q)))
  <2>1. NextRow(q) \in Crawl /\ SameRun(q, NextRow(q))
    BY <1>1, <1>2, NextRowOK
  <2> QED BY <1>2, <1>3, <1>4, <2>1, RowDone DEF Goto
<1>5. CASE UpsertSnapshot(q.row) /\ Goto(x, [q EXCEPT !.pc = "observe"])
  <2> DEFINE r == [q EXCEPT !.pc = "observe"]
  <2>1. /\ r \in Crawl /\ r.pc = "observe" /\ r.row = q.row
        /\ r.rows = q.rows /\ SameRun(q, r)
    BY <1>1 DEF Crawl, SameRun
  <2>2. c' = [c EXCEPT ![x] = r]
    BY <1>5 DEF Goto
  <2>3. HasKey(snapshot', r.row)
    BY <1>5, <2>1 DEF UpsertSnapshot, HasKey
  <2>4. LocalOK(r)
    BY <1>2, <2>1 DEF LocalOK, SameRun
  <2> HIDE DEF r
  <2> QED BY <1>3, <2>1, <2>2, <2>3, <2>4 DEF Moves
<1>6. CASE Goto(x, AfterRow(Erring(NextRow(q))))
  BY <1>1, <1>2, <1>3, <1>6, RowFailed DEF Goto
<1> QED BY <1>4, <1>5, <1>6 DEF WriteSnapshot

\* Observe is a move: table and map change together or not at all.
LEMMA ObserveMoves ==
  ASSUME IInv, NEW x \in Crawlers, Observe(x)
  PROVE  \E r : Moves(x, r)
<1> DEFINE q == c[x]
           obs == {o \in q.obs : o.code # q.row.code} \cup {q.row}
<1>1. q \in Crawl /\ LocalOK(q) /\ q.pc = "observe"
  BY Locals DEF Observe
<1>2. q.rows # <<>> /\ q.run # 0 /\ q.row \in Nav
  BY <1>1 DEF LocalOK
<1>3. CASE /\ IF q.row.code \in Seen(q)
              THEN UpdateObservation(q.run, q.row)
              ELSE InsertObservation(q.run, q.row)
           /\ Goto(x, AfterRow(NextRow([q EXCEPT !.obs = obs])))
  <2>1. obs \in SUBSET Nav
    BY <1>1, <1>2 DEF Crawl
  <2> DEFINE p == [q EXCEPT !.obs = obs]
  <2>2. /\ p \in Crawl /\ p.obs = obs /\ p.run = q.run /\ p.rows = q.rows
    <3> HIDE DEF obs
    <3> QED BY <1>1, <2>1 DEF Crawl
  <2>3. c' = [c EXCEPT ![x] = AfterRow(NextRow(p))]
    BY <1>3 DEF Goto
  <2> HIDE DEF p
  <2>4. NextRow(p) \in Crawl /\ SameRun(p, NextRow(p))
    BY <1>2, <2>2, NextRowOK
  <2> DEFINE r == AfterRow(NextRow(p))
  <2>5. LocalOK(r) /\ SameRun(NextRow(p), r) /\ r.pc # "observe"
    BY <1>2, <2>2, <2>4, AfterRowOK, AfterScanNotObserve DEF SameRun
  <2>6. r.run = q.run /\ r.obs = obs
    BY <2>2, <2>4, <2>5 DEF SameRun
  <2> HIDE DEF r
  <2>7. Observes(x, r)
    BY <1>1, <1>3, <2>6 DEF Observes
  <2>8. c' = [c EXCEPT ![x] = r]
    BY <2>3 DEF r
  <2> QED BY <2>5, <2>7, <2>8 DEF Moves
<1>4. CASE Goto(x, AfterRow(Erring(NextRow(q)))) /\ observation' = observation
  BY <1>1, <1>2, <1>4, RowFailed DEF Goto
<1> QED BY <1>3, <1>4 DEF Observe

\* The locals between two updates of MarkMissingUnlisted fit the place.
LEMMA AfterUnlistOK ==
  ASSUME NEW q \in Crawl, q.run # 0, q.page # 0, ~q.errs,
         q.missing \cap Seen(q) = {}
  PROVE  /\ LocalOK(AfterUnlist(q)) /\ SameRun(q, AfterUnlist(q))
         /\ AfterUnlist(q).pc # "observe"
<1> DEFINE r == AfterUnlist(q)
<1>1. r = [q EXCEPT !.pc = IF q.missing = {} THEN "finish" ELSE "unlist"]
  BY DEF AfterUnlist
<1>2. /\ r \in Crawl /\ r.pc \in {"finish", "unlist"} /\ SameRun(q, r)
      /\ r.page = q.page /\ r.errs = q.errs /\ r.missing = q.missing
  BY <1>1 DEF Crawl, SameRun
<1> HIDE DEF r
<1>3. Seen(r) = Seen(q)
  BY <1>2 DEF Seen, SameRun
<1>4. LocalOK(r)
  BY <1>2, <1>3 DEF LocalOK, SameRun
<1> QED BY <1>2, <1>4 DEF r

\* The set of products still to be unlisted is set.
LEMMA SetMissing ==
  ASSUME NEW q \in Crawl, NEW m \in SUBSET Codes, NEW b \in BOOLEAN
  PROVE  LET r == [q EXCEPT !.missing = m, !.alone = b]
         IN /\ r \in Crawl /\ r.missing = m /\ SameRun(q, r)
            /\ r.page = q.page /\ r.errs = q.errs /\ Seen(r) = Seen(q)
<1> DEFINE p == [q EXCEPT !.missing = m]
<1>1. /\ p \in Crawl /\ p.missing = m /\ SameRun(q, p)
      /\ p.page = q.page /\ p.errs = q.errs
  BY DEF Crawl, SameRun
<1> HIDE DEF p
<1> DEFINE r == [p EXCEPT !.alone = b]
<1>2. /\ r \in Crawl /\ r.missing = p.missing /\ SameRun(p, r)
      /\ r.page = p.page /\ r.errs = p.errs
  BY <1>1 DEF Crawl, SameRun
<1>3. r = [q EXCEPT !.missing = m, !.alone = b]
  BY DEF p
<1> HIDE DEF r
<1>4. SameRun(q, r)
  BY <1>1, <1>2 DEF SameRun
<1>5. Seen(r) = Seen(q)
  BY <1>4 DEF Seen, SameRun
<1> QED BY <1>1, <1>2, <1>3, <1>4, <1>5

\* As above with the last field as it is.
LEMMA SetMissingOnly ==
  ASSUME NEW q \in Crawl, NEW m \in SUBSET Codes
  PROVE  LET r == [q EXCEPT !.missing = m]
         IN /\ r \in Crawl /\ r.missing = m /\ SameRun(q, r)
            /\ r.page = q.page /\ r.errs = q.errs /\ Seen(r) = Seen(q)
BY DEF Crawl, SameRun, Seen

\* SelectMissing is a move: none of the missing products was seen.
LEMMA SelectMissingMoves ==
  ASSUME IInv, NEW x \in Crawlers, SelectMissing(x)
  PROVE  \E r : Moves(x, r)
<1> DEFINE q == c[x]
           missing == Listed \ Seen(q)
<1>1. q \in Crawl /\ LocalOK(q) /\ q.pc = "select"
  BY Locals DEF SelectMissing
<1>2. q.run # 0 /\ q.page # 0 /\ ~q.errs
  BY <1>1 DEF LocalOK
<1>3. observation' = observation
  BY DEF SelectMissing, tables
<1>4. missing \in SUBSET Codes
  BY DEF Listed
<1>5. CASE Goto(x, AfterUnlist([q EXCEPT !.missing = missing]))
  <2> DEFINE p == [q EXCEPT !.missing = missing]
  <2>1. /\ p \in Crawl /\ p.missing = missing /\ SameRun(q, p)
        /\ p.page = q.page /\ p.errs = q.errs /\ Seen(p) = Seen(q)
    BY <1>1, <1>4, SetMissingOnly
  <2>2. c' = [c EXCEPT ![x] = AfterUnlist(p)]
    BY <1>5 DEF Goto
  <2> HIDE DEF p
  <2>3. p.missing \cap Seen(p) = {}
    BY <2>1
  <2>4. /\ LocalOK(AfterUnlist(p)) /\ SameRun(q, AfterUnlist(p))
        /\ AfterUnlist(p).pc # "observe"
    BY <1>2, <2>1, <2>3, AfterUnlistOK DEF SameRun
  <2> QED BY <1>3, <2>2, <2>4, QuietMoves
<1>6. ASSUME NEW part \in SUBSET missing,
             Goto(x, AfterUnlist([q EXCEPT !.missing = part, !.alone = FALSE]))
      PROVE  \E r : Moves(x, r)
  <2> DEFINE p == [q EXCEPT !.missing = part, !.alone = FALSE]
  <2>1. /\ p \in Crawl /\ p.missing = part /\ SameRun(q, p)
        /\ p.page = q.page /\ p.errs = q.errs /\ Seen(p) = Seen(q)
    <3>1. part \in SUBSET Codes
      BY <1>4
    <3> QED BY <1>1, <3>1, SetMissing
  <2>2. c' = [c EXCEPT ![x] = AfterUnlist(p)]
    BY <1>6 DEF Goto
  <2> HIDE DEF p
  <2>3. p.missing \cap Seen(p) = {}
    BY <2>1
  <2>4. /\ LocalOK(AfterUnlist(p)) /\ SameRun(q, AfterUnlist(p))
        /\ AfterUnlist(p).pc # "observe"
    BY <1>2, <2>1, <2>3, AfterUnlistOK DEF SameRun
  <2> QED BY <1>3, <2>2, <2>4, QuietMoves
<1> QED BY <1>5, <1>6 DEF SelectMissing

\* UnlistOne is a move.
LEMMA UnlistOneMoves ==
  ASSUME IInv, NEW x \in Crawlers, UnlistOne(x)
  PROVE  \E r : Moves(x, r)
<1> DEFINE q == c[x]
<1>1. q \in Crawl /\ LocalOK(q) /\ q.pc = "unlist"
  BY Locals DEF UnlistOne
<1>2. /\ q.run # 0 /\ q.page # 0 /\ ~q.errs
      /\ q.missing \cap Seen(q) = {} /\ q.missing \in SUBSET Codes
  BY <1>1 DEF LocalOK, Crawl
<1>3. observation' = observation
  BY DEF UnlistOne
<1>4. ASSUME NEW code \in q.missing,
             Goto(x, AfterUnlist([q EXCEPT !.missing = @ \ {code}]))
      PROVE  \E r : Moves(x, r)
  <2> DEFINE m == q.missing \ {code}
             p == [q EXCEPT !.missing = m]
  <2>1. /\ p \in Crawl /\ p.missing = m /\ SameRun(q, p)
        /\ p.page = q.page /\ p.errs = q.errs /\ Seen(p) = Seen(q)
    <3>1. m \in SUBSET Codes
      BY <1>2
    <3> QED BY <1>1, <3>1, SetMissingOnly
  <2>2. c' = [c EXCEPT ![x] = AfterUnlist(p)]
    BY <1>4 DEF Goto
  <2> HIDE DEF p
  <2>3. p.missing \cap Seen(p) = {}
    BY <1>2, <2>1
  <2>4. /\ LocalOK(AfterUnlist(p)) /\ SameRun(q, AfterUnlist(p))
        /\ AfterUnlist(p).pc # "observe"
    BY <1>2, <2>1, <2>3, AfterUnlistOK DEF SameRun
  <2> QED BY <1>3, <2>2, <2>4, QuietMoves
<1>5. CASE Goto(x, [q EXCEPT !.pc = "finish", !.alone = FALSE])
  <2> DEFINE p == [q EXCEPT !.pc = "finish"]
             r == [p EXCEPT !.alone = FALSE]
  <2>1. p \in Crawl /\ p.pc = "finish" /\ SameRun(q, p)
    BY <1>1 DEF Crawl, SameRun
  <2>2. r = [q EXCEPT !.pc = "finish", !.alone = FALSE]
    OBVIOUS
  <2> HIDE DEF p
  <2>3. r \in Crawl /\ r.pc = "finish" /\ SameRun(p, r)
    BY <2>1 DEF Crawl, SameRun
  <2>4. c' = [c EXCEPT ![x] = r]
    BY <1>5, <2>2 DEF Goto
  <2> HIDE DEF r
  <2>5. LocalOK(r) /\ SameRun(q, r)
    BY <1>2, <2>1, <2>3 DEF LocalOK, SameRun
  <2> QED BY <1>3, <2>3, <2>4, <2>5, QuietMoves
<1> QED BY <1>4, <1>5 DEF UnlistOne

\* FinishCrawl is a move.
LEMMA FinishCrawlMoves ==
  ASSUME IInv, NEW x \in Crawlers, FinishCrawl(x)
  PROVE  \E r : Moves(x, r)
<1> DEFINE r == [c[x] EXCEPT !.pc = "release"]
<1>1. c[x] \in Crawl /\ LocalOK(c[x]) /\ c[x].pc = "finish"
  BY Locals DEF FinishCrawl
<1>2. r \in Crawl /\ r.pc = "release" /\ SameRun(c[x], r)
  BY <1>1 DEF Crawl, SameRun
<1>3. c' = [c EXCEPT ![x] = r] /\ observation' = observation
  BY DEF FinishCrawl, Goto
<1> HIDE DEF r
<1>4. LocalOK(r)
  BY <1>1, <1>2 DEF LocalOK, SameRun
<1> QED BY <1>2, <1>3, <1>4, QuietMoves

\* Every step of a crawl but the release of the slot moves its locals on.
LEMMA ExecuteMoves ==
  ASSUME IInv, NEW x \in Crawlers, Execute(x)
  PROVE  Release(x) \/ ((\E r : Moves(x, r)) /\ running' = running)
<1>1. CASE StartCrawl(x)
  BY <1>1, StartCrawlMoves DEF StartCrawl
<1>2. CASE FetchPage(x)
  BY <1>2, FetchPageMoves DEF FetchPage
<1>3. CASE SkipRow(x)
  BY <1>3, SkipRowMoves DEF SkipRow
<1>4. CASE ReadRow(x)
  BY <1>4, ReadRowMoves DEF ReadRow
<1>5. CASE WriteSnapshot(x)
  BY <1>5, WriteSnapshotMoves DEF WriteSnapshot
<1>6. CASE Observe(x)
  BY <1>6, ObserveMoves DEF Observe
<1>7. CASE SelectMissing(x)
  BY <1>7, SelectMissingMoves DEF SelectMissing
<1>8. CASE UnlistOne(x)
  BY <1>8, UnlistOneMoves DEF UnlistOne
<1>9. CASE FinishCrawl(x)
  BY <1>9, FinishCrawlMoves DEF FinishCrawl
<1> QED BY <1>1, <1>2, <1>3, <1>4, <1>5, <1>6, <1>7, <1>8, <1>9 DEF Execute

-----------------------------------------------------------------------------
(* The tables. *)

TablesTyped ==
    /\ site \in Sites
    /\ running \in BOOLEAN
    /\ runs \in Seq(Statuses)
    /\ product \in [Codes -> [listed : BOOLEAN, page : 0..MaxPages]]
    /\ snapshot \subseteq NavRow
    /\ observation \subseteq ObservationRow
    /\ \A o \in observation : o.run \in DOMAIN runs

\* No row of crawl_run goes away, and no key of nav_snapshot.
RowsKept ==
    /\ DOMAIN runs \subseteq DOMAIN runs'
    /\ \A s \in snapshot : HasKey(snapshot', s)

\* A step that leaves the tables alone keeps their types.
LEMMA TablesSame ==
  ASSUME IInv, UNCHANGED tables, site' \in Sites, running' \in BOOLEAN
  PROVE  TablesTyped' /\ RowsKept
BY DEF IInv, TypeOK, TablesTyped, RowsKept, HasKey, tables

\* UpsertProduct keeps the type of product.
LEMMA UpsertProductTyped ==
  ASSUME IInv, NEW code \in Codes, NEW page \in 0..MaxPages,
         UpsertProduct(code, page)
  PROVE  product' \in [Codes -> [listed : BOOLEAN, page : 0..MaxPages]]
BY DEF IInv, TypeOK, UpsertProduct

\* UpsertSnapshot keeps the type of nav_snapshot.
LEMMA UpsertSnapshotTyped ==
  ASSUME IInv, NEW row \in Nav, row.unit # NoUnit, UpsertSnapshot(row)
  PROVE  snapshot' \subseteq NavRow /\ \A s \in snapshot : HasKey(snapshot', s)
<1>1. snapshot' \subseteq NavRow
  BY DEF IInv, TypeOK, UpsertSnapshot, NavRow
<1>2. ASSUME NEW s \in snapshot PROVE HasKey(snapshot', s)
  <2>1. CASE s.code = row.code /\ s.day = row.day
    BY <2>1 DEF HasKey, UpsertSnapshot
  <2>2. CASE s.code # row.code \/ s.day # row.day
    BY <2>2 DEF HasKey, UpsertSnapshot
  <2> QED BY <2>1, <2>2
<1> QED BY <1>1, <1>2

\* The steps of a crawl keep the types of the tables.
LEMMA ExecuteTables ==
  ASSUME IInv, NEW x \in Crawlers, Execute(x)
  PROVE  TablesTyped' /\ RowsKept
<1> DEFINE q == c[x]
<1>0. TablesTyped /\ \A s \in snapshot : HasKey(snapshot, s)
  BY DEF IInv, TypeOK, TablesTyped, HasKey
<1>1. CASE StartCrawl(x)
  <2>1. CASE UNCHANGED runs
    BY <1>0, <1>1, <2>1 DEF StartCrawl, TablesTyped, RowsKept
  <2>2. CASE runs' = Append(runs, "running")
    <3>1. runs' \in Seq(Statuses)
      BY <1>0, <2>2 DEF TablesTyped, Statuses
    <3>2. DOMAIN runs \subseteq DOMAIN runs'
      BY <1>0, <2>2 DEF TablesTyped
    <3> QED BY <1>0, <1>1, <3>1, <3>2 DEF StartCrawl, TablesTyped, RowsKept
  <2> QED BY <1>1, <2>1, <2>2 DEF StartCrawl
<1>2. CASE FetchPage(x) \/ SkipRow(x) \/ SelectMissing(x)
  BY <1>0, <1>2, TablesSame DEF FetchPage, SkipRow, SelectMissing, TablesTyped
<1>3. CASE ReadRow(x)
  <2>1. q \in Crawl /\ LocalOK(q) /\ q.pc = "row"
    BY <1>3, Locals DEF ReadRow
  <2>2. Head(q.rows) \in Codes /\ q.page \in 0..MaxPages
    BY <2>1, TailTyped DEF LocalOK, Crawl
  <2>3. product' \in [Codes -> [listed : BOOLEAN, page : 0..MaxPages]]
    BY <1>0, <1>3, <2>2, UpsertProductTyped DEF ReadRow, TablesTyped
  <2> QED BY <1>0, <1>3, <2>3 DEF ReadRow, TablesTyped, RowsKept
<1>4. CASE WriteSnapshot(x)
  <2>1. q.row \in Nav /\ q.row.unit # NoUnit
    BY <1>4, Locals DEF WriteSnapshot, LocalOK
  <2>2. snapshot' \subseteq NavRow /\ \A s \in snapshot : HasKey(snapshot', s)
    BY <1>0, <1>4, <2>1, UpsertSnapshotTyped DEF WriteSnapshot, TablesTyped
  <2> QED BY <1>0, <1>4, <2>2 DEF WriteSnapshot, TablesTyped, RowsKept
<1>5. CASE Observe(x)
  <2>1. q \in Crawl /\ LocalOK(q) /\ q.pc = "observe" /\ x \in Executing
    BY <1>5, Locals DEF Observe
  <2>2. q.row \in Nav /\ q.run \in DOMAIN runs /\ q.run \in Nat
    BY <2>1 DEF LocalOK, IInv, RowsOK, Crawl
  <2> DEFINE o == Observation(q.run, q.row)
  <2>3. o \in ObservationRow /\ o.run = q.run
    BY <2>2 DEF Observation, ObservationRow, Nav
  <2> HIDE DEF o
  <2>4. \A p \in observation' : p \in observation \/ p = o
    <3>1. CASE InsertObservation(q.run, q.row)
      BY <3>1 DEF InsertObservation, o
    <3>2. CASE UpdateObservation(q.run, q.row)
      BY <3>2 DEF UpdateObservation, o
    <3>3. CASE UNCHANGED observation
      BY <3>3
    <3> QED BY <1>5, <3>1, <3>2, <3>3 DEF Observe
  <2>5. observation' \subseteq ObservationRow
    BY <1>0, <2>3, <2>4 DEF TablesTyped
  <2>6. \A p \in observation' : p.run \in DOMAIN runs
    BY <1>0, <2>2, <2>3, <2>4 DEF TablesTyped
  <2> QED BY <1>0, <1>5, <2>5, <2>6 DEF Observe, TablesTyped, RowsKept
<1>6. CASE UnlistOne(x)
  <2>1. product' \in [Codes -> [listed : BOOLEAN, page : 0..MaxPages]]
    BY <1>0, <1>6 DEF UnlistOne, TablesTyped
  <2> QED BY <1>0, <1>6, <2>1 DEF UnlistOne, TablesTyped, RowsKept
<1>7. CASE FinishCrawl(x)
  <2>1. Status(q) \in Statuses
    BY DEF Status, Statuses
  <2>2. runs' \in Seq(Statuses) /\ DOMAIN runs' = DOMAIN runs
    <3>1. CASE runs' = [runs EXCEPT ![q.run] = Status(q)]
      <4>1. q.run \in DOMAIN runs
        BY <1>7, Locals DEF FinishCrawl, LocalOK, IInv, RowsOK
      <4>2. runs \in Seq(Statuses) /\ q.run \in 1..Len(runs)
        BY <1>0, <4>1, LenProperties DEF TablesTyped
      <4> QED BY <2>1, <3>1, <4>2, ExceptSeq
    <3>2. CASE runs' = runs
      BY <1>0, <3>2 DEF TablesTyped
    <3> QED BY <1>7, <3>1, <3>2 DEF FinishCrawl
  <2> QED BY <1>0, <1>7, <2>2 DEF FinishCrawl, TablesTyped, RowsKept
<1>8. CASE Release(x)
  BY <1>0, <1>8, TablesSame DEF Release, TablesTyped
<1> QED BY <1>1, <1>2, <1>3, <1>4, <1>5, <1>6, <1>7, <1>8 DEF Execute

\* The steps of a refresh keep the types of the tables.
LEMMA RefreshTables ==
  ASSUME IInv, NEW y \in Refreshers, RefreshStep(y)
  PROVE  TablesTyped' /\ RowsKept
<1>0. TablesTyped /\ \A s \in snapshot : HasKey(snapshot, s)
  BY DEF IInv, TypeOK, TablesTyped, HasKey
<1>1. CASE RefreshRead(y) \/ RefreshFetch(y) \/ RefreshFail(y)
  BY <1>0, <1>1, TablesSame DEF RefreshRead, RefreshFetch, RefreshFail, TablesTyped
<1>2. CASE RefreshUpsert(y)
  <2>1. f[y] \in Refresh
    BY <1>2 DEF RefreshUpsert, IInv, LocalsOK, Idle
  <2>2. f[y].code \in Codes /\ f[y].page \in 0..MaxPages
    BY <2>1, BoundsAssumption DEF Refresh
  <2>3. product' \in [Codes -> [listed : BOOLEAN, page : 0..MaxPages]]
    BY <1>2, <2>2, UpsertProductTyped DEF RefreshUpsert
  <2> QED BY <1>0, <1>2, <2>3 DEF RefreshUpsert, TablesTyped, RowsKept
<1>3. CASE RefreshSnapshot(y)
  <2>1. f[y].row \in Nav /\ f[y].row.unit # NoUnit
    BY <1>3 DEF RefreshSnapshot, IInv, LocalsOK, RefreshOK, Idle
  <2>2. snapshot' \subseteq NavRow /\ \A s \in snapshot : HasKey(snapshot', s)
    BY <1>3, <2>1, UpsertSnapshotTyped DEF RefreshSnapshot
  <2> QED BY <1>0, <1>3, <2>2 DEF RefreshSnapshot, TablesTyped, RowsKept
<1> QED BY <1>1, <1>2, <1>3 DEF RefreshStep

\* Every step keeps the types of the tables.
LEMMA StepTables ==
  ASSUME IInv, [Next]_vars
  PROVE  TablesTyped' /\ RowsKept
<1>0. site \in Sites /\ running \in BOOLEAN
  BY DEF IInv, TypeOK
<1>1. CASE \E x \in Crawlers : Acquire(x)
  BY <1>0, <1>1, TablesSame DEF Acquire
<1>2. CASE SiteChange
  BY <1>0, <1>2, TablesSame DEF SiteChange
<1>3. CASE Crash
  BY <1>0, <1>3, TablesSame DEF Crash
<1>4. CASE UNCHANGED vars
  BY <1>0, <1>4, TablesSame DEF vars
<1> QED BY <1>1, <1>2, <1>3, <1>4, ExecuteTables, RefreshTables DEF Next

-----------------------------------------------------------------------------
(* The locals. *)

\* Nothing moves; at most the flags whole and alone are reset.
Flagged ==
    /\ c' \in [Crawlers -> {Idle} \cup Crawl]
    /\ \A x \in Crawlers :
         \/ c[x] = Idle /\ c'[x] = Idle
         \/ /\ c[x] # Idle /\ LocalOK(c'[x]) /\ SameRun(c[x], c'[x])
            /\ c'[x].pc = c[x].pc /\ c'[x].row = c[x].row
    /\ running' = running
    /\ observation' = observation

\* Setting a ghost field to FALSE leaves the rest of the locals.
LEMMA FlagReset ==
  ASSUME NEW q \in Crawl, LocalOK(q),
         NEW r \in {q, [q EXCEPT !.whole = FALSE], [q EXCEPT !.alone = FALSE]}
  PROVE  /\ r \in Crawl /\ LocalOK(r) /\ SameRun(q, r)
         /\ r.pc = q.pc /\ r.row = q.row
<1>1. /\ r \in Crawl /\ r.pc = q.pc /\ r.row = q.row /\ r.rows = q.rows
      /\ r.page = q.page /\ r.errs = q.errs /\ r.missing = q.missing
      /\ r.obs = q.obs /\ r.run = q.run
  BY DEF Crawl
<1>2. Seen(r) = Seen(q)
  BY <1>1 DEF Seen
<1> QED BY <1>1, <1>2 DEF LocalOK, SameRun

\* The same for the crawls of all goroutines.
LEMMA FlagResets ==
  ASSUME IInv, running' = running, observation' = observation,
         \/ c' = c
         \/ c' = [x \in Crawlers |->
                    IF c[x] = Idle THEN Idle ELSE [c[x] EXCEPT !.whole = FALSE]]
         \/ c' = [x \in Crawlers |->
                    IF c[x] = Idle THEN Idle ELSE [c[x] EXCEPT !.alone = FALSE]]
  PROVE  Flagged
<1>1. c \in [Crawlers -> {Idle} \cup Crawl]
  BY DEF IInv, LocalsOK
<1>2. DOMAIN c' = Crawlers /\ c' = [x \in Crawlers |-> c'[x]]
  BY <1>1
<1>3. ASSUME NEW x \in Crawlers
      PROVE  /\ c'[x] \in {Idle} \cup Crawl
             /\ \/ c[x] = Idle /\ c'[x] = Idle
                \/ /\ c[x] # Idle /\ LocalOK(c'[x]) /\ SameRun(c[x], c'[x])
                   /\ c'[x].pc = c[x].pc /\ c'[x].row = c[x].row
  <2>1. CASE c[x] = Idle
    BY <1>1, <2>1
  <2>2. CASE c[x] # Idle
    <3> DEFINE q == c[x]
               r == c'[x]
    <3>1. q \in Crawl /\ LocalOK(q)
      BY <1>1, <2>2 DEF IInv, LocalsOK
    <3>2. r \in {q, [q EXCEPT !.whole = FALSE], [q EXCEPT !.alone = FALSE]}
      BY <2>2
    <3> HIDE DEF q, r
    <3>3. /\ r \in Crawl /\ LocalOK(r) /\ SameRun(q, r)
          /\ r.pc = q.pc /\ r.row = q.row
      BY <3>1, <3>2, FlagReset
    <3> QED BY <2>2, <3>3 DEF q, r
  <2> QED BY <2>1, <2>2
<1> QED BY <1>2, <1>3 DEF Flagged

\* What a step of the program does to the crawls.
LEMMA CrawlsStep ==
  ASSUME IInv, [Next]_vars
  PROVE  \/ \E x \in Crawlers : Acquire(x)
         \/ \E x \in Crawlers : /\ x \in Executing /\ c[x] \in Crawl
                                /\ running' = running /\ f' = f
                                /\ \E r : Moves(x, r)
         \/ \E x \in Crawlers : Release(x)
         \/ Flagged
         \/ Crash
<1>1. ASSUME NEW x \in Crawlers, Execute(x)
      PROVE  \/ Release(x)
             \/ /\ x \in Executing /\ c[x] \in Crawl
                /\ running' = running /\ f' = f
                /\ \E r : Moves(x, r)
  <2>1. c[x].pc # "idle"
    BY <1>1 DEF Execute, StartCrawl, FetchPage, SkipRow, ReadRow, WriteSnapshot,
                Observe, SelectMissing, UnlistOne, FinishCrawl, Release
  <2>2. x \in Executing /\ c[x] \in Crawl
    BY <2>1, Locals
  <2>3. f' = f
    BY <1>1 DEF Execute, StartCrawl, FetchPage, SkipRow, ReadRow, WriteSnapshot,
                Observe, SelectMissing, UnlistOne, FinishCrawl, Release
  <2> QED BY <1>1, <2>2, <2>3, ExecuteMoves
<1>2. ASSUME NEW y \in Refreshers, RefreshStep(y) PROVE Flagged
  <2>1. running' = running /\ observation' = observation
    BY <1>2 DEF RefreshStep, RefreshRead, RefreshFetch, RefreshUpsert,
                RefreshSnapshot, RefreshFail, tables
  <2>2. \/ c' = c
        \/ c' = [x \in Crawlers |->
                   IF c[x] = Idle THEN Idle ELSE [c[x] EXCEPT !.alone = FALSE]]
    BY <1>2 DEF RefreshStep, RefreshRead, RefreshFetch, RefreshUpsert,
                RefreshSnapshot, RefreshFail
  <2> QED BY <2>1, <2>2, FlagResets
<1>3. CASE SiteChange
  BY <1>3, FlagResets DEF SiteChange, tables
<1>4. CASE UNCHANGED vars
  BY <1>4, FlagResets DEF vars, tables
<1> QED BY <1>1, <1>2, <1>3, <1>4 DEF Next

\* Every step keeps the locals of the refreshes fitting their places.
LEMMA RefreshesStep ==
  ASSUME IInv, [Next]_vars
  PROVE  /\ f' \in [Refreshers -> {Idle} \cup Refresh]
         /\ \A y \in Refreshers : f'[y] = Idle \/ RefreshOK(f'[y])
<1>0. /\ f \in [Refreshers -> {Idle} \cup Refresh]
      /\ \A y \in Refreshers : f[y] = Idle \/ RefreshOK(f[y])
  BY DEF IInv, LocalsOK
<1>1. ASSUME NEW y \in Refreshers, NEW r, r = Idle \/ RefreshOK(r),
             f' = [f EXCEPT ![y] = r]
      PROVE  /\ f' \in [Refreshers -> {Idle} \cup Refresh]
             /\ \A z \in Refreshers : f'[z] = Idle \/ RefreshOK(f'[z])
  BY <1>0, <1>1 DEF RefreshOK
<1>2. ASSUME NEW y \in Refreshers, RefreshStep(y)
      PROVE  \E r : (r = Idle \/ RefreshOK(r)) /\ f' = [f EXCEPT ![y] = r]
  <2>1. CASE RefreshRead(y)
    <3>1. PICK code \in Codes :
            /\ product[code].page # NoPage
            /\ f' = [f EXCEPT ![y] = [pc |-> "fetch", code |-> code,
                                      page |-> product[code].page,
                                      row |-> NoRow]]
      BY <2>1 DEF RefreshRead
    <3> DEFINE r == [pc |-> "fetch", code |-> code,
                     page |-> product[code].page, row |-> NoRow]
    <3>2. product[code] \in [listed : BOOLEAN, page : 0..MaxPages]
      BY DEF IInv, TypeOK
    <3>3. product[code].page \in 1..MaxPages
      BY <3>1, <3>2, BoundsAssumption DEF NoPage
    <3>4. RefreshOK(r)
      BY <3>3 DEF RefreshOK, Refresh
    <3> QED BY <3>1, <3>4
  <2>2. CASE RefreshFetch(y)
    <3>1. f[y] \in Refresh
      BY <1>0, <2>2 DEF RefreshFetch, Idle
    <3>2. ASSUME NEW row \in Nav,
                 f' = [f EXCEPT ![y].pc = "upsert", ![y].row = row]
          PROVE  \E r : RefreshOK(r) /\ f' = [f EXCEPT ![y] = r]
      <4> DEFINE r == [f[y] EXCEPT !.pc = "upsert", !.row = row]
      <4>1. r \in Refresh /\ r.pc = "upsert" /\ r.row = row
        BY <3>1 DEF Refresh
      <4>2. f' = [f EXCEPT ![y] = r]
        BY <1>0, <3>1, <3>2 DEF Refresh
      <4> QED BY <4>1, <4>2 DEF RefreshOK
    <3> QED BY <2>2, <3>2 DEF RefreshFetch
  <2>3. CASE RefreshUpsert(y)
    <3>1. f[y] \in Refresh /\ RefreshOK(f[y]) /\ f[y].pc = "upsert"
      BY <1>0, <2>3 DEF RefreshUpsert, Idle
    <3> DEFINE r == [f[y] EXCEPT !.pc = "snapshot"]
    <3>2. f[y].row.unit # NoUnit => RefreshOK(r)
      BY <3>1 DEF RefreshOK, Refresh
    <3> QED BY <2>3, <3>2 DEF RefreshUpsert
  <2>4. CASE RefreshSnapshot(y) \/ RefreshFail(y)
    BY <2>4 DEF RefreshSnapshot, RefreshFail
  <2> QED BY <1>2, <2>1, <2>2, <2>3, <2>4 DEF RefreshStep
<1>3. CASE f' = f
  BY <1>0, <1>3
<1>4. CASE Crash
  BY <1>4 DEF Crash
<1>5. \/ f' = f \/ Crash \/ \E y \in Refreshers : RefreshStep(y)
  BY DEF Next, vars, Acquire, Execute, StartCrawl, FetchPage, SkipRow, ReadRow,
         WriteSnapshot, Observe, SelectMissing, UnlistOne, FinishCrawl, Release,
         SiteChange
<1> QED BY <1>1, <1>2, <1>3, <1>4, <1>5

\* The locals of a crawl that has just taken the slot.
LEMMA AcquireFresh ==
  ASSUME IInv, NEW x \in Crawlers, Acquire(x)
  PROVE  \E r : /\ LocalOK(r) /\ c' = [c EXCEPT ![x] = r]
               /\ r.run = 0 /\ r.obs = {} /\ r.pc = "start"
<1> DEFINE r == [pc |-> "start", run |-> 0, page |-> 0, errs |-> FALSE,
                 rows |-> <<>>, row |-> NoRow, obs |-> {}, missing |-> {},
                 whole |-> TRUE, alone |-> TRUE, skipped |-> {}]
<1>1. <<>> \in Sites
  <2>1. <<>> \in [1..0 -> Codes]
    OBVIOUS
  <2>2. 0 \in 0..MaxSite
    BY BoundsAssumption
  <2> QED BY <2>1, <2>2 DEF Sites, SeqOf
<1>2. r \in Crawl
  BY <1>1, BoundsAssumption DEF Crawl
<1>3. LocalOK(r)
  BY <1>2 DEF LocalOK
<1>4. c' = [c EXCEPT ![x] = r]
  BY DEF Acquire, Goto
<1>5. r.run = 0 /\ r.obs = {} /\ r.pc = "start"
  OBVIOUS
<1> HIDE DEF r
<1> QED BY <1>3, <1>4, <1>5

\* Every step keeps the locals fitting their places.
LEMMA StepLocals ==
  ASSUME IInv, [Next]_vars
  PROVE  LocalsOK'
<1>0. /\ c \in [Crawlers -> {Idle} \cup Crawl]
      /\ \A x \in Crawlers : c[x] = Idle \/ LocalOK(c[x])
  BY DEF IInv, LocalsOK
<1> SUFFICES /\ c' \in [Crawlers -> {Idle} \cup Crawl]
             /\ \A x \in Crawlers : c'[x] = Idle \/ LocalOK(c'[x])
  BY RefreshesStep DEF LocalsOK
<1>1. ASSUME NEW x \in Crawlers, NEW r, r = Idle \/ LocalOK(r),
             c' = [c EXCEPT ![x] = r]
      PROVE  /\ c' \in [Crawlers -> {Idle} \cup Crawl]
             /\ \A z \in Crawlers : c'[z] = Idle \/ LocalOK(c'[z])
  BY <1>0, <1>1 DEF LocalOK
<1>2. ASSUME NEW x \in Crawlers, Acquire(x)
      PROVE  \E r : LocalOK(r) /\ c' = [c EXCEPT ![x] = r]
  BY <1>2, AcquireFresh
<1>3. ASSUME NEW x \in Crawlers, NEW r, Moves(x, r)
      PROVE  LocalOK(r) /\ c' = [c EXCEPT ![x] = r]
  BY <1>3 DEF Moves
<1>4. ASSUME NEW x \in Crawlers, Release(x)
      PROVE  c' = [c EXCEPT ![x] = Idle]
  BY <1>4 DEF Release, Goto
<1>5. CASE Flagged
  BY <1>5 DEF Flagged
<1>6. CASE Crash
  BY <1>6 DEF Crash
<1> QED BY <1>1, <1>2, <1>3, <1>4, <1>5, <1>6, CrawlsStep

\* Every step keeps it that one crawl has the slot.
LEMMA StepOneCrawl ==
  ASSUME IInv, [Next]_vars
  PROVE  OneCrawl'
<1>0. /\ c \in [Crawlers -> {Idle} \cup Crawl]
      /\ \A x, y \in Executing : x = y
      /\ running <=> Executing # {}
      /\ Idle \notin Crawl
  BY CrawlNotIdle DEF IInv, LocalsOK, OneCrawl
<1>1. ASSUME NEW x \in Crawlers, Acquire(x) PROVE OneCrawl'
  <2>1. Executing = {}
    BY <1>0, <1>1 DEF Acquire
  <2>2. PICK r : LocalOK(r) /\ c' = [c EXCEPT ![x] = r]
    BY <1>1, AcquireFresh
  <2>3. Executing' = {x}
    BY <1>0, <2>1, <2>2 DEF Executing, LocalOK
  <2>4. running'
    BY <1>1 DEF Acquire
  <2> QED BY <2>3, <2>4 DEF OneCrawl
<1>2. ASSUME NEW x \in Executing, NEW r, Moves(x, r), running' = running
      PROVE  OneCrawl'
  <2>1. Executing' = Executing
    BY <1>0, <1>2 DEF Executing, Moves, LocalOK
  <2> QED BY <1>0, <1>2, <2>1 DEF OneCrawl
<1>3. ASSUME NEW x \in Crawlers, Release(x) PROVE OneCrawl'
  <2>1. x \in Executing
    BY <1>3, IdleNotOther DEF Release, Executing
  <2>2. c' = [c EXCEPT ![x] = Idle] /\ ~running'
    BY <1>3 DEF Release, Goto
  <2>3. Executing' = {}
    BY <1>0, <2>1, <2>2 DEF Executing
  <2> QED BY <2>2, <2>3 DEF OneCrawl
<1>4. CASE Flagged
  <2>1. Executing' = Executing
    BY <1>0, <1>4 DEF Flagged, Executing, LocalOK
  <2> QED BY <1>0, <1>4, <2>1 DEF Flagged, OneCrawl
<1>5. CASE Crash
  BY <1>5 DEF Crash, OneCrawl, Executing
<1> QED BY <1>1, <1>2, <1>3, <1>4, <1>5, CrawlsStep

\* Every step keeps the snapshot behind a row about to be observed.
LEMMA StepRows ==
  ASSUME IInv, [Next]_vars
  PROVE  RowsOK'
<1>0. /\ c \in [Crawlers -> {Idle} \cup Crawl]
      /\ TablesTyped'
      /\ DOMAIN runs \subseteq DOMAIN runs'
  BY StepTables DEF IInv, LocalsOK, RowsKept
<1>1. ASSUME NEW row, HasKey(snapshot, row) PROVE HasKey(snapshot', row)
  BY <1>1, StepTables DEF RowsKept, HasKey
<1>2. ASSUME NEW y \in Executing
      PROVE  /\ c[y].run # 0 => c[y].run \in DOMAIN runs'
             /\ c[y].pc = "observe" /\ c[y].row.unit # NoUnit
                  => HasKey(snapshot', c[y].row)
  BY <1>0, <1>1, <1>2 DEF IInv, RowsOK
<1> SUFFICES ASSUME NEW y \in Crawlers, c'[y] # Idle
             PROVE  /\ c'[y].run # 0 => c'[y].run \in DOMAIN runs'
                    /\ c'[y].pc = "observe" /\ c'[y].row.unit # NoUnit
                         => HasKey(snapshot', c'[y].row)
  BY DEF RowsOK, Executing
<1>3. ASSUME NEW x \in Crawlers, Acquire(x)
      PROVE  c'[y] = c[y] \/ (c'[y].run = 0 /\ c'[y].pc = "start")
  <2>1. PICK r : /\ LocalOK(r) /\ c' = [c EXCEPT ![x] = r]
                 /\ r.run = 0 /\ r.obs = {} /\ r.pc = "start"
    BY <1>3, AcquireFresh
  <2> QED BY <1>0, <2>1
<1>4. ASSUME NEW x \in Executing, NEW r, Moves(x, r), y = x
      PROVE  /\ c'[y].run # 0 => c'[y].run \in DOMAIN runs'
             /\ c'[y].pc = "observe" /\ c'[y].row.unit # NoUnit
                  => HasKey(snapshot', c'[y].row)
  <2>1. c'[y] = r
    BY <1>0, <1>4 DEF Moves
  <2>2. CASE SameRun(c[x], r) \/ Observes(x, r)
    <3>1. r.run = c[x].run
      BY <2>2 DEF SameRun, Observes
    <3> QED BY <1>2, <1>4, <2>1, <3>1 DEF Moves
  <2>3. CASE StartsRun(x, r)
    <3>1. runs \in Seq(Statuses)
      BY DEF IInv, TypeOK
    <3>2. r.run \in DOMAIN runs'
      BY <2>3, <3>1 DEF StartsRun
    <3> QED BY <1>4, <2>1, <3>2 DEF Moves
  <2> QED BY <1>4, <2>2, <2>3 DEF Moves
<1>5. ASSUME NEW x \in Executing, NEW r, Moves(x, r), y # x
      PROVE  c'[y] = c[y]
  BY <1>0, <1>5 DEF Moves
<1>6. ASSUME NEW x \in Crawlers, Release(x) PROVE c'[y] = c[y]
  BY <1>0, <1>6 DEF Release, Goto
<1>7. CASE Flagged
  <2>1. y \in Executing /\ c'[y].run = c[y].run /\ c'[y].pc = c[y].pc /\ c'[y].row = c[y].row
    BY <1>7 DEF Flagged, SameRun, Executing
  <2> QED BY <1>2, <2>1
<1>8. CASE Crash
  BY <1>8 DEF Crash
<1>9. c'[y] = c[y] => y \in Executing
  BY DEF Executing
<1> QED BY <1>2, <1>3, <1>4, <1>5, <1>6, <1>7, <1>8, <1>9, CrawlsStep

\* The rows of nav_observation after a row was observed.
LEMMA ObservesMatches ==
  ASSUME IInv, NEW x \in Executing, c[x] \in Crawl, NEW r, Observes(x, r)
  PROVE  /\ \A o, p \in observation' : o.run = p.run /\ o.code = p.code => o = p
         /\ {o \in observation' : o.run = r.run} =
              {Observation(r.run, row) : row \in r.obs}
         /\ \A o \in observation' : o.unit # NoUnit => HasKey(snapshot, o)
<1> DEFINE q == c[x]
           new == Observation(q.run, q.row)
           others == {o \in q.obs : o.code # q.row.code}
<1>1. /\ \A o, p \in observation : o.run = p.run /\ o.code = p.code => o = p
      /\ {o \in observation : o.run = q.run} =
           {Observation(q.run, row) : row \in q.obs}
      /\ \A o \in observation : o.unit # NoUnit => HasKey(snapshot, o)
  BY DEF IInv, ObservationsMatch, SnapshotBacksObservation, HasKey
<1>2. /\ r.run = q.run
      /\ r.obs = others \cup {q.row}
  BY DEF Observes
<1>3. new.run = q.run /\ new.code = q.row.code /\ new.unit = q.row.unit
      /\ new.day = q.row.day
  BY DEF Observation
<1>4. \A row : /\ Observation(q.run, row).run = q.run
              /\ Observation(q.run, row).code = row.code
  BY DEF Observation
<1>5. q.row.unit # NoUnit => HasKey(snapshot, new)
  BY <1>3 DEF IInv, RowsOK, HasKey, Observes
<1> HIDE DEF new
\* All rows but the one of this run and product are as before.
<1>6. /\ new \in observation'
      /\ \A o : ~(o.run = q.run /\ o.code = q.row.code)
                => (o \in observation' <=> o \in observation)
      /\ \A o \in observation' : (o.run = q.run /\ o.code = q.row.code) => o = new
  <2>1. CASE InsertObservation(q.run, q.row)
    BY <1>3, <2>1 DEF InsertObservation, new
  <2>2. CASE q.row.code \in Seen(q) /\ UpdateObservation(q.run, q.row)
    <3>1. observation' = {IF o.run = q.run /\ o.code = q.row.code
                          THEN new ELSE o : o \in observation}
      BY <2>2 DEF UpdateObservation, new
    <3>2. PICK row \in q.obs : row.code = q.row.code
      BY <2>2 DEF Seen
    <3>3. Observation(q.run, row) \in observation
      BY <1>1, <3>2
    <3>4. new \in observation'
      BY <1>4, <3>1, <3>2, <3>3
    <3> QED BY <1>3, <3>1, <3>4
  <2> QED BY <2>1, <2>2 DEF Observes
<1>7. \A o, p \in observation' : o.run = p.run /\ o.code = p.code => o = p
  BY <1>1, <1>6
<1>8. \A o \in observation' : o.unit # NoUnit => HasKey(snapshot, o)
  BY <1>1, <1>3, <1>5, <1>6
<1>9. ASSUME NEW o \in observation', o.run = q.run
      PROVE  \E row \in r.obs : o = Observation(q.run, row)
  <2>1. CASE o.code = q.row.code
    BY <1>2, <1>6, <1>9, <2>1 DEF new
  <2>2. CASE o.code # q.row.code
    <3>1. o \in observation
      BY <1>6, <1>9, <2>2
    <3>2. PICK row \in q.obs : o = Observation(q.run, row)
      BY <1>1, <1>9, <3>1
    <3>3. row \in others
      BY <1>4, <2>2, <3>2
    <3> QED BY <1>2, <3>2, <3>3
  <2> QED BY <2>1, <2>2
<1>10. ASSUME NEW row \in r.obs
       PROVE  Observation(q.run, row) \in observation'
  <2>1. CASE row = q.row
    BY <1>6, <2>1 DEF new
  <2>2. CASE row \in others
    <3>1. Observation(q.run, row) \in observation
      BY <1>1, <2>2
    <3> QED BY <1>4, <1>6, <2>2, <3>1
  <2> QED BY <1>2, <1>10, <2>1, <2>2
<1>11. {o \in observation' : o.run = r.run} =
         {Observation(r.run, row) : row \in r.obs}
  BY <1>2, <1>4, <1>9, <1>10
<1> QED BY <1>7, <1>8, <1>11

\* Every step keeps the observations, the map and the snapshots together.
LEMMA StepObservations ==
  ASSUME IInv, [Next]_vars, OneCrawl', RowsOK', TablesTyped'
  PROVE  ObservationsMatch' /\ SnapshotBacksObservation'
<1>0. /\ \A o, p \in observation : o.run = p.run /\ o.code = p.code => o = p
      /\ \A x \in Executing :
           {o \in observation : o.run = c[x].run} =
             {Observation(c[x].run, row) : row \in c[x].obs}
      /\ \A o \in observation : o.unit # NoUnit => HasKey(snapshot, o)
      /\ \A o \in observation : o.run \in DOMAIN runs
      /\ runs \in Seq(Statuses) /\ DOMAIN runs = 1..Len(runs) /\ Len(runs) \in Nat
      /\ c \in [Crawlers -> {Idle} \cup Crawl]
  BY DEF IInv, TypeOK, LocalsOK, ObservationsMatch, SnapshotBacksObservation, HasKey
<1>1. ASSUME NEW o, HasKey(snapshot, o) PROVE HasKey(snapshot', o)
  BY <1>1, StepTables DEF RowsKept, HasKey
<1>2. CASE /\ observation' = observation
           /\ \A x \in Executing' :
                {o \in observation : o.run = c'[x].run} =
                  {Observation(c'[x].run, row) : row \in c'[x].obs}
  <2>1. ObservationsMatch'
    BY <1>0, <1>2 DEF ObservationsMatch, Observation
  <2>2. SnapshotBacksObservation'
    BY <1>0, <1>1, <1>2 DEF SnapshotBacksObservation, HasKey
  <2> QED BY <2>1, <2>2
<1>3. ASSUME NEW x \in Crawlers, Acquire(x)
      PROVE  ObservationsMatch' /\ SnapshotBacksObservation'
  <2>1. PICK r : /\ LocalOK(r) /\ c' = [c EXCEPT ![x] = r]
                 /\ r.run = 0 /\ r.obs = {} /\ r.pc = "start"
    BY <1>3, AcquireFresh
  <2>2. observation' = observation /\ Executing = {}
    BY <1>3 DEF Acquire, tables, IInv, OneCrawl
  <2>3. {o \in observation : o.run = 0} = {}
    BY <1>0
  <2>4. \A y \in Executing' : c'[y] = r
    BY <1>0, <2>1, <2>2 DEF Executing
  <2> QED BY <1>2, <2>1, <2>2, <2>3, <2>4
<1>4. ASSUME NEW x \in Executing, c[x] \in Crawl, NEW r, Moves(x, r)
      PROVE  ObservationsMatch' /\ SnapshotBacksObservation'
  <2>1. c'[x] = r /\ x \in Executing'
    BY <1>0, <1>4, CrawlNotIdle DEF Moves, Executing, LocalOK
  <2>2. \A y \in Executing' : y = x
    BY <2>1 DEF OneCrawl
  <2>3. CASE SameRun(c[x], r) /\ observation' = observation
    BY <1>0, <1>2, <2>1, <2>2, <2>3 DEF SameRun
  <2>4. CASE StartsRun(x, r)
    <3>1. {o \in observation : o.run = Len(runs) + 1} = {}
      BY <1>0
    <3> QED BY <1>2, <2>1, <2>2, <2>4, <3>1 DEF StartsRun
  <2>5. CASE Observes(x, r)
    <3>1. /\ \A o, p \in observation' : o.run = p.run /\ o.code = p.code => o = p
          /\ {o \in observation' : o.run = r.run} =
               {Observation(r.run, row) : row \in r.obs}
          /\ \A o \in observation' : o.unit # NoUnit => HasKey(snapshot, o)
      BY <1>4, <2>5, ObservesMatches
    <3>2. ObservationsMatch'
      BY <2>1, <2>2, <3>1 DEF ObservationsMatch, Observation
    <3>3. SnapshotBacksObservation'
      BY <1>1, <3>1 DEF SnapshotBacksObservation, HasKey
    <3> QED BY <3>2, <3>3
  <2> QED BY <1>4, <2>3, <2>4, <2>5 DEF Moves
<1>5. ASSUME NEW x \in Crawlers, Release(x)
      PROVE  ObservationsMatch' /\ SnapshotBacksObservation'
  <2>1. \A y \in Executing' : y \in Executing /\ c'[y] = c[y]
    BY <1>0, <1>5 DEF Release, Goto, Executing
  <2>2. observation' = observation
    BY <1>5 DEF Release, tables
  <2> QED BY <1>0, <1>2, <2>1, <2>2
<1>6. CASE Flagged
  <2>1. \A y \in Executing' : y \in Executing /\ SameRun(c[y], c'[y])
    BY <1>6 DEF Flagged, Executing
  <2> QED BY <1>0, <1>2, <1>6, <2>1 DEF Flagged, SameRun
<1>7. CASE Crash
  <2>1. Executing' = {} /\ observation' = observation
    BY <1>7 DEF Crash, Executing, tables
  <2> QED BY <1>2, <2>1
<1> QED BY <1>3, <1>4, <1>5, <1>6, <1>7, CrawlsStep

-----------------------------------------------------------------------------
\* The initial states satisfy the inductive invariant.
LEMMA InitIInv == Init => IInv
<1> SUFFICES ASSUME Init PROVE IInv
  OBVIOUS
<1> USE DEF Init
<1>1. TypeOK
  <2>1. runs \in Seq(Statuses) /\ site \in Sites /\ running \in BOOLEAN
    <3>1. <<>> \in Seq(Statuses)
      BY EmptySeq
    <3> QED BY <3>1
  <2>2. product \in [Codes -> [listed : BOOLEAN, page : 0..MaxPages]]
    BY BoundsAssumption DEF NoPage
  <2>3. /\ c \in [Crawlers -> {Idle} \cup Crawl]
        /\ f \in [Refreshers -> {Idle} \cup Refresh]
    OBVIOUS
  <2>4. snapshot \subseteq NavRow /\ observation \subseteq ObservationRow
    OBVIOUS
  <2> QED BY <2>1, <2>2, <2>3, <2>4 DEF TypeOK
<1>2. Executing = {}
  BY DEF Executing
<1>3. LocalsOK
  BY DEF LocalsOK
<1> QED BY <1>1, <1>2, <1>3
        DEF IInv, RowsOK, OneCrawl, ObservationsMatch, SnapshotBacksObservation

\* Every step keeps the inductive invariant.
LEMMA StepIInv == IInv /\ [Next]_vars => IInv'
<1> SUFFICES ASSUME IInv, [Next]_vars PROVE IInv'
  OBVIOUS
<1>1. LocalsOK'
  BY StepLocals
<1>2. TablesTyped'
  BY StepTables
<1>3. TypeOK'
  BY <1>1, <1>2 DEF TypeOK, TablesTyped, LocalsOK
<1> QED BY <1>1, <1>2, <1>3, StepOneCrawl, StepRows, StepObservations DEF IInv

\* The inductive invariant holds in every reachable state.
LEMMA CrawlInvariant == Spec => []IInv
BY InitIInv, StepIInv, PTL DEF Spec

\* At most one crawl executes, and the flag says so: for any number of triggers,
\* on every path through execute, whatever fails.
THEOREM OneCrawlAlways == Spec => [](TypeOK /\ OneCrawl)
<1>1. IInv => TypeOK /\ OneCrawl
  BY DEF IInv
<1> QED BY <1>1, CrawlInvariant, PTL

\* A crawl has one observation of a product, the map obs is what the table
\* holds, and an observed unit NAV has its snapshot: for any catalogue, whatever
\* statement fails and wherever the process stops.
THEOREM ObservationsAlways ==
  Spec => [](ObservationsMatch /\ SnapshotBacksObservation)
<1>1. IInv => ObservationsMatch /\ SnapshotBacksObservation
  BY DEF IInv
<1> QED BY <1>1, CrawlInvariant, PTL

\* An observed unit NAV has its snapshot, although the two are written by two
\* statements of which either may fail.
THEOREM SnapshotBacksObservationAlways == Spec => []SnapshotBacksObservation
  BY ObservationsAlways, PTL

\* The step that unlists a product is one of a crawl that read a page, had no
\* error and made no observation of the product: whatever refreshes, changes of
\* the site and faults come between its query and its updates.
THEOREM UnlistsOnlyUnseenAlways == Spec => UnlistsOnlyUnseen
<1> DEFINE Unlists(code) ==
             \E x \in Crawlers :
                /\ c[x].pc = "unlist"
                /\ Status(c[x]) = "success"
                /\ \A o \in observation : o.run # c[x].run \/ o.code # code
           A == \A code \in Listed : code \notin Listed' => Unlists(code)
<1>1. IInv /\ [Next]_vars => [A]_vars
  <2> SUFFICES ASSUME IInv, Next, NEW code \in Listed, code \notin Listed'
               PROVE  Unlists(code)
    BY DEF vars
  <2>0. /\ code \in Codes /\ product[code].listed /\ ~product'[code].listed
        /\ product \in [Codes -> [listed : BOOLEAN, page : 0..MaxPages]]
    BY DEF Listed, IInv, TypeOK
  <2>1. \A other, page : ~UpsertProduct(other, page)
    BY <2>0 DEF UpsertProduct
  <2>2. product' # product
    BY <2>0
  <2>3. PICK x \in Crawlers : UnlistOne(x)
    <3>1. ~SiteChange /\ ~Crash /\ ~\E x \in Crawlers : Acquire(x)
      BY <2>2 DEF SiteChange, Crash, Acquire, tables
    <3>2. ~\E y \in Refreshers : RefreshStep(y)
      BY <2>1, <2>2 DEF RefreshStep, RefreshRead, RefreshFetch, RefreshUpsert,
                        RefreshSnapshot, RefreshFail, tables
    <3>3. PICK x \in Crawlers : Execute(x)
      BY <3>1, <3>2 DEF Next
    <3>4. ~ReadRow(x)
      BY <2>1, <2>2 DEF ReadRow
    <3> QED BY <2>2, <3>3, <3>4
            DEF Execute, StartCrawl, FetchPage, SkipRow, WriteSnapshot, Observe,
                SelectMissing, FinishCrawl, Release, tables
  <2>4. /\ c[x] \in Crawl /\ LocalOK(c[x]) /\ c[x].pc = "unlist" /\ x \in Executing
    BY <2>3, Locals DEF UnlistOne
  <2>5. Status(c[x]) = "success" /\ c[x].missing \cap Seen(c[x]) = {}
    BY <2>4 DEF LocalOK, Status
  <2>6. code \in c[x].missing
    BY <2>0, <2>3 DEF UnlistOne
  <2>7. ASSUME NEW o \in observation, o.run = c[x].run
        PROVE  o.code # code
    <3>1. PICK row \in c[x].obs : o = Observation(c[x].run, row)
      BY <2>4, <2>7 DEF IInv, ObservationsMatch
    <3>2. o.code \in Seen(c[x])
      BY <3>1 DEF Observation, Seen
    <3> QED BY <2>5, <2>6, <3>2
  <2> QED BY <2>4, <2>5, <2>7
<1> QED BY <1>1, CrawlInvariant, PTL DEF Spec, UnlistsOnlyUnseen

-----------------------------------------------------------------------------
(* The catalogue.  The operators take the tables they read as parameters,  *)
(* so that a lemma speaks of the state before or after a step.             *)

ListedIn(p) == {code \in Codes : p[code].listed}

PageOf(s, page) ==
    SubSeq(s, (page - 1) * PageSize + 1,
           IF page * PageSize <= Len(s) THEN page * PageSize ELSE Len(s))

\* The products after the pages 1 to page.
Beyond(s, page) == {s[i] : i \in {j \in DOMAIN s : j > page * PageSize}}

\* What a crawl knows of the catalogue s, wherever it is in a page: every
\* product was seen or skipped, is still to be read of the page at hand, or is
\* beyond it; and the products it has seen are listed, with their page.
Covers(q, p, s) ==
    /\ Seen(q) \subseteq ListedIn(p)
    /\ q.rows # <<>> => q.page # 0
    /\ q.whole /\ q.rows # <<>> => Range(q.rows) \subseteq Range(PageOf(s, q.page))
    /\ q.whole => Seen(q) \subseteq Range(s)
    /\ q.whole /\ ~q.errs =>
         Range(s) \subseteq Seen(q) \cup q.skipped \cup Range(q.rows)
                              \cup Beyond(s, q.page)
    /\ q.whole /\ q.alone =>
         \A code \in Seen(q) : code \in Range(PageOf(s, p[code].page))

\* What it knows besides where it is in the program.
AtPlace(q, p, s) ==
    /\ q.pc \notin {"row", "snapshot", "observe"} => q.rows = <<>>
    /\ q.pc \in {"snapshot", "observe"} =>
         /\ q.row.code = Head(q.rows)
         /\ q.row.code \in ListedIn(p)
         /\ q.whole /\ q.alone =>
              q.row.code \in Range(PageOf(s, p[q.row.code].page))
    /\ q.pc \in {"select", "unlist", "finish"} /\ q.whole /\ ~q.errs =>
         Beyond(s, q.page) = {}
    /\ q.pc = "unlist" /\ q.alone => ListedIn(p) \subseteq Seen(q) \cup q.missing
    /\ q.pc = "finish" /\ q.alone /\ Status(q) = "success" =>
         ListedIn(p) \subseteq Seen(q)

CatalogueOK(q, p, s) == Covers(q, p, s) /\ AtPlace(q, p, s)

CInv ==
    /\ IInv
    /\ \A x \in Executing : CatalogueOK(c[x], product, site)

\* The rows of a page in the model.
LEMMA PageRowsOf == \A page : PageRows(page) = PageOf(site, page)
BY DEF PageRows, PageOf

\* A catalogue is a sequence of products.
LEMMA SiteSeq ==
  ASSUME NEW s \in Sites
  PROVE  s \in Seq(Codes) /\ Len(s) \in Nat /\ DOMAIN s = 1..Len(s)
<1>1. PICK n \in 0..MaxSite : s \in [1..n -> Codes]
  BY DEF Sites, SeqOf
<1> QED BY <1>1, BoundsAssumption

\* The ends of a page.
LEMMA PageBounds ==
  ASSUME NEW s \in Sites, NEW page \in Nat
  PROVE  /\ page * PageSize \in Nat
         /\ (page + 1) * PageSize = page * PageSize + PageSize
         /\ PageOf(s, page + 1) =
              SubSeq(s, page * PageSize + 1,
                     IF page * PageSize + PageSize <= Len(s)
                     THEN page * PageSize + PageSize ELSE Len(s))
<1>1. page * PageSize \in Nat
  BY BoundsAssumption
<1>2. (page + 1) * PageSize = page * PageSize + PageSize
  BY BoundsAssumption
<1>3. (page + 1) - 1 = page
  OBVIOUS
<1> QED BY <1>1, <1>2, <1>3, Zenon DEF PageOf

\* The rows of page m..k of a catalogue.
LEMMA SubSeqRange ==
  ASSUME NEW s \in Sites, NEW m \in Nat \ {0}, NEW k \in Nat, k <= Len(s)
  PROVE  /\ SubSeq(s, m, k) = <<>> <=> k < m
         /\ Range(SubSeq(s, m, k)) = {s[i] : i \in m..k}
<1>0. s \in Seq(Codes) /\ Len(s) \in Nat /\ DOMAIN s = 1..Len(s)
  BY SiteSeq
<1> DEFINE t == SubSeq(s, m, k)
<1>1. /\ t \in Seq(Codes)
      /\ Len(t) = IF m <= k THEN k - m + 1 ELSE 0
      /\ \A i \in 1..(k - m + 1) : t[i] = s[m + i - 1]
  <2>1. m \in Int /\ k \in Int /\ \A i \in m..k : i \in 1..Len(s)
    BY <1>0
  <2>2. \A i \in m..k : s[i] \in Codes
    BY <1>0, <2>1, ElementOfSeq
  <2> QED BY <1>0, <2>1, <2>2, SubSeqProperties
<1>2. t = <<>> <=> k < m
  BY <1>1, EmptySeq
<1>3. DOMAIN t = 1..Len(t)
  BY <1>1
<1> HIDE DEF t
<1>4. ASSUME NEW i \in DOMAIN t PROVE t[i] \in {s[j] : j \in m..k}
  <2>1. i \in 1..(k - m + 1) /\ m + i - 1 \in m..k
    BY <1>1, <1>3, <1>4
  <2> QED BY <1>1, <2>1
<1>5. ASSUME NEW j \in m..k PROVE s[j] \in Range(t)
  <2>1. j - m + 1 \in 1..(k - m + 1) /\ m + (j - m + 1) - 1 = j
    BY <1>5
  <2>2. j - m + 1 \in DOMAIN t
    BY <1>1, <1>3, <2>1
  <2>3. t[j - m + 1] = s[j]
    BY <1>1, <2>1
  <2> QED BY <2>2, <2>3 DEF Range
<1>6. Range(t) = {s[i] : i \in m..k}
  BY <1>4, <1>5 DEF Range
<1> QED BY <1>2, <1>6 DEF t

\* The places of the rows of a page that starts after a, in a catalogue of n
\* products.
LEMMA PageEnds ==
  ASSUME NEW a \in Nat, NEW size \in Nat \ {0}, NEW n \in Nat
  PROVE  LET m == a + 1
             k == IF a + size <= n THEN a + size ELSE n
         IN /\ \A j \in 1..n : j > a => j \in m..k \/ j > a + size
            /\ \A j \in m..k : j \in 1..n
            /\ k < m => ~\E j \in 1..n : j > a
OBVIOUS

\* The next page is what comes first of the products beyond this one, and it is
\* empty only when nothing does.
LEMMA BeyondSplits ==
  ASSUME NEW s \in Sites, NEW page \in Nat
  PROVE  /\ Beyond(s, page) \subseteq
              Range(PageOf(s, page + 1)) \cup Beyond(s, page + 1)
         /\ Range(PageOf(s, page + 1)) \subseteq Range(s)
         /\ PageOf(s, page + 1) = <<>> => Beyond(s, page) = {}
<1> DEFINE m == page * PageSize + 1
           k == IF page * PageSize + PageSize <= Len(s)
                THEN page * PageSize + PageSize ELSE Len(s)
<1>0. Len(s) \in Nat /\ DOMAIN s = 1..Len(s)
  BY SiteSeq
<1>1. /\ page * PageSize \in Nat
      /\ (page + 1) * PageSize = page * PageSize + PageSize
      /\ PageOf(s, page + 1) = SubSeq(s, m, k)
  BY PageBounds
<1>2. m \in Nat \ {0} /\ k \in Nat /\ k <= Len(s)
  BY <1>0, <1>1, BoundsAssumption
<1>3. /\ SubSeq(s, m, k) = <<>> <=> k < m
      /\ Range(SubSeq(s, m, k)) = {s[i] : i \in m..k}
  <2> HIDE DEF m, k
  <2> QED BY <1>2, SubSeqRange
<1>4. /\ \A j \in DOMAIN s : j > page * PageSize
                              => j \in m..k \/ j > (page + 1) * PageSize
      /\ \A j \in m..k : j \in DOMAIN s
      /\ k < m => ~\E j \in DOMAIN s : j > page * PageSize
  <2>1. PageSize \in Nat \ {0}
    BY BoundsAssumption
  <2> QED BY <1>0, <1>1, <2>1, PageEnds
<1> HIDE DEF m, k
<1>7. Beyond(s, page) \subseteq Range(PageOf(s, page + 1)) \cup Beyond(s, page + 1)
  BY <1>1, <1>3, <1>4 DEF Beyond
<1>8. Range(PageOf(s, page + 1)) \subseteq Range(s)
  BY <1>1, <1>3, <1>4 DEF Range
<1>9. PageOf(s, page + 1) = <<>> => Beyond(s, page) = {}
  BY <1>1, <1>3, <1>4 DEF Beyond
<1> QED BY <1>7, <1>8, <1>9

\* Everything is beyond page 0.
LEMMA BeyondStart ==
  ASSUME NEW s \in Sites
  PROVE  Range(s) = Beyond(s, 0)
<1>1. Len(s) \in Nat /\ DOMAIN s = 1..Len(s)
  BY SiteSeq
<1>2. 0 * PageSize = 0
  BY BoundsAssumption
<1> QED BY <1>1, <1>2 DEF Beyond, Range

\* The rows left are the first one and those after it.
LEMMA RangeSplits ==
  ASSUME NEW s \in Sites
  PROVE  /\ s # <<>> => Range(s) = {Head(s)} \cup Range(Tail(s))
         /\ s = <<>> => Range(s) = {}
<1>0. s \in Seq(Codes) /\ Len(s) \in Nat /\ DOMAIN s = 1..Len(s)
  BY SiteSeq
<1>1. CASE s = <<>>
  <2>1. DOMAIN s = {}
    BY <1>0, <1>1, EmptySeq
  <2> QED BY <1>1, <2>1 DEF Range
<1>2. CASE s # <<>>
  <2>1. /\ Len(Tail(s)) = Len(s) - 1 /\ Len(s) # 0
        /\ \A i \in 1..Len(Tail(s)) : Tail(s)[i] = s[i + 1]
        /\ Tail(s) \in Seq(Codes) /\ Head(s) = s[1]
    BY <1>0, <1>2, HeadTailProperties
  <2>2. DOMAIN Tail(s) = 1..(Len(s) - 1)
    BY <2>1
  <2>3. ASSUME NEW i \in DOMAIN s PROVE s[i] \in {Head(s)} \cup Range(Tail(s))
    <3>1. CASE i = 1
      BY <2>1, <3>1
    <3>2. CASE i # 1
      <4>1. i - 1 \in DOMAIN Tail(s) /\ (i - 1) + 1 = i
        BY <1>0, <2>2, <3>2
      <4>2. Tail(s)[i - 1] = s[i]
        BY <2>1, <2>2, <4>1
      <4> QED BY <4>1, <4>2 DEF Range
    <3> QED BY <3>1, <3>2
  <2>4. ASSUME NEW i \in DOMAIN Tail(s) PROVE Tail(s)[i] \in Range(s)
    <3>1. i + 1 \in DOMAIN s
      BY <1>0, <2>2, <2>4
    <3> QED BY <2>1, <2>2, <3>1 DEF Range
  <2>5. Head(s) \in Range(s)
    <3>1. 1 \in DOMAIN s
      BY <1>0, <2>1
    <3> QED BY <2>1, <3>1 DEF Range
  <2>6. Range(s) \subseteq {Head(s)} \cup Range(Tail(s))
    BY <2>3 DEF Range
  <2>7. Range(Tail(s)) \subseteq Range(s)
    BY <2>4 DEF Range
  <2> QED BY <1>2, <2>5, <2>6, <2>7
<1> QED BY <1>1, <1>2

\* A row is done with: its product was seen, skipped, or the row failed.
LEMMA RowConsumed ==
  ASSUME NEW s \in Sites, NEW p, NEW q \in Crawl, NEW r \in Crawl,
         Covers(q, p, s), q.rows # <<>>,
         r.rows = Tail(q.rows), r.page = q.page,
         r.whole = q.whole, r.alone = q.alone, q.errs => r.errs,
         q.skipped \subseteq r.skipped, Seen(q) \subseteq Seen(r),
         Seen(r) \subseteq Seen(q) \cup {Head(q.rows)},
         Head(q.rows) \in Seen(r) => Head(q.rows) \in ListedIn(p),
         Head(q.rows) \in Seen(r) \cup r.skipped \/ r.errs,
         Head(q.rows) \in Seen(r) /\ q.whole /\ q.alone =>
           Head(q.rows) \in Range(PageOf(s, p[Head(q.rows)].page))
  PROVE  Covers(r, p, s)
<1>1. q.rows \in Sites
  BY DEF Crawl
<1>2. Range(q.rows) = {Head(q.rows)} \cup Range(r.rows)
  BY <1>1, RangeSplits
<1>3. q.page \in Nat /\ q.page # 0
  BY BoundsAssumption DEF Covers, Crawl
<1>4. Range(PageOf(s, q.page)) \subseteq Range(s)
  <2>1. q.page - 1 \in Nat /\ (q.page - 1) + 1 = q.page
    BY <1>3
  <2> QED BY <2>1, BeyondSplits
<1>5. q.whole => Head(q.rows) \in Range(s)
  BY <1>2, <1>4 DEF Covers
<1>6. r.whole => Seen(r) \subseteq Range(s)
  BY <1>5 DEF Covers
<1>7. r.whole /\ ~r.errs =>
        Range(s) \subseteq Seen(r) \cup r.skipped \cup Range(r.rows)
                             \cup Beyond(s, r.page)
  BY <1>2 DEF Covers
<1>8. Seen(r) \subseteq ListedIn(p)
  BY DEF Covers
<1>9. r.whole /\ r.alone =>
        \A code \in Seen(r) : code \in Range(PageOf(s, p[code].page))
  BY DEF Covers
<1>10. r.whole => Range(r.rows) \subseteq Range(PageOf(s, r.page))
  BY <1>2 DEF Covers
<1> QED BY <1>3, <1>6, <1>7, <1>8, <1>9, <1>10 DEF Covers

\* After the loop over the pages.
LEMMA AfterScanCovers ==
  ASSUME NEW s \in Sites, NEW p, NEW q \in Crawl, Covers(q, p, s),
         q.rows = <<>>, q.whole /\ ~q.errs => Beyond(s, q.page) = {}
  PROVE  CatalogueOK(AfterScan(q), p, s)
<1> DEFINE r == AfterScan(q)
<1>1. r = [q EXCEPT !.pc = IF q.page = 0 \/ q.errs THEN "finish" ELSE "select"]
  BY DEF AfterScan
<1>2. /\ r.pc = (IF q.page = 0 \/ q.errs THEN "finish" ELSE "select")
      /\ r.rows = q.rows /\ r.page = q.page /\ r.errs = q.errs
      /\ r.whole = q.whole /\ r.alone = q.alone /\ r.skipped = q.skipped
      /\ r.obs = q.obs
  BY <1>1 DEF Crawl
<1> HIDE DEF r
<1>3. Seen(r) = Seen(q)
  BY <1>2 DEF Seen
<1>4. Covers(r, p, s)
  BY <1>2, <1>3 DEF Covers
<1>5. r.pc = "finish" => Status(r) # "success"
  BY <1>2 DEF Status
<1>6. AtPlace(r, p, s)
  BY <1>2, <1>5 DEF AtPlace
<1> QED BY <1>4, <1>6 DEF CatalogueOK, r

\* After a row or an empty page: the next row, the next page or the end, which
\* keeps whole only when the site has no page more.
LEMMA AfterRowCovers ==
  ASSUME site \in Sites, NEW p, NEW q \in Crawl, Covers(q, p, site)
  PROVE  CatalogueOK(AfterRow(q), p, site)
<1>1. CASE q.rows # <<>> \/ q.page < MaxPages
  <2> DEFINE r == AfterRow(q)
  <2>1. /\ q.rows # <<>> => r = [q EXCEPT !.pc = "row"]
        /\ q.rows = <<>> => r = [q EXCEPT !.pc = "page"]
    BY <1>1 DEF AfterRow
  <2>2. /\ r.pc = IF q.rows # <<>> THEN "row" ELSE "page"
        /\ r.rows = q.rows /\ r.page = q.page /\ r.errs = q.errs
        /\ r.whole = q.whole /\ r.alone = q.alone /\ r.skipped = q.skipped
        /\ r.obs = q.obs
    <3>1. CASE q.rows # <<>>
      BY <2>1, <3>1 DEF Crawl
    <3>2. CASE q.rows = <<>>
      BY <2>1, <3>2 DEF Crawl
    <3> QED BY <3>1, <3>2
  <2> HIDE DEF r
  <2>3. Seen(r) = Seen(q)
    BY <2>2 DEF Seen
  <2>4. Covers(r, p, site)
    BY <2>2, <2>3 DEF Covers
  <2>5. AtPlace(r, p, site)
    BY <2>2 DEF AtPlace
  <2> QED BY <2>4, <2>5 DEF CatalogueOK, r
<1>2. CASE q.rows = <<>> /\ ~(q.page < MaxPages)
  <2> DEFINE r == [q EXCEPT !.whole = @ /\ ~HasPage(q.page + 1)]
  <2>1. AfterRow(q) = AfterScan(r)
    BY <1>2 DEF AfterRow
  <2>2. (q.whole /\ ~HasPage(q.page + 1)) \in BOOLEAN
    BY Zenon
  <2>3. /\ r \in Crawl /\ r.rows = q.rows /\ r.page = q.page /\ r.errs = q.errs
        /\ r.alone = q.alone /\ r.skipped = q.skipped /\ r.obs = q.obs
        /\ r.whole => q.whole /\ ~HasPage(q.page + 1)
    BY <2>2 DEF Crawl
  <2> HIDE DEF r
  <2>4. Seen(r) = Seen(q)
    BY <2>3 DEF Seen
  <2>5. Covers(r, p, site)
    BY <2>3, <2>4 DEF Covers
  <2>6. r.whole => Beyond(site, r.page) = {}
    <3>1. q.page \in Nat
      BY BoundsAssumption DEF Crawl
    <3>2. r.whole => PageOf(site, q.page + 1) = <<>>
      BY <2>3, PageRowsOf DEF HasPage
    <3> QED BY <2>3, <3>1, <3>2, BeyondSplits
  <2> QED BY <1>2, <2>1, <2>3, <2>5, <2>6, AfterScanCovers
<1> QED BY <1>1, <1>2

\* FetchPage moves the rows of the next page from beyond to the page at hand.
LEMMA FetchPageCovers ==
  ASSUME IInv, NEW x \in Crawlers, CatalogueOK(c[x], product, site),
         FetchPage(x)
  PROVE  \E r : c' = [c EXCEPT ![x] = r] /\ CatalogueOK(r, product, site)
<1> DEFINE q == c[x]
           read == [q EXCEPT !.page = @ + 1]
<1>1. q \in Crawl /\ LocalOK(q) /\ q.pc = "page" /\ site \in Sites
  BY Locals DEF FetchPage, IInv, TypeOK
<1>2. /\ q.page \in Nat /\ q.page < MaxPages /\ q.page \in 0..MaxPages
      /\ q.rows = <<>> /\ Covers(q, product, site)
  BY <1>1, BoundsAssumption DEF LocalOK, Crawl, CatalogueOK, AtPlace
<1>3. /\ read \in Crawl /\ read.page = q.page + 1 /\ read.rows = q.rows
      /\ read.errs = q.errs /\ read.whole = q.whole /\ read.alone = q.alone
      /\ read.skipped = q.skipped /\ read.obs = q.obs
  BY <1>1, <1>2, BoundsAssumption DEF Crawl
<1>4. CASE Goto(x, AfterRow([read EXCEPT !.rows = PageRows(q.page + 1)]))
  <2> DEFINE r == [read EXCEPT !.rows = PageRows(q.page + 1)]
  <2>1. PageRows(q.page + 1) \in Sites
    <3>1. q.page + 1 \in Nat \ {0}
      BY <1>2
    <3> QED BY <1>1, <3>1, PageRowsTyped
  <2>2. /\ r \in Crawl /\ r.page = q.page + 1 /\ r.rows = PageRows(q.page + 1)
        /\ r.errs = q.errs /\ r.whole = q.whole /\ r.alone = q.alone
        /\ r.skipped = q.skipped /\ r.obs = q.obs
    BY <1>3, <2>1 DEF Crawl
  <2>3. c' = [c EXCEPT ![x] = AfterRow(r)]
    BY <1>4 DEF Goto
  <2> HIDE DEF r, read
  <2>4. Seen(r) = Seen(q)
    BY <2>2 DEF Seen
  <2>5. r.rows = PageOf(site, r.page) /\ r.page # 0
    BY <1>2, <2>2, PageRowsOf
  <2>6. Beyond(site, q.page) \subseteq Range(r.rows) \cup Beyond(site, r.page)
    BY <1>1, <1>2, <2>2, <2>5, BeyondSplits
  <2>7. Range(q.rows) = {}
    BY <1>1, <1>2, RangeSplits DEF Crawl
  <2>8. Covers(r, product, site)
    BY <1>2, <2>2, <2>4, <2>5, <2>6, <2>7 DEF Covers
  <2> QED BY <1>1, <2>2, <2>3, <2>8, AfterRowCovers
<1>5. CASE ~HasPage(q.page + 1) /\ Goto(x, AfterScan(q))
  <2>1. Beyond(site, q.page) = {}
    BY <1>1, <1>2, <1>5, PageRowsOf, BeyondSplits DEF HasPage
  <2> QED BY <1>1, <1>2, <1>5, <2>1, AfterScanCovers DEF Goto
<1>6. CASE Goto(x, AfterScan(Erring(q)))
  <2>1. /\ Erring(q) \in Crawl /\ Erring(q).errs
        /\ Erring(q).page = q.page /\ Erring(q).rows = q.rows
        /\ Erring(q).whole = q.whole /\ Erring(q).alone = q.alone
        /\ Erring(q).obs = q.obs
    BY <1>1 DEF Erring, Crawl
  <2>2. Seen(Erring(q)) = Seen(q)
    BY <2>1 DEF Seen
  <2>3. Covers(Erring(q), product, site)
    BY <1>2, <2>1, <2>2 DEF Covers
  <2> QED BY <1>1, <1>2, <1>6, <2>1, <2>3, AfterScanCovers DEF Goto
<1>7. CASE Goto(x, AfterScan([q EXCEPT !.whole = FALSE]))
  <2> DEFINE r == [q EXCEPT !.whole = FALSE]
  <2>1. /\ r \in Crawl /\ ~r.whole /\ r.rows = q.rows /\ r.page = q.page
        /\ r.obs = q.obs
    BY <1>1 DEF Crawl
  <2>2. c' = [c EXCEPT ![x] = AfterScan(r)]
    BY <1>7 DEF Goto
  <2> HIDE DEF r
  <2>3. Seen(r) = Seen(q)
    BY <2>1 DEF Seen
  <2>4. Covers(r, product, site)
    BY <1>2, <2>1, <2>3 DEF Covers
  <2> QED BY <1>1, <1>2, <2>1, <2>2, <2>4, AfterScanCovers
<1>8. CASE Goto(x, AfterRow([read EXCEPT !.whole = FALSE]))
  <2> DEFINE r == [read EXCEPT !.whole = FALSE]
  <2>1. /\ r \in Crawl /\ ~r.whole /\ r.rows = q.rows /\ r.obs = q.obs
    BY <1>3 DEF Crawl
  <2>2. c' = [c EXCEPT ![x] = AfterRow(r)]
    BY <1>8 DEF Goto
  <2> HIDE DEF r
  <2>3. Seen(r) = Seen(q)
    BY <2>1 DEF Seen
  <2>4. Covers(r, product, site)
    BY <1>2, <2>1, <2>3 DEF Covers
  <2> QED BY <1>1, <2>1, <2>2, <2>4, AfterRowCovers
<1> QED BY <1>4, <1>5, <1>6, <1>7, <1>8 DEF FetchPage

\* What is left alone when the first row is dropped.
LEMMA NextRowFields ==
  ASSUME NEW q \in Crawl, q.rows # <<>>
  PROVE  LET r == NextRow(q)
         IN /\ r \in Crawl /\ r.rows = Tail(q.rows) /\ r.page = q.page
            /\ r.errs = q.errs /\ r.whole = q.whole /\ r.alone = q.alone
            /\ r.skipped = q.skipped /\ Seen(r) = Seen(q) /\ r.obs = q.obs
<1> DEFINE t == [q EXCEPT !.rows = Tail(@)]
           r == [t EXCEPT !.row = NoRow]
<1>1. Tail(q.rows) \in Sites
  BY TailTyped DEF Crawl
<1>2. /\ t \in Crawl /\ t.rows = Tail(q.rows) /\ t.page = q.page
      /\ t.errs = q.errs /\ t.whole = q.whole /\ t.alone = q.alone
      /\ t.skipped = q.skipped /\ t.obs = q.obs
  BY <1>1 DEF Crawl
<1>3. r = NextRow(q)
  BY DEF NextRow
<1> HIDE DEF t
<1>4. /\ r \in Crawl /\ r.rows = t.rows /\ r.page = t.page
      /\ r.errs = t.errs /\ r.whole = t.whole /\ r.alone = t.alone
      /\ r.skipped = t.skipped /\ r.obs = t.obs
  BY <1>2 DEF Crawl
<1> HIDE DEF r
<1>5. Seen(r) = Seen(q)
  BY <1>2, <1>4 DEF Seen
<1> QED BY <1>2, <1>3, <1>4, <1>5

\* A row that fails is dropped with the error noted, and the crawl can no longer
\* be one that read everything.
LEMMA RowFailedCovers ==
  ASSUME site \in Sites, NEW p, NEW q \in Crawl, Covers(q, p, site),
         q.rows # <<>>
  PROVE  CatalogueOK(AfterRow(Erring(NextRow(q))), p, site)
<1> DEFINE n == NextRow(q)
           r == Erring(n)
<1>1. /\ n \in Crawl /\ n.rows = Tail(q.rows) /\ n.page = q.page
      /\ n.whole = q.whole /\ n.alone = q.alone
      /\ n.skipped = q.skipped /\ Seen(n) = Seen(q) /\ n.obs = q.obs
  BY NextRowFields
<1> HIDE DEF n
<1>2. /\ r \in Crawl /\ r.errs /\ r.rows = n.rows /\ r.page = n.page
      /\ r.whole = n.whole /\ r.alone = n.alone
      /\ r.skipped = n.skipped /\ r.obs = n.obs
  BY <1>1 DEF Erring, Crawl
<1> HIDE DEF r
<1>3. Seen(r) = Seen(q)
  BY <1>1, <1>2 DEF Seen
<1>4. Head(q.rows) \in Seen(r) =>
        /\ Head(q.rows) \in ListedIn(p)
        /\ q.whole /\ q.alone =>
             Head(q.rows) \in Range(PageOf(site, p[Head(q.rows)].page))
  BY <1>3 DEF Covers
<1>5. Covers(r, p, site)
  BY <1>1, <1>2, <1>3, <1>4, RowConsumed
<1> QED BY <1>2, <1>5, AfterRowCovers DEF r, n

\* A row whose product was seen before is dropped.
LEMMA RowSeenCovers ==
  ASSUME site \in Sites, NEW p, NEW q \in Crawl, Covers(q, p, site),
         q.rows # <<>>, Head(q.rows) \in Seen(q)
  PROVE  CatalogueOK(AfterRow(NextRow(q)), p, site)
<1> DEFINE r == NextRow(q)
<1>1. /\ r \in Crawl /\ r.rows = Tail(q.rows) /\ r.page = q.page
      /\ r.whole = q.whole /\ r.alone = q.alone /\ r.errs = q.errs
      /\ r.skipped = q.skipped /\ Seen(r) = Seen(q)
  BY NextRowFields
<1> HIDE DEF r
<1>2. /\ Head(q.rows) \in ListedIn(p)
      /\ q.whole /\ q.alone =>
           Head(q.rows) \in Range(PageOf(site, p[Head(q.rows)].page))
  BY DEF Covers
<1>3. Covers(r, p, site)
  BY <1>1, <1>2, RowConsumed
<1> QED BY <1>1, <1>3, AfterRowCovers DEF r

\* SkipRow adds the product to skipped.
LEMMA SkipRowCovers ==
  ASSUME IInv, NEW x \in Crawlers, CatalogueOK(c[x], product, site),
         SkipRow(x)
  PROVE  \E r : c' = [c EXCEPT ![x] = r] /\ CatalogueOK(r, product, site)
<1> DEFINE q == c[x]
           n == NextRow(q)
           r == [n EXCEPT !.skipped = @ \cup {Head(q.rows)}]
<1>1. q \in Crawl /\ LocalOK(q) /\ q.pc = "row" /\ site \in Sites
  BY Locals DEF SkipRow, IInv, TypeOK
<1>2. q.rows # <<>> /\ q.rows \in Sites /\ Covers(q, product, site)
  BY <1>1 DEF LocalOK, Crawl, CatalogueOK
<1>3. Head(q.rows) \in Codes
  BY <1>2, TailTyped
<1>4. /\ n \in Crawl /\ n.rows = Tail(q.rows) /\ n.page = q.page
      /\ n.whole = q.whole /\ n.alone = q.alone /\ n.errs = q.errs
      /\ n.skipped = q.skipped /\ Seen(n) = Seen(q) /\ n.obs = q.obs
  BY <1>1, <1>2, NextRowFields
<1>5. c' = [c EXCEPT ![x] = AfterRow(r)]
  BY DEF SkipRow, Goto
<1> HIDE DEF n
<1>6. /\ r \in Crawl /\ r.rows = n.rows /\ r.page = n.page
      /\ r.whole = n.whole /\ r.alone = n.alone /\ r.errs = n.errs
      /\ r.skipped = n.skipped \cup {Head(q.rows)} /\ r.obs = n.obs
  BY <1>3, <1>4 DEF Crawl
<1> HIDE DEF r
<1>7. Seen(r) = Seen(q)
  BY <1>4, <1>6 DEF Seen
<1>8. Head(q.rows) \in Seen(r) =>
        /\ Head(q.rows) \in ListedIn(product)
        /\ q.whole /\ q.alone =>
             Head(q.rows) \in Range(PageOf(site, product[Head(q.rows)].page))
  BY <1>2, <1>7 DEF Covers
<1>9. Covers(r, product, site)
  BY <1>1, <1>2, <1>4, <1>6, <1>7, <1>8, RowConsumed
<1> QED BY <1>1, <1>5, <1>6, <1>9, AfterRowCovers

\* UpsertProduct for the row at hand keeps what the crawl knows, and the product
\* is listed with the page it was found on.
LEMMA UpsertCovers ==
  ASSUME IInv, NEW q \in Crawl, q.rows # <<>>, Covers(q, product, site),
         UpsertProduct(Head(q.rows), q.page)
  PROVE  /\ Covers(q, product', site)
         /\ Head(q.rows) \in ListedIn(product')
         /\ q.whole => Head(q.rows) \in
                         Range(PageOf(site, product'[Head(q.rows)].page))
<1> DEFINE code == Head(q.rows)
<1>1. q.rows \in Sites /\ code \in Codes
  BY TailTyped DEF Crawl
<1>2. product \in [Codes -> [listed : BOOLEAN, page : 0..MaxPages]]
  BY DEF IInv, TypeOK
<1>3. /\ product'[code].listed /\ product'[code].page = q.page
      /\ \A other \in Codes : other # code => product'[other] = product[other]
  BY <1>1, <1>2 DEF UpsertProduct
<1>4. q.whole => code \in Range(PageOf(site, q.page))
  BY <1>1, RangeSplits DEF Covers
<1> HIDE DEF code
<1>5. ListedIn(product) \subseteq ListedIn(product') /\ code \in ListedIn(product')
  BY <1>1, <1>3 DEF ListedIn
<1>6. q.whole /\ q.alone =>
        \A other \in Seen(q) : other \in Range(PageOf(site, product'[other].page))
  <2>1. Seen(q) \subseteq Codes
    BY DEF Seen, Crawl, Nav
  <2> QED BY <1>3, <1>4, <2>1 DEF Covers
<1>7. Covers(q, product', site)
  BY <1>5, <1>6 DEF Covers
<1> QED BY <1>3, <1>4, <1>5, <1>7 DEF code

\* ReadRow lists the product of the row with the page at hand.
LEMMA ReadRowCovers ==
  ASSUME IInv, NEW x \in Crawlers, CatalogueOK(c[x], product, site),
         ReadRow(x)
  PROVE  \E r : c' = [c EXCEPT ![x] = r] /\ CatalogueOK(r, product', site)
<1> DEFINE q == c[x]
           code == Head(q.rows)
<1>1. q \in Crawl /\ LocalOK(q) /\ q.pc = "row" /\ site \in Sites
  BY Locals DEF ReadRow, IInv, TypeOK
<1>2. q.rows # <<>> /\ q.rows \in Sites /\ Covers(q, product, site)
  BY <1>1 DEF LocalOK, Crawl, CatalogueOK
<1>3. code \in Codes
  BY <1>2, TailTyped
<1>4. ASSUME UpsertProduct(code, q.page),
             NEW day \in Days, NEW unit \in Units \cup {NoUnit},
             Goto(x, IF unit # NoUnit
                     THEN [q EXCEPT !.pc = "snapshot",
                             !.row = [code |-> code, day |-> day, unit |-> unit]]
                     ELSE IF code \in Seen(q) THEN AfterRow(NextRow(q))
                     ELSE [q EXCEPT !.pc = "observe",
                             !.row = [code |-> code, day |-> day, unit |-> unit]])
      PROVE  \E r : c' = [c EXCEPT ![x] = r] /\ CatalogueOK(r, product', site)
  <2> DEFINE row == [code |-> code, day |-> day, unit |-> unit]
  <2>1. /\ Covers(q, product', site)
        /\ code \in ListedIn(product')
        /\ q.whole => code \in Range(PageOf(site, product'[code].page))
    BY <1>1, <1>2, <1>4, UpsertCovers
  <2>2. row \in Nav /\ row.code = code
    BY <1>3 DEF Nav
  <2> HIDE DEF row
  <2>3. ASSUME NEW pc \in {"snapshot", "observe"}
        PROVE  CatalogueOK([q EXCEPT !.pc = pc, !.row = row], product', site)
    <3> DEFINE p == [q EXCEPT !.pc = pc]
               r == [p EXCEPT !.row = row]
    <3>1. /\ p \in Crawl /\ p.pc = pc /\ p.rows = q.rows /\ p.page = q.page
          /\ p.errs = q.errs /\ p.whole = q.whole /\ p.alone = q.alone
          /\ p.skipped = q.skipped /\ p.obs = q.obs
      BY <1>1 DEF Crawl
    <3>2. r = [q EXCEPT !.pc = pc, !.row = row]
      OBVIOUS
    <3> HIDE DEF p
    <3>3. /\ r.pc = pc /\ r.row = row /\ r.rows = p.rows /\ r.page = p.page
          /\ r.errs = p.errs /\ r.whole = p.whole /\ r.alone = p.alone
          /\ r.skipped = p.skipped /\ r.obs = p.obs
      BY <2>2, <3>1 DEF Crawl
    <3> HIDE DEF r
    <3>4. Seen(r) = Seen(q)
      BY <3>1, <3>3 DEF Seen
    <3>5. Covers(r, product', site)
      BY <2>1, <3>1, <3>3, <3>4 DEF Covers
    <3>6. AtPlace(r, product', site)
      BY <2>1, <2>2, <3>1, <3>3 DEF AtPlace
    <3> QED BY <3>2, <3>5, <3>6 DEF CatalogueOK
  <2>4. CASE unit # NoUnit
    BY <1>4, <2>3, <2>4 DEF Goto, row
  <2>5. CASE unit = NoUnit /\ code \in Seen(q)
    <3>1. c' = [c EXCEPT ![x] = AfterRow(NextRow(q))]
      BY <1>4, <2>5 DEF Goto
    <3> QED BY <1>1, <1>2, <2>1, <2>5, <3>1, RowSeenCovers
  <2>6. CASE unit = NoUnit /\ code \notin Seen(q)
    BY <1>4, <2>3, <2>6 DEF Goto, row
  <2> QED BY <2>4, <2>5, <2>6
<1>5. CASE Goto(x, AfterRow(Erring(NextRow(q)))) /\ product' = product
  BY <1>1, <1>2, <1>5, RowFailedCovers DEF Goto
<1> QED BY <1>4, <1>5 DEF ReadRow

\* WriteSnapshot goes on to the observation, or is done with the row.
LEMMA WriteSnapshotCovers ==
  ASSUME IInv, NEW x \in Crawlers, CatalogueOK(c[x], product, site),
         WriteSnapshot(x)
  PROVE  \E r : c' = [c EXCEPT ![x] = r] /\ CatalogueOK(r, product, site)
<1> DEFINE q == c[x]
<1>1. q \in Crawl /\ LocalOK(q) /\ q.pc = "snapshot" /\ site \in Sites
  BY Locals DEF WriteSnapshot, IInv, TypeOK
<1>2. /\ q.rows # <<>> /\ Covers(q, product, site) /\ AtPlace(q, product, site)
      /\ q.row.code = Head(q.rows)
  BY <1>1 DEF LocalOK, CatalogueOK, AtPlace
<1>3. CASE q.row \in q.obs /\ Goto(x, AfterRow(NextRow(q)))
  <2>1. Head(q.rows) \in Seen(q)
    BY <1>2, <1>3 DEF Seen
  <2> QED BY <1>1, <1>2, <1>3, <2>1, RowSeenCovers DEF Goto
<1>4. CASE Goto(x, [q EXCEPT !.pc = "observe"])
  <2> DEFINE r == [q EXCEPT !.pc = "observe"]
  <2>1. /\ r.pc = "observe" /\ r.row = q.row /\ r.rows = q.rows /\ r.page = q.page
        /\ r.errs = q.errs /\ r.whole = q.whole /\ r.alone = q.alone
        /\ r.skipped = q.skipped /\ r.obs = q.obs
    BY <1>1 DEF Crawl
  <2>2. c' = [c EXCEPT ![x] = r]
    BY <1>4 DEF Goto
  <2> HIDE DEF r
  <2>3. Seen(r) = Seen(q)
    BY <2>1 DEF Seen
  <2>4. Covers(r, product, site)
    BY <1>2, <2>1, <2>3 DEF Covers
  <2>5. AtPlace(r, product, site)
    BY <1>1, <1>2, <2>1 DEF AtPlace
  <2> QED BY <2>2, <2>4, <2>5 DEF CatalogueOK
<1>5. CASE Goto(x, AfterRow(Erring(NextRow(q))))
  BY <1>1, <1>2, <1>5, RowFailedCovers DEF Goto
<1> QED BY <1>3, <1>4, <1>5 DEF WriteSnapshot

\* Observe adds the product of the row to those seen.
LEMMA ObserveCovers ==
  ASSUME IInv, NEW x \in Crawlers, CatalogueOK(c[x], product, site),
         Observe(x)
  PROVE  \E r : c' = [c EXCEPT ![x] = r] /\ CatalogueOK(r, product, site)
<1> DEFINE q == c[x]
           obs == {o \in q.obs : o.code # q.row.code} \cup {q.row}
<1>1. q \in Crawl /\ LocalOK(q) /\ q.pc = "observe" /\ site \in Sites
  BY Locals DEF Observe, IInv, TypeOK
<1>2. /\ q.rows # <<>> /\ q.row \in Nav /\ Covers(q, product, site)
      /\ q.row.code = Head(q.rows) /\ q.row.code \in ListedIn(product)
      /\ q.whole /\ q.alone =>
           q.row.code \in Range(PageOf(site, product[q.row.code].page))
  BY <1>1 DEF LocalOK, CatalogueOK, AtPlace
<1>3. CASE Goto(x, AfterRow(NextRow([q EXCEPT !.obs = obs])))
  <2> DEFINE p == [q EXCEPT !.obs = obs]
             r == NextRow(p)
  <2>1. obs \in SUBSET Nav
    BY <1>1, <1>2 DEF Crawl
  <2>2. /\ p \in Crawl /\ p.obs = obs /\ p.rows = q.rows /\ p.page = q.page
        /\ p.errs = q.errs /\ p.whole = q.whole /\ p.alone = q.alone
        /\ p.skipped = q.skipped
    <3> HIDE DEF obs
    <3> QED BY <1>1, <2>1 DEF Crawl
  <2>3. c' = [c EXCEPT ![x] = AfterRow(r)]
    BY <1>3 DEF Goto
  <2> HIDE DEF p
  <2>4. /\ r \in Crawl /\ r.rows = Tail(p.rows) /\ r.page = p.page
        /\ r.whole = p.whole /\ r.alone = p.alone /\ r.errs = p.errs
        /\ r.skipped = p.skipped /\ Seen(r) = Seen(p)
    BY <1>2, <2>2, NextRowFields
  <2> HIDE DEF r
  <2>5. Seen(p) = Seen(q) \cup {Head(q.rows)}
    BY <1>2, <2>2 DEF Seen
  <2>6. Covers(r, product, site)
    BY <1>1, <1>2, <2>2, <2>4, <2>5, RowConsumed
  <2> QED BY <1>1, <2>3, <2>4, <2>6, AfterRowCovers
<1>4. CASE Goto(x, AfterRow(Erring(NextRow(q))))
  BY <1>1, <1>2, <1>4, RowFailedCovers DEF Goto
<1> QED BY <1>3, <1>4 DEF Observe

\* Between two updates of MarkMissingUnlisted, a crawl that is alone has seen
\* what is listed or is about to unlist it.
LEMMA AfterUnlistCovers ==
  ASSUME NEW s, NEW p, NEW q \in Crawl, Covers(q, p, s), q.rows = <<>>,
         q.whole /\ ~q.errs => Beyond(s, q.page) = {},
         q.alone => ListedIn(p) \subseteq Seen(q) \cup q.missing
  PROVE  CatalogueOK(AfterUnlist(q), p, s)
<1> DEFINE r == AfterUnlist(q)
<1>1. r = [q EXCEPT !.pc = IF q.missing = {} THEN "finish" ELSE "unlist"]
  BY DEF AfterUnlist
<1>2. /\ r.pc = (IF q.missing = {} THEN "finish" ELSE "unlist")
      /\ r.rows = q.rows /\ r.page = q.page /\ r.errs = q.errs
      /\ r.whole = q.whole /\ r.alone = q.alone /\ r.skipped = q.skipped
      /\ r.obs = q.obs /\ r.missing = q.missing
  BY <1>1 DEF Crawl
<1> HIDE DEF r
<1>3. Seen(r) = Seen(q)
  BY <1>2 DEF Seen
<1>4. Covers(r, p, s)
  BY <1>2, <1>3 DEF Covers
<1>5. AtPlace(r, p, s)
  BY <1>2, <1>3 DEF AtPlace
<1> QED BY <1>4, <1>5 DEF CatalogueOK, r

\* What the set of missing products does not touch.
LEMMA SetMissingFields ==
  ASSUME NEW q \in Crawl, NEW m \in SUBSET Codes
  PROVE  LET r == [q EXCEPT !.missing = m]
         IN /\ r \in Crawl /\ r.rows = q.rows /\ r.page = q.page
            /\ r.errs = q.errs /\ r.whole = q.whole /\ r.skipped = q.skipped
            /\ r.alone = q.alone /\ r.missing = m /\ r.obs = q.obs
            /\ Seen(r) = Seen(q)
BY DEF Crawl, Seen

\* What the flag alone does not touch.
LEMMA NotAloneFields ==
  ASSUME NEW q \in Crawl
  PROVE  LET r == [q EXCEPT !.alone = FALSE]
         IN /\ r \in Crawl /\ r.rows = q.rows /\ r.page = q.page
            /\ r.errs = q.errs /\ r.whole = q.whole /\ r.skipped = q.skipped
            /\ ~r.alone /\ r.missing = q.missing /\ r.obs = q.obs
            /\ Seen(r) = Seen(q) /\ r.pc = q.pc /\ r.row = q.row
BY DEF Crawl, Seen

\* SelectMissing: what is listed and not seen is missing.
LEMMA SelectMissingCovers ==
  ASSUME IInv, NEW x \in Crawlers, CatalogueOK(c[x], product, site),
         SelectMissing(x)
  PROVE  \E r : c' = [c EXCEPT ![x] = r] /\ CatalogueOK(r, product, site)
<1> DEFINE q == c[x]
           missing == Listed \ Seen(q)
<1>1. q \in Crawl /\ q.pc = "select" /\ site \in Sites
  BY Locals DEF SelectMissing, IInv, TypeOK
<1>2. /\ q.rows = <<>> /\ Covers(q, product, site)
      /\ q.whole /\ ~q.errs => Beyond(site, q.page) = {}
  BY <1>1 DEF CatalogueOK, AtPlace
<1>3. Listed = ListedIn(product) /\ missing \in SUBSET Codes
  BY DEF Listed, ListedIn
<1>4. ASSUME NEW r \in Crawl, Goto(x, AfterUnlist(r)),
             r.rows = q.rows, r.page = q.page, r.errs = q.errs,
             r.whole = q.whole, r.skipped = q.skipped, Seen(r) = Seen(q),
             r.alone => q.alone /\ r.missing = missing
      PROVE  \E t : c' = [c EXCEPT ![x] = t] /\ CatalogueOK(t, product, site)
  <2>1. r.alone => ListedIn(product) \subseteq Seen(r) \cup r.missing
    BY <1>3, <1>4
  <2>2. Covers(r, product, site)
    BY <1>2, <1>4 DEF Covers
  <2> QED BY <1>2, <1>4, <2>1, <2>2, AfterUnlistCovers DEF Goto
<1>5. CASE Goto(x, AfterUnlist([q EXCEPT !.missing = missing]))
  <2> DEFINE r == [q EXCEPT !.missing = missing]
  <2>1. /\ r \in Crawl /\ r.rows = q.rows /\ r.page = q.page
        /\ r.errs = q.errs /\ r.whole = q.whole /\ r.skipped = q.skipped
        /\ r.alone = q.alone /\ r.missing = missing /\ Seen(r) = Seen(q)
    BY <1>1, <1>3, SetMissingFields
  <2> HIDE DEF missing
  <2>2. Goto(x, AfterUnlist(r))
    BY <1>5
  <2> HIDE DEF r
  <2> QED BY <1>4, <2>1, <2>2
<1>6. ASSUME NEW part \in SUBSET missing,
             Goto(x, AfterUnlist([q EXCEPT !.missing = part, !.alone = FALSE]))
      PROVE  \E r : c' = [c EXCEPT ![x] = r] /\ CatalogueOK(r, product, site)
  <2> DEFINE p == [q EXCEPT !.missing = part]
             r == [p EXCEPT !.alone = FALSE]
  <2>1. /\ p \in Crawl /\ p.rows = q.rows /\ p.page = q.page
        /\ p.errs = q.errs /\ p.whole = q.whole /\ p.skipped = q.skipped
        /\ Seen(p) = Seen(q)
    <3>1. part \in SUBSET Codes
      BY <1>3
    <3> QED BY <1>1, <3>1, SetMissingFields
  <2>2. Goto(x, AfterUnlist(r))
    BY <1>6
  <2> HIDE DEF p
  <2>3. /\ r \in Crawl /\ r.rows = p.rows /\ r.page = p.page
        /\ r.errs = p.errs /\ r.whole = p.whole /\ r.skipped = p.skipped
        /\ ~r.alone /\ Seen(r) = Seen(p)
    BY <2>1, NotAloneFields
  <2> HIDE DEF r
  <2> QED BY <1>4, <2>1, <2>2, <2>3
<1> QED BY <1>5, <1>6 DEF SelectMissing

\* UnlistOne takes a product that was not seen off the list, or gives up.
LEMMA UnlistOneCovers ==
  ASSUME IInv, NEW x \in Crawlers, CatalogueOK(c[x], product, site),
         UnlistOne(x)
  PROVE  \E r : c' = [c EXCEPT ![x] = r] /\ CatalogueOK(r, product', site)
<1> DEFINE q == c[x]
<1>1. q \in Crawl /\ LocalOK(q) /\ q.pc = "unlist" /\ site \in Sites
  BY Locals DEF UnlistOne, IInv, TypeOK
<1>2. /\ q.rows = <<>> /\ Covers(q, product, site)
      /\ q.whole /\ ~q.errs => Beyond(site, q.page) = {}
      /\ q.alone => ListedIn(product) \subseteq Seen(q) \cup q.missing
      /\ q.missing \cap Seen(q) = {} /\ q.missing \in SUBSET Codes
  BY <1>1 DEF CatalogueOK, AtPlace, LocalOK, Crawl
<1>3. product \in [Codes -> [listed : BOOLEAN, page : 0..MaxPages]]
  BY DEF IInv, TypeOK
<1>4. ASSUME NEW code \in q.missing,
             product' = [product EXCEPT ![code].listed = FALSE],
             Goto(x, AfterUnlist([q EXCEPT !.missing = @ \ {code}]))
      PROVE  \E r : c' = [c EXCEPT ![x] = r] /\ CatalogueOK(r, product', site)
  <2>1. /\ ListedIn(product') = ListedIn(product) \ {code}
        /\ \A other \in Codes : product'[other].page = product[other].page
    BY <1>2, <1>3, <1>4 DEF ListedIn
  <2>2. Seen(q) \subseteq Codes
    BY <1>1 DEF Seen, Crawl, Nav
  <2>3. Covers(q, product', site)
    BY <1>2, <2>1, <2>2 DEF Covers
  <2> DEFINE m == q.missing \ {code}
             r == [q EXCEPT !.missing = m]
  <2>4. /\ r \in Crawl /\ r.rows = q.rows /\ r.page = q.page
        /\ r.errs = q.errs /\ r.whole = q.whole /\ r.skipped = q.skipped
        /\ r.alone = q.alone /\ r.missing = m /\ r.obs = q.obs
    <3>1. m \in SUBSET Codes
      BY <1>2
    <3> HIDE DEF m
    <3> QED BY <1>1, <3>1 DEF Crawl
  <2>5. c' = [c EXCEPT ![x] = AfterUnlist(r)]
    BY <1>4 DEF Goto
  <2> HIDE DEF r
  <2>6. Seen(r) = Seen(q)
    BY <2>4 DEF Seen
  <2>7. r.alone => ListedIn(product') \subseteq Seen(r) \cup r.missing
    BY <1>2, <2>1, <2>4, <2>6
  <2>8. Covers(r, product', site)
    BY <2>3, <2>4, <2>6 DEF Covers
  <2> QED BY <1>2, <2>4, <2>5, <2>7, <2>8, AfterUnlistCovers
<1>5. CASE /\ Goto(x, [q EXCEPT !.pc = "finish", !.alone = FALSE])
           /\ product' = product
  <2> DEFINE p == [q EXCEPT !.pc = "finish"]
             r == [p EXCEPT !.alone = FALSE]
  <2>1. /\ p \in Crawl /\ p.pc = "finish" /\ p.rows = q.rows /\ p.page = q.page
        /\ p.errs = q.errs /\ p.whole = q.whole /\ p.skipped = q.skipped
        /\ p.obs = q.obs
    BY <1>1 DEF Crawl
  <2>2. r = [q EXCEPT !.pc = "finish", !.alone = FALSE]
    OBVIOUS
  <2> HIDE DEF p
  <2>3. /\ r.pc = "finish" /\ r.rows = p.rows /\ r.page = p.page
        /\ r.errs = p.errs /\ r.whole = p.whole /\ r.skipped = p.skipped
        /\ r.obs = p.obs /\ ~r.alone
    BY <2>1 DEF Crawl
  <2>4. c' = [c EXCEPT ![x] = r]
    BY <1>5, <2>2 DEF Goto
  <2> HIDE DEF r
  <2>5. Seen(r) = Seen(q)
    BY <2>1, <2>3 DEF Seen
  <2>6. Covers(r, product, site)
    BY <1>2, <2>1, <2>3, <2>5 DEF Covers
  <2>7. AtPlace(r, product, site)
    BY <1>2, <2>1, <2>3 DEF AtPlace
  <2> QED BY <1>5, <2>4, <2>6, <2>7 DEF CatalogueOK
<1> QED BY <1>4, <1>5 DEF UnlistOne

\* FinishCrawl leaves the products and what was seen of them.
LEMMA FinishCrawlCovers ==
  ASSUME IInv, NEW x \in Crawlers, CatalogueOK(c[x], product, site),
         FinishCrawl(x)
  PROVE  \E r : c' = [c EXCEPT ![x] = r] /\ CatalogueOK(r, product, site)
<1> DEFINE q == c[x]
           r == [q EXCEPT !.pc = "release"]
<1>1. q \in Crawl /\ q.pc = "finish"
  BY Locals DEF FinishCrawl
<1>2. /\ r.pc = "release" /\ r.rows = q.rows /\ r.page = q.page
      /\ r.errs = q.errs /\ r.whole = q.whole /\ r.alone = q.alone
      /\ r.skipped = q.skipped /\ r.obs = q.obs
  BY <1>1 DEF Crawl
<1>3. c' = [c EXCEPT ![x] = r]
  BY DEF FinishCrawl, Goto
<1> HIDE DEF r
<1>4. Seen(r) = Seen(q)
  BY <1>2 DEF Seen
<1>5. Covers(r, product, site)
  BY <1>2, <1>4 DEF CatalogueOK, Covers
<1>6. AtPlace(r, product, site)
  BY <1>1, <1>2 DEF CatalogueOK, AtPlace
<1> QED BY <1>3, <1>5, <1>6 DEF CatalogueOK

\* StartCrawl has read nothing yet.
LEMMA StartCrawlCovers ==
  ASSUME IInv, NEW x \in Crawlers, CatalogueOK(c[x], product, site),
         StartCrawl(x)
  PROVE  \E r : c' = [c EXCEPT ![x] = r] /\ CatalogueOK(r, product, site)
<1> DEFINE q == c[x]
<1>1. q \in Crawl /\ q.pc = "start"
  BY Locals DEF StartCrawl
<1>2. ASSUME NEW r, r.pc \in {"page", "release"}, r.rows = q.rows,
             r.page = q.page, r.errs = q.errs, r.whole = q.whole,
             r.alone = q.alone, r.skipped = q.skipped, r.obs = q.obs
      PROVE  CatalogueOK(r, product, site)
  <2>1. Seen(r) = Seen(q)
    BY <1>2 DEF Seen
  <2>2. Covers(r, product, site)
    BY <1>2, <2>1 DEF CatalogueOK, Covers
  <2>3. AtPlace(r, product, site)
    BY <1>1, <1>2 DEF CatalogueOK, AtPlace
  <2> QED BY <2>2, <2>3 DEF CatalogueOK
<1>3. CASE Goto(x, [q EXCEPT !.pc = "page", !.run = Len(runs) + 1])
  <2> DEFINE p == [q EXCEPT !.pc = "page"]
             r == [p EXCEPT !.run = Len(runs) + 1]
  <2>1. /\ p \in Crawl /\ p.pc = "page" /\ p.rows = q.rows /\ p.page = q.page
        /\ p.errs = q.errs /\ p.whole = q.whole /\ p.alone = q.alone
        /\ p.skipped = q.skipped /\ p.obs = q.obs
    BY <1>1 DEF Crawl
  <2>2. c' = [c EXCEPT ![x] = r]
    BY <1>3 DEF Goto
  <2> HIDE DEF p
  <2>3. /\ r.pc = "page" /\ r.rows = p.rows /\ r.page = p.page
        /\ r.errs = p.errs /\ r.whole = p.whole /\ r.alone = p.alone
        /\ r.skipped = p.skipped /\ r.obs = p.obs
    BY <2>1 DEF Crawl
  <2> HIDE DEF r
  <2>4. CatalogueOK(r, product, site)
    <3>1. /\ r.pc \in {"page", "release"} /\ r.rows = q.rows /\ r.page = q.page
          /\ r.errs = q.errs /\ r.whole = q.whole /\ r.alone = q.alone
          /\ r.skipped = q.skipped /\ r.obs = q.obs
      BY <2>1, <2>3
    <3> HIDE DEF q
    <3> QED BY <1>2, <3>1
  <2> QED BY <2>2, <2>4
<1>4. CASE Goto(x, [q EXCEPT !.pc = "release"])
  <2> DEFINE r == [q EXCEPT !.pc = "release"]
  <2>1. /\ r.pc = "release" /\ r.rows = q.rows /\ r.page = q.page
        /\ r.errs = q.errs /\ r.whole = q.whole /\ r.alone = q.alone
        /\ r.skipped = q.skipped /\ r.obs = q.obs
    BY <1>1 DEF Crawl
  <2>2. c' = [c EXCEPT ![x] = r]
    BY <1>4 DEF Goto
  <2> HIDE DEF r
  <2>3. CatalogueOK(r, product, site)
    <3> HIDE DEF q
    <3> QED BY <1>2, <2>1
  <2> QED BY <2>2, <2>3
<1> QED BY <1>3, <1>4 DEF StartCrawl

\* Every step of a crawl but the release of the slot.
LEMMA ExecuteCovers ==
  ASSUME IInv, NEW x \in Crawlers, CatalogueOK(c[x], product, site),
         Execute(x), ~Release(x)
  PROVE  /\ site' = site
         /\ \E r : c' = [c EXCEPT ![x] = r] /\ CatalogueOK(r, product', site)
<1>1. CASE StartCrawl(x)
  BY <1>1, StartCrawlCovers DEF StartCrawl
<1>2. CASE FetchPage(x)
  BY <1>2, FetchPageCovers DEF FetchPage, tables
<1>3. CASE SkipRow(x)
  BY <1>3, SkipRowCovers DEF SkipRow, tables
<1>4. CASE ReadRow(x)
  BY <1>4, ReadRowCovers DEF ReadRow
<1>5. CASE WriteSnapshot(x)
  BY <1>5, WriteSnapshotCovers DEF WriteSnapshot
<1>6. CASE Observe(x)
  BY <1>6, ObserveCovers DEF Observe
<1>7. CASE SelectMissing(x)
  BY <1>7, SelectMissingCovers DEF SelectMissing, tables
<1>8. CASE UnlistOne(x)
  BY <1>8, UnlistOneCovers DEF UnlistOne
<1>9. CASE FinishCrawl(x)
  BY <1>9, FinishCrawlCovers DEF FinishCrawl
<1> QED BY <1>1, <1>2, <1>3, <1>4, <1>5, <1>6, <1>7, <1>8, <1>9 DEF Execute

\* A refresh that lists a product takes away what only a crawl alone knows.
LEMMA NotAloneCovers ==
  ASSUME NEW q \in Crawl, NEW p, NEW t, NEW s, CatalogueOK(q, p, s),
         ListedIn(p) \subseteq ListedIn(t)
  PROVE  CatalogueOK([q EXCEPT !.alone = FALSE], t, s)
<1> DEFINE r == [q EXCEPT !.alone = FALSE]
<1>1. /\ r.rows = q.rows /\ r.page = q.page
      /\ r.errs = q.errs /\ r.whole = q.whole /\ r.skipped = q.skipped
      /\ ~r.alone /\ Seen(r) = Seen(q) /\ r.pc = q.pc /\ r.row = q.row
  BY NotAloneFields
<1> HIDE DEF r
<1>2. Covers(r, t, s)
  BY <1>1 DEF CatalogueOK, Covers
<1>3. AtPlace(r, t, s)
  BY <1>1 DEF CatalogueOK, AtPlace
<1> QED BY <1>2, <1>3 DEF CatalogueOK, r

\* A change of the site takes away what the crawl knows of the catalogue.
LEMMA NotWholeCovers ==
  ASSUME NEW q \in Crawl, NEW p, NEW s, NEW t, CatalogueOK(q, p, s)
  PROVE  CatalogueOK([q EXCEPT !.whole = FALSE], p, t)
<1> DEFINE r == [q EXCEPT !.whole = FALSE]
<1>1. /\ r.rows = q.rows /\ r.page = q.page
      /\ r.errs = q.errs /\ ~r.whole /\ r.alone = q.alone
      /\ r.obs = q.obs /\ r.pc = q.pc /\ r.row = q.row
      /\ r.missing = q.missing
  BY DEF Crawl
<1> HIDE DEF r
<1>2. Seen(r) = Seen(q) /\ Status(r) = Status(q)
  BY <1>1 DEF Seen, Status
<1>3. Covers(r, p, t)
  BY <1>1, <1>2 DEF CatalogueOK, Covers
<1>4. AtPlace(r, p, t)
  BY <1>1, <1>2 DEF CatalogueOK, AtPlace
<1> QED BY <1>3, <1>4 DEF CatalogueOK, r

\* A crawl that has just taken the slot has the whole catalogue to read.
LEMMA AcquireCovers ==
  ASSUME IInv, NEW x \in Crawlers, Acquire(x)
  PROVE  \E r : c' = [c EXCEPT ![x] = r] /\ CatalogueOK(r, product, site)
<1> DEFINE r == [pc |-> "start", run |-> 0, page |-> 0, errs |-> FALSE,
                 rows |-> <<>>, row |-> NoRow, obs |-> {}, missing |-> {},
                 whole |-> TRUE, alone |-> TRUE, skipped |-> {}]
<1>1. c' = [c EXCEPT ![x] = r]
  BY DEF Acquire, Goto
<1>2. /\ r.pc = "start" /\ r.rows = <<>> /\ r.page = 0 /\ Seen(r) = {}
  BY DEF Seen
<1> HIDE DEF r
<1>3. Range(site) = Beyond(site, 0)
  BY BeyondStart DEF IInv, TypeOK
<1>4. Covers(r, product, site)
  BY <1>2, <1>3 DEF Covers
<1>5. AtPlace(r, product, site)
  BY <1>2 DEF AtPlace
<1> QED BY <1>1, <1>4, <1>5 DEF CatalogueOK

\* Every step keeps what the crawl in progress knows of the catalogue.
LEMMA StepCatalogue ==
  ASSUME CInv, [Next]_vars
  PROVE  \A x \in Executing' : CatalogueOK(c'[x], product', site')
<1>0. /\ IInv
      /\ c \in [Crawlers -> {Idle} \cup Crawl]
      /\ \A x \in Executing : CatalogueOK(c[x], product, site) /\ c[x] \in Crawl
      /\ \A x, y \in Executing : x = y
  BY DEF CInv, IInv, LocalsOK, OneCrawl, Executing
<1> SUFFICES ASSUME NEW y \in Crawlers, c'[y] # Idle
             PROVE  CatalogueOK(c'[y], product', site')
  BY DEF Executing
<1>1. ASSUME NEW x \in Crawlers, Acquire(x)
      PROVE  CatalogueOK(c'[y], product', site')
  <2>1. PICK r : c' = [c EXCEPT ![x] = r] /\ CatalogueOK(r, product, site)
    BY <1>0, <1>1, AcquireCovers
  <2>2. product' = product /\ site' = site /\ ~running
    BY <1>1 DEF Acquire, tables
  <2>3. Executing = {}
    BY <1>0, <2>2 DEF IInv, OneCrawl
  <2>4. y = x
    BY <1>0, <2>1, <2>3 DEF Executing
  <2>5. c'[y] = r
    BY <1>0, <2>1, <2>4
  <2> QED BY <2>1, <2>2, <2>5
<1>2. ASSUME NEW x \in Crawlers, Execute(x)
      PROVE  CatalogueOK(c'[y], product', site')
  <2>1. c[x].pc # "idle"
    BY <1>2 DEF Execute, StartCrawl, FetchPage, SkipRow, ReadRow, WriteSnapshot,
                Observe, SelectMissing, UnlistOne, FinishCrawl, Release
  <2>2. x \in Executing
    BY <1>0, <2>1, Locals
  <2>3. y # x => y \in Executing \/ c'[y] # c[y]
    BY DEF Executing
  <2>4. CASE Release(x)
    <3>1. c' = [c EXCEPT ![x] = Idle]
      BY <2>4 DEF Release, Goto
    <3> QED BY <1>0, <2>2, <2>3, <3>1
  <2>5. CASE ~Release(x)
    <3>1. site' = site
      BY <1>0, <1>2, <2>2, <2>5, ExecuteCovers
    <3>2. PICK r : c' = [c EXCEPT ![x] = r] /\ CatalogueOK(r, product', site)
      BY <1>0, <1>2, <2>2, <2>5, ExecuteCovers
    <3>3. y = x
      BY <1>0, <2>2, <2>3, <3>2
    <3>4. c'[y] = r
      BY <1>0, <3>2, <3>3
    <3> QED BY <3>1, <3>2, <3>4
  <2> QED BY <2>4, <2>5
<1>3. ASSUME NEW z \in Refreshers, RefreshStep(z)
      PROVE  CatalogueOK(c'[y], product', site')
  <2>1. CASE RefreshUpsert(z)
    <3>1. c'[y] = [c[y] EXCEPT !.alone = FALSE] /\ y \in Executing /\ site' = site
      BY <2>1 DEF RefreshUpsert, Executing
    <3>2. ListedIn(product) \subseteq ListedIn(product')
      BY <1>0, <2>1 DEF RefreshUpsert, UpsertProduct, ListedIn, IInv, TypeOK
    <3> QED BY <1>0, <3>1, <3>2, NotAloneCovers
  <2>2. CASE ~RefreshUpsert(z)
    <3>1. c' = c /\ product' = product /\ site' = site
      BY <1>3, <2>2 DEF RefreshStep, RefreshRead, RefreshFetch, RefreshSnapshot,
                        RefreshFail, tables
    <3> QED BY <1>0, <3>1 DEF Executing
  <2> QED BY <2>1, <2>2
<1>4. CASE SiteChange
  <2>1. c'[y] = [c[y] EXCEPT !.whole = FALSE] /\ y \in Executing /\ product' = product
    BY <1>4 DEF SiteChange, Executing, tables
  <2> QED BY <1>0, <2>1, NotWholeCovers
<1>5. CASE Crash
  BY <1>5 DEF Crash
<1>6. CASE UNCHANGED vars
  <2>1. c' = c /\ product' = product /\ site' = site
    BY <1>6 DEF vars, tables
  <2> QED BY <1>0, <2>1 DEF Executing
<1> QED BY <1>1, <1>2, <1>3, <1>4, <1>5, <1>6 DEF Next

\* A crawl about to record its success has seen the catalogue.
LEMMA CInvRecorded == CInv => CatalogueRecorded
<1> SUFFICES ASSUME CInv, NEW x \in Crawlers, ReadAll(x)
             PROVE  /\ Range(site) \ c[x].skipped \subseteq Listed
                    /\ c[x].alone =>
                         /\ Listed \subseteq Range(site)
                         /\ \A code \in Listed \ c[x].skipped :
                              code \in Range(PageRows(product[code].page))
  BY DEF CatalogueRecorded
<1> DEFINE q == c[x]
<1>1. q.pc = "finish" /\ Status(q) = "success" /\ q.whole
  BY DEF ReadAll
<1>2. q \in Crawl /\ Covers(q, product, site) /\ AtPlace(q, product, site)
  BY <1>1, Locals DEF CInv, CatalogueOK
<1>3. ~q.errs /\ q.rows = <<>> /\ q.rows \in Sites /\ Beyond(site, q.page) = {}
  BY <1>1, <1>2 DEF Status, AtPlace, Crawl
<1>4. Listed = ListedIn(product)
  BY DEF Listed, ListedIn
<1>5. Range(site) \ q.skipped \subseteq Listed
  BY <1>1, <1>2, <1>3, <1>4, RangeSplits DEF Covers
<1>6. q.alone => Listed \subseteq Seen(q)
  BY <1>1, <1>2, <1>4 DEF AtPlace
<1> QED BY <1>1, <1>2, <1>5, <1>6, PageRowsOf DEF Covers

\* A successful crawl of a catalogue that did not change meanwhile leaves its
\* dated products listed, whatever refreshes do in between; when no refresh
\* lists a product and no statement fails, nothing else is listed and each
\* product is recorded with a page it is on: for any catalogue and page size.
THEOREM CatalogueRecordedAlways == Spec => []CatalogueRecorded
<1>1. Init => CInv
  BY InitIInv DEF CInv, Init, Executing
<1>2. CInv /\ [Next]_vars => CInv'
  <2> SUFFICES ASSUME CInv, [Next]_vars PROVE CInv'
    OBVIOUS
  <2>1. IInv'
    BY StepIInv DEF CInv
  <2>2. \A x \in Executing' : CatalogueOK(c'[x], product', site')
    BY StepCatalogue
  <2> QED BY <2>1, <2>2 DEF CInv
<1> QED BY <1>1, <1>2, CInvRecorded, PTL DEF Spec
=============================================================================
