----------------------------- MODULE HoldingPnl -----------------------------
(***************************************************************************)
(* What the pages say an account earned (holdingViews, handleHoldingPnl),  *)
(* while its entries are written, days go by, and NAVs are published, late *)
(* or anew for a day that had one.  The handlers are atomic here; Ledger   *)
(* has their statements.                                                   *)
(***************************************************************************)
EXTENDS Pnl

CONSTANTS
    Navs,           \* unit NAVs that the bank publishes
    ManualNavs,     \* unit NAVs that a user types
    Cash,           \* amounts of a buy
    Declared,       \* cumulative profits declared when an account is opened
    RedeemShares,   \* shares of a redemption that is not of everything
    RedeemCash,     \* amounts of a redemption by amount
    DisplayLagDays, \* config.DisplayLagDays
    MaxDay,         \* bound: the days 1..MaxDay
    MaxEntries      \* bound: active entries

Days == 1..MaxDay

ASSUME InputsAssumption ==
    /\ Navs \subseteq Nat \ {0}
    /\ ManualNavs \subseteq Nat \ {0}
    /\ Cash \subseteq Nat \ {0}
    /\ Declared \subseteq Int
    /\ RedeemShares \subseteq Nat \ {0}
    /\ RedeemCash \subseteq Nat \ {0}
    /\ DisplayLagDays \in Nat
    /\ MaxDay \in Nat \ {0}
    /\ MaxEntries \in Nat

\* A share of the smallest unit is worth less than half a fen, at every NAV.
ASSUME NavsAssumption == \A n \in Navs : 2 * n < FenScale

VARIABLES
    today,    \* the natural day
    navs,     \* nav_snapshot of the product: the unit NAV of each day, 0: none
    opened,   \* the account has its row in holding
    entries   \* its active entries, as ListLedger orders them

vars == <<today, navs, opened, entries>>

Entry == [id : Nat, kind : {"buy", "redeem"}, day : Days,
          cash : Nat, shares : Nat, nav : Nat]

-----------------------------------------------------------------------------
\* Mutant of InsertLedger: in the order of the ids alone.
InsertLedgerLast(kind, day, cash, shares, nav) ==
    entries' = Append(entries,
                      [id |-> Len(entries) + 1, kind |-> kind, day |-> day,
                       cash |-> cash, shares |-> shares, nav |-> nav])

\* InsertLedger, and where ListLedger (ORDER BY occur_date, id) then has it.
InsertLedger(kind, day, cash, shares, nav) ==
    LET e == [id |-> Len(entries) + 1, kind |-> kind, day |-> day,
              cash |-> cash, shares |-> shares, nav |-> nav]
        upTo == {i \in DOMAIN entries : entries[i].day <= day}
    IN entries' = InsertAt(entries, Cardinality(upTo) + 1, e)

\* Days that a client may give as the day of an entry, and room for it.
OccurDays == IF Len(entries) < MaxEntries THEN 1..today ELSE {}

Init ==
    /\ today = 1
    /\ navs = [d \in Days |-> NoNav]
    /\ opened = FALSE
    /\ entries = <<>>

Tick ==
    /\ today < MaxDay
    /\ today' = today + 1
    /\ UNCHANGED <<navs, opened, entries>>

\* A crawl or a refresh stores the NAV of a day: a new one, or another one.
Publish ==
    /\ \E day \in 1..today, nav \in Navs :
         navs' = [navs EXCEPT ![day] = nav]
    /\ UNCHANGED <<today, opened, entries>>

\* The first buy, priced at the NAV of its day or the one before.
Create ==
    /\ ~ opened
    /\ \E day \in OccurDays, cash \in Cash :
         LET nav    == ResolveNavForOccur(navs, day, NoNav)
             shares == SharesFromCash(cash, nav)
         IN /\ shares > 0
            /\ InsertLedger("buy", day, cash, shares, nav)
    /\ opened' = TRUE
    /\ UNCHANGED <<today, navs>>

\* The first buy with the cumulative profit that the user declares.
CreateDeclared(cumulative) ==
    /\ ~ opened
    /\ \E day \in OccurDays, cash \in Cash :
         LET buy == ImpliedBuy(cash, cumulative, LatestNav(navs))
         IN /\ buy.shares > 0
            /\ InsertLedger("buy", day, cash, buy.shares, buy.nav)
    /\ opened' = TRUE
    /\ UNCHANGED <<today, navs>>

\* A further buy, also of an account that is cleared.
Buy ==
    /\ opened
    /\ \E day \in OccurDays, cash \in Cash, manual \in ManualNavs \cup {NoNav} :
         LET nav    == ResolveNavForOccur(navs, day, manual)
             shares == SharesFromCash(cash, nav)
         IN /\ shares > 0
            /\ InsertLedger("buy", day, cash, shares, nav)
    /\ UNCHANGED <<today, navs, opened>>

\* A redemption of everything, of some shares, or of an amount.
Redeem ==
    /\ opened
    /\ ~ Replay(entries).err
    /\ Replay(entries).st.SharesE8 > 0
    /\ \E day \in OccurDays, manual \in ManualNavs \cup {NoNav} :
         LET nav    == ResolveNavForOccur(navs, day, manual)
             left   == Replay(entries).st.SharesE8
             asked  == {left} \cup RedeemShares
                         \cup {SharesFromCash(cash, nav) : cash \in RedeemCash}
         IN /\ nav # NoNav
            /\ \E shares \in asked :
                 /\ shares <= left
                 /\ InsertLedger("redeem", day, CashFromShares(shares, nav),
                                 shares, nav)
    /\ UNCHANGED <<today, navs, opened>>

\* Only the entry with the largest id may be voided.
Void ==
    /\ \E i \in DOMAIN entries :
         /\ entries[i].id = Len(entries)
         /\ entries' = RemoveAt(entries, i)
    /\ UNCHANGED <<today, navs, opened>>

DeleteHolding ==
    /\ opened
    /\ opened' = FALSE
    /\ entries' = <<>>
    /\ UNCHANGED <<today, navs>>

Next ==
    \/ Tick
    \/ Publish
    \/ Create
    \/ \E cumulative \in Declared : CreateDeclared(cumulative)
    \/ Buy
    \/ Redeem
    \/ Void
    \/ DeleteHolding

Spec == Init /\ [][Next]_vars

-----------------------------------------------------------------------------
\* What the pages show; none of it when the entries cannot be replayed.
Shown == ~ Replay(entries).err

CumulativeFen == Cumulative(Replay(entries).st, navs)

DailyPnlFen(list) ==
    LET display == DisplayDate(navs, today, DisplayLagDays)
    IN IF display = NoDay THEN 0 ELSE DailyPnl(list, navs, display)

\* The rows of the calendar on the page of the account, up to today.  A voided
\* entry, which is not in entries, may let them begin earlier, on days without
\* profit.
CalendarFrom ==
    Min({today} \cup NavDays(navs) \cup {entries[i].day : i \in DOMAIN entries})

CalendarRows == CalendarPnl(entries, navs, CalendarFrom, today)

Gap == CollectionGap(CumulativeFen, CollectedDailySum(entries, navs))

-----------------------------------------------------------------------------
\* Type invariant; ids number the active entries, which are in the order of
\* their days, those of one day in the order of their ids.
TypeOK ==
    /\ today \in Days
    /\ navs \in [Days -> Navs \cup {NoNav}]
    /\ opened \in BOOLEAN
    /\ entries \in Seq(Entry)
    /\ {entries[i].id : i \in DOMAIN entries} = 1..Len(entries)
    /\ \A i, j \in DOMAIN entries :
         i < j => \/ entries[i].day < entries[j].day
                  \/ /\ entries[i].day = entries[j].day
                     /\ entries[i].id < entries[j].id

\* The NAV from which the collected days count an entry: the one of its day,
\* else the one before, else the first one stored.
BaseNav(day) ==
    LET upTo == {d \in NavDays(navs) : d <= day}
    IN IF upTo # {} THEN navs[Max(upTo)]
       ELSE IF NavDays(navs) # {} THEN navs[Min(NavDays(navs))]
       ELSE NoNav

\* What an entry adds to the gap, times FenScale.  A buy on a day with a NAV
\* counts from its own price, any other buy from the base NAV; a redemption
\* counts up to the base NAV.
GapPart(e) ==
    LET counted == IF e.kind = "buy" /\ NavOn(navs, e.day) # NoNav
                   THEN e.nav ELSE BaseNav(e.day)
    IN IF e.kind = "buy" THEN e.shares * counted - FenScale * e.cash
       ELSE FenScale * e.cash - e.shares * counted

\* The collection gap is made of the entries whose price is not the NAV they
\* are counted from, and of nothing else: neither the moves of the NAV between
\* two entries, however late they are published or corrected, nor the order of
\* the entries leave anything in it but the fen dropped by each division.
GapIsFromPrices ==
    Shown =>
      LET Part(i)   == GapPart(entries[i])
          divisions == Cardinality(NavDays(navs)) + Len(entries) + 1
      IN Abs(FenScale * Gap - MapThenSumSet(Part, DOMAIN entries))
           < FenScale * divisions

\* The profit shown for the display date is that of the account without what
\* is dated today: an entry of today changes shares and value at once, but
\* neither it nor its void moves the daily profit.
TodayNotInDaily == DailyPnlFen(entries) = DailyPnlFen(Before(entries, today))

\* The calendar adds up to the days collected: it leaves out no NAV, and the
\* rows that hang at zero are zero.
CalendarAddsUp ==
    LET rows == CalendarRows
        Part(d) == rows[d].pnl
    IN MapThenSumSet(Part, DOMAIN rows) = CollectedDailySum(entries, navs)

\* The segment from which the return per year is computed is a history of its
\* own: what comes before it leaves no shares, and the two add up to the
\* account.  Of an account never cleared it is the return of the account.
SegmentIsOwnHistory ==
    Shown =>
      LET seg    == OccupancySegment(entries)
          past   == SubSeq(entries, 1, Len(entries) - Len(seg))
          whole  == Replay(entries).st
          r      == Replay(seg)
          s      == r.st
          p      == Replay(past).st
          yearly == AnnualizedCumulativeReturnE4(entries, navs)
      IN /\ ~ r.err
         /\ p.SharesE8 = 0
         /\ s.SharesE8 = whole.SharesE8
         /\ s.CostFen = whole.CostFen
         /\ p.RealizedFen + s.RealizedFen = whole.RealizedFen
         /\ p.TotalBuyFen + s.TotalBuyFen = whole.TotalBuyFen
         /\ yearly.ok /\ past = <<>> /\ s.SharesE8 > 0 =>
              yearly.e4 = MulDivRound(
                  CumulativeReturnE4(CumulativeFen, whole.TotalBuyFen).e4,
                  365, LatestNavDay(navs) - entries[1].day)

\* An account opened with a declared profit shows that profit, to the fen,
\* although shares and price are both rounded down.
DeclaredIsShown ==
    [][ \A cumulative \in Declared :
          CreateDeclared(cumulative) => CumulativeFen' = cumulative ]_vars
=============================================================================
