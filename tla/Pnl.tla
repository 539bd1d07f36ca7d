--------------------------------- MODULE Pnl ---------------------------------
(***************************************************************************)
(* The functions of the package pnl over the entries of one account and    *)
(* the NAVs of its product.                                                *)
(*                                                                         *)
(* Days are integers.  navs[d] is the unit NAV stored for the day d, 0     *)
(* when there is none; entries is the sequence of the active entries in    *)
(* the order of ListLedger.  NoNav and NoDay stand for "not ok".            *)
(***************************************************************************)
EXTENDS Money, Position, Sequences, FiniteSetsExt, SequencesExt

NoNav  == 0
NoDay  == 0
NoRate == [ok |-> FALSE, e4 |-> 0]

-----------------------------------------------------------------------------
\* One round of the loop of Replay; after an error the state stays empty.
ReplayStep(r, e) ==
    IF r.err THEN r
    ELSE IF e.kind = "buy"
         THEN [r EXCEPT !.st = AfterBuy(@, e.cash, e.shares)]
    ELSE IF e.shares > r.st.SharesE8 \/ r.st.SharesE8 = 0
         THEN [st |-> NoPosition, err |-> TRUE]
    ELSE [r EXCEPT !.st = AfterRedeem(@, e.cash, e.shares)]

Replay(entries) ==
    FoldLeft(ReplayStep, [st |-> NoPosition, err |-> FALSE], entries)

Before(entries, day) ==
    FoldLeft(LAMBDA before, e :
                 IF e.day < day THEN Append(before, e) ELSE before,
             <<>>, entries)

\* The position at the opening of the day, or the error of its entries.
AtOpen(entries, day) == Replay(Before(entries, day))

-----------------------------------------------------------------------------
NavDays(navs) == {d \in DOMAIN navs : navs[d] > 0}

LatestOf(navs, days) == IF days = {} THEN NoNav ELSE navs[Max(days)]

NavOn(navs, day)   == IF day \in NavDays(navs) THEN navs[day] ELSE NoNav
PrevNav(navs, day) == LatestOf(navs, {d \in NavDays(navs) : d < day})
NavOnOrBefore(navs, day) == LatestOf(navs, {d \in NavDays(navs) : d <= day})
LatestNav(navs)    == LatestOf(navs, NavDays(navs))

LatestNavDay(navs) == IF NavDays(navs) = {} THEN NoDay ELSE Max(NavDays(navs))

\* Mutant of DisplayDate: today's NAV is shown as soon as it is published.
DisplayDateNow(navs, today, lagDays) ==
    LET days == {d \in NavDays(navs) : d <= today}
    IN IF days = {} THEN NoDay ELSE Max(days)

\* The day whose profit the overview shows.
DisplayDate(navs, today, lagDays) ==
    LET days == {d \in NavDays(navs) : d <= today - lagDays}
    IN IF days = {} THEN NoDay ELSE Max(days)

-----------------------------------------------------------------------------
\* Mutant of BuyD: shares bought on the day count from the previous NAV.
BuyDFromPrev(entries, navs, day) ==
    LET boughtOn == {i \in DOMAIN entries :
                       entries[i].kind = "buy" /\ entries[i].day = day}
        Part(i) == MulDiv(entries[i].shares,
                          navs[day] - PrevNav(navs, day), FenScale)
    IN MapThenSumSet(Part, boughtOn)

\* What the shares bought on the day gained on the price paid for them.
BuyD(entries, navs, day) ==
    LET boughtOn == {i \in DOMAIN entries :
                       entries[i].kind = "buy" /\ entries[i].day = day}
        Part(i) == MulDiv(entries[i].shares,
                          navs[day] - entries[i].nav, FenScale)
    IN MapThenSumSet(Part, boughtOn)

\* What the shares held at the opening of the day gained on the previous NAV.
Hold(shares, navs, day) ==
    IF PrevNav(navs, day) = NoNav THEN 0
    ELSE MulDiv(shares, navs[day] - PrevNav(navs, day), FenScale)

\* A day without a NAV is 0, and so is one whose opening shares are an error.
DailyPnl(entries, navs, day) ==
    LET open == AtOpen(entries, day)
    IN IF NavOn(navs, day) = NoNav \/ open.err THEN 0
       ELSE Hold(open.st.SharesE8, navs, day) + BuyD(entries, navs, day)

\* Mutant of CalendarDays: the loop stops before its last day.
CalendarDaysBefore(from, to) == from..(to - 1)

CalendarDays(from, to) == from..to

\* The rows of the calendar, one for each day: its profit, and whether it
\* hangs at zero for want of a NAV.
CalendarPnl(entries, navs, from, to) ==
    [d \in CalendarDays(from, to) |->
        [pnl |-> DailyPnl(entries, navs, d), hangZero |-> NavOn(navs, d) = NoNav]]

CollectedDailySum(entries, navs) ==
    LET Part(d) == DailyPnl(entries, navs, d)
    IN MapThenSumSet(Part, NavDays(navs))

CollectionGap(cumulativeFen, collectedFen) == cumulativeFen - collectedFen

-----------------------------------------------------------------------------
\* The NAV at which an entry of the day is priced; a NAV typed by the user
\* goes first (0: none was typed).
ResolveNavForOccur(navs, day, manual) ==
    IF manual > 0 THEN manual
    ELSE IF NavOn(navs, day) # NoNav THEN NavOn(navs, day)
    ELSE PrevNav(navs, day)

\* Mutant of ImpliedShares: the profit declared is left out.
ImpliedSharesOfCash(cashFen, cumulativeFen, latest) ==
    SharesFromCash(cashFen, latest)

\* The shares that cash and the profit declared are worth at the latest NAV.
ImpliedShares(cashFen, cumulativeFen, latest) ==
    SharesFromCash(cashFen + cumulativeFen, latest)

\* ImpliedBuy: those shares and the price paid for each; 0 shares: not ok.
ImpliedBuy(cashFen, cumulativeFen, latest) ==
    LET shares == ImpliedShares(cashFen, cumulativeFen, latest)
        nav == IF shares > 0 THEN MulDiv(cashFen, FenScale, shares) ELSE 0
    IN [shares |-> IF nav > 0 THEN shares ELSE 0, nav |-> nav]

-----------------------------------------------------------------------------
CumulativeReturnE4(cumulativeFen, totalBuyFen) ==
    IF totalBuyFen = 0 THEN NoRate
    ELSE [ok |-> TRUE, e4 |-> MulDivRound(cumulativeFen, 10000, totalBuyFen)]

\* The move of the NAV over the given number of days up to the latest one.
WindowPctE4(navs, days) ==
    LET end   == LatestNav(navs)
        start == NavOnOrBefore(navs, LatestNavDay(navs) - days)
    IN IF end = NoNav \/ start = NoNav THEN NoRate
       ELSE [ok |-> TRUE, e4 |-> MulDivRound(end - start, 10000, start)]

\* Mutant of SegmentStart: every buy begins a segment.
SegmentStartAny(entries) ==
    LET starts == {i \in DOMAIN entries : entries[i].kind = "buy"}
    IN IF starts = {} THEN 0 ELSE Max(starts)

\* The shares after the first n entries, as occupancySegment counts them.
RunningShares(entries, n) ==
    FoldLeft(LAMBDA sum, e :
                 IF e.kind = "buy" THEN sum + e.shares ELSE sum - e.shares,
             0, SubSeq(entries, 1, n))

\* The last buy that finds no shares; 0 without one.
SegmentStart(entries) ==
    LET starts == {i \in DOMAIN entries :
                     /\ entries[i].kind = "buy"
                     /\ RunningShares(entries, i - 1) = 0}
    IN IF starts = {} THEN 0 ELSE Max(starts)

OccupancySegment(entries) ==
    IF SegmentStart(entries) = 0 THEN <<>>
    ELSE SubSeq(entries, SegmentStart(entries), Len(entries))

LastRedeemOccur(entries) ==
    LET redeems == {i \in DOMAIN entries : entries[i].kind = "redeem"}
    IN IF redeems = {} THEN NoDay ELSE entries[Max(redeems)].day

\* The cumulative profit of a position: its market value at the latest NAV,
\* less what it cost, with what has been realized.
Cumulative(st, navs) ==
    st.RealizedFen +
      (IF LatestNav(navs) = NoNav THEN 0
       ELSE CashFromShares(st.SharesE8, LatestNav(navs)) - st.CostFen)

\* The return of the current segment per year, without compounding.
AnnualizedCumulativeReturnE4(entries, navs) ==
    LET seg    == OccupancySegment(entries)
        r      == Replay(seg)
        closed == r.st.SharesE8 = 0
        end    == IF closed THEN LastRedeemOccur(seg) ELSE LatestNavDay(navs)
        cum    == IF closed THEN r.st.RealizedFen ELSE Cumulative(r.st, navs)
        n      == end - seg[1].day
        rate   == CumulativeReturnE4(cum, r.st.TotalBuyFen)
    IN IF \/ seg = <<>> \/ r.err \/ end = NoDay
          \/ n <= 0 \/ ~ rate.ok
       THEN NoRate
       ELSE [ok |-> TRUE, e4 |-> MulDivRound(rate.e4, 365, n)]
=============================================================================
