------------------------------- MODULE Replay -------------------------------
(***************************************************************************)
(* pnl.Replay, the loop that turns the active entries of an account into   *)
(* its remaining shares, remaining cost, realized profit and totals: one   *)
(* step per entry, for any list of entries.  Numbers are unbounded here.   *)
(***************************************************************************)
EXTENDS Position

CONSTANTS
    BuyCash,     \* CashFen of buys
    BuyShares,   \* SharesE8 of buys
    RedeemCash,  \* CashFen of redemptions
    RedeemShares,\* SharesE8 of redemptions; 0 when an amount is below a share
    MaxEntries   \* bound: length of the list

ASSUME EntriesAssumption ==
    /\ BuyCash \subseteq Nat \ {0}
    /\ BuyShares \subseteq Nat \ {0}
    /\ RedeemCash \subseteq Nat
    /\ RedeemShares \subseteq Nat
    /\ MaxEntries \in Nat

VARIABLES
    st,    \* pnl.State after the entries read so far
    err,   \* the error that Replay returned, if any
    read   \* number of entries read

vars == <<st, err, read>>

Errors == {"none", "ErrInsufficientShares", "ErrEmptyHolding"}

-----------------------------------------------------------------------------
Init ==
    /\ st = NoPosition
    /\ err = "none"
    /\ read = 0

\* The loop goes on to another entry.
Reading ==
    /\ err = "none"
    /\ read < MaxEntries
    /\ read' = read + 1

Buy ==
    /\ Reading
    /\ \E cash \in BuyCash, shares \in BuyShares :
         st' = AfterBuy(st, cash, shares)
    /\ UNCHANGED err

Redeem ==
    /\ Reading
    /\ st.SharesE8 # 0
    /\ \E cash \in RedeemCash, shares \in RedeemShares :
         /\ shares <= st.SharesE8
         /\ st' = AfterRedeem(st, cash, shares)
    /\ UNCHANGED err

\* Replay returns an error and an empty State.
Refuse ==
    /\ Reading
    /\ \E shares \in RedeemShares :
         \/ /\ shares > st.SharesE8
            /\ err' = "ErrInsufficientShares"
         \/ /\ shares <= st.SharesE8
            /\ st.SharesE8 = 0
            /\ err' = "ErrEmptyHolding"
    /\ st' = NoPosition

Next == Buy \/ Redeem \/ Refuse

Spec == Init /\ [][Next]_vars

-----------------------------------------------------------------------------
\* Type invariant; in particular no entry makes the shares or the cost negative.
TypeOK ==
    /\ st \in State
    /\ err \in Errors
    /\ read \in 0..MaxEntries

\* Money is conserved: what the user paid in is in the remaining cost or has
\* been set against a redemption, however the amortized costs were rounded.
MoneyConserved ==
    st.RealizedFen = st.TotalRedeemFen - (st.TotalBuyFen - st.CostFen)

\* "After clearing the account the remaining cost is 0": also when the last
\* shares go in several redemptions whose amortized costs are rounded down.
ClearedHasNoCost == st.SharesE8 = 0 => st.CostFen = 0

\* A redemption takes its share of the cost, to within one fen and never more
\* than its share, so that the average cost of what remains does not fall.
AverageCostKept ==
    [][ st'.SharesE8 < st.SharesE8 /\ err' = "none" =>
          LET proportional == st.CostFen * st'.SharesE8
              kept == st'.CostFen * st.SharesE8
          IN /\ proportional <= kept
             /\ kept < proportional + st.SharesE8 ]_vars
=============================================================================
