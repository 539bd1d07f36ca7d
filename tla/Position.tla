------------------------------ MODULE Position ------------------------------
(***************************************************************************)
(* pnl.State, the position that the entries of an account amount to, and   *)
(* what one entry does to it: the body of the loop of pnl.Replay.          *)
(***************************************************************************)
EXTENDS Integers

State == [SharesE8 : Nat, CostFen : Nat, RealizedFen : Int,
          TotalBuyFen : Nat, TotalRedeemFen : Nat]

\* The zero value of pnl.State.
NoPosition == [SharesE8 |-> 0, CostFen |-> 0, RealizedFen |-> 0,
               TotalBuyFen |-> 0, TotalRedeemFen |-> 0]

-----------------------------------------------------------------------------
\* Mutant of Amortize: the remaining shares are the divisor.
AmortizeAfter(costFen, redeemShares, sharesBefore) ==
    IF sharesBefore <= redeemShares \/ redeemShares <= 0 THEN 0
    ELSE (costFen * redeemShares) \div (sharesBefore - redeemShares)

\* money.Amortize: multiply, then divide; 0 unless both numbers are positive.
Amortize(costFen, redeemShares, sharesBefore) ==
    IF sharesBefore <= 0 \/ redeemShares <= 0 THEN 0
    ELSE (costFen * redeemShares) \div sharesBefore

\* The cost that a redemption takes with it: all of it when nothing remains.
AmortizedCost(s, redeemShares) ==
    IF redeemShares = s.SharesE8 THEN s.CostFen
    ELSE Amortize(s.CostFen, redeemShares, s.SharesE8)

AfterBuy(s, cash, shares) ==
    [s EXCEPT !.SharesE8 = @ + shares,
              !.CostFen = @ + cash,
              !.TotalBuyFen = @ + cash]

\* Mutant of AfterRedeem: the price paid for the shares stays in the cost.
AfterRedeemKeepingCost(s, cash, shares) ==
    [s EXCEPT !.RealizedFen = @ + cash - AmortizedCost(s, shares),
              !.SharesE8 = @ - shares,
              !.TotalRedeemFen = @ + cash]

AfterRedeem(s, cash, shares) ==
    [s EXCEPT !.RealizedFen = @ + cash - AmortizedCost(s, shares),
              !.SharesE8 = @ - shares,
              !.CostFen = @ - AmortizedCost(s, shares),
              !.TotalRedeemFen = @ + cash]
=============================================================================
