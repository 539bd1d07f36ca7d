-------------------------------- MODULE Money --------------------------------
(***************************************************************************)
(* The fixed-point arithmetic of the package money.  Amounts are in fen,   *)
(* shares and unit NAVs in units of 1e-8; FenScale converts the product of *)
(* shares and a NAV into fen (1e14 in the code).  Integers are unbounded.  *)
(***************************************************************************)
EXTENDS Integers

CONSTANT FenScale

ASSUME FenScaleAssumption == FenScale \in Nat \ {0}

Abs(n) == IF n < 0 THEN -n ELSE n

\* a * b / div, rounded towards 0 (the code divides the absolute values).
MulDiv(a, b, div) ==
    LET q == (Abs(a) * Abs(b)) \div div
    IN IF (a < 0) # (b < 0) THEN -q ELSE q

\* a * b / div, rounded to the nearest, halves away from 0.
MulDivRound(a, b, div) ==
    LET product == Abs(a) * Abs(b)
        q == (product \div div)
                + (IF product % div >= (div + 1) \div 2 THEN 1 ELSE 0)
    IN IF (a < 0) # (b < 0) THEN -q ELSE q

SharesFromCash(cashFen, navE8) ==
    IF cashFen <= 0 \/ navE8 <= 0 THEN 0 ELSE MulDiv(cashFen, FenScale, navE8)

CashFromShares(sharesE8, navE8) ==
    IF sharesE8 <= 0 \/ navE8 <= 0 THEN 0
    ELSE MulDivRound(sharesE8, navE8, FenScale)
=============================================================================
