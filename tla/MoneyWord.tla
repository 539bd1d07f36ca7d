------------------------------ MODULE MoneyWord ------------------------------
(***************************************************************************)
(* The arithmetic of the package money on machine words.  An int64 is one  *)
(* of the integers from -Half to Half - 1 and is wrapped round; Half is    *)
(* 2^63 in the code.  A product has two words, and bits.Div64 panics when  *)
(* the quotient does not fit one.                                          *)
(***************************************************************************)
EXTENDS Money

CONSTANT Half

ASSUME HalfAssumption == Half \in Nat \ {0}

Word == -Half..(Half - 1)

\* int64 of an unbounded integer.
Wrap(n) == ((n + Half) % (2 * Half)) - Half

\* bits.Div64 of the two words of a product by div: the upper one is not less.
DivPanics(a, b, div) == (Abs(a) * Abs(b)) \div (2 * Half) >= Abs(div)

Negative(a, b, div) == ((a < 0) # (b < 0)) # (div < 0)

\* Mutant of WordQuotient: the product is cut to one word.
WordQuotientOfLow(a, b, div, round) ==
    LET product == (Abs(a) * Abs(b)) % (2 * Half)
        d == Abs(div)
    IN (product \div d) + (IF round /\ product % d >= (d + 1) \div 2 THEN 1 ELSE 0)

\* The quotient of finishMulDiv, before it becomes an int64.
WordQuotient(a, b, div, round) ==
    LET product == Abs(a) * Abs(b)
        d == Abs(div)
    IN (product \div d) + (IF round /\ product % d >= (d + 1) \div 2 THEN 1 ELSE 0)

\* MulDiv and MulDivRound, when they return.
WordMulDiv(a, b, div, round) ==
    IF div = 0 THEN 0
    ELSE LET q == WordQuotient(a, b, div, round)
         IN Wrap(IF Negative(a, b, div) THEN -q ELSE q)

WordSharesFromCash(cashFen, navE8) ==
    IF cashFen <= 0 \/ navE8 <= 0 THEN 0
    ELSE WordMulDiv(cashFen, FenScale, navE8, FALSE)

WordCashFromShares(sharesE8, navE8) ==
    IF sharesE8 <= 0 \/ navE8 <= 0 THEN 0
    ELSE WordMulDiv(sharesE8, navE8, FenScale, TRUE)

WordAmortize(costFen, redeemSharesE8, sharesBeforeE8) ==
    IF sharesBeforeE8 <= 0 \/ redeemSharesE8 <= 0 THEN 0
    ELSE WordMulDiv(costFen, redeemSharesE8, sharesBeforeE8, FALSE)

AmortizePanics(costFen, redeemSharesE8, sharesBeforeE8) ==
    /\ sharesBeforeE8 > 0
    /\ redeemSharesE8 > 0
    /\ DivPanics(costFen, redeemSharesE8, sharesBeforeE8)

-----------------------------------------------------------------------------
(* A decimal is its sign, its units, and a fraction frac/den, where den is a *)
(* power of ten; factor is the power of ten that a unit has (100 for fen).   *)

\* parseFixed of a decimal; what is finer than the scale is dropped.
ParseFixed(t, factor) ==
    LET v == t.units * factor + (t.frac * factor) \div t.den
    IN Wrap(IF t.neg THEN -v ELSE v)

\* formatFixed: of the least word, which has no negative, the units are lost.
FormatFixed(v, factor) ==
    [neg |-> v < 0,
     units |-> IF v = -Half THEN 0 ELSE Abs(v) \div factor,
     frac |-> IF v = -Half THEN 0 ELSE Abs(v) % factor,
     den |-> factor]
=============================================================================
