---------------------------- MODULE ReplayProofs ----------------------------
(***************************************************************************)
(* The invariants of pnl.Replay, for lists of any length, and what machine *)
(* words change about it and about the arithmetic of money, for every size *)
(* of a word.                                                              *)
(***************************************************************************)
EXTENDS WordReplay, TLAPS

-----------------------------------------------------------------------------
(* Replay over unbounded integers. *)

\* Integer division of naturals, multiplied back.
LEMMA DivBounds ==
  ASSUME NEW a \in Nat, NEW b \in Nat \ {0}
  PROVE  /\ a \div b \in Nat
         /\ (a \div b) * b <= a
         /\ a < (a \div b) * b + b
  OBVIOUS

\* The product of two natural numbers is one.
LEMMA ProductIsNat ==
  ASSUME NEW a \in Nat, NEW b \in Nat
  PROVE  a * b \in Nat
  OBVIOUS

\* Multiplication keeps the order of natural numbers.
LEMMA ProductMonotone ==
  ASSUME NEW a \in Nat, NEW b \in Nat, NEW c \in Nat, a <= b
  PROVE  c * a <= c * b
  OBVIOUS

\* A redemption of part of the shares takes at most the whole cost.
LEMMA AmortizeBounds ==
  ASSUME NEW c \in Nat, NEW r \in Nat, NEW s \in Nat, 0 < r, r <= s
  PROVE  /\ Amortize(c, r, s) \in 0..c
         /\ Amortize(c, r, s) * s <= c * r
         /\ c * r < Amortize(c, r, s) * s + s
<1> DEFINE q == Amortize(c, r, s)
<1>1. q = (c * r) \div s
  BY DEF Amortize
<1>2. c * r \in Nat /\ s \in Nat \ {0}
  BY ProductIsNat
<1>3. q \in Nat /\ q * s <= c * r /\ c * r < q * s + s
  BY <1>1, <1>2, DivBounds
<1>4. c * r <= c * s
  BY ProductMonotone
<1>5. q <= c
  <2>1. SUFFICES ASSUME c + 1 <= q PROVE FALSE
    BY <1>3
  <2>2. (c + 1) * s <= q * s
    <3>1. s * (c + 1) <= s * q
      BY <1>3, <2>1, ProductMonotone
    <3> QED BY <1>3, <3>1
  <2>3. (c + 1) * s = c * s + s
    OBVIOUS
  <2>4. c * s \in Nat /\ q * s \in Nat
    BY <1>3, ProductIsNat
  <2> HIDE DEF q
  <2> QED BY <1>2, <1>3, <1>4, <2>2, <2>3, <2>4
<1> QED BY <1>3, <1>5

\* What AmortizedCost adds: nothing remains of the cost of a cleared account.
LEMMA AmortizedCostBounds ==
  ASSUME NEW s \in State, NEW r \in Nat, s.SharesE8 # 0, r <= s.SharesE8
  PROVE  /\ AmortizedCost(s, r) \in 0..s.CostFen
         /\ r = s.SharesE8 => AmortizedCost(s, r) = s.CostFen
         /\ AmortizedCost(s, r) * s.SharesE8 <= s.CostFen * r
         /\ s.CostFen * r < AmortizedCost(s, r) * s.SharesE8 + s.SharesE8
<1> DEFINE c == s.CostFen
           n == s.SharesE8
<1>1. c \in Nat /\ n \in Nat \ {0}
  BY DEF State
<1>2. CASE r = n
  BY <1>1, <1>2, ProductIsNat DEF AmortizedCost
<1>3. CASE r # n /\ r = 0
  BY <1>1, <1>3 DEF AmortizedCost, Amortize
<1>4. CASE r # n /\ 0 < r
  BY <1>1, <1>4, AmortizeBounds DEF AmortizedCost
<1> QED BY <1>2, <1>3, <1>4

IInv ==
    /\ TypeOK
    /\ MoneyConserved
    /\ ClearedHasNoCost

\* A buy keeps the invariant.
LEMMA BuyKeeps ==
  ASSUME IInv, Buy PROVE IInv'
<1>1. PICK cash \in BuyCash, shares \in BuyShares :
        st' = AfterBuy(st, cash, shares)
  BY DEF Buy
<1>2. cash \in Nat /\ shares \in Nat \ {0} /\ st \in State
  BY EntriesAssumption DEF IInv, TypeOK
<1>3. st' = [SharesE8 |-> st.SharesE8 + shares, CostFen |-> st.CostFen + cash,
             RealizedFen |-> st.RealizedFen,
             TotalBuyFen |-> st.TotalBuyFen + cash,
             TotalRedeemFen |-> st.TotalRedeemFen]
  BY <1>1, <1>2 DEF AfterBuy, State
<1>4. read' \in 0..MaxEntries /\ err' = err
  BY EntriesAssumption DEF Buy, Reading, IInv, TypeOK
<1>5. st' \in State
  BY <1>2, <1>3 DEF State
<1>6. MoneyConserved'
  BY <1>2, <1>3 DEF IInv, MoneyConserved, State
<1>7. ClearedHasNoCost'
  BY <1>2, <1>3 DEF ClearedHasNoCost, State
<1> QED BY <1>4, <1>5, <1>6, <1>7 DEF IInv, TypeOK

\* A redemption that goes through, with its cost written as a number.
LEMMA RedeemForm ==
  ASSUME TypeOK, Redeem
  PROVE  \E cash \in Nat, shares \in Nat, cost \in 0..st.CostFen :
           /\ shares <= st.SharesE8
           /\ shares = st.SharesE8 => cost = st.CostFen
           /\ cost * st.SharesE8 <= st.CostFen * shares
           /\ st.CostFen * shares < cost * st.SharesE8 + st.SharesE8
           /\ st' = [SharesE8 |-> st.SharesE8 - shares,
                     CostFen |-> st.CostFen - cost,
                     RealizedFen |-> st.RealizedFen + cash - cost,
                     TotalBuyFen |-> st.TotalBuyFen,
                     TotalRedeemFen |-> st.TotalRedeemFen + cash]
<1>1. PICK cash \in RedeemCash, shares \in RedeemShares :
        shares <= st.SharesE8 /\ st' = AfterRedeem(st, cash, shares)
  BY DEF Redeem
<1>2. cash \in Nat /\ shares \in Nat /\ st \in State /\ st.SharesE8 # 0
  BY EntriesAssumption DEF TypeOK, Redeem
<1> DEFINE cost == AmortizedCost(st, shares)
<1>3. /\ cost \in 0..st.CostFen
      /\ shares = st.SharesE8 => cost = st.CostFen
      /\ cost * st.SharesE8 <= st.CostFen * shares
      /\ st.CostFen * shares < cost * st.SharesE8 + st.SharesE8
  BY <1>1, <1>2, AmortizedCostBounds
<1>4. st' = [SharesE8 |-> st.SharesE8 - shares,
             CostFen |-> st.CostFen - cost,
             RealizedFen |-> st.RealizedFen + cash - cost,
             TotalBuyFen |-> st.TotalBuyFen,
             TotalRedeemFen |-> st.TotalRedeemFen + cash]
  BY <1>1, <1>2 DEF AfterRedeem, State
<1> HIDE DEF cost
<1> QED BY <1>1, <1>2, <1>3, <1>4

\* A redemption keeps the invariant.
LEMMA RedeemKeeps ==
  ASSUME IInv, Redeem PROVE IInv'
<1>1. PICK cash \in Nat, shares \in Nat, cost \in 0..st.CostFen :
        /\ shares <= st.SharesE8
        /\ shares = st.SharesE8 => cost = st.CostFen
        /\ st' = [SharesE8 |-> st.SharesE8 - shares,
                  CostFen |-> st.CostFen - cost,
                  RealizedFen |-> st.RealizedFen + cash - cost,
                  TotalBuyFen |-> st.TotalBuyFen,
                  TotalRedeemFen |-> st.TotalRedeemFen + cash]
  BY RedeemForm DEF IInv
<1>2. st \in State
  BY DEF IInv, TypeOK
<1>3. read' \in 0..MaxEntries /\ err' = err
  BY EntriesAssumption DEF Redeem, Reading, IInv, TypeOK
<1>4. st' \in State
  BY <1>1, <1>2 DEF State
<1>5. MoneyConserved'
  BY <1>1, <1>2 DEF IInv, MoneyConserved, State
<1>6. ClearedHasNoCost'
  BY <1>1, <1>2 DEF ClearedHasNoCost, State
<1> QED BY <1>3, <1>4, <1>5, <1>6 DEF IInv, TypeOK

\* An error keeps the invariant: the state is empty.
LEMMA RefuseKeeps ==
  ASSUME IInv, Refuse PROVE IInv'
<1>1. st' = NoPosition
  BY DEF Refuse
<1>2. read' \in 0..MaxEntries /\ err' \in Errors
  BY EntriesAssumption DEF Refuse, Reading, IInv, TypeOK, Errors
<1> QED BY <1>1, <1>2
      DEF IInv, TypeOK, State, NoPosition, MoneyConserved, ClearedHasNoCost

\* For every list of entries: no negative shares or cost, the money is
\* conserved, and an account that is cleared has no cost left.
THEOREM ReplayCorrect == Spec => [](TypeOK /\ MoneyConserved /\ ClearedHasNoCost)
<1>1. Init => IInv
  BY EntriesAssumption
     DEF Init, IInv, TypeOK, State, NoPosition, Errors, MoneyConserved,
         ClearedHasNoCost
<1>2. IInv /\ [Next]_vars => IInv'
  <2>1. IInv /\ UNCHANGED vars => IInv'
    BY DEF vars, IInv, TypeOK, MoneyConserved, ClearedHasNoCost
  <2> QED BY <2>1, BuyKeeps, RedeemKeeps, RefuseKeeps DEF Next
<1> QED BY <1>1, <1>2, PTL DEF Spec, IInv

\* No list of entries makes the shares or the remaining cost negative.
THEOREM NeverNegative == Spec => []TypeOK
  BY ReplayCorrect, PTL

\* An account that is cleared, by however many redemptions whose amortized
\* costs were rounded down, has no cost left.
THEOREM ClearedHasNoCostAlways == Spec => []ClearedHasNoCost
  BY ReplayCorrect, PTL

\* Every redemption, of any size, leaves the average cost of the remaining
\* shares where it was, but for the fen that the division drops.
THEOREM AverageCostKeptAlways == Spec => AverageCostKept
<1> DEFINE Fair ==
      st'.SharesE8 < st.SharesE8 /\ err' = "none" =>
        LET proportional == st.CostFen * st'.SharesE8
            kept == st'.CostFen * st.SharesE8
        IN /\ proportional <= kept
           /\ kept < proportional + st.SharesE8
<1>1. TypeOK /\ [Next]_vars => [Fair]_vars
  <2> SUFFICES ASSUME TypeOK, [Next]_vars, ~ UNCHANGED vars,
                      st'.SharesE8 < st.SharesE8, err' = "none"
               PROVE  /\ st.CostFen * st'.SharesE8 <= st'.CostFen * st.SharesE8
                      /\ st'.CostFen * st.SharesE8
                           < st.CostFen * st'.SharesE8 + st.SharesE8
    OBVIOUS
  <2>1. ~ Refuse
    BY DEF Refuse
  <2>2. ~ Buy
    <3> SUFFICES ASSUME NEW cash \in BuyCash, NEW shares \in BuyShares,
                        st' = AfterBuy(st, cash, shares)
                 PROVE  FALSE
      BY DEF Buy
    <3>1. st'.SharesE8 = st.SharesE8 + shares
      BY DEF AfterBuy, TypeOK, State
    <3>2. shares \in Nat /\ st.SharesE8 \in Nat
      BY EntriesAssumption DEF TypeOK, State
    <3> QED BY <3>1, <3>2
  <2>3. PICK cash \in Nat, shares \in Nat, cost \in 0..st.CostFen :
          /\ shares <= st.SharesE8
          /\ cost * st.SharesE8 <= st.CostFen * shares
          /\ st.CostFen * shares < cost * st.SharesE8 + st.SharesE8
          /\ st'.SharesE8 = st.SharesE8 - shares
          /\ st'.CostFen = st.CostFen - cost
    BY <2>1, <2>2, RedeemForm DEF Next
  <2> DEFINE n == st.SharesE8
             c == st.CostFen
  <2>4. n \in Nat /\ c \in Nat
    BY DEF TypeOK, State
  <2>5. /\ c * (n - shares) = c * n - c * shares
        /\ (c - cost) * n = c * n - cost * n
    BY <2>4
  <2>6. c * n \in Nat /\ c * shares \in Nat /\ cost * n \in Nat
    BY <2>4, ProductIsNat
  <2> QED BY <2>3, <2>4, <2>5, <2>6
<1>2. Spec => []TypeOK
  BY ReplayCorrect, PTL
<1> QED BY <1>1, <1>2, PTL DEF Spec, AverageCostKept

-----------------------------------------------------------------------------
(* Money and Replay on words. *)

\* A number below the modulus is its own remainder.
LEMMA RemainderOfSmall ==
  ASSUME NEW a \in Nat, NEW d \in Nat \ {0}, a < d
  PROVE  a % d = a
<1>1. a \div d \in Int /\ a % d \in 0..(d - 1) /\ a = d * (a \div d) + (a % d)
  OBVIOUS
<1> DEFINE q == a \div d
           r == a % d
<1>2. q \in Int /\ r \in Int /\ 0 <= r /\ r < d /\ a = d * q + r
  BY <1>1
<1> HIDE DEF q, r
<1>3. ~ (q >= 1)
  <2> SUFFICES ASSUME q >= 1 PROVE FALSE
    OBVIOUS
  <2>1. d * q >= d
    BY <1>2
  <2> QED BY <1>2, <2>1
<1>4. ~ (q <= -1)
  <2> SUFFICES ASSUME q <= -1 PROVE FALSE
    OBVIOUS
  <2>1. d * q <= -d
    BY <1>2
  <2> QED BY <1>2, <2>1
<1>5. q = 0
  BY <1>2, <1>3, <1>4
<1> QED BY <1>2, <1>5 DEF r

\* What is wrapped round is a word, and a word stays what it is.
LEMMA WrapIsWord ==
  ASSUME NEW n \in Int
  PROVE  Wrap(n) \in Word
<1>1. 2 * Half \in Nat \ {0} /\ Half \in Nat
  BY HalfAssumption
<1>2. (n + Half) % (2 * Half) \in 0..(2 * Half - 1)
  <2> DEFINE m == 2 * Half
  <2>1. m \in Nat \ {0} /\ n + Half \in Int
    BY <1>1
  <2> HIDE DEF m
  <2>2. (n + Half) % m \in 0..(m - 1)
    BY <2>1
  <2> QED BY <2>2 DEF m
<1> QED BY <1>1, <1>2 DEF Wrap, Word

LEMMA WrapOfWord ==
  ASSUME NEW n \in Word
  PROVE  Wrap(n) = n
<1>1. Half \in Nat \ {0} /\ n \in Int /\ -Half <= n /\ n < Half
  BY HalfAssumption DEF Word
<1>2. n + Half \in Nat /\ 2 * Half \in Nat \ {0} /\ n + Half < 2 * Half
  BY <1>1
<1>3. (n + Half) % (2 * Half) = n + Half
  BY <1>2, RemainderOfSmall
<1> QED BY <1>1, <1>3 DEF Wrap

\* The upper word of a product is less than the divisor exactly when the
\* quotient fits two halves.
LEMMA FitsDivisor ==
  ASSUME NEW p \in Nat, NEW d \in Nat \ {0}, NEW m \in Nat \ {0}, p < m * d
  PROVE  p \div m < d
<1> DEFINE q == p \div m
<1>1. q \in Nat /\ q * m <= p
  BY DivBounds
<1> HIDE DEF q
<1>2. ~ (q >= d)
  <2> SUFFICES ASSUME q >= d PROVE FALSE
    OBVIOUS
  <2>1. m * d <= m * q
    BY <1>1, ProductMonotone
  <2> QED BY <1>1, <2>1
<1> QED BY <1>1, <1>2 DEF q

\* MulDiv, whose product may need two words, is exact when the quotient fits.
THEOREM MulDivExact ==
  ASSUME NEW a \in Word, NEW b \in Word, NEW div \in Word, div > 0,
         (Abs(a) * Abs(b)) \div div < Half
  PROVE  /\ ~ DivPanics(a, b, div)
         /\ WordMulDiv(a, b, div, FALSE) = MulDiv(a, b, div)
<1> DEFINE p == Abs(a) * Abs(b)
           q == p \div div
<1>1. /\ Half \in Nat \ {0} /\ 2 * Half \in Nat \ {0}
      /\ a \in Int /\ b \in Int /\ div \in Nat \ {0}
  BY HalfAssumption DEF Word
<1>2. Abs(a) \in Nat /\ Abs(b) \in Nat /\ Abs(div) = div
  BY <1>1 DEF Abs
<1>3. p \in Nat
  BY <1>2, ProductIsNat
<1>4. q < Half
  OBVIOUS
<1> HIDE DEF p
<1>5. q \in Nat /\ p < q * div + div
  BY <1>1, <1>3, DivBounds
<1> HIDE DEF q
<1>6. ~ DivPanics(a, b, div)
  <2>1. div * (q + 1) <= div * Half
    BY <1>1, <1>4, <1>5, ProductMonotone
  <2>2. div * Half \in Nat
    BY <1>1, ProductIsNat
  <2>3. p < (2 * Half) * div
    BY <1>1, <1>3, <1>5, <2>1, <2>2
  <2>4. p \div (2 * Half) < div
    BY <1>1, <1>3, <2>3, FitsDivisor
  <2> QED BY <1>1, <1>2, <1>3, <2>4 DEF DivPanics, p
<1>7. WordQuotient(a, b, div, FALSE) = q
  BY <1>2, <1>5 DEF WordQuotient, p, q
<1>8. q \in Word /\ -q \in Word
  BY <1>1, <1>4, <1>5 DEF Word
<1>9. Negative(a, b, div) = ((a < 0) # (b < 0))
  BY <1>1 DEF Negative
<1> DEFINE signed == IF (a < 0) # (b < 0) THEN -q ELSE q
<1>10. WordMulDiv(a, b, div, FALSE) = signed
  BY <1>1, <1>7, <1>8, <1>9, WrapOfWord DEF WordMulDiv
<1>11. MulDiv(a, b, div) = signed
  BY DEF MulDiv, p, q
<1> HIDE DEF signed
<1> QED BY <1>6, <1>10, <1>11

\* An amount that was formatted and is parsed again is the same amount, for
\* every word that has a negative.
THEOREM FormatThenParse ==
  ASSUME NEW v \in Word, v # -Half, NEW factor \in Nat \ {0}
  PROVE  ParseFixed(FormatFixed(v, factor), factor) = v
<1> DEFINE n == Abs(v)
           q == n \div factor
           r == n % factor
<1>1. /\ Half \in Nat \ {0} /\ v \in Int /\ n \in Nat
      /\ n = IF v < 0 THEN -v ELSE v
  BY HalfAssumption DEF Word, Abs
<1> HIDE DEF n
<1>2. q \in Nat /\ r \in Nat /\ q * factor + r = n
  BY <1>1
<1>3. (r * factor) \div factor = r
  <2>1. r * factor \in Nat
    BY <1>2, ProductIsNat
  <2> DEFINE k == (r * factor) \div factor
  <2>2. k \in Nat /\ k * factor <= r * factor /\ r * factor < k * factor + factor
    <3> HIDE DEF r
    <3> QED BY <2>1, DivBounds
  <2> HIDE DEF k, r
  <2>3. ~ (k + 1 <= r)
    <3> SUFFICES ASSUME k + 1 <= r PROVE FALSE
      OBVIOUS
    <3>1. factor * (k + 1) <= factor * r
      BY <1>2, <2>2, ProductMonotone
    <3> QED BY <1>2, <2>2, <3>1
  <2>4. ~ (r + 1 <= k)
    <3> SUFFICES ASSUME r + 1 <= k PROVE FALSE
      OBVIOUS
    <3>1. factor * (r + 1) <= factor * k
      BY <1>2, <2>2, ProductMonotone
    <3> QED BY <1>2, <2>2, <3>1
  <2> QED BY <1>2, <2>2, <2>3, <2>4 DEF k
<1>4. FormatFixed(v, factor) = [neg |-> v < 0, units |-> q, frac |-> r, den |-> factor]
  BY DEF FormatFixed, n
<1> HIDE DEF q, r
<1>5. ParseFixed([neg |-> v < 0, units |-> q, frac |-> r, den |-> factor], factor)
        = Wrap(IF v < 0 THEN -(q * factor + (r * factor) \div factor)
                        ELSE q * factor + (r * factor) \div factor)
  BY Zenon DEF ParseFixed
<1>6. (IF v < 0 THEN -(q * factor + (r * factor) \div factor)
                ELSE q * factor + (r * factor) \div factor) = v
  BY <1>1, <1>2, <1>3
<1> QED BY <1>4, <1>5, <1>6, WrapOfWord

-----------------------------------------------------------------------------
\* The entries that are read on words.
Entries == BuyCash \cup BuyShares \cup RedeemCash \cup RedeemShares

LEMMA EntriesAreWords ==
  \A n \in Entries : n \in Nat /\ n \in Word /\ n < Half
  BY WordEntriesAssumption, HalfAssumption DEF Entries, Word

LEMMA WordsAreInts == \A n \in Word : n \in Int /\ -Half <= n /\ n < Half /\ Half \in Nat \ {0}
  BY HalfAssumption DEF Word

\* The exact replay is what the replay on words runs beside.
LEMMA WordStepIsStep == [WordNext]_wordVars => [Next]_vars
  BY DEF WordNext, wordVars, vars, Next

\* A step on words is a buy, a redemption or a refusal of the same entry.
LEMMA WordStepKinds ==
  ASSUME TypeOK, WordNext
  PROVE  \/ \E cash \in BuyCash, shares \in BuyShares :
              /\ Buy /\ Fitting
              /\ st' = AfterBuy(st, cash, shares)
              /\ WordBuy(cash, shares)
         \/ \E cash \in RedeemCash, shares \in RedeemShares :
              /\ Redeem /\ Fitting
              /\ shares <= st.SharesE8
              /\ st' = AfterRedeem(st, cash, shares)
              /\ WordRedeem(cash, shares)
         \/ \E cash \in RedeemCash, shares \in RedeemShares :
              /\ Refuse /\ Fitting
              /\ (err' = "ErrInsufficientShares") <=> shares > st.SharesE8
              /\ WordRedeem(cash, shares)
<1>1. CASE /\ Buy /\ Fitting
           /\ WordBuy(st'.CostFen - st.CostFen, st'.SharesE8 - st.SharesE8)
  <2>1. PICK cash \in BuyCash, shares \in BuyShares :
          st' = AfterBuy(st, cash, shares)
    BY <1>1 DEF Buy
  <2>2. cash \in Nat /\ shares \in Nat /\ st \in State
    BY EntriesAssumption DEF TypeOK
  <2>3. st'.CostFen = st.CostFen + cash /\ st'.SharesE8 = st.SharesE8 + shares
    BY <2>1, <2>2 DEF AfterBuy, State
  <2>4. st'.CostFen - st.CostFen = cash /\ st'.SharesE8 - st.SharesE8 = shares
    BY <2>2, <2>3 DEF State
  <2> QED BY <1>1, <2>1, <2>4
<1>2. CASE /\ Redeem /\ Fitting
           /\ WordRedeem(st'.TotalRedeemFen - st.TotalRedeemFen,
                         st.SharesE8 - st'.SharesE8)
  <2>1. PICK cash \in RedeemCash, shares \in RedeemShares :
          shares <= st.SharesE8 /\ st' = AfterRedeem(st, cash, shares)
    BY <1>2 DEF Redeem
  <2>2. cash \in Nat /\ shares \in Nat /\ st \in State
    BY EntriesAssumption DEF TypeOK
  <2>3. /\ st'.TotalRedeemFen = st.TotalRedeemFen + cash
        /\ st'.SharesE8 = st.SharesE8 - shares
    BY <2>1, <2>2 DEF AfterRedeem, State
  <2>4. /\ st'.TotalRedeemFen - st.TotalRedeemFen = cash
        /\ st.SharesE8 - st'.SharesE8 = shares
    BY <2>2, <2>3 DEF State
  <2> QED BY <1>2, <2>1, <2>4
<1> QED BY <1>1, <1>2 DEF WordNext

-----------------------------------------------------------------------------
\* A redemption that passes the tests of Replay does not panic, whatever the
\* word of the cost has become.
LEMMA CheckedDoesNotPanic ==
  ASSUME word \in WordState, NEW shares \in Nat, shares \in Word,
         WordChecks(shares) = "none"
  PROVE  ~ AmortizePanics(word.CostFen, shares, word.SharesE8)
<1> DEFINE c == word.CostFen
           n == word.SharesE8
<1>1. c \in Word /\ n \in Word
  BY DEF WordState
<1> HIDE DEF c, n
<1>2. c \in Int /\ n \in Int /\ -Half <= c /\ c < Half /\ Half \in Nat \ {0}
  BY <1>1, WordsAreInts
<1>3. shares <= n
  BY <1>2 DEF WordChecks, n
<1> SUFFICES ASSUME 0 < shares PROVE ~ DivPanics(c, shares, n)
  BY DEF AmortizePanics, c, n
<1>4. Abs(c) \in Nat /\ Abs(c) <= Half /\ Abs(shares) = shares /\ Abs(n) = n
      /\ n \in Nat \ {0}
  BY <1>2, <1>3 DEF Abs
<1>5. Abs(c) * shares < (2 * Half) * n
  <2> DEFINE a == Abs(c)
  <2>1. a \in Nat /\ a <= Half
    BY <1>4
  <2> HIDE DEF a
  <2>2. shares * a <= shares * Half
    BY <1>2, <2>1, ProductMonotone
  <2>3. Half * shares <= Half * n
    BY <1>2, <1>3, <1>4, ProductMonotone
  <2>4. Half * n \in Nat /\ Half * 1 <= Half * n
    BY <1>2, <1>4, ProductIsNat, ProductMonotone
  <2>5. a * shares <= Half * n
    BY <1>2, <2>1, <2>2, <2>3, <1>4
  <2>6. (2 * Half) * n = Half * n + Half * n
    BY <1>2, <1>4
  <2>7. a * shares \in Nat
    BY <2>1, ProductIsNat
  <2>8. a * shares < (2 * Half) * n
    <3> DEFINE p == a * shares
               h == Half * n
    <3>1. p \in Nat /\ h \in Nat /\ p <= h /\ Half <= h
      BY <1>2, <2>4, <2>5, <2>7
    <3> HIDE DEF p, h
    <3>2. p < h + h
      BY <1>2, <3>1
    <3> QED BY <2>6, <3>2 DEF p, h
  <2> QED BY <2>8 DEF a
<1>6. Abs(c) * shares \in Nat
  BY <1>4, ProductIsNat
<1>7. (Abs(c) * shares) \div (2 * Half) < n
  <2> DEFINE p == Abs(c) * shares
             m == 2 * Half
  <2>1. p \in Nat /\ m \in Nat \ {0} /\ n \in Nat \ {0} /\ p < m * n
    BY <1>2, <1>4, <1>5, <1>6
  <2> HIDE DEF p, m
  <2>2. p \div m < n
    BY <2>1, FitsDivisor
  <2> QED BY <2>2 DEF p, m
<1>8. (Abs(c) * shares) \div (2 * Half) \in Nat
  BY <1>2, <1>6, DivBounds
<1> QED BY <1>4, <1>7, <1>8 DEF DivPanics

LEMMA MulDivIsWord ==
  ASSUME NEW a \in Word, NEW b \in Word, NEW div \in Word
  PROVE  WordMulDiv(a, b, div, FALSE) \in Word
<1>1. CASE div = 0
  BY <1>1, HalfAssumption DEF WordMulDiv, Word
<1>2. CASE div # 0
  <2> DEFINE q == WordQuotient(a, b, div, FALSE)
             p == Abs(a) * Abs(b)
             d == Abs(div)
  <2>1. Abs(a) \in Nat /\ Abs(b) \in Nat /\ d \in Nat \ {0}
    BY <1>2, WordsAreInts DEF Abs
  <2>2. p \in Nat
    BY <2>1, ProductIsNat
  <2>3. q = p \div d + 0
    BY DEF WordQuotient
  <2> HIDE DEF p, d, q
  <2>4. p \div d \in Nat
    BY <2>1, <2>2, DivBounds
  <2>5. q \in Int /\ -q \in Int
    BY <2>3, <2>4
  <2>6. WordMulDiv(a, b, div, FALSE) = Wrap(IF Negative(a, b, div) THEN -q ELSE q)
    BY <1>2 DEF WordMulDiv, q
  <2>7. CASE Negative(a, b, div)
    BY <2>5, <2>6, <2>7, WrapIsWord
  <2>8. CASE ~ Negative(a, b, div)
    BY <2>5, <2>6, <2>8, WrapIsWord
  <2> QED BY <2>7, <2>8
<1> QED BY <1>1, <1>2

\* Whatever is added to a word or taken from it, the result is a word.
LEMMA PlusIsWord == ASSUME NEW m \in Word, NEW n \in Int PROVE Plus(m, n) \in Word
  BY WordsAreInts, WrapIsWord DEF Plus

LEMMA AmortizedIsWord ==
  ASSUME NEW w \in WordState, NEW shares \in Word
  PROVE  WordAmortizedCost(w, shares) \in Word
<1>1. w.CostFen \in Word /\ w.SharesE8 \in Word /\ 0 \in Word
  BY HalfAssumption DEF WordState, Word
<1>2. WordAmortize(w.CostFen, shares, w.SharesE8) \in Word
  BY <1>1, MulDivIsWord DEF WordAmortize
<1> QED BY <1>1, <1>2 DEF WordAmortizedCost

LEMMA AfterBuyIsWord ==
  ASSUME NEW w \in WordState, NEW cash \in Int, NEW shares \in Int
  PROVE  WordAfterBuy(w, cash, shares) \in WordState
<1>1. /\ Plus(w.SharesE8, shares) \in Word
      /\ Plus(w.CostFen, cash) \in Word
      /\ Plus(w.TotalBuyFen, cash) \in Word
  BY PlusIsWord DEF WordState
<1> QED BY <1>1 DEF WordAfterBuy, WordState

LEMMA AfterRedeemIsWord ==
  ASSUME NEW w \in WordState, NEW cash \in Word, NEW shares \in Word
  PROVE  WordAfterRedeem(w, cash, shares) \in WordState
<1> DEFINE amort == WordAmortizedCost(w, shares)
           cost == IF shares = w.SharesE8 THEN 0 ELSE Plus(w.CostFen, -amort)
<1>1. amort \in Word /\ amort \in Int /\ cash \in Int /\ shares \in Int /\ 0 \in Word
  BY AmortizedIsWord, WordsAreInts, HalfAssumption DEF Word
<1>2. WordAfterRedeem(w, cash, shares) =
        [w EXCEPT !.RealizedFen = Plus(@, Wrap(cash - amort)),
                  !.SharesE8 = Plus(@, -shares),
                  !.CostFen = cost,
                  !.TotalRedeemFen = Plus(@, cash)]
  BY DEF WordAfterRedeem
<1> HIDE DEF amort
<1> DEFINE gain == Wrap(cash - amort)
<1>3. gain \in Int
  <2>1. cash - amort \in Int
    BY <1>1
  <2>2. Wrap(cash - amort) \in Word
    BY <2>1, WrapIsWord
  <2> QED BY <2>2, WordsAreInts
<1> HIDE DEF gain
<1>4. /\ Plus(w.RealizedFen, gain) \in Word
      /\ Plus(w.SharesE8, -shares) \in Word
      /\ Plus(w.TotalRedeemFen, cash) \in Word
      /\ Plus(w.CostFen, -amort) \in Word
  <2>1. -shares \in Int /\ -amort \in Int
    BY <1>1
  <2>2. /\ w.RealizedFen \in Word /\ w.SharesE8 \in Word
        /\ w.TotalRedeemFen \in Word /\ w.CostFen \in Word
    BY DEF WordState
  <2> QED BY <1>1, <1>3, <2>1, <2>2, PlusIsWord
<1>5. cost \in Word
  BY <1>1, <1>4
<1> HIDE DEF cost
<1> QED BY <1>2, <1>4, <1>5 DEF WordState, gain

WordInv == TypeOK /\ word \in WordState /\ ReplayReturns

\* No step panics: a redemption that the tests let through is divided by the
\* shares it is taken from.
LEMMA RedeemReturns ==
  ASSUME WordInv, NEW cash \in RedeemCash, NEW shares \in RedeemShares,
         WordRedeem(cash, shares)
  PROVE  word' \in WordState /\ wordErr' # "panic"
<1>1. cash \in Word /\ shares \in Nat /\ shares \in Word
  BY EntriesAreWords DEF Entries
<1>2. CASE wordErr # "none"
  BY <1>2 DEF WordRedeem, WordInv, ReplayReturns
<1>3. CASE wordErr = "none"
  <2>1. /\ wordErr' = IF WordChecks(shares) # "none" THEN WordChecks(shares)
                      ELSE IF AmortizePanics(word.CostFen, shares, word.SharesE8)
                           THEN "panic" ELSE "none"
        /\ word' = IF wordErr' = "none" THEN WordAfterRedeem(word, cash, shares)
                                        ELSE NoPosition
    BY <1>3 DEF WordRedeem
  <2>2. NoPosition \in WordState
    BY HalfAssumption DEF NoPosition, WordState, Word
  <2>3. WordAfterRedeem(word, cash, shares) \in WordState
    BY <1>1, AfterRedeemIsWord DEF WordInv
  <2>4. WordChecks(shares) # "panic"
    BY DEF WordChecks
  <2>5. WordChecks(shares) = "none" => ~ AmortizePanics(word.CostFen, shares, word.SharesE8)
    BY <1>1, CheckedDoesNotPanic DEF WordInv
  <2> QED BY <2>1, <2>2, <2>3, <2>4, <2>5
<1> QED BY <1>2, <1>3

LEMMA StepWordInv == WordInv /\ TypeOK' /\ [WordNext]_wordVars => WordInv'
<1> SUFFICES ASSUME WordInv, TypeOK', [WordNext]_wordVars PROVE WordInv'
  OBVIOUS
<1>1. CASE UNCHANGED wordVars
  BY <1>1 DEF WordInv, ReplayReturns, wordVars
<1>2. ASSUME WordNext PROVE WordInv'
  <2>1. CASE \E cash \in BuyCash, shares \in BuyShares : WordBuy(cash, shares)
    <3>1. PICK cash \in BuyCash, shares \in BuyShares : WordBuy(cash, shares)
      BY <2>1
    <3>2. cash \in Int /\ shares \in Int
      BY EntriesAssumption
    <3>3. WordAfterBuy(word, cash, shares) \in WordState
      BY <3>2, AfterBuyIsWord DEF WordInv
    <3> QED BY <3>1, <3>3 DEF WordBuy, WordInv, ReplayReturns
  <2>2. CASE \E cash \in RedeemCash, shares \in RedeemShares : WordRedeem(cash, shares)
    BY <2>2, RedeemReturns DEF WordInv, ReplayReturns
  <2> QED BY <1>2, <2>1, <2>2, WordStepKinds DEF WordInv
<1> QED BY <1>1, <1>2

\* Whatever the entries are and however often a total has been wrapped round,
\* no list of them makes Replay panic, for every size of a word.
THEOREM ReplayAlwaysReturns == WordSpec => []ReplayReturns
<1>1. WordInit => WordInv
  <2>1. WordInit => TypeOK
    BY EntriesAssumption DEF WordInit, Init, TypeOK, State, NoPosition, Errors
  <2> QED BY <2>1, HalfAssumption
          DEF WordInit, WordInv, ReplayReturns, WordState, NoPosition, Word
<1>2. WordSpec => Spec
  BY WordStepIsStep, PTL DEF WordSpec, Spec, WordInit
<1>3. WordInv => ReplayReturns
  BY DEF WordInv
<1> QED BY <1>1, <1>2, <1>3, StepWordInv, ReplayCorrect, PTL DEF WordSpec

-----------------------------------------------------------------------------
\* While the totals fit, a sum on words is the sum.
LEMMA PlusOfFitting == ASSUME NEW m \in Int, NEW n \in Int, m + n \in Word
                       PROVE  Plus(m, n) = m + n
  BY WrapOfWord DEF Plus

\* The cost that goes with some of the shares is the exact one: the quotient
\* fits a word since it is at most the cost, however large the product is.
LEMMA AmortizedExact ==
  ASSUME NEW s \in State, s \in WordState, NEW shares \in Nat,
         s.SharesE8 # 0, shares <= s.SharesE8
  PROVE  /\ ~ AmortizePanics(s.CostFen, shares, s.SharesE8)
         /\ shares # s.SharesE8 =>
              WordAmortize(s.CostFen, shares, s.SharesE8)
                = Amortize(s.CostFen, shares, s.SharesE8)
<1> DEFINE c == s.CostFen
           n == s.SharesE8
<1>1. c \in Nat /\ n \in Nat \ {0} /\ c \in Word /\ n \in Word
  BY DEF State, WordState
<1>2. c < Half /\ n < Half /\ Half \in Nat \ {0}
  BY <1>1, WordsAreInts
<1>3. shares \in Word /\ shares <= n
  BY <1>1, <1>2 DEF Word
<1> HIDE DEF c, n
<1>4. CASE shares = 0
  BY <1>1, <1>4 DEF AmortizePanics, WordAmortize, Amortize, c, n
<1>5. CASE 0 < shares
  <2>1. Amortize(c, shares, n) \in 0..c
    BY <1>1, <1>3, <1>5, AmortizeBounds
  <2>2. Amortize(c, shares, n) = (c * shares) \div n
    BY <1>1, <1>5 DEF Amortize
  <2>3. Abs(c) = c /\ Abs(shares) = shares
    BY <1>1 DEF Abs
  <2>4. (Abs(c) * Abs(shares)) \div n < Half
    <3> DEFINE q == (c * shares) \div n
    <3>1. q \in 0..c
      BY <2>1, <2>2
    <3> HIDE DEF q
    <3>2. q < Half
      BY <1>1, <1>2, <3>1
    <3> QED BY <2>3, <3>2 DEF q
  <2>0. n > 0 /\ ~ (n <= 0) /\ ~ (shares <= 0)
    BY <1>1, <1>5
  <2>5. ~ DivPanics(c, shares, n) /\ WordMulDiv(c, shares, n, FALSE) = MulDiv(c, shares, n)
    BY <1>1, <1>3, <2>0, <2>4, MulDivExact, Zenon
  <2>6. MulDiv(c, shares, n) = (c * shares) \div n
    BY <1>1, <1>5, <2>3 DEF MulDiv
  <2>7. WordAmortize(c, shares, n) = WordMulDiv(c, shares, n, FALSE)
    BY <2>0, Zenon DEF WordAmortize
  <2> QED BY <2>2, <2>5, <2>6, <2>7 DEF AmortizePanics, c, n
<1> QED BY <1>4, <1>5

\* A position whose parts fit a word.
LEMMA PartsFit ==
  ASSUME NEW s \in State, s \in WordState
  PROVE  /\ s.SharesE8 \in Nat /\ s.CostFen \in Nat /\ s.RealizedFen \in Int
         /\ s.TotalBuyFen \in Nat /\ s.TotalRedeemFen \in Nat
         /\ s.SharesE8 \in Word /\ s.CostFen \in Word /\ s.RealizedFen \in Word
         /\ s.TotalBuyFen \in Word /\ s.TotalRedeemFen \in Word
  BY DEF State, WordState

LEMMA BuyExact ==
  ASSUME NEW s \in State, NEW cash \in Nat, NEW shares \in Nat,
         AfterBuy(s, cash, shares) \in WordState
  PROVE  WordAfterBuy(s, cash, shares) = AfterBuy(s, cash, shares)
<1> DEFINE t == AfterBuy(s, cash, shares)
<1>1. /\ s.SharesE8 \in Int /\ s.CostFen \in Int /\ s.TotalBuyFen \in Int
      /\ cash \in Int /\ shares \in Int
  BY DEF State
<1>2. /\ s.SharesE8 + shares \in Word
      /\ s.CostFen + cash \in Word
      /\ s.TotalBuyFen + cash \in Word
  <2>1. /\ t.SharesE8 = s.SharesE8 + shares
        /\ t.CostFen = s.CostFen + cash
        /\ t.TotalBuyFen = s.TotalBuyFen + cash
    BY DEF AfterBuy, State
  <2>2. t.SharesE8 \in Word /\ t.CostFen \in Word /\ t.TotalBuyFen \in Word
    <3> HIDE DEF t
    <3> QED BY DEF WordState, t
  <2> QED BY <2>1, <2>2
<1>3. /\ Plus(s.SharesE8, shares) = s.SharesE8 + shares
      /\ Plus(s.CostFen, cash) = s.CostFen + cash
      /\ Plus(s.TotalBuyFen, cash) = s.TotalBuyFen + cash
  BY <1>1, <1>2, PlusOfFitting
<1> QED BY <1>3 DEF WordAfterBuy, AfterBuy, State

LEMMA RedeemExact ==
  ASSUME NEW s \in State, s \in WordState, NEW cash \in Nat, cash \in Word,
         NEW shares \in Nat, s.SharesE8 # 0, shares <= s.SharesE8,
         AfterRedeem(s, cash, shares) \in WordState
  PROVE  WordAfterRedeem(s, cash, shares) = AfterRedeem(s, cash, shares)
<1> DEFINE cost == AmortizedCost(s, shares)
           t == AfterRedeem(s, cash, shares)
           left == IF shares = s.SharesE8 THEN 0 ELSE Plus(s.CostFen, -cost)
<1>1. WordAmortizedCost(s, shares) = cost
  BY AmortizedExact DEF WordAmortizedCost, AmortizedCost
<1>2. cost \in 0..s.CostFen /\ (shares = s.SharesE8 => cost = s.CostFen)
  BY AmortizedCostBounds
<1>3. t = [s EXCEPT !.RealizedFen = @ + cash - cost,
                    !.SharesE8 = @ - shares,
                    !.CostFen = @ - cost,
                    !.TotalRedeemFen = @ + cash]
  BY DEF AfterRedeem
<1>4. WordAfterRedeem(s, cash, shares) =
        [s EXCEPT !.RealizedFen = Plus(@, Wrap(cash - cost)),
                  !.SharesE8 = Plus(@, -shares),
                  !.CostFen = left,
                  !.TotalRedeemFen = Plus(@, cash)]
  BY <1>1 DEF WordAfterRedeem
<1>5. t \in WordState
  OBVIOUS
<1> HIDE DEF cost, t
<1>6. /\ s.SharesE8 \in Nat /\ s.CostFen \in Nat /\ s.RealizedFen \in Int
      /\ s.TotalRedeemFen \in Nat /\ s.CostFen \in Word /\ cost \in Nat
  BY <1>2, PartsFit
<1>7. /\ s.RealizedFen + cash - cost \in Word
      /\ s.SharesE8 - shares \in Word
      /\ s.CostFen - cost \in Word
      /\ s.TotalRedeemFen + cash \in Word
  BY <1>3, <1>5 DEF State, WordState
<1>8. Wrap(cash - cost) = cash - cost
  <2>1. cash - cost \in Word
    BY <1>2, <1>6, WordsAreInts DEF Word
  <2> QED BY <2>1, WrapOfWord
<1>9. Plus(s.RealizedFen, Wrap(cash - cost)) = s.RealizedFen + cash - cost
  <2>1. cash - cost \in Int /\ s.RealizedFen + (cash - cost) = s.RealizedFen + cash - cost
    BY <1>6
  <2>2. Plus(s.RealizedFen, cash - cost) = s.RealizedFen + (cash - cost)
    BY <1>6, <1>7, <2>1, PlusOfFitting
  <2> QED BY <1>8, <2>1, <2>2
<1>10. Plus(s.SharesE8, -shares) = s.SharesE8 - shares
  <2>1. -shares \in Int /\ s.SharesE8 + -shares = s.SharesE8 - shares
    BY <1>6
  <2> QED BY <1>6, <1>7, <2>1, PlusOfFitting
<1>11. Plus(s.TotalRedeemFen, cash) = s.TotalRedeemFen + cash
  BY <1>6, <1>7, PlusOfFitting
<1>12. left = s.CostFen - cost
  <2>1. -cost \in Int /\ s.CostFen + -cost = s.CostFen - cost
    BY <1>6
  <2>2. Plus(s.CostFen, -cost) = s.CostFen - cost
    BY <1>6, <1>7, <2>1, PlusOfFitting
  <2> QED BY <1>2, <1>6, <2>2
<1> HIDE DEF left
<1>13. WordAfterRedeem(s, cash, shares) = t
  BY <1>3, <1>4, <1>9, <1>10, <1>11, <1>12
<1> QED BY <1>13 DEF t

\* What the replay on words has read so far is what the exact one has.
WordExactInv == TypeOK /\ word \in WordState /\ WordExact

LEMMA StepWordExact ==
  ASSUME WordExactInv, word' \in WordState, TypeOK', [WordNext]_wordVars
  PROVE  WordExact'
<1> SUFFICES ASSUME fits' PROVE word' = st' /\ wordErr' = err'
  BY DEF WordExact
<1>1. CASE UNCHANGED wordVars
  BY <1>1 DEF wordVars, vars, WordExactInv, WordExact
<1>2. CASE WordNext
  <2>1. fits /\ st' \in WordState
    BY <1>2, WordStepKinds DEF WordExactInv, Fitting, Fits
  <2>2. word = st /\ wordErr = err /\ st \in State /\ st \in WordState
    BY <2>1 DEF WordExactInv, WordExact, TypeOK
  <2>3. CASE \E cash \in BuyCash, shares \in BuyShares :
               /\ Buy
               /\ st' = AfterBuy(st, cash, shares)
               /\ WordBuy(cash, shares)
    <3>1. PICK cash \in BuyCash, shares \in BuyShares :
            Buy /\ st' = AfterBuy(st, cash, shares) /\ WordBuy(cash, shares)
      BY <2>3
    <3>2. cash \in Nat /\ shares \in Nat
      BY EntriesAssumption
    <3>3. err = "none" /\ err' = err
      BY <3>1 DEF Buy, Reading
    <3>4. word' = WordAfterBuy(word, cash, shares) /\ wordErr' = wordErr
      BY <2>2, <3>1, <3>3 DEF WordBuy
    <3>5. WordAfterBuy(st, cash, shares) = AfterBuy(st, cash, shares)
      BY <2>1, <2>2, <3>1, <3>2, BuyExact
    <3> QED BY <2>2, <3>1, <3>3, <3>4, <3>5
  <2>4. CASE \E cash \in RedeemCash, shares \in RedeemShares :
               /\ Redeem
               /\ shares <= st.SharesE8
               /\ st' = AfterRedeem(st, cash, shares)
               /\ WordRedeem(cash, shares)
    <3>1. PICK cash \in RedeemCash, shares \in RedeemShares :
            /\ Redeem
            /\ shares <= st.SharesE8
            /\ st' = AfterRedeem(st, cash, shares)
            /\ WordRedeem(cash, shares)
      BY <2>4
    <3>2. cash \in Nat /\ shares \in Nat /\ cash \in Word
      BY EntriesAreWords DEF Entries
    <3>3. err = "none" /\ err' = err /\ st.SharesE8 # 0
      BY <3>1 DEF Redeem, Reading
    <3>4. WordChecks(shares) = "none"
      BY <2>2, <3>1, <3>2, <3>3 DEF WordChecks, State
    <3>5. ~ AmortizePanics(st.CostFen, shares, st.SharesE8)
      BY <2>2, <3>1, <3>2, <3>3, AmortizedExact
    <3>6. wordErr' = "none" /\ word' = WordAfterRedeem(word, cash, shares)
      BY <2>2, <3>1, <3>3, <3>4, <3>5 DEF WordRedeem
    <3>7. WordAfterRedeem(st, cash, shares) = AfterRedeem(st, cash, shares)
      BY <2>1, <2>2, <3>1, <3>2, <3>3, RedeemExact
    <3> QED BY <2>2, <3>1, <3>3, <3>6, <3>7
  <2>5. CASE \E cash \in RedeemCash, shares \in RedeemShares :
               /\ Refuse
               /\ (err' = "ErrInsufficientShares") <=> shares > st.SharesE8
               /\ WordRedeem(cash, shares)
    <3>1. PICK cash \in RedeemCash, shares \in RedeemShares :
            /\ Refuse
            /\ (err' = "ErrInsufficientShares") <=> shares > st.SharesE8
            /\ WordRedeem(cash, shares)
      BY <2>5
    <3>2. /\ err = "none"
          /\ st' = NoPosition
          /\ \/ err' = "ErrInsufficientShares"
             \/ err' = "ErrEmptyHolding" /\ st.SharesE8 = 0
      BY <3>1 DEF Refuse, Reading
    <3>3. WordChecks(shares) = err' /\ WordChecks(shares) # "none"
      BY <2>2, <3>1, <3>2 DEF WordChecks
    <3>4. wordErr' = err' /\ word' = NoPosition
      BY <2>2, <3>1, <3>2, <3>3 DEF WordRedeem
    <3> QED BY <3>2, <3>4
  <2> QED BY <1>2, <2>3, <2>4, <2>5, WordStepKinds DEF WordExactInv
<1> QED BY <1>1, <1>2

\* As long as the totals fit a word, for every size of a word, the replay that
\* the program computes is the exact one, errors included.
THEOREM WordReplayIsExact == WordSpec => []WordExact
<1> DEFINE Inv == WordInv /\ WordExactInv
<1>1. WordInit => Inv
  <2>1. WordInit => TypeOK
    BY EntriesAssumption DEF WordInit, Init, TypeOK, State, NoPosition, Errors
  <2>2. WordInit => word \in WordState /\ ReplayReturns /\ WordExact
    BY HalfAssumption
       DEF WordInit, Init, ReplayReturns, WordExact, WordState, NoPosition, Word
  <2> QED BY <2>1, <2>2 DEF WordInv, WordExactInv
<1>2. Inv /\ TypeOK' /\ [WordNext]_wordVars => Inv'
  <2> SUFFICES ASSUME Inv, TypeOK', [WordNext]_wordVars PROVE Inv'
    OBVIOUS
  <2>1. WordInv'
    BY StepWordInv
  <2>2. word' \in WordState
    BY <2>1 DEF WordInv
  <2> QED BY <2>1, <2>2, StepWordExact DEF WordExactInv
<1>3. WordSpec => Spec
  BY WordStepIsStep, PTL DEF WordSpec, Spec, WordInit
<1>4. Inv => WordExact
  BY DEF WordExactInv
<1> QED BY <1>1, <1>2, <1>3, <1>4, ReplayCorrect, PTL DEF WordSpec
=============================================================================
