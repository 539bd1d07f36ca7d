----------------------------- MODULE WordReplay -----------------------------
(***************************************************************************)
(* pnl.Replay on machine words, in step with the unbounded one of Replay:  *)
(* both read the same entries.                                             *)
(***************************************************************************)
EXTENDS Replay, MoneyWord

ASSUME WordEntriesAssumption ==
    BuyCash \cup BuyShares \cup RedeemCash \cup RedeemShares \subseteq 0..(Half - 1)

VARIABLES
    word,    \* pnl.State on words
    wordErr, \* the error that Replay returns on words, or "panic"
    fits     \* history: every total has fitted a word so far

wordVars == <<vars, word, wordErr, fits>>

WordState == [SharesE8 : Word, CostFen : Word, RealizedFen : Word,
              TotalBuyFen : Word, TotalRedeemFen : Word]

\* The values of a position fit a word.
Fits(s) == s \in WordState

-----------------------------------------------------------------------------
WordInit ==
    /\ Init
    /\ word = NoPosition
    /\ wordErr = "none"
    /\ fits = TRUE

Plus(m, n) == Wrap(m + n)

WordAfterBuy(w, cash, shares) ==
    [w EXCEPT !.SharesE8 = Plus(@, shares),
              !.CostFen = Plus(@, cash),
              !.TotalBuyFen = Plus(@, cash)]

\* Amortize comes first; all of the cost goes with the last shares.
WordAmortizedCost(w, shares) ==
    IF shares = w.SharesE8 THEN w.CostFen
    ELSE WordAmortize(w.CostFen, shares, w.SharesE8)

WordAfterRedeem(w, cash, shares) ==
    LET amort == WordAmortizedCost(w, shares)
    IN [w EXCEPT !.RealizedFen = Plus(@, Wrap(cash - amort)),
                 !.SharesE8 = Plus(@, -shares),
                 !.CostFen = IF shares = w.SharesE8 THEN 0 ELSE Plus(@, -amort),
                 !.TotalRedeemFen = Plus(@, cash)]

\* Mutant of WordChecks: only that there are shares is asked for.
WordChecksEmpty(shares) ==
    IF word.SharesE8 = 0 THEN "ErrEmptyHolding" ELSE "none"

\* The two tests that a redemption has to pass.
WordChecks(shares) ==
    IF shares > word.SharesE8 THEN "ErrInsufficientShares"
    ELSE IF word.SharesE8 = 0 THEN "ErrEmptyHolding" ELSE "none"

WordBuy(cash, shares) ==
    /\ word' = IF wordErr = "none" THEN WordAfterBuy(word, cash, shares) ELSE word
    /\ UNCHANGED wordErr

WordRedeem(cash, shares) ==
    IF wordErr # "none" THEN UNCHANGED <<word, wordErr>>
    ELSE /\ wordErr' = IF WordChecks(shares) # "none" THEN WordChecks(shares)
                       ELSE IF AmortizePanics(word.CostFen, shares, word.SharesE8) THEN "panic"
                       ELSE "none"
         /\ word' = IF wordErr' = "none" THEN WordAfterRedeem(word, cash, shares)
                                         ELSE NoPosition

Fitting == fits' = (fits /\ Fits(st'))

\* The entries that the unbounded replay reads are read on words too.
WordNext ==
    \/ /\ Buy
       /\ WordBuy(st'.CostFen - st.CostFen, st'.SharesE8 - st.SharesE8)
       /\ Fitting
    \/ /\ Redeem
       /\ WordRedeem(st'.TotalRedeemFen - st.TotalRedeemFen, st.SharesE8 - st'.SharesE8)
       /\ Fitting
    \/ /\ Refuse
       /\ \E cash \in RedeemCash, shares \in RedeemShares :
            /\ (err' = "ErrInsufficientShares") <=> shares > st.SharesE8
            /\ WordRedeem(cash, shares)
       /\ Fitting

WordSpec == WordInit /\ [][WordNext]_wordVars

-----------------------------------------------------------------------------
\* Type invariant: on words everything stays a word, whatever is added up.
WordTypeOK ==
    /\ word \in WordState
    /\ wordErr \in Errors \cup {"panic"}
    /\ fits \in BOOLEAN

\* As long as every total fits a word, the replay on words is the exact one:
\* the product of a cost and a number of shares, which may need two words, does
\* no harm on the way.
WordExact == fits => word = st /\ wordErr = err

\* No list of entries makes the replay panic, not even one whose totals have
\* been wrapped round: a redemption is less than the shares it is divided by.
ReplayReturns == wordErr # "panic"
=============================================================================
