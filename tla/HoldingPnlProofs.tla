--------------------------- MODULE HoldingPnlProofs ---------------------------
(***************************************************************************)
(* What the pages show of an account, for every set of amounts, every      *)
(* course of the NAVs and every number of entries: the entries stay in     *)
(* order, the calendar adds up, today is not in the daily profit, the      *)
(* segment is a history of its own, a declared profit is shown, and the    *)
(* collection gap is what was paid beside the NAVs.                        *)
(***************************************************************************)
EXTENDS HoldingPnl, FoldProofs, SequenceTheorems, TLAPS

(* The position after each entry. *)

\* The entries that a handler writes: a buy is of some shares.
Counted == {e \in Entry : e.kind = "buy" => e.shares > 0}

\* The account before its first entry.
Start == [st |-> NoPosition, err |-> FALSE]

\* What the loop of Replay works on.  Money is conserved: what was paid in is
\* in the cost or has been set against a redemption; no shares have no cost.
Fields == [SharesE8 : Nat, CostFen : Int, RealizedFen : Int,
           TotalBuyFen : Int, TotalRedeemFen : Int]

Positions ==
    {p \in Fields :
       /\ p.RealizedFen = p.TotalRedeemFen - (p.TotalBuyFen - p.CostFen)
       /\ p.SharesE8 = 0 => p.CostFen = 0}

Accounts == [st : Positions, err : BOOLEAN]

\* h[n] is what Replay has after n entries.
IsRun(h, q) ==
    /\ h \in [0..Len(q) -> Accounts]
    /\ h[0] = Start
    /\ \A n \in 1..Len(q) : h[n] = ReplayStep(h[n - 1], q[n])

\* The loop of Replay starts from an account of that kind.
LEMMA StartTyped == Start \in Accounts
  BY DEF Start, NoPosition, Accounts, Positions, Fields

\* The cost that a redemption takes is a number.
LEMMA AmortizedTyped ==
  ASSUME NEW p \in Positions, NEW r \in Nat, p.SharesE8 # 0
  PROVE  AmortizedCost(p, r) \in Int
<1>1. p.CostFen \in Int /\ p.SharesE8 \in Nat \ {0}
  BY DEF Positions, Fields
<1>2. p.CostFen * r \in Int
  BY <1>1
<1>3. (p.CostFen * r) \div p.SharesE8 \in Int
  BY <1>1, <1>2
<1> QED BY <1>1, <1>3 DEF AmortizedCost, Amortize

\* The position after a buy, field by field.
LEMMA BuyForm ==
  ASSUME NEW p \in Fields, NEW cash \in Nat, NEW shares \in Nat,
         NEW r, r = AfterBuy(p, cash, shares)
  PROVE  r = [SharesE8 |-> p.SharesE8 + shares, CostFen |-> p.CostFen + cash,
              RealizedFen |-> p.RealizedFen, TotalBuyFen |-> p.TotalBuyFen + cash,
              TotalRedeemFen |-> p.TotalRedeemFen]
  BY DEF AfterBuy, Fields

\* The position after a redemption, field by field.
LEMMA RedeemForm ==
  ASSUME NEW p \in Fields, NEW cash \in Nat, NEW shares \in Nat,
         NEW r, r = AfterRedeem(p, cash, shares),
         NEW cost, cost = AmortizedCost(p, shares)
  PROVE  r = [SharesE8 |-> p.SharesE8 - shares, CostFen |-> p.CostFen - cost,
              RealizedFen |-> p.RealizedFen + cash - cost,
              TotalBuyFen |-> p.TotalBuyFen,
              TotalRedeemFen |-> p.TotalRedeemFen + cash]
  BY DEF AfterRedeem, Fields

\* A buy conserves the money.
LEMMA BuyTyped ==
  ASSUME NEW p \in Positions, NEW cash \in Nat, NEW shares \in Nat \ {0}
  PROVE  AfterBuy(p, cash, shares) \in Positions
<1> DEFINE r == AfterBuy(p, cash, shares)
<1>1. p \in Fields
  BY DEF Positions
<1>2. r = [SharesE8 |-> p.SharesE8 + shares, CostFen |-> p.CostFen + cash,
           RealizedFen |-> p.RealizedFen, TotalBuyFen |-> p.TotalBuyFen + cash,
           TotalRedeemFen |-> p.TotalRedeemFen]
  BY <1>1, BuyForm
<1> HIDE DEF r
<1>3. r \in Positions
  BY <1>2 DEF Positions, Fields
<1> QED BY <1>3 DEF r

\* A redemption conserves the money.
LEMMA RedeemTyped ==
  ASSUME NEW p \in Positions, NEW cash \in Nat, NEW shares \in Nat,
         p.SharesE8 # 0, shares <= p.SharesE8
  PROVE  AfterRedeem(p, cash, shares) \in Positions
<1> DEFINE cost == AmortizedCost(p, shares)
           r == AfterRedeem(p, cash, shares)
<1>1. p \in Fields
  BY DEF Positions
<1>2. r = [SharesE8 |-> p.SharesE8 - shares, CostFen |-> p.CostFen - cost,
           RealizedFen |-> p.RealizedFen + cash - cost,
           TotalBuyFen |-> p.TotalBuyFen,
           TotalRedeemFen |-> p.TotalRedeemFen + cash]
  BY <1>1, RedeemForm
<1>3. cost \in Int /\ (shares = p.SharesE8 => cost = p.CostFen)
  BY AmortizedTyped DEF AmortizedCost
<1> HIDE DEF cost, r
<1>4. r \in Positions
  BY <1>2, <1>3 DEF Positions, Fields
<1> QED BY <1>4 DEF r

\* So does one round of the loop of Replay.
LEMMA StepTyped ==
  ASSUME NEW r \in Accounts, NEW e \in Counted
  PROVE  ReplayStep(r, e) \in Accounts
<1>1. r.st \in Positions /\ r.err \in BOOLEAN
      /\ e.cash \in Nat /\ e.shares \in Nat
      /\ (e.kind = "buy" => e.shares \in Nat \ {0})
  BY DEF Accounts, Counted, Entry
<1>2. CASE r.err
  BY <1>2 DEF ReplayStep
<1>3. CASE ~ r.err /\ e.kind = "buy"
  <2>1. ReplayStep(r, e) = [st |-> AfterBuy(r.st, e.cash, e.shares), err |-> r.err]
    BY <1>3 DEF ReplayStep, Accounts
  <2>2. AfterBuy(r.st, e.cash, e.shares) \in Positions
    BY <1>1, <1>3, BuyTyped
  <2> QED BY <1>1, <2>1, <2>2 DEF Accounts
<1>4. CASE ~ r.err /\ e.kind # "buy" /\ (e.shares > r.st.SharesE8 \/ r.st.SharesE8 = 0)
  BY <1>4, StartTyped DEF ReplayStep, Accounts, Start
<1>5. CASE ~ r.err /\ e.kind # "buy" /\ ~ (e.shares > r.st.SharesE8 \/ r.st.SharesE8 = 0)
  <2>1. ReplayStep(r, e) = [st |-> AfterRedeem(r.st, e.cash, e.shares), err |-> r.err]
    BY <1>5 DEF ReplayStep, Accounts
  <2>2. e.shares <= r.st.SharesE8
    BY <1>1, <1>5 DEF Positions, Fields
  <2>3. AfterRedeem(r.st, e.cash, e.shares) \in Positions
    BY <1>1, <1>5, <2>2, RedeemTyped
  <2> QED BY <1>1, <2>1, <2>3 DEF Accounts
<1> QED BY <1>2, <1>3, <1>4, <1>5

\* Replay is the last of the accounts of a run over its entries.
LEMMA ReplayRuns ==
  ASSUME NEW q \in Seq(Counted)
  PROVE  \E h : IsRun(h, q) /\ Replay(q) = h[Len(q)]
<1> DEFINE w == [p \in Accounts \X Counted |-> ReplayStep(p[1], p[2])]
           Round(g, s) == IF s = {} THEN Start
                          ELSE ReplayStep(g[s \ {Max(s)}], q[Max(s)])
           Is(g) == g = [s \in SUBSET DOMAIN q |-> Round(g, s)]
           c == CHOOSE g : Is(g)
<1>1. w \in [Accounts \X Counted -> Accounts]
  BY StepTyped
<1>2. \A s \in SUBSET DOMAIN q : s # {} => q[Max(s)] \in Counted
  <2>1. \A s \in SUBSET DOMAIN q : s # {} => Max(s) \in DOMAIN q
    BY LastOfIndices
  <2>2. \A i \in DOMAIN q : q[i] \in Counted
    OBVIOUS
  <2> QED BY <2>1, <2>2
<1>3. Replay(q) = c[DOMAIN q]
  BY DEF Replay, FoldLeft, MapThenFoldSet, Start
<1>4. PICK f : IsFold(f, w, Start, q)
  BY FoldExists
<1>5. \A s \in SUBSET DOMAIN q : f[s] \in Accounts
  <2> HIDE DEF w
  <2> QED BY <1>1, <1>4, StartTyped, FoldTyped
<1>6. Is(f)
  <2>1. ASSUME NEW s \in SUBSET DOMAIN q
        PROVE  FoldRound(f, w, Start, q, s) = Round(f, s)
    <3>1. CASE s = {}
      BY <3>1 DEF FoldRound
    <3>2. CASE s # {}
      <4>1. f[s \ {Max(s)}] \in Accounts /\ q[Max(s)] \in Counted
        BY <1>2, <1>5, <3>2, LastOfIndices
      <4>2. w[<<f[s \ {Max(s)}], q[Max(s)]>>]
              = ReplayStep(f[s \ {Max(s)}], q[Max(s)])
        BY <4>1
      <4> QED BY <3>2, <4>2 DEF FoldRound
    <3> QED BY <3>1, <3>2
  <2>2. f = [s \in SUBSET DOMAIN q |-> FoldRound(f, w, Start, q, s)]
    BY <1>4 DEF IsFold
  <2> HIDE DEF w, Round
  <2> QED BY <2>1, <2>2
<1>7. Is(c)
  BY <1>6
<1>8. IsFold(c, w, Start, q)
  <2>1. c = [s \in SUBSET DOMAIN q |-> c[s]]
    BY <1>7
  <2>2. c[{}] = Start
    BY <1>7
  <2>3. ASSUME NEW s \in SUBSET DOMAIN q, s # {}, c[s \ {Max(s)}] \in Accounts
        PROVE  c[s] = w[<<c[s \ {Max(s)}], q[Max(s)]>>]
    <3>1. c[s] = Round(c, s)
      <4> HIDE DEF Round, c
      <4> QED BY <1>7
    <3> HIDE DEF c
    <3>2. <<c[s \ {Max(s)}], q[Max(s)]>> \in Accounts \X Counted
      BY <1>2, <2>3
    <3> QED BY <2>3, <3>1, <3>2
  <2> HIDE DEF w, c, Is
  <2> QED BY <1>1, <2>1, <2>2, <2>3, StartTyped, FoldKnown
<1> HIDE DEF c, Is
<1>9. PICK h : IsFolding(h, c, w, Start, q, Accounts)
  <2> HIDE DEF w, Round
  <2> QED BY <1>1, <1>8, StartTyped, FoldRuns
<1>10. \A n \in 1..Len(q) : h[n] = ReplayStep(h[n - 1], q[n])
  <2> TAKE n \in 1..Len(q)
  <2>1. n - 1 \in 0..Len(q) /\ q[n] \in Counted
    BY ElementOfSeq
  <2>2. <<h[n - 1], q[n]>> \in Accounts \X Counted
    BY <1>9, <2>1 DEF IsFolding
  <2> QED BY <1>9, <2>2 DEF IsFolding
<1> HIDE DEF w
<1> QED BY <1>3, <1>9, <1>10 DEF IsRun, IsFolding

\* Runs over lists that begin alike begin alike.
LEMMA RunsAgree ==
  ASSUME NEW q, NEW p, NEW h, NEW f, IsRun(h, q), IsRun(f, p),
         Len(q) \in Nat, Len(p) \in Nat,
         NEW m \in 0..Len(q), m <= Len(p), \A i \in 1..m : q[i] = p[i]
  PROVE  \A n \in 0..m : h[n] = f[n]
<1> DEFINE T == {n \in 0..m : h[n] = f[n]}
<1>1. T \subseteq Nat
  OBVIOUS
<1>2. 0 \in T
  BY DEF IsRun
<1>3. ASSUME NEW n \in 1..m, n - 1 \in T PROVE n \in T
  <2>1. h[n] = ReplayStep(h[n - 1], q[n]) /\ f[n] = ReplayStep(f[n - 1], p[n])
    BY DEF IsRun
  <2>2. h[n] = f[n]
    BY <1>3, <2>1
  <2> QED BY <2>2
<1>4. \A n \in 0..m : n \in T
  <2>1. m \in Nat
    OBVIOUS
  <2> HIDE DEF T
  <2> QED BY <1>1, <1>2, <1>3, <2>1, InductionUpTo
<1> QED BY <1>4

\* The first n entries of a list.
LEMMA Prefix ==
  ASSUME NEW E, NEW q \in Seq(E), NEW n \in 0..Len(q)
  PROVE  /\ SubSeq(q, 1, n) \in Seq(E)
         /\ Len(SubSeq(q, 1, n)) = n
         /\ \A i \in 1..n : SubSeq(q, 1, n)[i] = q[i]
<1>1. n \in Int /\ 1..n \subseteq 1..Len(q)
  OBVIOUS
<1>2. Len(SubSeq(q, 1, n)) = n
  BY <1>1
<1>3. \A i \in 1..n : SubSeq(q, 1, n)[i] = q[i]
  BY <1>1
<1>4. SubSeq(q, 1, n) \in Seq(E)
  BY <1>1, SubSeqProperties
<1> QED BY <1>2, <1>3, <1>4

\* Replay of the first n entries is what the run has after n of them.
LEMMA ReplayPrefix ==
  ASSUME NEW q \in Seq(Counted), NEW h, IsRun(h, q), NEW n \in 0..Len(q)
  PROVE  Replay(SubSeq(q, 1, n)) = h[n]
<1> DEFINE p == SubSeq(q, 1, n)
<1>1. p \in Seq(Counted) /\ Len(p) = n /\ \A i \in 1..n : q[i] = p[i]
  BY Prefix
<1> HIDE DEF p
<1>2. PICK f : IsRun(f, p) /\ Replay(p) = f[Len(p)]
  BY <1>1, ReplayRuns
<1>3. \A k \in 0..n : h[k] = f[k]
  <2>1. Len(q) \in Nat /\ Len(p) \in Nat /\ n <= Len(p)
    BY <1>1
  <2> QED BY <1>1, <1>2, <2>1, RunsAgree
<1>4. h[n] = f[n]
  BY <1>3
<1> QED BY <1>1, <1>2, <1>4 DEF p

\* The first n - 1 entries and the next one are the first n.
LEMMA PrefixGrows ==
  ASSUME NEW E, NEW q \in Seq(E), NEW n \in 1..Len(q)
  PROVE  Append(SubSeq(q, 1, n - 1), q[n]) = SubSeq(q, 1, n)
<1> DEFINE p == SubSeq(q, 1, n - 1)
           r == SubSeq(q, 1, n)
<1>1. p \in Seq(E) /\ Len(p) = n - 1 /\ \A i \in 1..(n - 1) : p[i] = q[i]
  <2>1. n - 1 \in 0..Len(q)
    OBVIOUS
  <2> QED BY <2>1, Prefix
<1>2. r \in Seq(E) /\ Len(r) = n /\ \A i \in 1..n : r[i] = q[i]
  <2>1. n \in 0..Len(q)
    OBVIOUS
  <2> QED BY <2>1, Prefix
<1>3. q[n] \in E
  BY ElementOfSeq
<1> HIDE DEF p, r
<1>4. Append(p, q[n]) \in Seq(E) /\ Len(Append(p, q[n])) = n
      /\ \A i \in 1..n : Append(p, q[n])[i] = r[i]
  BY <1>1, <1>2, <1>3
<1>5. Append(p, q[n]) = r
  BY <1>2, <1>4, SeqEqual
<1> QED BY <1>5 DEF p, r

\* The list that Before builds, after each entry.
IsFilter(h, q, day) ==
    /\ h \in [0..Len(q) -> Seq(Counted)]
    /\ h[0] = <<>>
    /\ \A n \in 1..Len(q) :
         h[n] = IF q[n].day < day THEN Append(h[n - 1], q[n]) ELSE h[n - 1]

\* Before is the last of the lists that its loop builds.
LEMMA BeforeRuns ==
  ASSUME NEW q \in Seq(Counted), NEW day
  PROVE  \E h : IsFilter(h, q, day) /\ Before(q, day) = h[Len(q)]
<1> DEFINE A == Seq(Counted)
           Step(l, e) == IF e.day < day THEN Append(l, e) ELSE l
           w == [p \in A \X Counted |-> Step(p[1], p[2])]
           Round(g, s) == IF s = {} THEN <<>>
                          ELSE Step(g[s \ {Max(s)}], q[Max(s)])
           Is(g) == g = [s \in SUBSET DOMAIN q |-> Round(g, s)]
           c == CHOOSE g : Is(g)
<1>0. <<>> \in A /\ \A l \in A, e \in Counted : Step(l, e) \in A
  OBVIOUS
<1>1. w \in [A \X Counted -> A]
  <2> HIDE DEF A, Step
  <2> QED BY <1>0
<1>2. \A s \in SUBSET DOMAIN q : s # {} => q[Max(s)] \in Counted
  <2>1. \A s \in SUBSET DOMAIN q : s # {} => Max(s) \in DOMAIN q
    BY LastOfIndices
  <2>2. \A i \in DOMAIN q : q[i] \in Counted
    OBVIOUS
  <2> QED BY <2>1, <2>2
<1>3. Before(q, day) = c[DOMAIN q]
  BY DEF Before, FoldLeft, MapThenFoldSet
<1> HIDE DEF A, Step
<1>4. PICK f : IsFold(f, w, <<>>, q)
  BY FoldExists
<1>5. \A s \in SUBSET DOMAIN q : f[s] \in A
  <2> HIDE DEF w
  <2> QED BY <1>0, <1>1, <1>4, FoldTyped
<1>6. Is(f)
  <2>1. ASSUME NEW s \in SUBSET DOMAIN q
        PROVE  FoldRound(f, w, <<>>, q, s) = Round(f, s)
    <3>1. CASE s = {}
      BY <3>1 DEF FoldRound
    <3>2. CASE s # {}
      <4>1. f[s \ {Max(s)}] \in A /\ q[Max(s)] \in Counted
        BY <1>2, <1>5, <3>2, LastOfIndices
      <4>2. w[<<f[s \ {Max(s)}], q[Max(s)]>>]
              = Step(f[s \ {Max(s)}], q[Max(s)])
        BY <4>1
      <4> QED BY <3>2, <4>2 DEF FoldRound
    <3> QED BY <3>1, <3>2
  <2>2. f = [s \in SUBSET DOMAIN q |-> FoldRound(f, w, <<>>, q, s)]
    BY <1>4 DEF IsFold
  <2> HIDE DEF w, Round
  <2> QED BY <2>1, <2>2
<1>7. Is(c)
  BY <1>6
<1>8. IsFold(c, w, <<>>, q)
  <2>1. c = [s \in SUBSET DOMAIN q |-> c[s]]
    BY <1>7
  <2>2. c[{}] = <<>>
    BY <1>7
  <2>3. ASSUME NEW s \in SUBSET DOMAIN q, s # {}, c[s \ {Max(s)}] \in A
        PROVE  c[s] = w[<<c[s \ {Max(s)}], q[Max(s)]>>]
    <3>1. c[s] = Round(c, s)
      <4> HIDE DEF Round, c
      <4> QED BY <1>7
    <3> HIDE DEF c
    <3>2. <<c[s \ {Max(s)}], q[Max(s)]>> \in A \X Counted
      BY <1>2, <2>3
    <3> QED BY <2>3, <3>1, <3>2
  <2> HIDE DEF w, c, Is
  <2> QED BY <1>0, <1>1, <2>1, <2>2, <2>3, FoldKnown
<1> HIDE DEF c, Is
<1>9. PICK h : IsFolding(h, c, w, <<>>, q, A)
  <2> HIDE DEF w, Round
  <2> QED BY <1>0, <1>1, <1>8, FoldRuns
<1>10. \A n \in 1..Len(q) : h[n] = Step(h[n - 1], q[n])
  <2> TAKE n \in 1..Len(q)
  <2>1. n - 1 \in 0..Len(q) /\ q[n] \in Counted
    BY ElementOfSeq
  <2>2. <<h[n - 1], q[n]>> \in A \X Counted
    BY <1>9, <2>1 DEF IsFolding
  <2> QED BY <1>9, <2>2 DEF IsFolding
<1> HIDE DEF w
<1>11. IsFilter(h, q, day)
  BY <1>9, <1>10 DEF IsFilter, IsFolding, A, Step
<1> QED BY <1>3, <1>9, <1>11 DEF IsFolding

\* The shares that occupancySegment has counted, after each entry.
IsCount(h, q) ==
    /\ h \in [0..Len(q) -> Int]
    /\ h[0] = 0
    /\ \A n \in 1..Len(q) :
         h[n] = IF q[n].kind = "buy" THEN h[n - 1] + q[n].shares
                                     ELSE h[n - 1] - q[n].shares

\* The shares that the loop of occupancySegment counts.
Counting(q) ==
    FoldLeft(LAMBDA sum, e :
                 IF e.kind = "buy" THEN sum + e.shares ELSE sum - e.shares,
             0, q)

\* That count is the last one of a run over its entries.
LEMMA CountRuns ==
  ASSUME NEW q \in Seq(Counted)
  PROVE  \E h : IsCount(h, q) /\ Counting(q) = h[Len(q)]
<1> DEFINE A == Int
           Step(l, e) == IF e.kind = "buy" THEN l + e.shares ELSE l - e.shares
           w == [p \in A \X Counted |-> Step(p[1], p[2])]
           Round(g, s) == IF s = {} THEN 0
                          ELSE Step(g[s \ {Max(s)}], q[Max(s)])
           Is(g) == g = [s \in SUBSET DOMAIN q |-> Round(g, s)]
           c == CHOOSE g : Is(g)
<1>0. 0 \in A /\ \A l \in A, e \in Counted : Step(l, e) \in A
  BY DEF Counted, Entry
<1>1. w \in [A \X Counted -> A]
  <2> HIDE DEF A, Step
  <2> QED BY <1>0
<1>2. \A s \in SUBSET DOMAIN q : s # {} => q[Max(s)] \in Counted
  <2>1. \A s \in SUBSET DOMAIN q : s # {} => Max(s) \in DOMAIN q
    BY LastOfIndices
  <2>2. \A i \in DOMAIN q : q[i] \in Counted
    OBVIOUS
  <2> QED BY <2>1, <2>2
<1>3. Counting(q) = c[DOMAIN q]
  BY DEF Counting, FoldLeft, MapThenFoldSet
<1> HIDE DEF A, Step
<1>4. PICK f : IsFold(f, w, 0, q)
  BY FoldExists
<1>5. \A s \in SUBSET DOMAIN q : f[s] \in A
  <2> HIDE DEF w
  <2> QED BY <1>0, <1>1, <1>4, FoldTyped
<1>6. Is(f)
  <2>1. ASSUME NEW s \in SUBSET DOMAIN q
        PROVE  FoldRound(f, w, 0, q, s) = Round(f, s)
    <3>1. CASE s = {}
      BY <3>1 DEF FoldRound
    <3>2. CASE s # {}
      <4>1. f[s \ {Max(s)}] \in A /\ q[Max(s)] \in Counted
        BY <1>2, <1>5, <3>2, LastOfIndices
      <4>2. w[<<f[s \ {Max(s)}], q[Max(s)]>>]
              = Step(f[s \ {Max(s)}], q[Max(s)])
        BY <4>1
      <4> QED BY <3>2, <4>2 DEF FoldRound
    <3> QED BY <3>1, <3>2
  <2>2. f = [s \in SUBSET DOMAIN q |-> FoldRound(f, w, 0, q, s)]
    BY <1>4 DEF IsFold
  <2> HIDE DEF w, Round
  <2> QED BY <2>1, <2>2
<1>7. Is(c)
  BY <1>6
<1>8. IsFold(c, w, 0, q)
  <2>1. c = [s \in SUBSET DOMAIN q |-> c[s]]
    BY <1>7
  <2>2. c[{}] = 0
    BY <1>7
  <2>3. ASSUME NEW s \in SUBSET DOMAIN q, s # {}, c[s \ {Max(s)}] \in A
        PROVE  c[s] = w[<<c[s \ {Max(s)}], q[Max(s)]>>]
    <3>1. c[s] = Round(c, s)
      <4> HIDE DEF Round, c
      <4> QED BY <1>7
    <3> HIDE DEF c
    <3>2. <<c[s \ {Max(s)}], q[Max(s)]>> \in A \X Counted
      BY <1>2, <2>3
    <3> QED BY <2>3, <3>1, <3>2
  <2> HIDE DEF w, c, Is
  <2> QED BY <1>0, <1>1, <2>1, <2>2, <2>3, FoldKnown
<1> HIDE DEF c, Is
<1>9. PICK h : IsFolding(h, c, w, 0, q, A)
  <2> HIDE DEF w, Round
  <2> QED BY <1>0, <1>1, <1>8, FoldRuns
<1>10. \A n \in 1..Len(q) : h[n] = Step(h[n - 1], q[n])
  <2> TAKE n \in 1..Len(q)
  <2>1. n - 1 \in 0..Len(q) /\ q[n] \in Counted
    BY ElementOfSeq
  <2>2. <<h[n - 1], q[n]>> \in A \X Counted
    BY <1>9, <2>1 DEF IsFolding
  <2> QED BY <1>9, <2>2 DEF IsFolding
<1> HIDE DEF w
<1>11. IsCount(h, q)
  BY <1>9, <1>10 DEF IsCount, IsFolding, A, Step
<1> QED BY <1>3, <1>9, <1>11 DEF IsFolding

\* The first n entries, and only those, are of a day before the given one.
FirstBefore(q, n, day) ==
    /\ n \in 0..Len(q)
    /\ \A i \in 1..n : q[i].day < day
    /\ \A i \in (n + 1)..Len(q) : ~ (q[i].day < day)

\* If the entries before a day come first, Before is the list of those.
LEMMA BeforeIsPrefix ==
  ASSUME NEW q \in Seq(Counted), NEW day, NEW n, FirstBefore(q, n, day)
  PROVE  Before(q, day) = SubSeq(q, 1, n)
<1>1. PICK h : IsFilter(h, q, day) /\ Before(q, day) = h[Len(q)]
  BY BeforeRuns
<1> DEFINE Cut(k) == SubSeq(q, 1, IF k <= n THEN k ELSE n)
           V == {k \in 0..Len(q) : h[k] = Cut(k)}
<1>2. V \subseteq Nat /\ n \in Nat /\ Len(q) \in Nat /\ n <= Len(q)
  BY DEF FirstBefore
<1>3. 0 \in V
  <2>1. h[0] = <<>>
    BY <1>1 DEF IsFilter
  <2>2. Cut(0) = SubSeq(q, 1, 0)
    BY <1>2
  <2>3. SubSeq(q, 1, 0) = <<>>
    OBVIOUS
  <2>4. h[0] = Cut(0) /\ 0 \in 0..Len(q)
    BY <1>2, <2>1, <2>2, <2>3
  <2> HIDE DEF Cut
  <2> QED BY <2>4
<1>4. ASSUME NEW k \in 1..Len(q), k - 1 \in V PROVE k \in V
  <2>1. h[k] = IF q[k].day < day THEN Append(h[k - 1], q[k]) ELSE h[k - 1]
    BY <1>1 DEF IsFilter
  <2>2. h[k - 1] = Cut(k - 1)
    BY <1>4
  <2>3. CASE k <= n
    <3>1. Cut(k) = SubSeq(q, 1, k) /\ Cut(k - 1) = SubSeq(q, 1, k - 1)
      BY <1>2, <2>3
    <3>2. q[k].day < day
      BY <2>3 DEF FirstBefore
    <3>3. Append(SubSeq(q, 1, k - 1), q[k]) = SubSeq(q, 1, k)
      BY PrefixGrows
    <3>4. h[k] = Cut(k)
      BY <2>1, <2>2, <3>1, <3>2, <3>3, Zenon
    <3> QED BY <3>4
  <2>4. CASE ~ (k <= n)
    <3>1. Cut(k) = SubSeq(q, 1, n)
      BY <2>4
    <3>2. Cut(k - 1) = SubSeq(q, 1, n)
      <4>1. CASE k - 1 <= n
        <5>1. k - 1 = n
          BY <1>2, <2>4, <4>1
        <5> QED BY <5>1
      <4>2. CASE ~ (k - 1 <= n)
        BY <4>2
      <4> QED BY <4>1, <4>2
    <3>3. ~ (q[k].day < day)
      <4>1. k \in (n + 1)..Len(q)
        BY <1>2, <2>4
      <4> QED BY <4>1 DEF FirstBefore
    <3>4. h[k] = Cut(k)
      BY <2>1, <2>2, <3>1, <3>2, <3>3, Zenon
    <3> QED BY <3>4
  <2> QED BY <2>3, <2>4
<1>5. \A k \in 0..Len(q) : k \in V
  <2> HIDE DEF V
  <2> QED BY <1>2, <1>3, <1>4, InductionUpTo
<1>6. h[Len(q)] = Cut(Len(q))
  BY <1>2, <1>5
<1>7. Cut(Len(q)) = SubSeq(q, 1, n)
  <2>1. CASE Len(q) <= n
    <3>1. Len(q) = n
      BY <1>2, <2>1
    <3> QED BY <3>1
  <2>2. CASE ~ (Len(q) <= n)
    BY <2>2
  <2> QED BY <2>1, <2>2
<1> QED BY <1>1, <1>6, <1>7, Zenon

-----------------------------------------------------------------------------
(* The order of the entries. *)

\* The order of ListLedger: by day, and on one day by id.
InOrder(q) ==
    \A i, j \in DOMAIN q :
      i < j => \/ q[i].day < q[j].day
               \/ q[i].day = q[j].day /\ q[i].id < q[j].id

\* In a list that is in order, the entries up to a day are the first ones.
LEMMA UpToIsPrefix ==
  ASSUME NEW q \in Seq(Counted), InOrder(q), NEW day \in Int
  PROVE  \E n \in 0..Len(q) :
           /\ {i \in DOMAIN q : q[i].day <= day} = 1..n
           /\ \A i \in (n + 1)..Len(q) : ~ (q[i].day <= day)
<1> DEFINE U == {i \in DOMAIN q : q[i].day <= day}
<1>1. DOMAIN q = 1..Len(q) /\ Len(q) \in Nat
  OBVIOUS
<1>2. \A i \in 1..Len(q) : q[i].day \in Int
  <2>1. \A i \in 1..Len(q) : q[i] \in Counted
    BY ElementOfSeq
  <2> QED BY <2>1 DEF Counted, Entry, Days
<1>3. CASE U = {}
  <2>1. U = 1..0 /\ \A i \in (0 + 1)..Len(q) : ~ (q[i].day <= day)
    BY <1>1, <1>3
  <2> QED BY <1>1, <2>1
<1>4. CASE U # {}
  <2>1. Max(U) \in U /\ \A i \in U : i <= Max(U)
    <3>1. U \in SUBSET Nat /\ \A i \in U : i <= Len(q)
      BY <1>1
    <3> HIDE DEF U
    <3> QED BY <1>1, <1>4, <3>1, MaxOfBounded
  <2> DEFINE n == Max(U)
  <2>2. n \in 1..Len(q) /\ q[n].day <= day
    BY <1>1, <2>1
  <2>3. ASSUME NEW i \in 1..n PROVE i \in U
    <3>1. CASE i = n
      BY <2>1, <3>1
    <3>2. CASE i # n
      <4> HIDE DEF n, U
      <4>1. i \in DOMAIN q /\ n \in DOMAIN q /\ i < n
        BY <1>1, <2>2, <3>2
      <4>2. q[i].day <= q[n].day
        <5>1. q[i].day < q[n].day \/ q[i].day = q[n].day
          BY <4>1 DEF InOrder
        <5> QED BY <1>1, <1>2, <4>1, <5>1
      <4>3. q[i].day <= day
        BY <1>1, <1>2, <2>2, <4>1, <4>2
      <4> QED BY <4>1, <4>3 DEF U
    <3> QED BY <3>1, <3>2
  <2>4. ASSUME NEW i \in (n + 1)..Len(q) PROVE ~ (q[i].day <= day)
    <3> HIDE DEF n
    <3>1. i \in DOMAIN q /\ ~ (i <= n)
      BY <1>1, <2>2
    <3>2. i \notin U
      BY <2>1, <3>1 DEF n
    <3> QED BY <3>1, <3>2
  <2>5. U = 1..n
    <3>1. \A i \in U : i \in 1..n
      BY <1>1, <2>1
    <3> HIDE DEF U, n
    <3> QED BY <2>3, <3>1
  <2> HIDE DEF U, n
  <2> QED BY <2>2, <2>4, <2>5 DEF U
<1> QED BY <1>3, <1>4

\* A list as ListLedger returns it: numbered, in order.
Listed(q) ==
    /\ q \in Seq(Counted)
    /\ {q[i].id : i \in DOMAIN q} = 1..Len(q)
    /\ \A i, j \in DOMAIN q : q[i].id = q[j].id => i = j
    /\ InOrder(q)

\* A list with one element put in after the first n, and with the n-th taken out.
IsInsert(r, q, n, e) ==
    /\ Len(r) = Len(q) + 1
    /\ \A i \in 1..n : r[i] = q[i]
    /\ r[n + 1] = e
    /\ \A i \in (n + 2)..(Len(q) + 1) : r[i] = q[i - 1]

\* InsertAt puts the element in, and leaves the others in their order.
LEMMA Inserted ==
  ASSUME NEW E, NEW q \in Seq(E), NEW n \in 0..Len(q), NEW e \in E
  PROVE  \E r \in Seq(E) : r = InsertAt(q, n + 1, e) /\ IsInsert(r, q, n, e)
<1> DEFINE a == SubSeq(q, 1, n)
           z == SubSeq(q, n + 1, Len(q))
           r == (a \o <<e>>) \o z
<1>1. a \in Seq(E) /\ Len(a) = n /\ \A i \in 1..n : a[i] = q[i]
  BY Prefix
<1>2. z \in Seq(E) /\ Len(z) = Len(q) - n
      /\ \A i \in 1..(Len(q) - n) : z[i] = q[n + i]
  <2>1. n + 1 \in 1..(Len(q) + 1) /\ Len(q) \in 0..Len(q) /\ Len(q) \in Nat
    OBVIOUS
  <2>2. \A i \in (n + 1)..Len(q) : q[i] \in E
    BY ElementOfSeq
  <2>3. Len(z) = Len(q) - n
    BY <2>1
  <2>4. \A i \in 1..(Len(q) - n) : z[i] = q[n + i]
    BY <2>1
  <2>5. z \in Seq(E)
    BY <2>1, <2>2, SubSeqProperties
  <2> QED BY <2>3, <2>4, <2>5
<1>3. r = InsertAt(q, n + 1, e)
  <2>1. (n + 1) - 1 = n
    OBVIOUS
  <2> QED BY <2>1 DEF InsertAt
<1> HIDE DEF a, z
<1>4. a \o <<e>> \in Seq(E) /\ Len(a \o <<e>>) = n + 1
      /\ (\A i \in 1..n : (a \o <<e>>)[i] = q[i]) /\ (a \o <<e>>)[n + 1] = e
  BY <1>1
<1> DEFINE b == a \o <<e>>
<1>5. b \in Seq(E) /\ Len(b) = n + 1
      /\ (\A i \in 1..n : b[i] = q[i]) /\ b[n + 1] = e
  BY <1>4
<1> HIDE DEF b
<1>6. b \o z \in Seq(E) /\ Len(b \o z) = Len(q) + 1
      /\ (\A i \in 1..(n + 1) : (b \o z)[i] = b[i])
      /\ (\A i \in (n + 2)..(Len(q) + 1) : (b \o z)[i] = z[i - (n + 1)])
  BY <1>2, <1>5
<1>7. r = b \o z
  BY DEF b
<1> HIDE DEF r
<1>8. \A i \in (n + 2)..(Len(q) + 1) : r[i] = q[i - 1]
  <2> TAKE i \in (n + 2)..(Len(q) + 1)
  <2> DEFINE k == i - (n + 1)
  <2>1. k \in 1..(Len(q) - n) /\ n + k = i - 1
    OBVIOUS
  <2>2. z[k] = q[n + k]
    <3> HIDE DEF k
    <3> QED BY <1>2, <2>1
  <2>3. r[i] = z[k]
    BY <1>6, <1>7
  <2> QED BY <2>1, <2>2, <2>3, Zenon
<1>9. \A i \in 1..n : r[i] = q[i]
  BY <1>5, <1>6, <1>7
<1>10. r[n + 1] = e
  BY <1>5, <1>6, <1>7
<1> QED BY <1>3, <1>6, <1>7, <1>8, <1>9, <1>10 DEF IsInsert

\* RemoveAt takes the element out, and leaves the others in their order.
LEMMA Removed ==
  ASSUME NEW E, NEW q \in Seq(E), NEW n \in 1..Len(q)
  PROVE  \E r \in Seq(E) :
            /\ r = RemoveAt(q, n)
            /\ Len(r) = Len(q) - 1
            /\ \A i \in 1..(n - 1) : r[i] = q[i]
            /\ \A i \in n..(Len(q) - 1) : r[i] = q[i + 1]
<1> DEFINE a == SubSeq(q, 1, n - 1)
           z == SubSeq(q, n + 1, Len(q))
           r == a \o z
<1>1. a \in Seq(E) /\ Len(a) = n - 1 /\ \A i \in 1..(n - 1) : a[i] = q[i]
  <2>1. n - 1 \in 0..Len(q)
    OBVIOUS
  <2> QED BY <2>1, Prefix
<1>2. z \in Seq(E) /\ Len(z) = Len(q) - n
      /\ \A i \in 1..(Len(q) - n) : z[i] = q[n + i]
  <2>1. n + 1 \in 1..(Len(q) + 1) /\ Len(q) \in 0..Len(q) /\ Len(q) \in Nat
    OBVIOUS
  <2>2. \A i \in (n + 1)..Len(q) : q[i] \in E
    BY ElementOfSeq
  <2>3. Len(z) = Len(q) - n
    BY <2>1
  <2>4. \A i \in 1..(Len(q) - n) : z[i] = q[n + i]
    BY <2>1
  <2>5. z \in Seq(E)
    BY <2>1, <2>2, SubSeqProperties
  <2> QED BY <2>3, <2>4, <2>5
<1>3. r = RemoveAt(q, n)
  BY DEF RemoveAt
<1> HIDE DEF a, z
<1>4. r \in Seq(E) /\ Len(r) = Len(q) - 1
      /\ (\A i \in 1..(n - 1) : r[i] = a[i])
      /\ (\A i \in n..(Len(q) - 1) : r[i] = z[i - (n - 1)])
  <2>1. /\ r \in Seq(E) /\ Len(r) = Len(a) + Len(z)
        /\ \A i \in 1..(Len(a) + Len(z)) :
             r[i] = IF i <= Len(a) THEN a[i] ELSE z[i - Len(a)]
    BY <1>1, <1>2, ConcatProperties
  <2> HIDE DEF r
  <2>2. Len(r) = Len(q) - 1
    BY <1>1, <1>2, <2>1
  <2>3. \A i \in 1..(n - 1) : r[i] = a[i]
    BY <1>1, <1>2, <2>1
  <2>4. ASSUME NEW i \in n..(Len(q) - 1) PROVE r[i] = z[i - (n - 1)]
    <3>1. i \in 1..(Len(a) + Len(z)) /\ ~ (i <= Len(a)) /\ Len(a) = n - 1
      BY <1>1, <1>2
    <3> QED BY <2>1, <3>1, Zenon
  <2> QED BY <2>1, <2>2, <2>3, <2>4
<1> HIDE DEF r
<1>5. \A i \in n..(Len(q) - 1) : r[i] = q[i + 1]
  <2> TAKE i \in n..(Len(q) - 1)
  <2> DEFINE k == i - (n - 1)
  <2>1. k \in 1..(Len(q) - n) /\ n + k = i + 1
    OBVIOUS
  <2>2. z[k] = q[n + k]
    <3> HIDE DEF k
    <3> QED BY <1>2, <2>1
  <2>3. r[i] = z[k]
    BY <1>4
  <2> QED BY <2>1, <2>2, <2>3, Zenon
<1> QED BY <1>1, <1>3, <1>4, <1>5

\* An entry put after all those up to its day keeps the list in order.
LEMMA InsertKeeps ==
  ASSUME NEW q, Listed(q), NEW e \in Counted, e.id = Len(q) + 1
  PROVE  Listed(InsertAt(q, Cardinality({i \in DOMAIN q : q[i].day <= e.day}) + 1, e))
<1>1. q \in Seq(Counted) /\ InOrder(q)
  BY DEF Listed
<1>2. e.day \in Int
  BY DEF Counted, Entry, Days
<1>3. PICK n \in 0..Len(q) :
        /\ {i \in DOMAIN q : q[i].day <= e.day} = 1..n
        /\ \A i \in (n + 1)..Len(q) : ~ (q[i].day <= e.day)
  BY <1>1, <1>2, UpToIsPrefix
<1>4. Cardinality({i \in DOMAIN q : q[i].day <= e.day}) = n
  <2>1. Cardinality(1..n) = n
    BY FS_Interval
  <2> QED BY <1>3, <2>1
<1>5. PICK r \in Seq(Counted) :
        /\ r = InsertAt(q, n + 1, e)
        /\ Len(r) = Len(q) + 1
        /\ \A i \in 1..n : r[i] = q[i]
        /\ r[n + 1] = e
        /\ \A i \in (n + 2)..(Len(q) + 1) : r[i] = q[i - 1]
  <2>1. \E r \in Seq(Counted) : r = InsertAt(q, n + 1, e) /\ IsInsert(r, q, n, e)
    BY <1>1, Inserted
  <2> QED BY <2>1, Zenon DEF IsInsert
<1> DEFINE N == Len(q)
           Old(i) == IF i <= n THEN i ELSE i - 1
<1>6. N \in Nat /\ DOMAIN q = 1..N /\ DOMAIN r = 1..(N + 1) /\ n \in 0..N
  <2>1. DOMAIN q = 1..N /\ N \in Nat
    BY <1>1
  <2>2. DOMAIN r = 1..Len(r)
    BY <1>5
  <2>3. Len(r) = N + 1
    BY <1>5
  <2> QED BY <2>1, <2>2, <2>3, Zenon
<1>7. \A i \in 1..(N + 1) : i # n + 1 => Old(i) \in 1..N /\ r[i] = q[Old(i)]
  <2> TAKE i \in 1..(N + 1)
  <2> HAVE i # n + 1
  <2>1. CASE i <= n
    <3>1. i \in 1..n /\ Old(i) = i
      BY <1>6, <2>1
    <3> QED BY <1>5, <1>6, <3>1
  <2>2. CASE ~ (i <= n)
    <3>1. i \in (n + 2)..(N + 1) /\ Old(i) = i - 1
      BY <1>6, <2>2
    <3>2. i - 1 \in 1..N
      BY <1>6, <3>1
    <3> QED BY <1>5, <3>1, <3>2
  <2> QED BY <2>1, <2>2
<1>8. \A i \in 1..N : /\ q[i].id \in 1..N /\ q[i].day \in Int
                       /\ (q[i].day <= e.day <=> i <= n)
  <2> TAKE i \in 1..N
  <2>1. q[i] \in Counted
    BY <1>1, ElementOfSeq
  <2>2. q[i].day \in Int
    BY <2>1 DEF Counted, Entry, Days
  <2>3. q[i].id \in 1..N
    BY <1>6 DEF Listed
  <2>4. q[i].day <= e.day <=> i \in 1..n
    BY <1>3, <1>6
  <2>5. i \in 1..n <=> i <= n
    BY <1>6
  <2> QED BY <2>2, <2>3, <2>4, <2>5
<1> HIDE DEF N
<1>9. e.id = N + 1
  BY DEF N
<1>10. {r[i].id : i \in DOMAIN r} = 1..Len(r)
  <2>1. ASSUME NEW i \in 1..(N + 1) PROVE r[i].id \in 1..(N + 1)
    <3>1. CASE i = n + 1
      BY <1>5, <1>6, <1>9, <3>1
    <3>2. CASE i # n + 1
      <4>1. r[i].id \in 1..N
        <5> HIDE DEF Old
        <5> QED BY <1>7, <1>8, <3>2
      <4> QED BY <1>6, <4>1
    <3> QED BY <3>1, <3>2
  <2>2. ASSUME NEW x \in 1..(N + 1) PROVE \E i \in 1..(N + 1) : r[i].id = x
    <3>1. CASE x = N + 1
      <4>1. n + 1 \in 1..(N + 1)
        BY <1>6
      <4> QED BY <1>5, <1>9, <3>1, <4>1
    <3>2. CASE x # N + 1
      <4>1. x \in 1..N
        BY <1>6, <3>2
      <4>2. PICK k \in 1..N : q[k].id = x
        <5>1. {q[k].id : k \in 1..N} = 1..N
          BY <1>6 DEF Listed, N
        <5> QED BY <4>1, <5>1
      <4>3. CASE k <= n
        <5>1. k \in 1..n /\ k \in 1..(N + 1)
          BY <1>6, <4>3
        <5> QED BY <1>5, <4>2, <5>1
      <4>4. CASE ~ (k <= n)
        <5>1. k + 1 \in (n + 2)..(N + 1) /\ (k + 1) - 1 = k
              /\ k + 1 \in 1..(N + 1)
          BY <1>6, <4>4
        <5>2. r[k + 1] = q[(k + 1) - 1]
          BY <1>5, <5>1 DEF N
        <5> QED BY <4>2, <5>1, <5>2
      <4> QED BY <4>3, <4>4
    <3> QED BY <3>1, <3>2
  <2>3. DOMAIN r = 1..(N + 1) /\ Len(r) = N + 1
    BY <1>5, <1>6 DEF N
  <2> QED BY <2>1, <2>2, <2>3
<1>11. \A i, j \in 1..(N + 1) : r[i].id = r[j].id => i = j
  <2> SUFFICES ASSUME NEW i \in 1..(N + 1), NEW j \in 1..(N + 1),
                      r[i].id = r[j].id
               PROVE  i = j
    OBVIOUS
  <2>1. CASE i = n + 1 /\ j # n + 1
    <3>1. r[i].id = N + 1
      BY <1>5, <1>9, <2>1
    <3>2. r[j].id \in 1..N
      <4> HIDE DEF Old
      <4> QED BY <1>7, <1>8, <2>1
    <3> QED BY <1>6, <3>1, <3>2
  <2>2. CASE i # n + 1 /\ j = n + 1
    <3>1. r[j].id = N + 1
      BY <1>5, <1>9, <2>2
    <3>2. r[i].id \in 1..N
      <4> HIDE DEF Old
      <4> QED BY <1>7, <1>8, <2>2
    <3> QED BY <1>6, <3>1, <3>2
  <2>3. CASE i # n + 1 /\ j # n + 1
    <3>1. Old(i) \in 1..N /\ Old(j) \in 1..N
          /\ r[i] = q[Old(i)] /\ r[j] = q[Old(j)]
      BY <1>7, <2>3
    <3>2. Old(i) = Old(j)
      <4> HIDE DEF Old
      <4> QED BY <1>6, <3>1 DEF Listed
    <3> QED BY <1>6, <2>3, <3>2
  <2> QED BY <2>1, <2>2, <2>3
<1>12. InOrder(r)
  <2> SUFFICES ASSUME NEW i \in 1..(N + 1), NEW j \in 1..(N + 1), i < j
               PROVE  \/ r[i].day < r[j].day
                      \/ r[i].day = r[j].day /\ r[i].id < r[j].id
    BY <1>6 DEF InOrder
  <2>1. CASE j = n + 1
    <3>1. i \in 1..N /\ i <= n /\ r[i] = q[i] /\ r[j] = e
      <4>1. i \in 1..n /\ i \in 1..N
        BY <1>6, <2>1
      <4> QED BY <1>5, <2>1, <4>1
    <3>2. q[i].day <= e.day /\ q[i].day \in Int /\ q[i].id \in 1..N
      BY <1>8, <3>1
    <3>3. q[i].day < e.day \/ q[i].day = e.day
      BY <1>2, <3>2
    <3>4. q[i].id < e.id
      BY <1>6, <1>9, <3>2
    <3> QED BY <3>1, <3>3, <3>4
  <2>2. CASE i = n + 1
    <3>1. j # n + 1 /\ j - 1 \in 1..N /\ ~ (j - 1 <= n) /\ r[j] = q[j - 1] /\ r[i] = e
      <4>1. j \in (n + 2)..(N + 1) /\ j - 1 \in 1..N /\ ~ (j - 1 <= n) /\ j # n + 1
        BY <1>6, <2>2
      <4>2. r[j] = q[j - 1] /\ r[i] = e
        BY <1>5, <2>2, <4>1 DEF N
      <4> QED BY <4>1, <4>2
    <3>2. ~ (q[j - 1].day <= e.day) /\ q[j - 1].day \in Int
      BY <1>8, <3>1
    <3>3. e.day < q[j - 1].day
      BY <1>2, <3>2
    <3> QED BY <3>1, <3>3
  <2>3. CASE i # n + 1 /\ j # n + 1
    <3>1. /\ Old(i) \in 1..N /\ Old(j) \in 1..N
          /\ r[i] = q[Old(i)] /\ r[j] = q[Old(j)]
      BY <1>7, <2>3
    <3>2. Old(i) < Old(j)
      BY <1>6, <2>3
    <3> HIDE DEF Old
    <3>3. \/ q[Old(i)].day < q[Old(j)].day
          \/ q[Old(i)].day = q[Old(j)].day /\ q[Old(i)].id < q[Old(j)].id
      BY <1>1, <1>6, <3>1, <3>2 DEF InOrder
    <3> QED BY <3>1, <3>3
  <2> QED BY <2>1, <2>2, <2>3
<1>13. Listed(r)
  BY <1>5, <1>6, <1>10, <1>11, <1>12 DEF Listed
<1> QED BY <1>4, <1>5, <1>13

\* The list without the entry written last is numbered and in order.
LEMMA RemoveKeeps ==
  ASSUME NEW q, Listed(q), NEW n \in DOMAIN q, q[n].id = Len(q)
  PROVE  Listed(RemoveAt(q, n))
<1> DEFINE N == Len(q)
           Old(i) == IF i < n THEN i ELSE i + 1
<1>1. q \in Seq(Counted) /\ InOrder(q)
  BY DEF Listed
<1>2. DOMAIN q = 1..N /\ N \in Nat
  BY <1>1
<1>3. PICK r \in Seq(Counted) :
        /\ r = RemoveAt(q, n)
        /\ Len(r) = Len(q) - 1
        /\ \A i \in 1..(n - 1) : r[i] = q[i]
        /\ \A i \in n..(Len(q) - 1) : r[i] = q[i + 1]
  <2>1. n \in 1..Len(q)
    BY <1>2
  <2> QED BY <1>1, <2>1, Removed
<1>4. DOMAIN r = 1..(N - 1) /\ Len(r) = N - 1
  <2>1. DOMAIN r = 1..Len(r)
    BY <1>3
  <2>2. Len(r) = N - 1
    BY <1>3
  <2> QED BY <2>1, <2>2
<1>5. \A i \in 1..(N - 1) : /\ Old(i) \in 1..N /\ Old(i) # n
                             /\ r[i] = q[Old(i)]
  <2> TAKE i \in 1..(N - 1)
  <2>1. CASE i < n
    <3>1. i \in 1..(n - 1) /\ Old(i) = i /\ i \in 1..N
      BY <1>2, <2>1
    <3> QED BY <1>3, <2>1, <3>1
  <2>2. CASE ~ (i < n)
    <3>1. i \in n..(N - 1) /\ Old(i) = i + 1 /\ i + 1 \in 1..N /\ i + 1 # n
      BY <1>2, <2>2
    <3> QED BY <1>3, <3>1
  <2> QED BY <2>1, <2>2
<1>6. \A i \in 1..N : q[i].id \in 1..N
  BY <1>2 DEF Listed
<1>7. \A i, j \in 1..N : q[i].id = q[j].id => i = j
  BY <1>2 DEF Listed
<1>8. q[n].id = N
  OBVIOUS
<1>9. \A x \in 1..N : \E k \in 1..N : q[k].id = x
  <2>1. {q[k].id : k \in 1..N} = 1..N
    BY <1>2 DEF Listed
  <2> QED BY <2>1
<1> HIDE DEF N
<1>10. {r[i].id : i \in DOMAIN r} = 1..Len(r)
  <2>1. ASSUME NEW i \in 1..(N - 1) PROVE r[i].id \in 1..(N - 1)
    <3>1. Old(i) \in 1..N /\ Old(i) # n /\ r[i] = q[Old(i)]
      BY <1>5
    <3> HIDE DEF Old
    <3>2. q[Old(i)].id \in 1..N /\ q[Old(i)].id # N
      BY <1>2, <1>6, <1>7, <1>8, <3>1
    <3> QED BY <1>2, <3>1, <3>2
  <2>2. ASSUME NEW x \in 1..(N - 1) PROVE \E i \in 1..(N - 1) : r[i].id = x
    <3>1. PICK k \in 1..N : q[k].id = x
      <4>1. x \in 1..N
        BY <1>2
      <4> QED BY <1>9, <4>1
    <3>2. k # n /\ n \in 1..N
      <4>1. x # N
        BY <1>2
      <4> QED BY <1>2, <1>8, <3>1, <4>1
    <3>3. CASE k < n
      <4>1. k \in 1..(N - 1) /\ Old(k) = k
        BY <1>2, <3>2, <3>3
      <4>2. r[k] = q[k]
        BY <1>5, <4>1
      <4> QED BY <3>1, <4>1, <4>2
    <3>4. CASE ~ (k < n)
      <4>1. k - 1 \in 1..(N - 1) /\ Old(k - 1) = k
        BY <1>2, <3>2, <3>4
      <4>2. r[k - 1] = q[k]
        BY <1>5, <4>1
      <4> QED BY <3>1, <4>1, <4>2
    <3> QED BY <3>3, <3>4
  <2> QED BY <1>4, <2>1, <2>2
<1>11. \A i, j \in 1..(N - 1) : r[i].id = r[j].id => i = j
  <2> SUFFICES ASSUME NEW i \in 1..(N - 1), NEW j \in 1..(N - 1),
                      r[i].id = r[j].id
               PROVE  i = j
    OBVIOUS
  <2>1. /\ Old(i) \in 1..N /\ Old(j) \in 1..N
        /\ r[i] = q[Old(i)] /\ r[j] = q[Old(j)]
    BY <1>5
  <2>2. Old(i) = Old(j)
    <3> HIDE DEF Old
    <3> QED BY <1>7, <2>1
  <2>3. n \in Int
    BY <1>2
  <2> QED BY <2>2, <2>3
<1>12. InOrder(r)
  <2> SUFFICES ASSUME NEW i \in 1..(N - 1), NEW j \in 1..(N - 1), i < j
               PROVE  \/ r[i].day < r[j].day
                      \/ r[i].day = r[j].day /\ r[i].id < r[j].id
    BY <1>4 DEF InOrder
  <2>1. /\ Old(i) \in 1..N /\ Old(j) \in 1..N
        /\ r[i] = q[Old(i)] /\ r[j] = q[Old(j)]
    BY <1>5
  <2>2. Old(i) < Old(j)
    <3>1. n \in Int
      BY <1>2
    <3> QED BY <3>1
  <2> HIDE DEF Old
  <2>3. \/ q[Old(i)].day < q[Old(j)].day
        \/ q[Old(i)].day = q[Old(j)].day /\ q[Old(i)].id < q[Old(j)].id
    BY <1>1, <1>2, <2>1, <2>2 DEF InOrder
  <2> QED BY <2>1, <2>3
<1>13. Listed(r)
  BY <1>3, <1>4, <1>10, <1>11, <1>12 DEF Listed
<1> QED BY <1>3, <1>13

(* The numbers of an entry. *)

\* The quotient of natural numbers is one.
LEMMA QuotientTyped ==
  ASSUME NEW a \in Nat, NEW d \in Nat \ {0}
  PROVE  a \div d \in Nat
  OBVIOUS

\* So is the product.
LEMMA ProductTyped == ASSUME NEW a \in Nat, NEW b \in Nat PROVE a * b \in Nat
  OBVIOUS

\* Of natural numbers MulDiv is the quotient of the product.
LEMMA MulDivTyped ==
  ASSUME NEW a \in Nat, NEW b \in Nat, NEW d \in Nat \ {0}
  PROVE  MulDiv(a, b, d) = (a * b) \div d /\ MulDiv(a, b, d) \in Nat
<1>1. a * b \in Nat
  BY ProductTyped
<1>2. Abs(a) = a /\ Abs(b) = b
  BY DEF Abs
<1>3. MulDiv(a, b, d) = (a * b) \div d
  BY <1>2 DEF MulDiv
<1> QED BY <1>1, <1>3, QuotientTyped

\* Cash makes a natural number of shares.
LEMMA SharesTyped ==
  ASSUME NEW cash \in Int, NEW nav \in Nat
  PROVE  SharesFromCash(cash, nav) \in Nat
<1>1. CASE cash <= 0 \/ nav <= 0
  BY <1>1 DEF SharesFromCash
<1>2. CASE ~ (cash <= 0 \/ nav <= 0)
  <2>1. cash \in Nat /\ nav \in Nat \ {0} /\ FenScale \in Nat
    BY <1>2, FenScaleAssumption
  <2>2. MulDiv(cash, FenScale, nav) \in Nat
    BY <2>1, MulDivTyped
  <2> QED BY <1>2, <2>2 DEF SharesFromCash
<1> QED BY <1>1, <1>2

\* Shares make a natural number of fen.
LEMMA CashTyped ==
  ASSUME NEW shares \in Nat, NEW nav \in Nat
  PROVE  CashFromShares(shares, nav) \in Nat
<1>1. CASE shares <= 0 \/ nav <= 0
  BY <1>1 DEF CashFromShares
<1>2. CASE ~ (shares <= 0 \/ nav <= 0)
  <2>1. shares * nav \in Nat /\ FenScale \in Nat \ {0}
    BY ProductTyped, FenScaleAssumption
  <2>2. (shares * nav) \div FenScale \in Nat
    BY <2>1, QuotientTyped
  <2>3. CashFromShares(shares, nav) =
          ((shares * nav) \div FenScale)
             + (IF (shares * nav) % FenScale >= (FenScale + 1) \div 2 THEN 1 ELSE 0)
    <3>1. Abs(shares) = shares /\ Abs(nav) = nav
      BY DEF Abs
    <3>2. ~ (shares < 0) /\ ~ (nav < 0)
      OBVIOUS
    <3> QED BY <1>2, <3>1, <3>2 DEF CashFromShares, MulDivRound
  <2> HIDE <2>1
  <2> QED BY <2>2, <2>3
<1> QED BY <1>1, <1>2

\* A NAV that is looked up is one that is stored, or none.
LEMMA LatestTyped ==
  ASSUME NEW ns \in [Days -> Navs \cup {NoNav}], NEW days \in SUBSET NavDays(ns)
  PROVE  LatestOf(ns, days) \in Navs \cup {NoNav}
<1>1. CASE days = {}
  BY <1>1 DEF LatestOf
<1>2. CASE days # {}
  <2>1. days \in SUBSET Nat /\ MaxDay \in Nat /\ \A d \in days : d <= MaxDay /\ d \in Days
    BY InputsAssumption DEF NavDays, Days
  <2>2. Max(days) \in Days
    BY <1>2, <2>1, MaxOfBounded
  <2> QED BY <1>2, <2>2 DEF LatestOf
<1> QED BY <1>1, <1>2

\* A NAV, or none, is a natural number.
LEMMA NavsNat == Navs \cup {NoNav} \subseteq Nat
  BY InputsAssumption DEF NoNav

\* So is the NAV at which an entry is priced.
LEMMA ResolveTyped ==
  ASSUME NEW ns \in [Days -> Navs \cup {NoNav}], NEW day \in Days,
         NEW manual \in ManualNavs \cup {NoNav}
  PROVE  ResolveNavForOccur(ns, day, manual) \in Nat
<1>1. manual \in Nat
  BY InputsAssumption DEF NoNav
<1>2. NavOn(ns, day) \in Nat
  <2>1. ns[day] \in Navs \cup {NoNav}
    OBVIOUS
  <2> QED BY <2>1, NavsNat DEF NavOn, NoNav
<1>3. PrevNav(ns, day) \in Nat
  <2>1. {d \in NavDays(ns) : d < day} \in SUBSET NavDays(ns)
    OBVIOUS
  <2>2. PrevNav(ns, day) \in Navs \cup {NoNav}
    BY <2>1, LatestTyped DEF PrevNav
  <2> QED BY <2>2, NavsNat
<1> QED BY <1>1, <1>2, <1>3 DEF ResolveNavForOccur

\* So are the shares and the price implied by a declared profit.
LEMMA ImpliedTyped ==
  ASSUME NEW cash \in Nat, NEW cumulative \in Int, NEW nav \in Nat
  PROVE  /\ ImpliedBuy(cash, cumulative, nav).shares \in Nat
         /\ ImpliedBuy(cash, cumulative, nav).nav \in Nat
<1> DEFINE s == ImpliedShares(cash, cumulative, nav)
           n == IF s > 0 THEN MulDiv(cash, FenScale, s) ELSE 0
<1>1. s \in Nat
  BY SharesTyped DEF ImpliedShares
<1>2. n \in Nat
  <2> HIDE DEF s
  <2> QED BY <1>1, FenScaleAssumption, MulDivTyped
<1>3. ImpliedBuy(cash, cumulative, nav) = [shares |-> IF n > 0 THEN s ELSE 0, nav |-> n]
  BY DEF ImpliedBuy
<1> HIDE DEF s, n
<1> QED BY <1>1, <1>2, <1>3

-----------------------------------------------------------------------------
(* The invariant. *)

\* The NAVs stored are of days that have come.
NavsOf(t, ns) ==
    /\ t \in Days
    /\ ns \in [Days -> Navs \cup {NoNav}]
    /\ NavDays(ns) \subseteq 1..t

\* The invariant: NAVs, a list of entries, and none without an account.
HInv ==
    /\ NavsOf(today, navs)
    /\ Listed(entries)
    /\ opened \in BOOLEAN
    /\ ~ opened => entries = <<>>

\* The invariant implies the type invariant.
LEMMA HInvTypes == HInv => TypeOK
<1> SUFFICES ASSUME HInv PROVE TypeOK
  OBVIOUS
<1>1. entries \in Seq(Counted)
  BY DEF HInv, Listed
<1>2. entries \in Seq(Entry)
  BY <1>1 DEF Counted
<1> QED BY <1>2 DEF HInv, NavsOf, Listed, InOrder, TypeOK

\* It holds at first.
LEMMA InitHInv == Init => HInv
<1> SUFFICES ASSUME Init PROVE HInv
  OBVIOUS
<1>1. today \in Days
  BY InputsAssumption DEF Init, Days
<1>2. navs \in [Days -> Navs \cup {NoNav}]
  BY DEF Init
<1>3. NavDays(navs) = {}
  BY DEF Init, NavDays, NoNav
<1>4. Listed(<<>>)
  <2>1. <<>> \in Seq(Counted) /\ DOMAIN <<>> = {} /\ Len(<<>>) = 0
    OBVIOUS
  <2>2. 1..0 = {}
    BY SMT
  <2>3. {<<>>[i].id : i \in DOMAIN <<>>} = 1..Len(<<>>)
    BY <2>1, <2>2
  <2> QED BY <2>1, <2>3 DEF Listed, InOrder
<1> QED BY <1>1, <1>2, <1>3, <1>4 DEF Init, HInv, NavsOf

\* Writing an entry keeps the list.
LEMMA InsertStep ==
  ASSUME Listed(entries), NEW kind \in {"buy", "redeem"}, NEW day \in Days,
         NEW cash \in Nat, NEW shares \in Nat, NEW nav \in Nat,
         kind = "buy" => shares > 0,
         InsertLedger(kind, day, cash, shares, nav)
  PROVE  Listed(entries')
<1> DEFINE e == [id |-> Len(entries) + 1, kind |-> kind, day |-> day,
                 cash |-> cash, shares |-> shares, nav |-> nav]
<1>1. Len(entries) \in Nat
  BY DEF Listed
<1>2. e \in Counted /\ e.id = Len(entries) + 1 /\ e.day = day
  BY <1>1 DEF Counted, Entry
<1>3. entries' = InsertAt(entries,
                   Cardinality({i \in DOMAIN entries : entries[i].day <= day}) + 1, e)
  BY DEF InsertLedger
<1> HIDE DEF e
<1> QED BY <1>2, <1>3, InsertKeeps

\* The day given for an entry is a day.
LEMMA OccurDayTyped ==
  ASSUME today \in Days, NEW day \in OccurDays PROVE day \in Days
  BY InputsAssumption DEF OccurDays, Days

\* The shares left are a natural number.
LEMMA RemainingTyped ==
  ASSUME NEW q \in Seq(Counted)
  PROVE  Replay(q) \in Accounts /\ Replay(q).st.SharesE8 \in Nat
<1>1. PICK h : IsRun(h, q) /\ Replay(q) = h[Len(q)]
  BY ReplayRuns
<1>2. Len(q) \in 0..Len(q)
  OBVIOUS
<1>3. Replay(q) \in Accounts
  BY <1>1, <1>2 DEF IsRun
<1> QED BY <1>3 DEF Accounts, Positions, Fields

\* Every step keeps the invariant.
LEMMA StepHInv == HInv /\ [Next]_vars => HInv'
<1> SUFFICES ASSUME HInv, [Next]_vars PROVE HInv'
  OBVIOUS
<1>1. CASE Tick
  <2>1. today' \in Days /\ 1..today \subseteq 1..(today')
    BY <1>1, InputsAssumption DEF HInv, NavsOf, Tick, Days
  <2>2. navs' = navs /\ opened' = opened /\ entries' = entries
    BY <1>1 DEF Tick
  <2>3. NavsOf(today', navs')
    BY <2>1, <2>2 DEF HInv, NavsOf
  <2> QED BY <2>2, <2>3 DEF HInv
<1>2. CASE Publish
  <2>1. PICK day \in 1..today, nav \in Navs : navs' = [navs EXCEPT ![day] = nav]
    BY <1>2 DEF Publish
  <2>2. today' = today /\ opened' = opened /\ entries' = entries
    BY <1>2 DEF Publish
  <2>3. navs' \in [Days -> Navs \cup {NoNav}]
    BY <2>1 DEF HInv, NavsOf
  <2>4. NavDays(navs') \subseteq 1..today
    BY <2>1 DEF HInv, NavsOf, NavDays
  <2>5. NavsOf(today', navs')
    BY <2>2, <2>3, <2>4 DEF HInv, NavsOf
  <2> QED BY <2>2, <2>5 DEF HInv
<1>3. CASE Create
  <2>1. PICK day \in OccurDays, cash \in Cash :
          LET nav    == ResolveNavForOccur(navs, day, NoNav)
              shares == SharesFromCash(cash, nav)
          IN shares > 0 /\ InsertLedger("buy", day, cash, shares, nav)
    BY <1>3 DEF Create
  <2> DEFINE nav == ResolveNavForOccur(navs, day, NoNav)
             shares == SharesFromCash(cash, nav)
  <2>2. day \in Days /\ cash \in Nat /\ cash \in Int
    BY OccurDayTyped, InputsAssumption DEF HInv, NavsOf
  <2>3. nav \in Nat
    BY <2>2, ResolveTyped DEF HInv, NavsOf
  <2>4. shares \in Nat /\ shares > 0 /\ InsertLedger("buy", day, cash, shares, nav)
    <3> HIDE DEF nav
    <3>1. shares \in Nat
      BY <2>2, <2>3, SharesTyped
    <3> QED BY <2>1, <3>1 DEF nav
  <2> HIDE DEF nav, shares
  <2>5. Listed(entries')
    BY <2>2, <2>3, <2>4, InsertStep DEF HInv
  <2>6. today' = today /\ navs' = navs /\ opened' = TRUE
    BY <1>3 DEF Create
  <2> QED BY <2>5, <2>6 DEF HInv
<1>4. ASSUME NEW cumulative \in Declared, CreateDeclared(cumulative) PROVE HInv'
  <2>1. PICK day \in OccurDays, cash \in Cash :
          LET buy == ImpliedBuy(cash, cumulative, LatestNav(navs))
          IN buy.shares > 0 /\ InsertLedger("buy", day, cash, buy.shares, buy.nav)
    BY <1>4 DEF CreateDeclared
  <2> DEFINE buy == ImpliedBuy(cash, cumulative, LatestNav(navs))
  <2>2. day \in Days /\ cash \in Nat /\ cumulative \in Int
    BY OccurDayTyped, InputsAssumption DEF HInv, NavsOf
  <2>3. LatestNav(navs) \in Nat
    <3>1. LatestNav(navs) \in Navs \cup {NoNav}
      BY LatestTyped DEF HInv, NavsOf, LatestNav
    <3> QED BY <3>1, NavsNat
  <2>4. buy.shares \in Nat /\ buy.nav \in Nat
    BY <2>2, <2>3, ImpliedTyped
  <2>5. buy.shares > 0 /\ InsertLedger("buy", day, cash, buy.shares, buy.nav)
    BY <2>1
  <2> HIDE DEF buy
  <2>6. Listed(entries')
    BY <2>2, <2>4, <2>5, InsertStep DEF HInv
  <2>7. today' = today /\ navs' = navs /\ opened' = TRUE
    BY <1>4 DEF CreateDeclared
  <2> QED BY <2>6, <2>7 DEF HInv
<1>5. CASE Buy
  <2>1. PICK day \in OccurDays, cash \in Cash, manual \in ManualNavs \cup {NoNav} :
          LET nav    == ResolveNavForOccur(navs, day, manual)
              shares == SharesFromCash(cash, nav)
          IN shares > 0 /\ InsertLedger("buy", day, cash, shares, nav)
    BY <1>5 DEF Buy
  <2> DEFINE nav == ResolveNavForOccur(navs, day, manual)
             shares == SharesFromCash(cash, nav)
  <2>2. day \in Days /\ cash \in Nat /\ cash \in Int
    BY OccurDayTyped, InputsAssumption DEF HInv, NavsOf
  <2>3. nav \in Nat
    BY <2>2, ResolveTyped DEF HInv, NavsOf
  <2>4. shares \in Nat /\ shares > 0 /\ InsertLedger("buy", day, cash, shares, nav)
    <3> HIDE DEF nav
    <3>1. shares \in Nat
      BY <2>2, <2>3, SharesTyped
    <3> QED BY <2>1, <3>1 DEF nav
  <2> HIDE DEF nav, shares
  <2>5. Listed(entries')
    BY <2>2, <2>3, <2>4, InsertStep DEF HInv
  <2>6. today' = today /\ navs' = navs /\ opened' = opened /\ opened
    BY <1>5 DEF Buy
  <2> QED BY <2>5, <2>6 DEF HInv
<1>6. CASE Redeem
  <2> DEFINE left == Replay(entries).st.SharesE8
  <2>1. PICK day \in OccurDays, manual \in ManualNavs \cup {NoNav} :
          LET nav    == ResolveNavForOccur(navs, day, manual)
              asked  == {left} \cup RedeemShares
                          \cup {SharesFromCash(cash, nav) : cash \in RedeemCash}
          IN \E shares \in asked :
               InsertLedger("redeem", day, CashFromShares(shares, nav), shares, nav)
    BY <1>6 DEF Redeem
  <2> DEFINE nav == ResolveNavForOccur(navs, day, manual)
             asked == {left} \cup RedeemShares
                        \cup {SharesFromCash(cash, nav) : cash \in RedeemCash}
  <2>2. day \in Days
    BY OccurDayTyped DEF HInv, NavsOf
  <2>3. nav \in Nat
    BY <2>2, ResolveTyped DEF HInv, NavsOf
  <2>4. PICK shares \in asked :
          InsertLedger("redeem", day, CashFromShares(shares, nav), shares, nav)
    BY <2>1
  <2>5. left \in Nat
    BY RemainingTyped DEF HInv, Listed
  <2> HIDE DEF nav, left
  <2>6. \A cash \in RedeemCash : SharesFromCash(cash, nav) \in Nat
    <3>1. \A cash \in RedeemCash : cash \in Int
      BY InputsAssumption
    <3> QED BY <2>3, <3>1, SharesTyped
  <2>7. shares \in Nat
    BY <2>5, <2>6, InputsAssumption
  <2> HIDE DEF asked
  <2>8. CashFromShares(shares, nav) \in Nat
    BY <2>3, <2>7, CashTyped
  <2>9. Listed(entries')
    BY <2>2, <2>3, <2>4, <2>7, <2>8, InsertStep DEF HInv
  <2>10. today' = today /\ navs' = navs /\ opened' = opened /\ opened
    BY <1>6 DEF Redeem
  <2> QED BY <2>9, <2>10 DEF HInv
<1>7. CASE Void
  <2>1. PICK i \in DOMAIN entries :
          entries[i].id = Len(entries) /\ entries' = RemoveAt(entries, i)
    BY <1>7 DEF Void
  <2>2. Listed(entries')
    BY <2>1, RemoveKeeps DEF HInv
  <2>3. today' = today /\ navs' = navs /\ opened' = opened
    BY <1>7 DEF Void
  <2>4. opened
    <3> SUFFICES ASSUME ~ opened PROVE FALSE
      BY DEF HInv
    <3>1. entries = <<>>
      BY DEF HInv
    <3> QED BY <2>1, <3>1
  <2> QED BY <2>2, <2>3, <2>4 DEF HInv
<1>8. CASE DeleteHolding
  <2>1. Listed(<<>>)
    <3>1. <<>> \in Seq(Counted) /\ DOMAIN <<>> = {} /\ Len(<<>>) = 0
      OBVIOUS
    <3>2. 1..0 = {}
      BY SMT
    <3>3. {<<>>[i].id : i \in DOMAIN <<>>} = 1..Len(<<>>)
      BY <3>1, <3>2
    <3> QED BY <3>1, <3>3 DEF Listed, InOrder
  <2> QED BY <1>8, <2>1 DEF HInv, DeleteHolding
<1>9. CASE UNCHANGED vars
  BY <1>9 DEF HInv, vars
<1> QED BY <1>1, <1>2, <1>3, <1>4, <1>5, <1>6, <1>7, <1>8, <1>9 DEF Next

\* The entries stay numbered and in the order of their days, and the NAVs in
\* their type, whatever is written, voided or published late.
THEOREM TypesAlways == Spec => []TypeOK
<1>1. Spec => []HInv
  BY InitHInv, StepHInv, PTL DEF Spec
<1> QED BY <1>1, HInvTypes, PTL

(* Sums of profits. *)

\* Elements that count for nothing do not change a sum.
LEMMA SumOverMore ==
  ASSUME NEW T, IsFiniteSet(T), NEW S \in SUBSET T, NEW w,
         \A x \in T : w[x] \in Int, \A x \in T \ S : w[x] = 0
  PROVE  SumOf(w, T) = SumOf(w, S)
<1> DEFINE B == {u \in SUBSET (T \ S) : SumOf(w, S \cup u) # SumOf(w, S)}
<1>1. B = {}
  <2> SUFFICES ASSUME B # {} PROVE FALSE
    OBVIOUS
  <2>1. IsFiniteSet(T \ S)
    BY FS_Subset
  <2>2. PICK u \in B : \A x \in u : u \ {x} \notin B
    <3>1. B \subseteq SUBSET (T \ S)
      OBVIOUS
    <3> HIDE DEF B
    <3> QED BY <2>1, <3>1, SmallestSubset
  <2>3. CASE u = {}
    <3>1. S \cup u = S
      BY <2>3
    <3> QED BY <3>1
  <2>4. CASE u # {}
    <3>1. PICK x \in u : TRUE
      BY <2>4
    <3> DEFINE R == S \cup (u \ {x})
    <3>2. SumOf(w, R) = SumOf(w, S)
      BY <2>2, <3>1
    <3>3. S \cup u = R \cup {x} /\ x \notin R /\ R \subseteq T /\ x \in T \ S
      BY <3>1
    <3>4. IsFiniteSet(R)
      <4> HIDE DEF R
      <4> QED BY <3>3, FS_Subset
    <3>5. \A y \in R \cup {x} : w[y] \in Int
      BY <3>3
    <3> HIDE DEF R
    <3>6. SumOf(w, R \cup {x}) = w[x] + SumOf(w, R)
      BY <3>3, <3>4, <3>5, SumAdd
    <3>7. SumOf(w, R) \in Int
      BY <3>4, <3>5, SumTyped
    <3>8. w[x] = 0
      BY <3>3
    <3>9. SumOf(w, R \cup {x}) = SumOf(w, R)
      BY <3>6, <3>7, <3>8
    <3>10. SumOf(w, S \cup u) = SumOf(w, R \cup {x})
      BY <3>3, Zenon
    <3> QED BY <3>2, <3>9, <3>10, Zenon
  <2> QED BY <2>3, <2>4
<1>2. (T \ S) \in SUBSET (T \ S) /\ S \cup (T \ S) = T
  OBVIOUS
<1>3. SumOf(w, S \cup (T \ S)) = SumOf(w, S)
  BY <1>1, <1>2
<1> QED BY <1>2, <1>3

\* The smallest element of a set of natural numbers.
LEMMA MinOf ==
  ASSUME NEW T, T \subseteq Nat, T # {}
  PROVE  Min(T) \in T /\ \A m \in T : Min(T) <= m
<1>1. \E n \in T : \A m \in T : n =< m
  BY SmallestIn
<1> QED BY <1>1 DEF Min

\* MulDiv is a number.
LEMMA MulDivInt ==
  ASSUME NEW a \in Int, NEW b \in Int, NEW d \in Nat \ {0}
  PROVE  MulDiv(a, b, d) \in Int
<1> DEFINE p == Abs(a) * Abs(b)
<1>1. Abs(a) \in Nat /\ Abs(b) \in Nat
  BY DEF Abs
<1>2. p \in Nat
  BY <1>1, ProductTyped
<1> HIDE DEF p
<1>3. p \div d \in Nat
  BY <1>2, QuotientTyped
<1>4. MulDiv(a, b, d) = IF (a < 0) # (b < 0) THEN -(p \div d) ELSE p \div d
  BY DEF MulDiv, p
<1> QED BY <1>3, <1>4

\* Before is a list of entries.
LEMMA BeforeTyped ==
  ASSUME NEW q \in Seq(Counted), NEW day
  PROVE  Before(q, day) \in Seq(Counted)
<1>1. PICK h : IsFilter(h, q, day) /\ Before(q, day) = h[Len(q)]
  BY BeforeRuns
<1>2. Len(q) \in 0..Len(q)
  OBVIOUS
<1> QED BY <1>1, <1>2 DEF IsFilter

\* The buys of a day, and what each gained until its evening.
BoughtOn(q, day) == {i \in DOMAIN q : q[i].kind = "buy" /\ q[i].day = day}

Gain(q, ns, day) == [i \in DOMAIN q |->
                       MulDiv(q[i].shares, ns[day] - q[i].nav, FenScale)]

\* BuyD is a sum in the sense of FoldProofs.
LEMMA BuyDIsSum ==
  ASSUME NEW q, NEW ns, NEW day
  PROVE  BuyD(q, ns, day) = SumOf(Gain(q, ns, day), BoughtOn(q, day))
<1> DEFINE S == BoughtOn(q, day)
           v(i) == MulDiv(q[i].shares, ns[day] - q[i].nav, FenScale)
           w == Gain(q, ns, day)
           R(g, s) == IF s = {} THEN 0 ELSE v(Some(s)) + g[s \ {Some(s)}]
<1>1. BuyD(q, ns, day) = (CHOOSE g : g = [s \in SUBSET S |-> R(g, s)])[S]
  BY DEF BuyD, BoughtOn, MapThenSumSet, MapThenFoldSet, Some
<1>2. ASSUME NEW g
      PROVE  [s \in SUBSET S |-> R(g, s)] = [s \in SUBSET S |-> SumRound(g, w, s)]
  <2>1. ASSUME NEW s \in SUBSET S PROVE R(g, s) = SumRound(g, w, s)
    <3>1. CASE s = {}
      BY <3>1 DEF SumRound
    <3>2. CASE s # {}
      <4>1. Some(s) \in DOMAIN q
        BY <3>2 DEF Some, BoughtOn
      <4>2. w[Some(s)] = v(Some(s))
        BY <4>1 DEF Gain
      <4> QED BY <3>2, <4>2 DEF SumRound
    <3> QED BY <3>1, <3>2
  <2> HIDE DEF R, S, w
  <2> QED BY <2>1
<1> HIDE DEF S, v, w, R
<1>3. (CHOOSE g : g = [s \in SUBSET S |-> R(g, s)])
        = (CHOOSE g : g = [s \in SUBSET S |-> SumRound(g, w, s)])
  BY <1>2, Zenon
<1>4. BuyD(q, ns, day) = SumOf(w, S)
  BY <1>1, <1>3, Zenon DEF SumOf, IsSum
<1> QED BY <1>4 DEF w, S

\* They are finitely many.
LEMMA BoughtOnFinite ==
  ASSUME NEW E, NEW q \in Seq(E), NEW day
  PROVE  IsFiniteSet(BoughtOn(q, day)) /\ BoughtOn(q, day) \subseteq DOMAIN q
<1>1. DOMAIN q = 1..Len(q) /\ Len(q) \in Nat
  OBVIOUS
<1>2. IsFiniteSet(DOMAIN q)
  BY <1>1, FS_Interval
<1>3. BoughtOn(q, day) \subseteq DOMAIN q
  BY DEF BoughtOn
<1> QED BY <1>2, <1>3, FS_Subset

\* What each gained is a number.
LEMMA GainTyped ==
  ASSUME NEW q \in Seq(Counted), NEW ns \in [Days -> Navs \cup {NoNav}], NEW day \in Days
  PROVE  \A i \in DOMAIN q : Gain(q, ns, day)[i] \in Int
<1> TAKE i \in DOMAIN q
<1>1. q[i] \in Counted
  OBVIOUS
<1>2. q[i].shares \in Int /\ q[i].nav \in Int
  BY <1>1 DEF Counted, Entry
<1>3. ns[day] \in Int
  BY NavsNat
<1>4. ns[day] - q[i].nav \in Int
  BY <1>2, <1>3
<1>5. MulDiv(q[i].shares, ns[day] - q[i].nav, FenScale) \in Int
  BY <1>2, <1>4, FenScaleAssumption, MulDivInt
<1> QED BY <1>5 DEF Gain

\* So is their sum.
LEMMA BuyDTyped ==
  ASSUME NEW q \in Seq(Counted), NEW ns \in [Days -> Navs \cup {NoNav}], NEW day \in Days
  PROVE  BuyD(q, ns, day) \in Int
<1>1. IsFiniteSet(BoughtOn(q, day)) /\ BoughtOn(q, day) \subseteq DOMAIN q
  BY BoughtOnFinite
<1>2. \A i \in BoughtOn(q, day) : Gain(q, ns, day)[i] \in Int
  BY <1>1, GainTyped
<1>3. SumOf(Gain(q, ns, day), BoughtOn(q, day)) \in Int
  BY <1>1, <1>2, SumTyped
<1> QED BY <1>3, BuyDIsSum

\* So is what the shares held at the opening gained.
LEMMA HoldTyped ==
  ASSUME NEW shares \in Int, NEW ns \in [Days -> Navs \cup {NoNav}], NEW day \in Days
  PROVE  Hold(shares, ns, day) \in Int
<1>1. {d \in NavDays(ns) : d < day} \in SUBSET NavDays(ns)
  OBVIOUS
<1>2. PrevNav(ns, day) \in Navs \cup {NoNav}
  BY <1>1, LatestTyped DEF PrevNav
<1>3. ns[day] \in Int /\ PrevNav(ns, day) \in Int
  BY <1>2, NavsNat
<1>4. ns[day] - PrevNav(ns, day) \in Int
  BY <1>3
<1>5. MulDiv(shares, ns[day] - PrevNav(ns, day), FenScale) \in Int
  BY <1>4, FenScaleAssumption, MulDivInt
<1> QED BY <1>5 DEF Hold

\* The profit of a day is a number, and none of a day without a NAV.
LEMMA DailyTyped ==
  ASSUME NEW q \in Seq(Counted), NEW ns \in [Days -> Navs \cup {NoNav}], NEW day
  PROVE  /\ DailyPnl(q, ns, day) \in Int
         /\ day \notin NavDays(ns) => DailyPnl(q, ns, day) = 0
<1>1. CASE NavOn(ns, day) = NoNav \/ AtOpen(q, day).err
  <2>1. DailyPnl(q, ns, day) = 0
    BY <1>1 DEF DailyPnl
  <2> QED BY <2>1
<1>2. CASE ~ (NavOn(ns, day) = NoNav \/ AtOpen(q, day).err)
  <2>1. day \in NavDays(ns) /\ day \in Days
    BY <1>2 DEF NavOn, NavDays
  <2>2. AtOpen(q, day).st.SharesE8 \in Int
    <3>1. AtOpen(q, day).st.SharesE8 \in Nat
      BY BeforeTyped, RemainingTyped DEF AtOpen
    <3> QED BY <3>1
  <2>3. Hold(AtOpen(q, day).st.SharesE8, ns, day) \in Int
    BY <2>1, <2>2, HoldTyped
  <2>4. BuyD(q, ns, day) \in Int
    BY <2>1, BuyDTyped
  <2>5. DailyPnl(q, ns, day) = Hold(AtOpen(q, day).st.SharesE8, ns, day) + BuyD(q, ns, day)
    BY <1>2 DEF DailyPnl
  <2> QED BY <2>1, <2>3, <2>4, <2>5
<1> QED BY <1>1, <1>2

\* The profits of a set of days.
Daily(q, ns, S) == [d \in S |-> DailyPnl(q, ns, d)]

\* A sum of profits over a set of days is one in the sense of FoldProofs.
LEMMA DailySum ==
  ASSUME NEW q, NEW ns
  PROVE  CollectedDailySum(q, ns) = SumOf(Daily(q, ns, NavDays(ns)), NavDays(ns))
<1> DEFINE S == NavDays(ns)
           v(d) == DailyPnl(q, ns, d)
           w == Daily(q, ns, S)
           R(g, s) == IF s = {} THEN 0 ELSE v(Some(s)) + g[s \ {Some(s)}]
<1>1. CollectedDailySum(q, ns) = (CHOOSE g : g = [s \in SUBSET S |-> R(g, s)])[S]
  BY DEF CollectedDailySum, MapThenSumSet, MapThenFoldSet, Some
<1>2. ASSUME NEW g
      PROVE  [s \in SUBSET S |-> R(g, s)] = [s \in SUBSET S |-> SumRound(g, w, s)]
  <2>1. ASSUME NEW s \in SUBSET S PROVE R(g, s) = SumRound(g, w, s)
    <3>1. CASE s = {}
      BY <3>1 DEF SumRound
    <3>2. CASE s # {}
      <4> HIDE DEF S, v
      <4>1. Some(s) \in S
        BY <3>2 DEF Some
      <4>2. w[Some(s)] = v(Some(s))
        BY <4>1 DEF Daily, v
      <4> QED BY <3>2, <4>2 DEF SumRound
    <3> QED BY <3>1, <3>2
  <2> HIDE DEF R, S, w
  <2> QED BY <2>1
<1> HIDE DEF S, v, w, R
<1>3. (CHOOSE g : g = [s \in SUBSET S |-> R(g, s)])
        = (CHOOSE g : g = [s \in SUBSET S |-> SumRound(g, w, s)])
  BY <1>2, Zenon
<1>4. CollectedDailySum(q, ns) = SumOf(w, S)
  BY <1>1, <1>3, Zenon DEF SumOf, IsSum
<1> QED BY <1>4 DEF w, S

\* The sum of the rows of the calendar.
CalendarSum ==
    LET rows == CalendarRows
        Part(d) == rows[d].pnl
    IN MapThenSumSet(Part, DOMAIN rows)

\* It is a sum in the sense of FoldProofs.
LEMMA CalendarSumIs ==
  CalendarSum = SumOf(Daily(entries, navs, CalendarFrom..today), CalendarFrom..today)
<1> DEFINE rows == CalendarRows
           S == CalendarFrom..today
           v(d) == rows[d].pnl
           w == Daily(entries, navs, S)
           R(g, s) == IF s = {} THEN 0 ELSE v(Some(s)) + g[s \ {Some(s)}]
<1>0. DOMAIN rows = S
  BY DEF CalendarRows, CalendarPnl, CalendarDays
<1>1. CalendarSum = (CHOOSE g : g = [s \in SUBSET DOMAIN rows |-> R(g, s)])[DOMAIN rows]
  BY DEF CalendarSum, MapThenSumSet, MapThenFoldSet, Some
<1>2. ASSUME NEW g
      PROVE  [s \in SUBSET S |-> R(g, s)] = [s \in SUBSET S |-> SumRound(g, w, s)]
  <2>1. ASSUME NEW s \in SUBSET S PROVE R(g, s) = SumRound(g, w, s)
    <3>1. CASE s = {}
      BY <3>1 DEF SumRound
    <3>2. CASE s # {}
      <4>1. Some(s) \in S
        <5> HIDE DEF S
        <5> QED BY <3>2 DEF Some
      <4>2. w[Some(s)] = v(Some(s))
        BY <4>1 DEF Daily, CalendarRows, CalendarPnl, CalendarDays
      <4> QED BY <3>2, <4>2 DEF SumRound
    <3> QED BY <3>1, <3>2
  <2> HIDE DEF R, S, w
  <2> QED BY <2>1
<1> HIDE DEF S, v, w, R, rows
<1>3. (CHOOSE g : g = [s \in SUBSET S |-> R(g, s)])
        = (CHOOSE g : g = [s \in SUBSET S |-> SumRound(g, w, s)])
  BY <1>2, Zenon
<1>4. CalendarSum = SumOf(w, S)
  BY <1>0, <1>1, <1>3, Zenon DEF SumOf, IsSum
<1> QED BY <1>4 DEF w, S

\* The calendar has every day with a NAV.
LEMMA CalendarCovers ==
  ASSUME HInv
  PROVE  /\ CalendarFrom \in Nat
         /\ NavDays(navs) \subseteq CalendarFrom..today
<1> DEFINE X == {today} \cup NavDays(navs) \cup {entries[i].day : i \in DOMAIN entries}
<1>1. today \in Days /\ NavDays(navs) \subseteq 1..today /\ Days \subseteq Nat
  BY InputsAssumption DEF HInv, NavsOf, Days
<1>2. \A i \in DOMAIN entries : entries[i].day \in Nat
  <2>1. \A i \in DOMAIN entries : entries[i] \in Counted
    BY DEF HInv, Listed
  <2> QED BY <1>1, <2>1 DEF Counted, Entry
<1>3. X \subseteq Nat /\ X # {} /\ NavDays(navs) \subseteq X
  BY <1>1, <1>2
<1>4. CalendarFrom = Min(X)
  BY DEF CalendarFrom
<1> HIDE DEF X
<1>5. Min(X) \in Nat /\ \A m \in X : Min(X) <= m
  BY <1>3, MinOf
<1>6. \A d \in NavDays(navs) : d \in CalendarFrom..today
  BY <1>1, <1>3, <1>4, <1>5
<1> QED BY <1>4, <1>5, <1>6

\* The invariant is enough for the calendar to add up.
LEMMA CalendarHolds == HInv => CalendarAddsUp
<1> SUFFICES ASSUME HInv PROVE CalendarAddsUp
  OBVIOUS
<1> DEFINE T == CalendarFrom..today
           S == NavDays(navs)
           w == Daily(entries, navs, T)
           v == Daily(entries, navs, S)
<1>1. S \in SUBSET T /\ CalendarFrom \in Nat /\ today \in Nat
  BY CalendarCovers, InputsAssumption DEF HInv, NavsOf, Days
<1>2. IsFiniteSet(T)
  BY <1>1, FS_Interval
<1>3. IsFiniteSet(S)
  <2> HIDE DEF T, S
  <2> QED BY <1>1, <1>2, FS_Subset
<1>4. entries \in Seq(Counted) /\ navs \in [Days -> Navs \cup {NoNav}]
  BY DEF HInv, Listed, NavsOf
<1>5. \A d \in T : w[d] \in Int /\ (d \notin S => w[d] = 0)
  BY <1>4, DailyTyped DEF Daily
<1>6. \A d \in S : w[d] = v[d]
  BY <1>1 DEF Daily
<1>7. SumOf(w, T) = SumOf(w, S)
  <2> HIDE DEF T, S, w
  <2> QED BY <1>1, <1>2, <1>5, SumOverMore
<1>8. SumOf(w, S) = SumOf(v, S)
  <2> HIDE DEF S, w, v
  <2> QED BY <1>3, <1>6, SumSame
<1>9. CalendarSum = CollectedDailySum(entries, navs)
  <2>1. CalendarSum = SumOf(w, T)
    BY CalendarSumIs
  <2>2. CollectedDailySum(entries, navs) = SumOf(v, S)
    BY DailySum
  <2> QED BY <1>7, <1>8, <2>1, <2>2, Zenon
<1> QED BY <1>9, Zenon DEF CalendarAddsUp, CalendarSum

\* The rows of the calendar always add up to the days collected: no NAV is
\* left out, and the days that hang at zero are zero.
THEOREM CalendarAddsUpAlways == Spec => []CalendarAddsUp
<1>1. Spec => []HInv
  BY InitHInv, StepHInv, PTL DEF Spec
<1> QED BY <1>1, CalendarHolds, PTL

-----------------------------------------------------------------------------
(* What is dated today. *)

\* The buys of a day are those of any first entries that have them all.
LEMMA BoughtOnPrefix ==
  ASSUME NEW q \in Seq(Counted), NEW n \in 0..Len(q), NEW day,
         \A i \in (n + 1)..Len(q) : q[i].day # day
  PROVE  /\ BoughtOn(SubSeq(q, 1, n), day) = BoughtOn(q, day)
         /\ \A ns : BuyD(SubSeq(q, 1, n), ns, day) = BuyD(q, ns, day)
<1> DEFINE p == SubSeq(q, 1, n)
<1>1. p \in Seq(Counted) /\ Len(p) = n /\ \A i \in 1..n : p[i] = q[i]
  BY Prefix
<1>2. DOMAIN q = 1..Len(q) /\ Len(q) \in Nat
  OBVIOUS
<1>3. DOMAIN p = 1..n
  <2>1. DOMAIN p = 1..Len(p)
    BY <1>1
  <2> QED BY <1>1, <2>1
<1> HIDE DEF p
<1>4. BoughtOn(p, day) = BoughtOn(q, day)
  <2>1. ASSUME NEW i \in BoughtOn(q, day) PROVE i \in BoughtOn(p, day)
    <3>1. i \in 1..Len(q) /\ q[i].day = day /\ q[i].kind = "buy"
      BY <1>2 DEF BoughtOn
    <3>2. i \in 1..n
      BY <1>2, <3>1
    <3> QED BY <1>1, <1>3, <3>1, <3>2 DEF BoughtOn
  <2>2. ASSUME NEW i \in BoughtOn(p, day) PROVE i \in BoughtOn(q, day)
    <3>1. i \in 1..n /\ p[i].day = day /\ p[i].kind = "buy"
      BY <1>3 DEF BoughtOn
    <3>2. i \in DOMAIN q
      BY <1>2, <3>1
    <3> QED BY <1>1, <3>1, <3>2 DEF BoughtOn
  <2> QED BY <2>1, <2>2
<1>5. ASSUME NEW ns PROVE BuyD(p, ns, day) = BuyD(q, ns, day)
  <2> DEFINE S == BoughtOn(q, day)
  <2>1. IsFiniteSet(S) /\ S \subseteq DOMAIN q
    BY BoughtOnFinite
  <2>2. \A i \in S : i \in DOMAIN p /\ p[i] = q[i]
    BY <1>1, <1>3, <1>4 DEF BoughtOn
  <2> HIDE DEF S
  <2>3. \A i \in S : Gain(p, ns, day)[i] = Gain(q, ns, day)[i]
    BY <2>1, <2>2 DEF Gain
  <2>4. SumOf(Gain(p, ns, day), S) = SumOf(Gain(q, ns, day), S)
    BY <2>1, <2>3, SumSame
  <2> QED BY <1>4, <2>4, BuyDIsSum DEF S
<1> QED BY <1>4, <1>5 DEF p

\* The entries before a day are the first ones of a list that is in order.
LEMMA BeforeIs ==
  ASSUME NEW q \in Seq(Counted), InOrder(q), NEW day \in Int
  PROVE  \E n : FirstBefore(q, n, day) /\ Before(q, day) = SubSeq(q, 1, n)
<1>1. day - 1 \in Int
  OBVIOUS
<1>2. PICK n \in 0..Len(q) :
        /\ {i \in DOMAIN q : q[i].day <= day - 1} = 1..n
        /\ \A i \in (n + 1)..Len(q) : ~ (q[i].day <= day - 1)
  BY <1>1, UpToIsPrefix
<1>3. DOMAIN q = 1..Len(q) /\ \A i \in 1..Len(q) : q[i].day \in Int
  <2>1. \A i \in 1..Len(q) : q[i] \in Counted
    BY ElementOfSeq
  <2> QED BY <2>1 DEF Counted, Entry, Days
<1>4. \A i \in 1..Len(q) : q[i].day < day <=> q[i].day <= day - 1
  BY <1>3
<1>5. \A i \in 1..n : i \in 1..Len(q) /\ q[i].day <= day - 1
  BY <1>2
<1>6. \A i \in (n + 1)..Len(q) : i \in 1..Len(q)
  OBVIOUS
<1>7. FirstBefore(q, n, day)
  BY <1>2, <1>4, <1>5, <1>6 DEF FirstBefore
<1> QED BY <1>7, BeforeIsPrefix

\* The first entries of the first entries.
LEMMA PrefixOfPrefix ==
  ASSUME NEW E, NEW q \in Seq(E), NEW n \in 0..Len(q), NEW m \in 0..n
  PROVE  SubSeq(SubSeq(q, 1, n), 1, m) = SubSeq(q, 1, m)
<1> DEFINE p == SubSeq(q, 1, n)
           r == SubSeq(q, 1, m)
<1>1. p \in Seq(E) /\ Len(p) = n /\ \A i \in 1..n : p[i] = q[i]
  BY Prefix
<1>2. m \in 0..Len(q)
  OBVIOUS
<1>3. r \in Seq(E) /\ Len(r) = m /\ \A i \in 1..m : r[i] = q[i]
  BY <1>2, Prefix
<1> HIDE DEF p, r
<1> DEFINE s == SubSeq(p, 1, m)
<1>4. m \in 0..Len(p)
  BY <1>1
<1>5. s \in Seq(E) /\ Len(s) = m /\ \A i \in 1..m : s[i] = p[i]
  BY <1>1, <1>4, Prefix
<1> HIDE DEF s
<1>6. \A i \in 1..m : s[i] = r[i]
  <2> TAKE i \in 1..m
  <2>1. i \in 1..n
    OBVIOUS
  <2> QED BY <1>1, <1>3, <1>5, <2>1
<1>7. s = r
  BY <1>3, <1>5, <1>6, SeqEqual
<1> QED BY <1>7 DEF s, p, r

\* Entries of today make no difference to an earlier day.
LEMMA BeforeTwice ==
  ASSUME NEW q \in Seq(Counted), InOrder(q), NEW now \in Int, NEW day \in Int,
         day < now
  PROVE  /\ Before(Before(q, now), day) = Before(q, day)
         /\ \A ns : BuyD(Before(q, now), ns, day) = BuyD(q, ns, day)
<1>1. PICK n : FirstBefore(q, n, now) /\ Before(q, now) = SubSeq(q, 1, n)
  BY BeforeIs
<1>2. PICK m : FirstBefore(q, m, day) /\ Before(q, day) = SubSeq(q, 1, m)
  BY BeforeIs
<1>3. Len(q) \in Nat /\ \A i \in 1..Len(q) : q[i].day \in Int
  <2>1. \A i \in 1..Len(q) : q[i] \in Counted
    BY ElementOfSeq
  <2> QED BY <2>1 DEF Counted, Entry, Days
<1>4. n \in 0..Len(q) /\ m \in 0..Len(q)
  BY <1>1, <1>2 DEF FirstBefore
<1>5. \A i \in (n + 1)..Len(q) : ~ (q[i].day < day) /\ q[i].day # day
  <2> TAKE i \in (n + 1)..Len(q)
  <2>1. i \in 1..Len(q)
    BY <1>4
  <2>2. ~ (q[i].day < now)
    BY <1>1 DEF FirstBefore
  <2> QED BY <1>3, <2>1, <2>2
<1>6. m <= n
  <2> SUFFICES ASSUME ~ (m <= n) PROVE FALSE
    OBVIOUS
  <2>1. n + 1 \in (n + 1)..Len(q) /\ n + 1 \in 1..m
    BY <1>4
  <2>2. q[n + 1].day < day
    BY <1>2, <2>1 DEF FirstBefore
  <2> QED BY <1>5, <2>1, <2>2
<1> DEFINE p == SubSeq(q, 1, n)
<1>7. p \in Seq(Counted) /\ Len(p) = n /\ \A i \in 1..n : p[i] = q[i]
  BY <1>4, Prefix
<1>8. FirstBefore(p, m, day)
  <2>1. m \in 0..Len(p)
    BY <1>4, <1>6, <1>7
  <2>2. \A i \in 1..m : i \in 1..n /\ q[i].day < day
    BY <1>2, <1>4, <1>6 DEF FirstBefore
  <2>3. \A i \in (m + 1)..n : i \in (m + 1)..Len(q) /\ i \in 1..n
    BY <1>4
  <2>4. \A i \in (m + 1)..Len(q) : ~ (q[i].day < day)
    BY <1>2 DEF FirstBefore
  <2> HIDE DEF p
  <2>5. \A i \in 1..m : p[i].day < day
    BY <1>7, <2>2
  <2>6. \A i \in (m + 1)..n : ~ (p[i].day < day)
    BY <1>7, <2>3, <2>4
  <2> QED BY <1>7, <2>1, <2>5, <2>6 DEF FirstBefore
<1>9. Before(p, day) = SubSeq(p, 1, m)
  <2> HIDE DEF p
  <2> QED BY <1>7, <1>8, BeforeIsPrefix
<1>10. SubSeq(p, 1, m) = SubSeq(q, 1, m)
  <2>1. m \in 0..n
    BY <1>4, <1>6
  <2> QED BY <1>4, <2>1, PrefixOfPrefix
<1>11. \A ns : BuyD(p, ns, day) = BuyD(q, ns, day)
  <2>1. \A i \in (n + 1)..Len(q) : q[i].day # day
    BY <1>5
  <2> QED BY <1>4, <2>1, BoughtOnPrefix
<1> QED BY <1>1, <1>2, <1>9, <1>10, <1>11, Zenon

\* The invariant is enough for the display date to leave today out, as long
\* as the display lags.
LEMMA TodayHolds ==
  ASSUME DisplayLagDays > 0, HInv
  PROVE  TodayNotInDaily
<1> DEFINE days == {d \in NavDays(navs) : d <= today - DisplayLagDays}
           display == DisplayDate(navs, today, DisplayLagDays)
           p == Before(entries, today)
<1>1. today \in Nat /\ DisplayLagDays \in Nat /\ NavDays(navs) \subseteq 1..today
  BY InputsAssumption DEF HInv, NavsOf, Days
<1>2. CASE days = {}
  <2>1. display = NoDay
    BY <1>2 DEF DisplayDate
  <2> QED BY <2>1 DEF TodayNotInDaily, DailyPnlFen
<1>3. CASE days # {}
  <2>1. display = Max(days)
    BY <1>3 DEF DisplayDate
  <2>2. Max(days) \in days
    <3>1. days \in SUBSET Nat /\ \A d \in days : d <= today
      BY <1>1
    <3> HIDE DEF days
    <3> QED BY <1>1, <1>3, <3>1, MaxOfBounded
  <2>3. display \in Int /\ display < today /\ display # NoDay
    BY <1>1, <2>1, <2>2 DEF NoDay
  <2>4. entries \in Seq(Counted) /\ InOrder(entries)
    BY DEF HInv, Listed
  <2> HIDE DEF display, days
  <2>5. today \in Int
    BY <1>1
  <2>6. /\ Before(p, display) = Before(entries, display)
        /\ BuyD(p, navs, display) = BuyD(entries, navs, display)
    BY <2>3, <2>4, <2>5, BeforeTwice
  <2> HIDE DEF p
  <2>7. DailyPnl(p, navs, display) = DailyPnl(entries, navs, display)
    BY <2>6, Zenon DEF DailyPnl, AtOpen
  <2>8. \A list : DailyPnlFen(list) = DailyPnl(list, navs, display)
    BY <2>3, Zenon DEF DailyPnlFen, display
  <2> QED BY <2>7, <2>8, Zenon DEF TodayNotInDaily, p
<1> QED BY <1>2, <1>3

\* With a display that lags by a day or more (config.DisplayLagDays, 1 by
\* default), an entry of today and its void never move the daily profit shown.
THEOREM TodayNotInDailyAlways ==
  ASSUME DisplayLagDays > 0 PROVE Spec => []TodayNotInDaily
<1>1. Spec => []HInv
  BY InitHInv, StepHInv, PTL DEF Spec
<1>2. HInv => TodayNotInDaily
  BY TodayHolds
<1> QED BY <1>1, <1>2, PTL

-----------------------------------------------------------------------------

(* The segment since the account was last empty. *)

\* An error stays: where the last entry finds none, none did.
LEMMA NoErrorBefore ==
  ASSUME NEW q \in Seq(Counted), NEW h, IsRun(h, q), ~ h[Len(q)].err
  PROVE  \A n \in 0..Len(q) : h[n].err = FALSE
<1> DEFINE N == Len(q)
           T == {k \in 0..N : h[N - k].err = FALSE}
<1>1. N \in Nat /\ \A n \in 0..N : h[n].err \in BOOLEAN
  <2>1. \A n \in 0..N : h[n] \in Accounts
    BY DEF IsRun
  <2> QED BY <2>1 DEF Accounts
<1>2. T \subseteq Nat
  OBVIOUS
<1>3. 0 \in T
  <2>1. N - 0 = N /\ N \in 0..N
    BY <1>1
  <2>2. h[N].err = FALSE
    BY <1>1, <2>1
  <2> QED BY <2>1, <2>2
<1>4. ASSUME NEW k \in 1..N, k - 1 \in T PROVE k \in T
  <2> DEFINE n == N - k
  <2>1. n + 1 \in 1..N /\ (n + 1) - 1 = n /\ N - (k - 1) = n + 1 /\ n \in 0..N
    BY <1>1
  <2>2. h[n + 1].err = FALSE
    BY <1>4, <2>1
  <2>3. h[n + 1] = ReplayStep(h[n], q[n + 1])
    <3> HIDE DEF n, N
    <3>1. h[n + 1] = ReplayStep(h[(n + 1) - 1], q[n + 1])
      BY <2>1 DEF IsRun, N
    <3> QED BY <2>1, <3>1
  <2> HIDE DEF n
  <2>4. h[n].err = FALSE
    <3>1. CASE h[n].err
      BY <2>2, <2>3, <3>1 DEF ReplayStep
    <3>2. CASE ~ h[n].err
      BY <1>1, <2>1, <3>2
    <3> QED BY <3>1, <3>2
  <2> QED BY <2>4 DEF n
<1>5. \A k \in 0..N : k \in T
  <2> HIDE DEF T
  <2> QED BY <1>1, <1>2, <1>3, <1>4, InductionUpTo
<1>6. ASSUME NEW n \in 0..N PROVE h[n].err = FALSE
  <2>1. N - n \in 0..N /\ N - (N - n) = n
    BY <1>1
  <2>2. N - n \in T
    BY <1>5, <2>1
  <2> QED BY <2>1, <2>2
<1> QED BY <1>6

\* A step of the replay that meets no error.
Clean(r, e, z) ==
  \/ /\ e.kind = "buy"
     /\ z.st = AfterBuy(r.st, e.cash, e.shares)
  \/ /\ e.kind = "redeem"
     /\ ~ (e.shares > r.st.SharesE8) /\ r.st.SharesE8 # 0
     /\ z.st = AfterRedeem(r.st, e.cash, e.shares)

\* Every round that goes from no error to no error is one.
LEMMA CleanStep ==
  ASSUME NEW r \in Accounts, NEW e \in Counted, NEW z, z = ReplayStep(r, e),
         r.err = FALSE, z.err = FALSE
  PROVE  Clean(r, e, z)
<1>1. e.kind \in {"buy", "redeem"}
  BY DEF Counted, Entry
<1>2. CASE e.kind = "buy"
  BY <1>2 DEF ReplayStep, Accounts, Clean
<1>3. CASE e.kind # "buy" /\ (e.shares > r.st.SharesE8 \/ r.st.SharesE8 = 0)
  BY <1>3 DEF ReplayStep, Accounts, Clean
<1>4. CASE e.kind # "buy" /\ ~ (e.shares > r.st.SharesE8 \/ r.st.SharesE8 = 0)
  BY <1>1, <1>4 DEF ReplayStep, Accounts, Clean
<1> QED BY <1>2, <1>3, <1>4

\* Shares are counted as Replay counts them, as long as it finds no error.
LEMMA CountIsShares ==
  ASSUME NEW q \in Seq(Counted), NEW h, IsRun(h, q), ~ h[Len(q)].err
  PROVE  \A n \in 0..Len(q) : RunningShares(q, n) = h[n].st.SharesE8
<1>1. \A n \in 0..Len(q) : h[n].err = FALSE /\ h[n] \in Accounts
  BY NoErrorBefore DEF IsRun
<1> SUFFICES ASSUME NEW n \in 0..Len(q)
             PROVE  RunningShares(q, n) = h[n].st.SharesE8
  OBVIOUS
<1> DEFINE p == SubSeq(q, 1, n)
<1>2. p \in Seq(Counted) /\ Len(p) = n /\ \A i \in 1..n : p[i] = q[i]
  BY Prefix
<1>3. RunningShares(q, n) = Counting(p)
  BY DEF RunningShares, Counting
<1> HIDE DEF p
<1>4. PICK c : IsCount(c, p) /\ Counting(p) = c[Len(p)]
  BY <1>2, CountRuns
<1> DEFINE T == {k \in 0..n : c[k] = h[k].st.SharesE8}
<1>5. T \subseteq Nat /\ n \in Nat
  OBVIOUS
<1>6. 0 \in T
  <2>1. c[0] = 0 /\ h[0] = Start
    BY <1>4 DEF IsCount, IsRun
  <2> QED BY <2>1 DEF Start, NoPosition
<1>7. ASSUME NEW k \in 1..n, k - 1 \in T PROVE k \in T
  <2>1. k - 1 \in 0..Len(q) /\ k \in 0..Len(q) /\ k \in 1..Len(q) /\ k \in 1..Len(p)
    BY <1>2
  <2>2. q[k] \in Counted /\ p[k] = q[k]
    BY <1>2, <2>1, ElementOfSeq
  <2>3. h[k] = ReplayStep(h[k - 1], q[k])
    BY <2>1 DEF IsRun
  <2>4. h[k - 1] \in Accounts /\ h[k - 1].err = FALSE /\ h[k].err = FALSE
    BY <1>1, <2>1
  <2>5. \/ /\ q[k].kind = "buy"
           /\ h[k].st = AfterBuy(h[k - 1].st, q[k].cash, q[k].shares)
        \/ /\ q[k].kind = "redeem"
           /\ h[k].st = AfterRedeem(h[k - 1].st, q[k].cash, q[k].shares)
    BY <2>2, <2>3, <2>4, CleanStep DEF Clean
  <2>6. h[k - 1].st \in Fields
    BY <2>4 DEF Accounts, Positions
  <2>7. q[k].cash \in Nat /\ q[k].shares \in Nat
    BY <2>2 DEF Counted, Entry
  <2>8. c[k - 1] = h[k - 1].st.SharesE8
    BY <1>7
  <2>9. c[k] = IF q[k].kind = "buy" THEN c[k - 1] + q[k].shares
                                    ELSE c[k - 1] - q[k].shares
    BY <1>4, <2>1, <2>2 DEF IsCount
  <2>10. CASE q[k].kind = "buy" /\ h[k].st = AfterBuy(h[k - 1].st, q[k].cash, q[k].shares)
    <3>1. h[k].st.SharesE8 = h[k - 1].st.SharesE8 + q[k].shares
      BY <2>6, <2>7, <2>10, BuyForm
    <3> QED BY <2>8, <2>9, <2>10, <3>1
  <2>11. CASE /\ q[k].kind = "redeem"
              /\ h[k].st = AfterRedeem(h[k - 1].st, q[k].cash, q[k].shares)
    <3>1. h[k].st.SharesE8 = h[k - 1].st.SharesE8 - q[k].shares
      BY <2>6, <2>7, <2>11, RedeemForm
    <3> QED BY <2>8, <2>9, <2>11, <3>1
  <2> QED BY <2>5, <2>10, <2>11
<1>8. \A k \in 0..n : k \in T
  <2> HIDE DEF T
  <2> QED BY <1>5, <1>6, <1>7, InductionUpTo
<1>9. n \in T
  BY <1>8
<1> QED BY <1>2, <1>3, <1>4, <1>9

\* The accounts a and b of an empty past and of what follows make up c.
AddsUp(a, b, c) ==
    /\ c.SharesE8 = b.SharesE8
    /\ c.CostFen = b.CostFen
    /\ c.RealizedFen = a.RealizedFen + b.RealizedFen
    /\ c.TotalBuyFen = a.TotalBuyFen + b.TotalBuyFen

\* A buy adds the same to the whole as to what follows the past.
LEMMA AddsUpBuy ==
  ASSUME NEW a \in Positions, NEW b \in Positions, NEW c \in Positions,
         AddsUp(a, b, c), NEW cash \in Nat, NEW shares \in Nat
  PROVE  AddsUp(a, AfterBuy(b, cash, shares), AfterBuy(c, cash, shares))
<1> DEFINE x == AfterBuy(b, cash, shares)
           y == AfterBuy(c, cash, shares)
<1>1. a \in Fields /\ b \in Fields /\ c \in Fields
  BY DEF Positions
<1>2. x = [SharesE8 |-> b.SharesE8 + shares, CostFen |-> b.CostFen + cash,
           RealizedFen |-> b.RealizedFen, TotalBuyFen |-> b.TotalBuyFen + cash,
           TotalRedeemFen |-> b.TotalRedeemFen]
  BY <1>1, BuyForm
<1>3. y = [SharesE8 |-> c.SharesE8 + shares, CostFen |-> c.CostFen + cash,
           RealizedFen |-> c.RealizedFen, TotalBuyFen |-> c.TotalBuyFen + cash,
           TotalRedeemFen |-> c.TotalRedeemFen]
  BY <1>1, BuyForm
<1> HIDE DEF x, y
<1>4. AddsUp(a, x, y)
  BY <1>1, <1>2, <1>3 DEF AddsUp, Fields
<1> QED BY <1>4 DEF x, y

\* So does a redemption: the shares are the same, so is the cost it takes.
LEMMA AddsUpRedeem ==
  ASSUME NEW a \in Positions, NEW b \in Positions, NEW c \in Positions,
         AddsUp(a, b, c), NEW cash \in Nat, NEW shares \in Nat, c.SharesE8 # 0
  PROVE  AddsUp(a, AfterRedeem(b, cash, shares), AfterRedeem(c, cash, shares))
<1> DEFINE x == AfterRedeem(b, cash, shares)
           y == AfterRedeem(c, cash, shares)
           cost == AmortizedCost(c, shares)
<1>1. a \in Fields /\ b \in Fields /\ c \in Fields
  BY DEF Positions
<1>2. AmortizedCost(b, shares) = cost
  BY DEF AddsUp, AmortizedCost
<1>3. cost \in Int
  BY AmortizedTyped
<1>4. x = [SharesE8 |-> b.SharesE8 - shares, CostFen |-> b.CostFen - cost,
           RealizedFen |-> b.RealizedFen + cash - cost,
           TotalBuyFen |-> b.TotalBuyFen,
           TotalRedeemFen |-> b.TotalRedeemFen + cash]
  <2> HIDE DEF cost
  <2> QED BY <1>1, <1>2, RedeemForm
<1>5. y = [SharesE8 |-> c.SharesE8 - shares, CostFen |-> c.CostFen - cost,
           RealizedFen |-> c.RealizedFen + cash - cost,
           TotalBuyFen |-> c.TotalBuyFen,
           TotalRedeemFen |-> c.TotalRedeemFen + cash]
  BY <1>1, RedeemForm
<1> HIDE DEF x, y, cost
<1>6. AddsUp(a, x, y)
  BY <1>1, <1>3, <1>4, <1>5 DEF AddsUp, Fields
<1> QED BY <1>6 DEF x, y

\* What follows the first m entries.
LEMMA Suffix ==
  ASSUME NEW E, NEW q \in Seq(E), NEW m \in 0..Len(q)
  PROVE  /\ SubSeq(q, m + 1, Len(q)) \in Seq(E)
         /\ Len(SubSeq(q, m + 1, Len(q))) = Len(q) - m
         /\ \A i \in 1..(Len(q) - m) : SubSeq(q, m + 1, Len(q))[i] = q[m + i]
<1> DEFINE z == SubSeq(q, m + 1, Len(q))
<1>1. m + 1 \in 1..(Len(q) + 1) /\ Len(q) \in 0..Len(q) /\ Len(q) \in Nat
  OBVIOUS
<1>2. \A i \in (m + 1)..Len(q) : q[i] \in E
  BY ElementOfSeq
<1>3. Len(z) = Len(q) - m
  BY <1>1
<1>4. \A i \in 1..(Len(q) - m) : z[i] = q[m + i]
  BY <1>1
<1>5. z \in Seq(E)
  BY <1>1, <1>2, SubSeqProperties
<1> QED BY <1>3, <1>4, <1>5

\* All the entries are the first Len(q) ones.
LEMMA WholeIsPrefix ==
  ASSUME NEW E, NEW q \in Seq(E)
  PROVE  SubSeq(q, 1, Len(q)) = q
<1>1. Len(q) \in 0..Len(q)
  OBVIOUS
<1>2. /\ SubSeq(q, 1, Len(q)) \in Seq(E)
      /\ Len(SubSeq(q, 1, Len(q))) = Len(q)
      /\ \A i \in 1..Len(q) : SubSeq(q, 1, Len(q))[i] = q[i]
  BY <1>1, Prefix
<1> QED BY <1>2, SeqEqual

\* After a past that leaves no shares, the rest of the entries is replayed as
\* if they were the first.
LEMMA RestIsOwnHistory ==
  ASSUME NEW q \in Seq(Counted), NEW h, IsRun(h, q), ~ h[Len(q)].err,
         NEW m \in 0..Len(q), h[m].st.SharesE8 = 0
  PROVE  LET r == Replay(SubSeq(q, m + 1, Len(q)))
         IN /\ r.err = FALSE
            /\ AddsUp(h[m].st, r.st, h[Len(q)].st)
<1> DEFINE z == SubSeq(q, m + 1, Len(q))
           M == Len(q) - m
           a == h[m].st
<1>1. z \in Seq(Counted) /\ Len(z) = M /\ \A i \in 1..M : z[i] = q[m + i]
  BY Suffix
<1>2. \A n \in 0..Len(q) : h[n].err = FALSE /\ h[n] \in Accounts /\ h[n].st \in Positions
  BY NoErrorBefore DEF IsRun, Accounts
<1>3. M \in Nat /\ m \in Nat /\ Len(q) = m + M
  OBVIOUS
<1>4. a \in Positions /\ a.SharesE8 = 0 /\ a.CostFen = 0
  BY <1>2 DEF Positions
<1> HIDE DEF z, M, a
<1>5. PICK f : IsRun(f, z) /\ Replay(z) = f[Len(z)]
  BY <1>1, ReplayRuns
<1> DEFINE T == {k \in 0..M : f[k].err = FALSE /\ AddsUp(a, f[k].st, h[m + k].st)}
<1>6. T \subseteq Nat
  OBVIOUS
<1>7. 0 \in T
  <2>1. f[0] = Start /\ m + 0 = m
    BY <1>3, <1>5 DEF IsRun
  <2>2. f[0].err = FALSE /\ AddsUp(a, f[0].st, a)
    BY <1>4, <2>1 DEF Start, NoPosition, AddsUp, Positions, Fields
  <2> QED BY <1>3, <2>1, <2>2 DEF a
<1>8. ASSUME NEW k \in 1..M, k - 1 \in T PROVE k \in T
  <2>1. /\ k - 1 \in 0..M /\ m + k \in 1..Len(q) /\ (m + k) - 1 = m + (k - 1)
        /\ m + (k - 1) \in 0..Len(q) /\ m + k \in 0..Len(q) /\ k \in 1..Len(z)
        /\ k - 1 \in 0..Len(z) /\ k \in 0..M
    BY <1>1, <1>3
  <2> DEFINE e == q[m + k]
             b == f[k - 1]
             c == h[m + (k - 1)]
             d == h[m + k]
             g == f[k]
  <2>2. e \in Counted /\ z[k] = e
    BY <1>1, <2>1, ElementOfSeq
  <2>3. d = ReplayStep(c, e)
    <3>1. d = ReplayStep(h[(m + k) - 1], e)
      BY <2>1 DEF IsRun
    <3> QED BY <2>1, <3>1
  <2>4. g = ReplayStep(b, e)
    BY <1>5, <2>1, <2>2 DEF IsRun
  <2>5. /\ c \in Accounts /\ c.st \in Positions /\ c.err = FALSE /\ d.err = FALSE
        /\ b \in Accounts /\ b.st \in Positions
    <3>1. b \in Accounts
      BY <1>5, <2>1 DEF IsRun
    <3> QED BY <1>2, <2>1, <3>1 DEF Accounts
  <2>6. b.err = FALSE /\ AddsUp(a, b.st, c.st)
    BY <1>8
  <2> HIDE DEF e, b, c, d, g
  <2>7. e.cash \in Nat /\ e.shares \in Nat
    BY <2>2 DEF Counted, Entry
  <2>8. Clean(c, e, d)
    <3>1. c \in Accounts /\ e \in Counted /\ d = ReplayStep(c, e)
          /\ c.err = FALSE /\ d.err = FALSE
      BY <2>2, <2>3, <2>5
    <3> QED BY <3>1, CleanStep
  <2>9. b.st.SharesE8 = c.st.SharesE8
    BY <2>6 DEF AddsUp
  <2>10. CASE e.kind = "buy" /\ d.st = AfterBuy(c.st, e.cash, e.shares)
    <3>1. g.err = FALSE /\ g.st = AfterBuy(b.st, e.cash, e.shares)
      BY <2>4, <2>5, <2>6, <2>10 DEF ReplayStep, Accounts
    <3>2. AddsUp(a, g.st, d.st)
      BY <1>4, <2>5, <2>6, <2>7, <2>10, <3>1, AddsUpBuy
    <3> QED BY <2>1, <3>1, <3>2 DEF g, d
  <2>11. CASE /\ e.kind = "redeem" /\ ~ (e.shares > c.st.SharesE8) /\ c.st.SharesE8 # 0
              /\ d.st = AfterRedeem(c.st, e.cash, e.shares)
    <3>1. g.err = FALSE /\ g.st = AfterRedeem(b.st, e.cash, e.shares)
      BY <2>4, <2>5, <2>6, <2>9, <2>11 DEF ReplayStep, Accounts
    <3>2. AddsUp(a, g.st, d.st)
      BY <1>4, <2>5, <2>6, <2>7, <2>11, <3>1, AddsUpRedeem
    <3> QED BY <2>1, <3>1, <3>2 DEF g, d
  <2> QED BY <2>8, <2>10, <2>11 DEF Clean
<1>9. \A k \in 0..M : k \in T
  <2> HIDE DEF T
  <2> QED BY <1>3, <1>6, <1>7, <1>8, InductionUpTo
<1>10. M \in T
  BY <1>3, <1>9
<1>11. f[M].err = FALSE /\ AddsUp(a, f[M].st, h[Len(q)].st)
  BY <1>3, <1>10
<1>12. Replay(z) = f[M]
  BY <1>1, <1>5
<1> QED BY <1>11, <1>12 DEF z, a

\* The segment begins where the account held no shares.
LEMMA SegmentStarts ==
  ASSUME NEW q \in Seq(Counted), NEW h, IsRun(h, q), ~ h[Len(q)].err, q # <<>>
  PROVE  /\ SegmentStart(q) \in 1..Len(q)
         /\ h[SegmentStart(q) - 1].st.SharesE8 = 0
<1> DEFINE starts == {i \in DOMAIN q : q[i].kind = "buy" /\ RunningShares(q, i - 1) = 0}
<1>1. DOMAIN q = 1..Len(q) /\ Len(q) \in Nat /\ Len(q) >= 1
  <2>1. DOMAIN q = 1..Len(q) /\ Len(q) \in Nat
    OBVIOUS
  <2>2. Len(q) # 0
    OBVIOUS
  <2> QED BY <2>1, <2>2
<1>2. \A n \in 0..Len(q) : RunningShares(q, n) = h[n].st.SharesE8
  BY CountIsShares
<1>3. 1 \in starts
  <2>1. 1 \in 1..Len(q) /\ 0 \in 0..Len(q) /\ 1 \in 0..Len(q) /\ 1 - 1 = 0
    BY <1>1
  <2>2. h[0] = Start /\ h[1] = ReplayStep(Start, q[1])
    <3>1. h[1] = ReplayStep(h[1 - 1], q[1])
      BY <2>1 DEF IsRun
    <3>2. h[0] = Start
      BY DEF IsRun
    <3> QED BY <2>1, <3>1, <3>2
  <2>3. h[1].err = FALSE
    BY <2>1, NoErrorBefore
  <2>4. Start.err = FALSE /\ Start.st.SharesE8 = 0
    BY DEF Start, NoPosition
  <2>5. q[1] \in Counted
    BY <2>1, ElementOfSeq
  <2>6. q[1].kind = "buy"
    <3> DEFINE z == h[1]
               e == q[1]
    <3> HIDE DEF z, e
    <3>1. z = ReplayStep(Start, e) /\ z.err = FALSE /\ e \in Counted
      BY <2>2, <2>3, <2>5 DEF z, e
    <3>2. e.kind = "buy"
      BY <2>4, <3>1, StartTyped, CleanStep DEF Clean
    <3> QED BY <3>2 DEF e
  <2>7. RunningShares(q, 0) = 0
    BY <1>2, <2>1, <2>2, <2>4
  <2> QED BY <1>1, <2>1, <2>6, <2>7
<1>4. SegmentStart(q) = Max(starts)
  BY <1>3 DEF SegmentStart
<1>5. Max(starts) \in starts
  <2>1. starts \in SUBSET Nat /\ \A i \in starts : i <= Len(q)
    BY <1>1
  <2> HIDE DEF starts
  <2> QED BY <1>1, <1>3, <2>1, MaxOfBounded
<1> DEFINE s == Max(starts)
<1>6. s \in 1..Len(q) /\ RunningShares(q, s - 1) = 0
  BY <1>1, <1>5
<1> HIDE DEF s
<1>7. s - 1 \in 0..Len(q)
  BY <1>1, <1>6
<1>8. h[s - 1].st.SharesE8 = 0
  BY <1>2, <1>6, <1>7
<1> QED BY <1>4, <1>6, <1>8 DEF s

\* The return per year that the page shows.
Yearly == AnnualizedCumulativeReturnE4(entries, navs)

\* The invariant is enough for the segment to be a history of its own.
LEMMA SegmentHolds == HInv => SegmentIsOwnHistory
<1> SUFFICES ASSUME HInv, Shown PROVE SegmentIsOwnHistory
  BY DEF SegmentIsOwnHistory
<1> DEFINE q == entries
           N == Len(entries)
           seg == OccupancySegment(entries)
           past == SubSeq(entries, 1, Len(entries) - Len(seg))
           whole == Replay(entries).st
           r == Replay(seg)
           p == Replay(past).st
<1>1. entries \in Seq(Counted) /\ N \in Nat
  BY DEF HInv, Listed
<1>2. PICK h : IsRun(h, entries) /\ Replay(entries) = h[Len(entries)]
  BY <1>1, ReplayRuns
<1>3. ~ h[Len(entries)].err
  BY <1>2 DEF Shown
<1>4. PICK m \in 0..N : /\ h[m].st.SharesE8 = 0
                        /\ seg = SubSeq(entries, m + 1, N)
  <2>1. CASE entries = <<>>
    <3>1. DOMAIN entries = {} /\ N = 0
      BY <2>1
    <3>2. SegmentStart(entries) = 0
      BY <3>1 DEF SegmentStart
    <3>3. seg = <<>>
      BY <3>2 DEF OccupancySegment
    <3>4. SubSeq(entries, 0 + 1, N) = <<>>
      BY <2>1, <3>1
    <3>5. h[0].st.SharesE8 = 0
      BY <1>2 DEF IsRun, Start, NoPosition
    <3>6. 0 \in 0..N
      BY <1>1
    <3> QED BY <3>3, <3>4, <3>5, <3>6
  <2>2. CASE entries # <<>>
    <3> DEFINE s == SegmentStart(entries)
    <3>1. s \in 1..N /\ h[s - 1].st.SharesE8 = 0
      BY <1>1, <1>2, <1>3, <2>2, SegmentStarts
    <3>2. seg = SubSeq(entries, s, N)
      <4>1. s # 0
        BY <3>1
      <4> QED BY <4>1 DEF OccupancySegment
    <3> HIDE DEF s, seg
    <3>3. s - 1 \in 0..N /\ (s - 1) + 1 = s
      BY <1>1, <3>1
    <3> QED BY <3>1, <3>2, <3>3
  <2> QED BY <2>1, <2>2
<1>5. r.err = FALSE /\ AddsUp(h[m].st, r.st, whole)
  <2> HIDE DEF seg
  <2> QED BY <1>1, <1>2, <1>3, <1>4, RestIsOwnHistory
<1>6. Len(seg) = N - m /\ N - Len(seg) = m
  <2>1. Len(SubSeq(entries, m + 1, N)) = N - m
    BY <1>1, Suffix
  <2> HIDE DEF seg, N
  <2> QED BY <1>1, <1>4, <2>1
<1>7. past = SubSeq(entries, 1, m)
  <2> HIDE DEF seg
  <2> QED BY <1>6
<1>8. p = h[m].st
  <2> HIDE DEF past
  <2>1. Replay(SubSeq(entries, 1, m)) = h[m]
    BY <1>1, <1>2, ReplayPrefix
  <2> QED BY <1>7, <2>1
<1>9. past = <<>> => seg = entries
  <2> SUFFICES ASSUME past = <<>> PROVE seg = entries
    OBVIOUS
  <2> HIDE DEF past, seg
  <2>1. Len(SubSeq(entries, 1, m)) = m
    BY <1>1, Prefix
  <2>2. m = 0
    BY <1>7, <2>1
  <2>3. seg = SubSeq(entries, 1, N)
    BY <1>4, <2>2
  <2> QED BY <1>1, <2>3, WholeIsPrefix
<1>10. ASSUME Yearly.ok, past = <<>>, r.st.SharesE8 > 0
       PROVE  Yearly.e4 = MulDivRound(
                CumulativeReturnE4(CumulativeFen, whole.TotalBuyFen).e4,
                365, LatestNavDay(navs) - entries[1].day)
  <2>1. seg = entries
    BY <1>9, <1>10
  <2>2. r.st.SharesE8 # 0
    BY <1>10
  <2> DEFINE closed == r.st.SharesE8 = 0
             end    == IF closed THEN LastRedeemOccur(seg) ELSE LatestNavDay(navs)
             cum    == IF closed THEN r.st.RealizedFen ELSE Cumulative(r.st, navs)
             n      == end - seg[1].day
             rate   == CumulativeReturnE4(cum, r.st.TotalBuyFen)
  <2>3. Yearly = IF \/ seg = <<>> \/ r.err \/ end = NoDay
                    \/ n <= 0 \/ ~ rate.ok
                 THEN NoRate
                 ELSE [ok |-> TRUE, e4 |-> MulDivRound(rate.e4, 365, n)]
    BY DEF Yearly, AnnualizedCumulativeReturnE4
  <2>4. end = LatestNavDay(navs) /\ cum = Cumulative(r.st, navs)
    BY <2>2
  <2>5. n = LatestNavDay(navs) - entries[1].day
        /\ rate = CumulativeReturnE4(CumulativeFen, whole.TotalBuyFen)
    <3>1. cum = CumulativeFen
      BY <2>1, <2>4 DEF CumulativeFen
    <3> HIDE DEF cum
    <3> QED BY <2>1, <2>4, <3>1
  <2> HIDE DEF closed, end, cum, n, rate, seg, r
  <2>6. Yearly # NoRate
    <3>1. NoRate.ok = FALSE
      BY DEF NoRate
    <3> QED BY <1>10, <3>1
  <2>7. Yearly = [ok |-> TRUE, e4 |-> MulDivRound(rate.e4, 365, n)]
    BY <2>3, <2>6
  <2>8. Yearly.e4 = MulDivRound(rate.e4, 365, n)
    BY <2>7
  <2> QED BY <2>5, <2>8
<1> HIDE DEF seg, past, whole, r, p
<1>11. /\ ~ r.err
       /\ p.SharesE8 = 0
       /\ r.st.SharesE8 = whole.SharesE8
       /\ r.st.CostFen = whole.CostFen
       /\ p.RealizedFen + r.st.RealizedFen = whole.RealizedFen
       /\ p.TotalBuyFen + r.st.TotalBuyFen = whole.TotalBuyFen
  BY <1>4, <1>5, <1>8 DEF AddsUp
<1>12. Yearly.ok /\ past = <<>> /\ r.st.SharesE8 > 0 =>
         Yearly.e4 = MulDivRound(
           CumulativeReturnE4(CumulativeFen, whole.TotalBuyFen).e4,
           365, LatestNavDay(navs) - entries[1].day)
  BY <1>10
<1> QED BY <1>11, <1>12, Zenon
        DEF SegmentIsOwnHistory, Yearly, seg, past, whole, r, p

\* The segment from which the return per year is computed is always a history
\* of its own: what comes before it leaves no shares, replaying the segment
\* alone meets no error, and past and segment add up to the account.
THEOREM SegmentIsOwnHistoryAlways == Spec => []SegmentIsOwnHistory
<1>1. Spec => []HInv
  BY InitHInv, StepHInv, PTL DEF Spec
<1> QED BY <1>1, SegmentHolds, PTL

-----------------------------------------------------------------------------

(* What the conversion between cash and shares loses: for every amount,    *)
(* every NAV and every scale.                                              *)

\* Quotient and remainder are known by what they add up to.
LEMMA QuotientIs ==
  ASSUME NEW a \in Nat, NEW d \in Nat \ {0}, NEW q \in Nat, NEW r \in Nat,
         a = q * d + r, r < d
  PROVE  a \div d = q /\ a % d = r
<1>1. a \div d \in Int /\ a % d \in 0..(d - 1) /\ a = d * (a \div d) + (a % d)
  OBVIOUS
<1> DEFINE p == a \div d
           m == a % d
<1> HIDE DEF p, m
<1>2. p \in Int /\ m \in Int /\ 0 <= m /\ m < d /\ q * d + r = d * p + m
  BY <1>1 DEF p, m
<1>3. (p - q) * d = r - m
  BY <1>2
<1>4. ~ (p - q >= 1)
  <2> SUFFICES ASSUME p - q >= 1 PROVE FALSE
    OBVIOUS
  <2>1. (p - q) * d >= d
    BY <1>2
  <2> QED BY <1>2, <1>3, <2>1
<1>5. ~ (p - q <= -1)
  <2> SUFFICES ASSUME p - q <= -1 PROVE FALSE
    OBVIOUS
  <2>1. (p - q) * d <= -d
    BY <1>2
  <2> QED BY <1>2, <1>3, <2>1
<1>6. p = q
  BY <1>2, <1>4, <1>5
<1> QED BY <1>2, <1>6 DEF p, m

\* What shares are worth when the division that gave them dropped less than
\* half a scale: the amount they were bought for.
LEMMA WorthOfShares ==
  ASSUME NEW m \in Nat \ {0}, NEW d \in Nat, NEW p \in Nat,
         p = m * FenScale - d, 2 * d < FenScale - 1
  PROVE  (p \div FenScale)
            + (IF p % FenScale >= (FenScale + 1) \div 2 THEN 1 ELSE 0) = m
<1> USE FenScaleAssumption
<1>1. CASE d = 0
  <2>1. p \div FenScale = m /\ p % FenScale = 0
    BY <1>1, QuotientIs
  <2>2. (FenScale + 1) \div 2 >= 1
    OBVIOUS
  <2> QED BY <2>1, <2>2
<1>2. CASE d # 0
  <2> DEFINE r == FenScale - d
             k == m - 1
  <2>1. /\ k \in Nat /\ r \in Nat /\ r < FenScale
        /\ p = k * FenScale + r
    BY <1>2
  <2>2. p \div FenScale = k /\ p % FenScale = r
    <3> HIDE DEF k, r
    <3> QED BY <2>1, QuotientIs
  <2>3. r >= (FenScale + 1) \div 2
    OBVIOUS
  <2> QED BY <2>2, <2>3
<1> QED BY <1>1, <1>2

\* Cash turned into shares at a NAV, and the shares into cash at the same NAV,
\* is the same cash, as long as the smallest unit of shares is worth less than
\* half a fen.
LEMMA CashRoundTrip ==
  ASSUME NEW cash \in Nat \ {0}, NEW nav \in Nat \ {0}, 2 * nav < FenScale
  PROVE  CashFromShares(SharesFromCash(cash, nav), nav) = cash
<1> USE FenScaleAssumption
<1> DEFINE n == cash * FenScale
           s == n \div nav
           d == n % nav
<1>1. n \in Nat
  OBVIOUS
<1>2. SharesFromCash(cash, nav) = s
  BY DEF SharesFromCash, MulDiv, Abs
<1>3. s \in Nat /\ d \in 0..(nav - 1) /\ s * nav = n - d
  <2> HIDE DEF n
  <2> QED BY <1>1
<1>4. s > 0
  <2>1. n >= FenScale
    OBVIOUS
  <2>2. s * nav > 0
    <3> HIDE DEF n, s, d
    <3> QED BY <1>1, <1>3, <2>1
  <2> HIDE DEF s
  <2> QED BY <1>3, <2>2
<1>5. CashFromShares(s, nav) =
        ((s * nav) \div FenScale)
          + (IF (s * nav) % FenScale >= (FenScale + 1) \div 2 THEN 1 ELSE 0)
  <2> HIDE DEF s
  <2> QED BY <1>3, <1>4 DEF CashFromShares, MulDivRound, Abs
<1>6. s * nav \in Nat
  <2> HIDE DEF s
  <2> QED BY <1>3
<1>7. 2 * d < FenScale - 1
  <2> HIDE DEF d
  <2> QED BY <1>3
<1>8. s * nav = cash * FenScale - d
  BY <1>3
<1>9. d \in Nat
  BY <1>3
<1> HIDE DEF s, d
<1>10. CashFromShares(s, nav) = cash
  BY <1>5, <1>6, <1>7, <1>8, <1>9, WorthOfShares
<1> QED BY <1>2, <1>10

\* An account opened with a declared cumulative profit has, right after, a
\* market value less cost of exactly that profit: for every amount, every
\* profit and every NAV of less than half the scale (the code's scale is 1e14
\* and a NAV of one yuan 1e8).
THEOREM DeclaredProfitExact ==
  ASSUME NEW cash \in Nat \ {0}, NEW cumulative \in Int, NEW nav \in Nat \ {0},
         2 * nav < FenScale,
         ImpliedBuy(cash, cumulative, nav).shares > 0
  PROVE  CashFromShares(ImpliedBuy(cash, cumulative, nav).shares, nav) - cash
            = cumulative
<1> DEFINE s == SharesFromCash(cash + cumulative, nav)
<1>1. ImpliedBuy(cash, cumulative, nav).shares \in {s, 0}
  BY DEF ImpliedBuy, ImpliedShares
<1>2. ImpliedBuy(cash, cumulative, nav).shares = s /\ s > 0
  BY <1>1
<1>3. cash + cumulative \in Nat \ {0}
  BY <1>2 DEF SharesFromCash
<1>4. CashFromShares(s, nav) = cash + cumulative
  BY <1>3, CashRoundTrip
<1> QED BY <1>2, <1>4

\* What Replay makes of a first buy.
LEMMA FirstBuy ==
  ASSUME NEW e \in Counted, e.kind = "buy", NEW q, q = InsertAt(<<>>, 1, e)
  PROVE  /\ Replay(q).st.SharesE8 = e.shares
         /\ Replay(q).st.CostFen = e.cash
         /\ Replay(q).st.RealizedFen = 0
<1>1. q \in Seq(Counted) /\ Len(q) = 1 /\ q[1] = e
  <2>1. <<>> \in Seq(Counted) /\ Len(<<>>) = 0 /\ 0 \in 0..Len(<<>>) /\ 0 + 1 = 1
    OBVIOUS
  <2>2. PICK r \in Seq(Counted) : r = InsertAt(<<>>, 0 + 1, e) /\ IsInsert(r, <<>>, 0, e)
    BY <2>1, Inserted
  <2>3. r = q
    BY <2>1, <2>2
  <2>4. Len(r) = 1 /\ r[1] = e
    <3>1. Len(r) = Len(<<>>) + 1 /\ r[0 + 1] = e
      BY <2>2 DEF IsInsert
    <3> QED BY <2>1, <3>1
  <2> QED BY <2>2, <2>3, <2>4
<1>2. PICK h : IsRun(h, q) /\ Replay(q) = h[Len(q)]
  BY <1>1, ReplayRuns
<1>3. h[1] = ReplayStep(Start, e)
  <2>1. h[0] = Start /\ h[1] = ReplayStep(h[1 - 1], q[1])
    BY <1>1, <1>2 DEF IsRun
  <2>2. 1 - 1 = 0
    OBVIOUS
  <2> QED BY <1>1, <2>1, <2>2
<1>4. Replay(q) = [st |-> AfterBuy(NoPosition, e.cash, e.shares), err |-> FALSE]
  <2>1. ReplayStep(Start, e) =
          [st |-> AfterBuy(NoPosition, e.cash, e.shares), err |-> FALSE]
    BY DEF ReplayStep, Start
  <2> QED BY <1>1, <1>2, <1>3, <2>1
<1> DEFINE s == AfterBuy(NoPosition, e.cash, e.shares)
<1>5. NoPosition \in Fields /\ e.cash \in Nat /\ e.shares \in Nat
  BY DEF NoPosition, Fields, Counted, Entry
<1>6. s = [SharesE8 |-> NoPosition.SharesE8 + e.shares,
           CostFen |-> NoPosition.CostFen + e.cash,
           RealizedFen |-> NoPosition.RealizedFen,
           TotalBuyFen |-> NoPosition.TotalBuyFen + e.cash,
           TotalRedeemFen |-> NoPosition.TotalRedeemFen]
  BY <1>5, BuyForm
<1>7. Replay(q).st = s
  BY <1>4
<1> HIDE DEF s
<1>8. s.SharesE8 = e.shares /\ s.CostFen = e.cash /\ s.RealizedFen = 0
  BY <1>5, <1>6 DEF NoPosition
<1> QED BY <1>7, <1>8

\* The step that opens an account with a declared profit shows that profit.
LEMMA DeclaredStep ==
  ASSUME HInv, NEW cumulative \in Declared, CreateDeclared(cumulative)
  PROVE  CumulativeFen' = cumulative
<1> DEFINE nav == LatestNav(navs)
<1>1. PICK day \in OccurDays, cash \in Cash :
        LET buy == ImpliedBuy(cash, cumulative, nav)
        IN buy.shares > 0 /\ InsertLedger("buy", day, cash, buy.shares, buy.nav)
  BY DEF CreateDeclared
<1> DEFINE buy == ImpliedBuy(cash, cumulative, nav)
<1>2. cumulative \in Int /\ cash \in Nat \ {0} /\ day \in Days
  BY OccurDayTyped, InputsAssumption DEF HInv, NavsOf
<1>3. nav \in Navs \cup {NoNav}
  BY LatestTyped DEF HInv, NavsOf, LatestNav
<1>4. buy.shares > 0 /\ InsertLedger("buy", day, cash, buy.shares, buy.nav)
  BY <1>1
<1>5. entries = <<>> /\ navs' = navs
  BY DEF CreateDeclared, HInv
<1> HIDE DEF nav
<1>6. nav \in Nat \ {0} /\ 2 * nav < FenScale
  <2>1. nav # NoNav
    <3> SUFFICES ASSUME nav = 0 PROVE buy.shares = 0
      BY <1>4 DEF NoNav
    <3>1. SharesFromCash(cash + cumulative, nav) = 0
      BY DEF SharesFromCash
    <3>2. ImpliedShares(cash, cumulative, nav) = 0
      BY <3>1 DEF ImpliedShares
    <3> QED BY <3>2 DEF ImpliedBuy
  <2> QED BY <1>3, <2>1, InputsAssumption, NavsAssumption
<1>7. buy.shares \in Nat /\ buy.nav \in Nat
  BY <1>2, <1>6, ImpliedTyped
<1>8. CashFromShares(buy.shares, nav) - cash = cumulative
  BY <1>2, <1>4, <1>6, DeclaredProfitExact
<1> HIDE DEF buy
<1> DEFINE e == [id |-> Len(entries) + 1, kind |-> "buy", day |-> day,
                 cash |-> cash, shares |-> buy.shares, nav |-> buy.nav]
<1>9. e \in Counted /\ e.kind = "buy" /\ e.shares = buy.shares /\ e.cash = cash
  <2>1. Len(entries) + 1 \in Nat
    BY <1>5
  <2>2. e \in Entry
    BY <1>2, <1>7, <2>1 DEF Entry
  <2> QED BY <1>4, <2>2 DEF Counted
<1>10. entries' = InsertAt(<<>>, 1, e)
  <2>1. {i \in DOMAIN entries : entries[i].day <= day} = {}
    BY <1>5
  <2>2. entries' = InsertAt(entries,
                     Cardinality({i \in DOMAIN entries : entries[i].day <= day}) + 1, e)
    BY <1>4 DEF InsertLedger
  <2>3. Cardinality({}) + 1 = 1
    BY FS_EmptySet
  <2> HIDE DEF e
  <2> QED BY <1>5, <2>1, <2>2, <2>3
<1> HIDE DEF e
<1>11. /\ Replay(entries').st.SharesE8 = buy.shares
       /\ Replay(entries').st.CostFen = cash
       /\ Replay(entries').st.RealizedFen = 0
  BY <1>9, <1>10, FirstBuy
<1>12. CumulativeFen' = Cumulative(Replay(entries').st, navs)
  BY <1>5 DEF CumulativeFen
<1> DEFINE st == Replay(entries').st
           worth == CashFromShares(buy.shares, nav)
<1>13. Cumulative(st, navs) = 0 + (worth - cash)
  <2>1. LatestNav(navs) # NoNav /\ LatestNav(navs) = nav
    BY <1>6 DEF nav, NoNav
  <2> HIDE DEF st
  <2>2. st.SharesE8 = buy.shares /\ st.CostFen = cash /\ st.RealizedFen = 0
    BY <1>11 DEF st
  <2> QED BY <2>1, <2>2 DEF Cumulative
<1>14. worth \in Nat
  BY <1>6, <1>7, CashTyped
<1> HIDE DEF worth
<1>15. 0 + (worth - cash) = cumulative
  BY <1>2, <1>8, <1>14 DEF worth
<1> QED BY <1>12, <1>13, <1>15

\* Whatever the amount, the declared profit and the NAV, an account opened with
\* a declared profit shows it to the fen.
THEOREM DeclaredIsShownAlways == Spec => DeclaredIsShown
<1>1. HInv /\ [Next]_vars =>
        [\A cumulative \in Declared :
            CreateDeclared(cumulative) => CumulativeFen' = cumulative]_vars
  BY DeclaredStep
<1>2. Spec => []HInv
  BY InitHInv, StepHInv, PTL DEF Spec
<1> QED BY <1>1, <1>2, PTL DEF Spec, DeclaredIsShown

-----------------------------------------------------------------------------
(* The collection gap. *)

\* The shares that an entry adds, and the cash that it pays out.
Signed(e)  == IF e.kind = "buy" THEN e.shares ELSE -e.shares
PaidOut(e) == IF e.kind = "buy" THEN -e.cash ELSE e.cash

Signs(q) == [i \in DOMAIN q |-> Signed(q[i])]
Flow(q)  == [i \in DOMAIN q |-> PaidOut(q[i])]

\* The numbers of an entry.
LEMMA EntryTyped ==
  ASSUME NEW q \in Seq(Counted)
  PROVE  /\ DOMAIN q = 1..Len(q) /\ Len(q) \in Nat /\ IsFiniteSet(DOMAIN q)
         /\ \A i \in DOMAIN q :
              /\ q[i].day \in Nat /\ q[i].day \in Days
              /\ q[i].cash \in Nat /\ q[i].shares \in Nat /\ q[i].nav \in Nat
              /\ q[i].kind \in {"buy", "redeem"}
              /\ Signs(q)[i] = Signed(q[i]) /\ Signs(q)[i] \in Int
              /\ Flow(q)[i] = PaidOut(q[i]) /\ Flow(q)[i] \in Int
<1>1. DOMAIN q = 1..Len(q) /\ Len(q) \in Nat
  OBVIOUS
<1>2. IsFiniteSet(DOMAIN q)
  BY <1>1, FS_Interval
<1>3. ASSUME NEW i \in DOMAIN q
      PROVE  /\ q[i].day \in Nat /\ q[i].day \in Days
             /\ q[i].cash \in Nat /\ q[i].shares \in Nat /\ q[i].nav \in Nat
             /\ q[i].kind \in {"buy", "redeem"}
             /\ Signs(q)[i] = Signed(q[i]) /\ Signs(q)[i] \in Int
             /\ Flow(q)[i] = PaidOut(q[i]) /\ Flow(q)[i] \in Int
  <2>1. q[i] \in Counted
    BY <1>1, <1>3, ElementOfSeq
  <2>2. /\ q[i].day \in Nat /\ q[i].day \in Days
        /\ q[i].cash \in Nat /\ q[i].shares \in Nat /\ q[i].nav \in Nat
        /\ q[i].kind \in {"buy", "redeem"}
    BY <2>1, InputsAssumption DEF Counted, Entry, Days
  <2> QED BY <2>2 DEF Signs, Signed, Flow, PaidOut
<1> QED BY <1>1, <1>2, <1>3

\* What the account has after n entries, as sums over them.
LEMMA RunAdds ==
  ASSUME NEW q \in Seq(Counted), NEW h, IsRun(h, q), ~ h[Len(q)].err
  PROVE  \A n \in 0..Len(q) :
           /\ h[n].st.SharesE8 = SumOf(Signs(q), 1..n)
           /\ h[n].st.TotalRedeemFen - h[n].st.TotalBuyFen = SumOf(Flow(q), 1..n)
<1> DEFINE T == {k \in 0..Len(q) :
                   /\ h[k].st.SharesE8 = SumOf(Signs(q), 1..k)
                   /\ h[k].st.TotalRedeemFen - h[k].st.TotalBuyFen = SumOf(Flow(q), 1..k)}
<1>1. \A n \in 0..Len(q) : h[n].err = FALSE /\ h[n] \in Accounts
  BY NoErrorBefore DEF IsRun
<1>2. T \subseteq Nat /\ Len(q) \in Nat
  OBVIOUS
<1>3. 0 \in T
  <2>1. h[0] = Start
    BY DEF IsRun
  <2>2. 1..0 = {}
    BY SMT
  <2>3. SumOf(Signs(q), 1..0) = 0 /\ SumOf(Flow(q), 1..0) = 0
    BY <2>2, SumOfNone
  <2>4. /\ h[0].st.SharesE8 = 0
        /\ h[0].st.TotalRedeemFen - h[0].st.TotalBuyFen = 0
    BY <2>1 DEF Start, NoPosition
  <2> QED BY <1>2, <2>3, <2>4
<1>4. ASSUME NEW k \in 1..Len(q), k - 1 \in T PROVE k \in T
  <2>1. k - 1 \in 0..Len(q) /\ k \in 0..Len(q) /\ k \in DOMAIN q
    BY EntryTyped
  <2>2. q[k] \in Counted
    BY <2>1, ElementOfSeq
  <2>3. h[k] = ReplayStep(h[k - 1], q[k])
    BY <2>1 DEF IsRun
  <2>4. h[k - 1] \in Accounts /\ h[k - 1].err = FALSE /\ h[k].err = FALSE
    BY <1>1, <2>1
  <2>5. \/ /\ q[k].kind = "buy"
           /\ h[k].st = AfterBuy(h[k - 1].st, q[k].cash, q[k].shares)
        \/ /\ q[k].kind = "redeem"
           /\ h[k].st = AfterRedeem(h[k - 1].st, q[k].cash, q[k].shares)
    BY <2>2, <2>3, <2>4, CleanStep DEF Clean
  <2>6. h[k - 1].st \in Fields
    BY <2>4 DEF Accounts, Positions
  <2>7. q[k].cash \in Nat /\ q[k].shares \in Nat
    BY <2>2 DEF Counted, Entry
  <2>8. /\ h[k].st.SharesE8 = h[k - 1].st.SharesE8 + Signed(q[k])
        /\ h[k].st.TotalRedeemFen - h[k].st.TotalBuyFen
             = h[k - 1].st.TotalRedeemFen - h[k - 1].st.TotalBuyFen + PaidOut(q[k])
    <3>1. CASE q[k].kind = "buy" /\ h[k].st = AfterBuy(h[k - 1].st, q[k].cash, q[k].shares)
      <4>1. /\ h[k].st.SharesE8 = h[k - 1].st.SharesE8 + q[k].shares
            /\ h[k].st.TotalBuyFen = h[k - 1].st.TotalBuyFen + q[k].cash
            /\ h[k].st.TotalRedeemFen = h[k - 1].st.TotalRedeemFen
        BY <2>6, <2>7, <3>1, BuyForm
      <4> QED BY <2>6, <2>7, <3>1, <4>1 DEF Fields, Signed, PaidOut
    <3>2. CASE /\ q[k].kind = "redeem"
               /\ h[k].st = AfterRedeem(h[k - 1].st, q[k].cash, q[k].shares)
      <4>1. /\ h[k].st.SharesE8 = h[k - 1].st.SharesE8 - q[k].shares
            /\ h[k].st.TotalBuyFen = h[k - 1].st.TotalBuyFen
            /\ h[k].st.TotalRedeemFen = h[k - 1].st.TotalRedeemFen + q[k].cash
        BY <2>6, <2>7, <3>2, RedeemForm
      <4>2. Signed(q[k]) = -(q[k].shares) /\ PaidOut(q[k]) = q[k].cash
        BY <3>2 DEF Signed, PaidOut
      <4>3. /\ h[k - 1].st.SharesE8 \in Int /\ h[k - 1].st.TotalBuyFen \in Int
            /\ h[k - 1].st.TotalRedeemFen \in Int
        BY <2>6 DEF Fields
      <4> QED BY <2>7, <4>1, <4>2, <4>3
    <3> QED BY <2>5, <3>1, <3>2
  <2> DEFINE m == 1..(k - 1)
  <2>9. IsFiniteSet(m) /\ k \notin m /\ 1..k = m \cup {k}
    <3>1. k - 1 \in Nat
      OBVIOUS
    <3>2. IsFiniteSet(1..(k - 1))
      BY <3>1, FS_Interval
    <3> QED BY <3>2
  <2>10. \A i \in m : Signs(q)[i] \in Int /\ Flow(q)[i] \in Int
    <3>1. \A i \in m : i \in DOMAIN q
      BY EntryTyped
    <3> QED BY <3>1, EntryTyped
  <2>11. /\ Signs(q)[k] = Signed(q[k]) /\ Signs(q)[k] \in Int
         /\ Flow(q)[k] = PaidOut(q[k]) /\ Flow(q)[k] \in Int
    BY <2>1, EntryTyped
  <2>12. /\ h[k - 1].st.SharesE8 = SumOf(Signs(q), m)
         /\ h[k - 1].st.TotalRedeemFen - h[k - 1].st.TotalBuyFen = SumOf(Flow(q), m)
    BY <1>4
  <2> HIDE DEF m
  <2>13. /\ SumOf(Signs(q), m \cup {k}) = Signs(q)[k] + SumOf(Signs(q), m)
         /\ SumOf(Signs(q), m) \in Int
    BY <2>9, <2>10, <2>11, SumGrows
  <2>14. /\ SumOf(Flow(q), m \cup {k}) = Flow(q)[k] + SumOf(Flow(q), m)
         /\ SumOf(Flow(q), m) \in Int
    BY <2>9, <2>10, <2>11, SumGrows
  <2>15. h[k].st.SharesE8 = SumOf(Signs(q), 1..k)
    <3>1. h[k].st.SharesE8 = SumOf(Signs(q), m \cup {k})
      BY <2>8, <2>11, <2>12, <2>13
    <3> QED BY <2>9, <3>1, Zenon
  <2>16. h[k].st.TotalRedeemFen - h[k].st.TotalBuyFen = SumOf(Flow(q), 1..k)
    <3>1. h[k].st.TotalRedeemFen - h[k].st.TotalBuyFen = SumOf(Flow(q), m \cup {k})
      BY <2>8, <2>11, <2>12, <2>14
    <3> QED BY <2>9, <3>1, Zenon
  <2> QED BY <2>1, <2>15, <2>16
<1>5. \A n \in 0..Len(q) : n \in T
  <2> HIDE DEF T
  <2> QED BY <1>2, <1>3, <1>4, InductionUpTo
<1> QED BY <1>5

\* The shares of the entries before a day.
SignsBefore(q, day) ==
    [i \in DOMAIN q |-> IF q[i].day < day THEN Signed(q[i]) ELSE 0]

\* What is held at the opening of a day is what the entries before it add.
LEMMA OpenAdds ==
  ASSUME NEW q \in Seq(Counted), InOrder(q), NEW h, IsRun(h, q), ~ h[Len(q)].err,
         NEW day \in Int
  PROVE  /\ AtOpen(q, day).err = FALSE
         /\ AtOpen(q, day).st.SharesE8 = SumOf(SignsBefore(q, day), DOMAIN q)
<1>1. PICK n : FirstBefore(q, n, day) /\ Before(q, day) = SubSeq(q, 1, n)
  BY BeforeIs
<1>2. n \in 0..Len(q) /\ n \in Nat
  BY <1>1, EntryTyped DEF FirstBefore
<1>3. AtOpen(q, day) = h[n]
  BY <1>1, <1>2, ReplayPrefix DEF AtOpen
<1>4. h[n].err = FALSE
  BY <1>2, NoErrorBefore
<1>5. h[n].st.SharesE8 = SumOf(Signs(q), 1..n)
  BY <1>2, RunAdds
<1> DEFINE D == DOMAIN q
           S == 1..n
           w == SignsBefore(q, day)
           v == Signs(q)
<1>6. D = 1..Len(q) /\ Len(q) \in Nat /\ IsFiniteSet(D)
  BY EntryTyped
<1>7. S \in SUBSET D /\ IsFiniteSet(S)
  <2>1. IsFiniteSet(1..n)
    BY <1>2, FS_Interval
  <2> QED BY <1>2, <1>6, <2>1
<1>8. \A i \in D : w[i] \in Int
  <2> TAKE i \in D
  <2>1. Signed(q[i]) \in Int
    BY EntryTyped
  <2> QED BY <2>1 DEF SignsBefore
<1>9. \A i \in D \ S : w[i] = 0
  <2> TAKE i \in D \ S
  <2>1. i \in (n + 1)..Len(q)
    BY <1>2, <1>6
  <2>2. ~ (q[i].day < day)
    BY <1>1, <2>1 DEF FirstBefore
  <2> QED BY <2>2 DEF SignsBefore
<1>10. \A i \in S : w[i] = v[i]
  <2> TAKE i \in S
  <2>1. q[i].day < day
    BY <1>1 DEF FirstBefore
  <2>2. i \in DOMAIN q
    BY <1>7
  <2> QED BY <2>1, <2>2 DEF SignsBefore, Signs
<1> HIDE DEF D, S, w, v
<1>11. SumOf(w, D) = SumOf(w, S)
  BY <1>6, <1>7, <1>8, <1>9, SumOverMore
<1>12. SumOf(w, S) = SumOf(v, S)
  BY <1>7, <1>10, SumSame
<1> QED BY <1>3, <1>4, <1>5, <1>11, <1>12 DEF D, S, w, v

\* What a division leaves over is less than the divisor.
LEMMA QuotientNear ==
  ASSUME NEW p \in Nat, NEW d \in Nat \ {0}
  PROVE  /\ p \div d \in Nat /\ p % d \in 0..(d - 1)
         /\ p = d * (p \div d) + (p % d)
  BY QuotientTyped

\* MulDiv loses less than one unit.
LEMMA MulDivNear ==
  ASSUME NEW a \in Int, NEW b \in Int
  PROVE  Near(FenScale * MulDiv(a, b, FenScale), a * b, FenScale)
<1> USE FenScaleAssumption
<1> DEFINE p == Abs(a) * Abs(b)
           n == p \div FenScale
           r == p % FenScale
<1>1. Abs(a) \in Nat /\ Abs(b) \in Nat
  BY DEF Abs
<1>2. p \in Nat
  BY <1>1, ProductTyped
<1>3. MulDiv(a, b, FenScale) = IF (a < 0) # (b < 0) THEN -n ELSE n
  BY DEF MulDiv
<1>4. a * b = IF (a < 0) # (b < 0) THEN -p ELSE p
  <2>1. CASE a < 0 /\ b < 0
    <3>1. p = (-a) * (-b)
      BY <2>1 DEF Abs
    <3>2. (-a) * (-b) = a * b
      OBVIOUS
    <3> HIDE DEF p
    <3> QED BY <2>1, <3>1, <3>2
  <2>2. CASE a < 0 /\ ~ (b < 0)
    <3>1. p = (-a) * b
      BY <2>2 DEF Abs
    <3>2. (-a) * b = -(a * b)
      OBVIOUS
    <3> HIDE DEF p
    <3> QED BY <2>2, <3>1, <3>2
  <2>3. CASE ~ (a < 0) /\ b < 0
    <3>1. p = a * (-b)
      BY <2>3 DEF Abs
    <3>2. a * (-b) = -(a * b)
      OBVIOUS
    <3> HIDE DEF p
    <3> QED BY <2>3, <3>1, <3>2
  <2>4. CASE ~ (a < 0) /\ ~ (b < 0)
    <3>1. p = a * b
      BY <2>4 DEF Abs
    <3> HIDE DEF p
    <3> QED BY <2>4, <3>1
  <2> QED BY <2>1, <2>2, <2>3, <2>4
<1> HIDE DEF p
<1>5. n \in Nat /\ r \in 0..(FenScale - 1) /\ p = FenScale * n + r
  BY <1>2, QuotientNear
<1> HIDE DEF n, r
<1>6. FenScale * n \in Int /\ FenScale * (-n) = -(FenScale * n)
  BY <1>5
<1>7. CASE (a < 0) # (b < 0)
  <2>1. MulDiv(a, b, FenScale) = -n /\ a * b = -p
    BY <1>3, <1>4, <1>7
  <2> QED BY <1>5, <1>6, <2>1 DEF Near
<1>8. CASE ~ ((a < 0) # (b < 0))
  <2>1. MulDiv(a, b, FenScale) = n /\ a * b = p
    BY <1>3, <1>4, <1>8
  <2> QED BY <1>5, <1>6, <2>1 DEF Near
<1> QED BY <1>7, <1>8

\* So does the worth of shares at a NAV.
LEMMA CashNear ==
  ASSUME NEW shares \in Nat, NEW nav \in Nat
  PROVE  /\ FenScale * CashFromShares(shares, nav) - shares * nav < FenScale
         /\ shares * nav - FenScale * CashFromShares(shares, nav) < FenScale
<1> USE FenScaleAssumption
<1>1. CASE shares <= 0 \/ nav <= 0
  <2>1. CashFromShares(shares, nav) = 0 /\ (shares = 0 \/ nav = 0)
    BY <1>1 DEF CashFromShares
  <2>2. shares * nav = 0 /\ FenScale * 0 = 0
    BY <2>1
  <2> QED BY <2>1, <2>2
<1>2. CASE ~ (shares <= 0 \/ nav <= 0)
  <2> DEFINE p == shares * nav
             n == p \div FenScale
             r == p % FenScale
             k == IF r >= (FenScale + 1) \div 2 THEN 1 ELSE 0
  <2>1. CashFromShares(shares, nav) = n + k
    <3>1. Abs(shares) = shares /\ Abs(nav) = nav
      BY DEF Abs
    <3>2. ~ (shares < 0) /\ ~ (nav < 0)
      OBVIOUS
    <3> QED BY <1>2, <3>1, <3>2 DEF CashFromShares, MulDivRound
  <2>2. p \in Nat
    BY ProductTyped
  <2> HIDE DEF p
  <2>3. n \in Nat /\ r \in 0..(FenScale - 1) /\ p = FenScale * n + r
    BY <2>2, QuotientNear
  <2>4. k \in {0, 1} /\ (k = 1 => r > 0)
    <3>1. (FenScale + 1) \div 2 >= 1
      OBVIOUS
    <3> HIDE DEF r
    <3> QED BY <2>3, <3>1
  <2> HIDE DEF n, r, k
  <2>5. FenScale * (n + k) = FenScale * n + (IF k = 1 THEN FenScale ELSE 0) /\ FenScale * n \in Int
    BY <2>3, <2>4
  <2>6. /\ FenScale * (n + k) - p < FenScale
        /\ p - FenScale * (n + k) < FenScale
    BY <2>3, <2>4, <2>5
  <2> QED BY <2>1, <2>6 DEF p
<1> QED BY <1>1, <1>2

-----------------------------------------------------------------------------
(* The NAV between two days.  *)

\* What a share gains from the NAV before the day to that of the day.
Move(day) ==
    IF PrevNav(navs, day) = NoNav THEN 0 ELSE navs[day] - PrevNav(navs, day)

\* What a share gains on the days after the given one.
Rise(day) == [d \in NavDays(navs) |-> IF day < d THEN Move(d) ELSE 0]

\* The NAVs stored.
LEMMA NavsTyped ==
  ASSUME NavsOf(today, navs)
  PROVE  /\ NavDays(navs) \subseteq Nat /\ NavDays(navs) \subseteq Days
         /\ today \in Nat /\ IsFiniteSet(NavDays(navs))
         /\ \A d \in NavDays(navs) : d <= today /\ navs[d] \in Nat /\ navs[d] # 0
<1>1. NavDays(navs) \subseteq 1..today /\ today \in Nat
  BY InputsAssumption DEF NavsOf, Days
<1>2. IsFiniteSet(1..today)
  BY <1>1, FS_Interval
<1>3. \A d \in NavDays(navs) : d \in Days /\ navs[d] > 0
  BY DEF NavDays, NavsOf
<1>4. \A d \in NavDays(navs) : navs[d] \in Nat /\ navs[d] # 0
  <2> TAKE d \in NavDays(navs)
  <2>1. navs[d] \in Navs \cup {NoNav}
    BY <1>3 DEF NavsOf
  <2>2. navs[d] \in Nat
    BY <2>1, NavsNat
  <2> QED BY <1>3, <2>2
<1>5. IsFiniteSet(NavDays(navs))
  BY <1>1, <1>2, FS_Subset
<1> QED BY <1>1, <1>3, <1>4, <1>5

\* The latest NAV of some days is stored.
LEMMA LatestIs ==
  ASSUME NavsOf(today, navs), NEW s, s \subseteq NavDays(navs), s # {}
  PROVE  /\ Max(s) \in s /\ \A d \in s : d <= Max(s)
         /\ LatestOf(navs, s) = navs[Max(s)]
<1>1. s \in SUBSET Nat /\ today \in Nat /\ \A d \in s : d <= today
  BY NavsTyped
<1>2. Max(s) \in s /\ \A d \in s : d <= Max(s)
  BY <1>1, MaxOfBounded
<1> QED BY <1>2 DEF LatestOf

\* The next NAV after a day moves from the one from which entries of the day
\* are counted; the first NAV moves from none, and is that one itself.
LEMMA NextMove ==
  ASSUME NavsOf(today, navs), NEW day \in Nat, NEW next \in NavDays(navs), day < next,
         \A d \in NavDays(navs) : day < d => next <= d
  PROVE  BaseNav(day) = navs[next] - Move(next) /\ Move(next) \in Int
<1> DEFINE upTo == {d \in NavDays(navs) : d <= day}
           prev == {d \in NavDays(navs) : d < next}
<1>1. NavDays(navs) \subseteq Nat /\ \A d \in NavDays(navs) : navs[d] \in Nat /\ navs[d] # 0
  BY NavsTyped
<1>2. upTo = prev
  <2>1. \A d \in NavDays(navs) : d <= day <=> d < next
    BY <1>1
  <2> QED BY <2>1
<1>3. PrevNav(navs, next) = LatestOf(navs, upTo)
  BY <1>2 DEF PrevNav
<1>4. CASE upTo = {}
  <2>1. PrevNav(navs, next) = NoNav
    BY <1>3, <1>4 DEF LatestOf
  <2>2. Move(next) = 0
    BY <2>1 DEF Move
  <2>3. Min(NavDays(navs)) = next
    <3>1. \A d \in NavDays(navs) : next <= d
      <4> TAKE d \in NavDays(navs)
      <4>1. d \notin upTo
        BY <1>4
      <4>2. day < d
        BY <1>1, <4>1
      <4> QED BY <4>2
    <3>2. Min(NavDays(navs)) \in NavDays(navs) /\ \A d \in NavDays(navs) : Min(NavDays(navs)) <= d
      BY <1>1, MinOf
    <3> DEFINE m == Min(NavDays(navs))
    <3>3. m \in Nat /\ next \in Nat /\ m <= next /\ next <= m
      BY <1>1, <3>1, <3>2
    <3> QED BY <3>3
  <2>4. BaseNav(day) = navs[next]
    BY <1>4, <2>3 DEF BaseNav
  <2> QED BY <1>1, <2>2, <2>4
<1>5. CASE upTo # {}
  <2>1. upTo \subseteq NavDays(navs)
    OBVIOUS
  <2> DEFINE m == Max(upTo)
  <2>2. BaseNav(day) = navs[m]
    BY <1>5 DEF BaseNav
  <2> HIDE DEF upTo
  <2>3. m \in NavDays(navs) /\ LatestOf(navs, upTo) = navs[m]
    BY <1>5, <2>1, LatestIs
  <2>4. navs[m] \in Nat /\ navs[m] # 0 /\ navs[next] \in Nat
    BY <1>1, <2>3
  <2>5. Move(next) = navs[next] - navs[m]
    BY <1>3, <2>3, <2>4 DEF Move, NoNav
  <2> QED BY <2>2, <2>4, <2>5
<1> QED BY <1>4, <1>5

\* What a share gains from one NAV to another is a number.
LEMMA MoveTyped ==
  ASSUME NavsOf(today, navs), NEW d \in NavDays(navs)
  PROVE  Move(d) \in Int
<1> DEFINE s == {e \in NavDays(navs) : e < d}
<1>1. navs[d] \in Nat
  BY NavsTyped
<1>2. s \in SUBSET NavDays(navs)
  OBVIOUS
<1>3. PrevNav(navs, d) = LatestOf(navs, s)
  BY DEF PrevNav
<1> HIDE DEF s
<1>4. LatestOf(navs, s) \in Navs \cup {NoNav}
  BY <1>2, LatestTyped DEF NavsOf
<1>5. PrevNav(navs, d) \in Nat
  BY <1>3, <1>4, NavsNat
<1> QED BY <1>1, <1>5 DEF Move

\* After a day a share gains the latest NAV less the one it is counted from.
LEMMA RiseIs ==
  ASSUME NavsOf(today, navs), NavDays(navs) # {}, NEW day \in Nat
  PROVE  /\ SumOf(Rise(day), NavDays(navs)) = LatestNav(navs) - BaseNav(day)
         /\ LatestNav(navs) \in Nat /\ BaseNav(day) \in Int
<1> DEFINE D == NavDays(navs)
           N == LatestNav(navs)
           Holds(n) == SumOf(Rise(n), D) = N - BaseNav(n) /\ BaseNav(n) \in Int
           T == {k \in 0..today : \A n \in Nat : n + k >= today => Holds(n)}
<1>1. /\ D \subseteq Nat /\ today \in Nat /\ IsFiniteSet(D) /\ D # {}
      /\ \A d \in D : d <= today /\ navs[d] \in Nat /\ navs[d] # 0
  BY NavsTyped
<1>2. Max(D) \in D /\ (\A d \in D : d <= Max(D)) /\ N = navs[Max(D)]
  <2>1. D \subseteq NavDays(navs) /\ D # {}
    BY <1>1
  <2>2. N = LatestOf(navs, D)
    BY DEF LatestNav
  <2> HIDE DEF D, N
  <2> QED BY <2>1, <2>2, LatestIs
<1>3. N \in Nat
  BY <1>1, <1>2
<1>4. ASSUME NEW n \in Nat PROVE \A d \in D : Rise(n)[d] \in Int
  BY MoveTyped DEF Rise
<1>5. 0 \in T
  <2> SUFFICES ASSUME NEW n \in Nat, n + 0 >= today PROVE Holds(n)
    BY <1>1
  <2>1. \A d \in D : d <= n
    BY <1>1
  <2>2. \A d \in D : Rise(n)[d] = 0
    BY <1>1, <2>1 DEF Rise
  <2>3. SumOf(Rise(n), D) = 0
    <3> DEFINE w == Rise(n)
    <3> HIDE DEF w, D
    <3>1. \A d \in D : w[d] = 0
      BY <2>2 DEF w
    <3>2. SumOf(w, D) = 0
      BY <1>1, <3>1, SumOfZeros
    <3> QED BY <3>2 DEF w
  <2>4. BaseNav(n) = navs[Max(D)]
    <3>1. {d \in D : d <= n} = D
      BY <2>1
    <3> QED BY <1>1, <3>1 DEF BaseNav
  <2> HIDE DEF N
  <2> QED BY <1>2, <1>3, <2>3, <2>4
<1>6. ASSUME NEW k \in 1..today, k - 1 \in T PROVE k \in T
  <2> SUFFICES ASSUME NEW n \in Nat, n + k >= today PROVE Holds(n)
    BY <1>1
  <2>1. \A m \in Nat : m + (k - 1) >= today => Holds(m)
    BY <1>6
  <2>2. CASE \A d \in D : d <= n
    <3>1. n + 1 \in Nat /\ n \in Nat
      OBVIOUS
    <3>2. \A d \in D : Rise(n)[d] = Rise(n + 1)[d]
      BY <1>1, <2>2 DEF Rise
    <3>3. BaseNav(n) = BaseNav(n + 1)
      <4>1. {d \in NavDays(navs) : d <= n} = {d \in NavDays(navs) : d <= n + 1}
        BY <1>1, <2>2
      <4> QED BY <4>1, Zenon DEF BaseNav
    <3>4. Holds(n + 1)
      <4>1. (n + 1) + (k - 1) >= today
        BY <1>1
      <4> HIDE DEF Holds
      <4> QED BY <2>1, <3>1, <4>1
    <3>5. SumOf(Rise(n), D) = SumOf(Rise(n + 1), D)
      <4> DEFINE u == Rise(n)
                 v == Rise(n + 1)
      <4> HIDE DEF u, v, D
      <4> QED BY <1>1, <3>2, SumSame DEF u, v
    <3>6. SumOf(Rise(n + 1), D) = N - BaseNav(n + 1) /\ BaseNav(n + 1) \in Int
      BY <3>4
    <3> QED BY <3>3, <3>5, <3>6
  <2>3. CASE \E d \in D : ~ (d <= n)
    <3> DEFINE after == {d \in D : n < d}
               next == Min(after)
    <3>1. after \subseteq Nat /\ after # {}
      BY <1>1, <2>3
    <3>2. next \in after /\ \A d \in after : next <= d
      <4> HIDE DEF after
      <4> QED BY <3>1, MinOf
    <3> HIDE DEF next
    <3>3. /\ next \in D /\ next \in Nat /\ n < next
          /\ \A d \in D : n < d => next <= d
      BY <1>1, <3>2
    <3>4. BaseNav(n) = navs[next] - Move(next) /\ Move(next) \in Int
      BY <3>3, NextMove
    <3>5. Holds(next)
      <4>1. next + (k - 1) >= today
        BY <1>1, <3>3
      <4> QED BY <2>1, <3>3, <4>1
    <3>6. BaseNav(next) = navs[next]
      <4>1. next \in {d \in D : d <= next} /\ {d \in D : d <= next} \subseteq Nat
        BY <1>1, <3>3
      <4>2. Max({d \in D : d <= next}) = next
        <5> DEFINE s == {d \in D : d <= next}
        <5>1. s \subseteq Int /\ next \in s /\ \A d \in s : d <= next
          BY <1>1, <4>1
        <5> HIDE DEF s
        <5> QED BY <5>1, MaxIs DEF s
      <4>3. {d \in NavDays(navs) : d <= next} # {}
        BY <4>1
      <4>4. Max({d \in NavDays(navs) : d <= next}) = next
        BY <4>2
      <4> QED BY <4>3, <4>4, Zenon DEF BaseNav
    <3>7. SumOf(Rise(n), D) = Move(next) + SumOf(Rise(next), D)
      <4> DEFINE w == Rise(n)
                 v == Rise(next)
                 u == [d \in D |-> IF d = next THEN Move(next) ELSE 0]
      <4>1. \A d \in D : u[d] = IF d = next THEN Move(next) ELSE 0
        OBVIOUS
      <4>2. ASSUME NEW d \in D
            PROVE  u[d] \in Int /\ v[d] \in Int /\ w[d] = u[d] + v[d]
        <5>1. Move(d) \in Int
          BY MoveTyped
        <5>2. d \in Nat /\ (n < d => next <= d)
          BY <1>1, <3>3
        <5>3. w[d] = (IF n < d THEN Move(d) ELSE 0) /\ v[d] = IF next < d THEN Move(d) ELSE 0
          BY DEF Rise
        <5>4. u[d] = IF d = next THEN Move(d) ELSE 0
          OBVIOUS
        <5> HIDE DEF u, v, w
        <5>5. CASE d = next
          BY <3>3, <5>1, <5>2, <5>3, <5>4, <5>5
        <5>6. CASE d # next
          BY <3>3, <5>1, <5>2, <5>3, <5>4, <5>6
        <5> QED BY <5>5, <5>6
      <4> HIDE DEF u, v, w, D
      <4>3. SumOf(w, D) = SumOf(u, D) + SumOf(v, D)
        BY <1>1, <4>2, SumOfSums
      <4>4. SumOf(u, D) = Move(next)
        <5>1. SumOf(u, D) = IF next \in D THEN Move(next) ELSE 0
          BY <1>1, <3>4, <4>1, SumAtOne
        <5> QED BY <3>3, <5>1
      <4> QED BY <4>3, <4>4 DEF v, w
    <3>8. navs[next] \in Nat
      BY <1>1, <3>3
    <3> HIDE DEF N, D
    <3> QED BY <1>3, <3>4, <3>5, <3>6, <3>7, <3>8
  <2> QED BY <2>2, <2>3
<1>7. \A k \in 0..today : k \in T
  <2>1. T \subseteq Nat
    OBVIOUS
  <2> HIDE DEF T
  <2> QED BY <1>1, <1>5, <1>6, <2>1, InductionUpTo
<1>8. Holds(day)
  <2>1. today \in T /\ day + today >= today
    BY <1>1, <1>7
  <2> QED BY <2>1
<1> QED BY <1>3, <1>8

\* What the shares held at the opening of a day gain on it, times FenScale and
\* in fen.
Held == [d \in NavDays(navs) |->
           Move(d) * SumOf(SignsBefore(entries, d), DOMAIN entries)]

HeldFen == [d \in NavDays(navs) |->
              Hold(AtOpen(entries, d).st.SharesE8, navs, d)]

\* What the shares of an entry gain on the days after its own.
After == [i \in DOMAIN entries |->
            Signed(entries[i]) * (LatestNav(navs) - BaseNav(entries[i].day))]

\* What the shares of a buy gain on its own day, times FenScale and in fen.
CountsOnDay(e) == e.kind = "buy" /\ e.day \in NavDays(navs)

OnDay == [i \in DOMAIN entries |->
            IF CountsOnDay(entries[i])
            THEN entries[i].shares * (navs[entries[i].day] - entries[i].nav) ELSE 0]

OnDayFen == [i \in DOMAIN entries |->
               IF CountsOnDay(entries[i])
               THEN MulDiv(entries[i].shares,
                           navs[entries[i].day] - entries[i].nav, FenScale)
               ELSE 0]

\* The state in which there is something to account for.
Priced == HInv /\ NavDays(navs) # {} /\ Shown

\* The days and the entries, and what a share gains after the day of each.
LEMMA PricedFacts ==
  ASSUME Priced
  PROVE  /\ NavsOf(today, navs) /\ entries \in Seq(Counted) /\ InOrder(entries)
         /\ IsFiniteSet(NavDays(navs)) /\ IsFiniteSet(DOMAIN entries)
         /\ LatestNav(navs) \in Nat
         /\ \A d \in NavDays(navs) : d \in Nat /\ d \in Days /\ navs[d] \in Nat /\ Move(d) \in Int
         /\ \A i \in DOMAIN entries :
              /\ BaseNav(entries[i].day) \in Int
              /\ SumOf(Rise(entries[i].day), NavDays(navs))
                   = LatestNav(navs) - BaseNav(entries[i].day)
<1>1. NavsOf(today, navs) /\ entries \in Seq(Counted) /\ InOrder(entries)
  BY DEF Priced, HInv, Listed
<1>2. NavDays(navs) # {}
  BY DEF Priced
<1>3. IsFiniteSet(NavDays(navs))
  BY <1>1, NavsTyped
<1>4. ASSUME NEW d \in NavDays(navs)
      PROVE  d \in Nat /\ d \in Days /\ navs[d] \in Nat /\ Move(d) \in Int
  BY <1>1, NavsTyped, MoveTyped
<1>5. IsFiniteSet(DOMAIN entries) /\ \A i \in DOMAIN entries : entries[i].day \in Nat
  BY <1>1, EntryTyped
<1>6. ASSUME NEW i \in DOMAIN entries
      PROVE  /\ BaseNav(entries[i].day) \in Int
             /\ SumOf(Rise(entries[i].day), NavDays(navs))
                  = LatestNav(navs) - BaseNav(entries[i].day)
  BY <1>1, <1>2, <1>5, RiseIs
<1>7. LatestNav(navs) \in Nat
  <2>1. 0 \in Nat
    OBVIOUS
  <2> QED BY <1>1, <1>2, <2>1, RiseIs
<1> QED BY <1>1, <1>3, <1>4, <1>5, <1>6, <1>7

\* Day by day or entry by entry, the shares held gain the same.
LEMMA HeldIsAfter ==
  ASSUME Priced
  PROVE  /\ SumOf(Held, NavDays(navs)) = SumOf(After, DOMAIN entries)
         /\ \A d \in NavDays(navs) : Held[d] \in Int
<1> DEFINE D == NavDays(navs)
           I == DOMAIN entries
           f == [d \in D |-> [i \in I |->
                   IF entries[i].day < d THEN Move(d) * Signed(entries[i]) ELSE 0]]
           g == [i \in I |-> [d \in D |-> f[d][i]]]
<1>1. IsFiniteSet(D) /\ IsFiniteSet(I) /\ entries \in Seq(Counted)
  BY PricedFacts
<1>2. \A d \in D : Move(d) \in Int /\ d \in Nat
  BY PricedFacts
<1>3. \A i \in I : Signed(entries[i]) \in Int /\ entries[i].day \in Nat
  BY <1>1, EntryTyped
<1>4. \A d \in D : \A i \in I : f[d][i] \in Int /\ g[i][d] = f[d][i]
  BY <1>2, <1>3
<1>5. ASSUME NEW d \in D
      PROVE  /\ Held[d] = SumOf(f[d], I) /\ Held[d] \in Int
  <2> DEFINE u == SignsBefore(entries, d)
             w == f[d]
             k == Move(d)
  <2>1. \A i \in I : u[i] \in Int /\ w[i] = k * u[i]
    <3> TAKE i \in I
    <3>1. u[i] = IF entries[i].day < d THEN Signed(entries[i]) ELSE 0
      BY DEF SignsBefore
    <3>2. w[i] = IF entries[i].day < d THEN k * Signed(entries[i]) ELSE 0
      OBVIOUS
    <3> HIDE DEF u, w, k
    <3>3. k \in Int /\ Signed(entries[i]) \in Int
      BY <1>2, <1>3 DEF k
    <3>4. k * 0 = 0
      BY <3>3
    <3> QED BY <3>1, <3>2, <3>3, <3>4
  <2>2. Held[d] = k * SumOf(u, I)
    BY DEF Held
  <2>3. k \in Int
    BY <1>2
  <2> HIDE DEF u, w, k, I
  <2>4. SumOf(w, I) = k * SumOf(u, I)
    BY <1>1, <2>1, <2>3, SumScaled
  <2>5. SumOf(u, I) \in Int
    BY <1>1, <2>1, SumTyped
  <2> QED BY <2>2, <2>3, <2>4, <2>5 DEF w
<1>6. ASSUME NEW i \in I
      PROVE  After[i] = SumOf(g[i], D)
  <2> DEFINE u == Rise(entries[i].day)
             w == g[i]
             k == Signed(entries[i])
  <2>1. \A d \in D : u[d] \in Int /\ w[d] = k * u[d]
    <3> TAKE d \in D
    <3>1. u[d] = IF entries[i].day < d THEN Move(d) ELSE 0
      BY DEF Rise
    <3>2. w[d] = IF entries[i].day < d THEN Move(d) * k ELSE 0
      OBVIOUS
    <3> HIDE DEF u, w, k
    <3>3. k \in Int /\ Move(d) \in Int
      BY <1>2, <1>3 DEF k
    <3>4. k * 0 = 0 /\ Move(d) * k = k * Move(d)
      BY <3>3
    <3> QED BY <3>1, <3>2, <3>3, <3>4
  <2>2. SumOf(u, D) = LatestNav(navs) - BaseNav(entries[i].day)
    BY PricedFacts
  <2>3. After[i] = k * SumOf(u, D)
    BY <2>2 DEF After
  <2>4. k \in Int
    BY <1>3
  <2> HIDE DEF u, w, k, D
  <2>5. SumOf(w, D) = k * SumOf(u, D)
    BY <1>1, <2>1, <2>4, SumScaled
  <2> QED BY <2>3, <2>5 DEF w
<1>7. \A d \in NavDays(navs) : Held[d] \in Int
  BY <1>5
<1> HIDE DEF D, I, f, g
<1>8. IsTable(f, g, Held, After, D, I)
  BY <1>4, <1>5, <1>6 DEF IsTable
<1>9. SumOf(Held, D) = SumOf(After, I)
  BY <1>1, <1>8, SumByColumns
<1> QED BY <1>7, <1>9, Zenon DEF D, I

\* Day by day or entry by entry, what is bought gains the same on its day.
LEMMA BoughtIsOnDay ==
  ASSUME Priced
  PROVE  SumOf([d \in NavDays(navs) |-> BuyD(entries, navs, d)], NavDays(navs))
           = SumOf(OnDayFen, DOMAIN entries)
<1> DEFINE D == NavDays(navs)
           I == DOMAIN entries
           Gained(i, d) == MulDiv(entries[i].shares, navs[d] - entries[i].nav, FenScale)
           f == [d \in D |-> [i \in I |->
                   IF entries[i].kind = "buy" /\ entries[i].day = d THEN Gained(i, d) ELSE 0]]
           g == [i \in I |-> [d \in D |-> f[d][i]]]
           r == [d \in D |-> BuyD(entries, navs, d)]
<1>1. IsFiniteSet(D) /\ IsFiniteSet(I) /\ entries \in Seq(Counted)
  BY PricedFacts
<1>2. \A d \in D : d \in Days /\ navs[d] \in Nat
  BY PricedFacts
<1>3. \A i \in I : \A d \in D : Gained(i, d) \in Int
  <2> TAKE i \in I
  <2> TAKE d \in D
  <2>1. entries[i].shares \in Int /\ entries[i].nav \in Int /\ navs[d] \in Int
    BY <1>1, <1>2, EntryTyped
  <2>2. navs[d] - entries[i].nav \in Int
    BY <2>1
  <2> QED BY <2>1, <2>2, FenScaleAssumption, MulDivInt
<1>4. \A d \in D : \A i \in I : f[d][i] \in Int /\ g[i][d] = f[d][i]
  <2> HIDE DEF Gained
  <2> QED BY <1>3
<1>5. ASSUME NEW d \in D PROVE r[d] = SumOf(f[d], I)
  <2> DEFINE S == BoughtOn(entries, d)
             v == Gain(entries, navs, d)
             w == f[d]
  <2>1. S \in SUBSET I /\ IsFiniteSet(S)
    BY <1>1, BoughtOnFinite
  <2>2. \A i \in S : w[i] = v[i]
    BY DEF BoughtOn, Gain
  <2>3. \A i \in I \ S : w[i] = 0
    BY DEF BoughtOn
  <2>4. \A i \in I : w[i] \in Int
    BY <1>4
  <2>5. r[d] = SumOf(v, S)
    BY BuyDIsSum
  <2> HIDE DEF S, v, w, I, r
  <2>6. SumOf(w, I) = SumOf(w, S)
    BY <1>1, <2>1, <2>3, <2>4, SumOverMore
  <2>7. SumOf(w, S) = SumOf(v, S)
    BY <2>1, <2>2, SumSame
  <2> QED BY <2>5, <2>6, <2>7 DEF w
<1>6. ASSUME NEW i \in I
      PROVE  OnDayFen[i] = SumOf(g[i], D)
  <2> DEFINE x == entries[i].day
             k == IF CountsOnDay(entries[i]) THEN Gained(i, x) ELSE 0
             w == g[i]
  <2>1. OnDayFen[i] = k
    BY DEF OnDayFen
  <2>2. k \in Int /\ (x \notin D => k = 0)
    <3> HIDE DEF Gained
    <3> QED BY <1>3 DEF CountsOnDay
  <2>3. \A d \in D : w[d] = IF d = x THEN k ELSE 0
    <3> HIDE DEF Gained
    <3> QED BY DEF CountsOnDay
  <2> HIDE DEF x, k, w, D
  <2>4. SumOf(w, D) = IF x \in D THEN k ELSE 0
    BY <1>1, <2>2, <2>3, SumAtOne
  <2> QED BY <2>1, <2>2, <2>4 DEF w
<1> HIDE DEF D, I, f, r, g, Gained
<1>7. IsTable(f, g, r, OnDayFen, D, I)
  BY <1>4, <1>5, <1>6 DEF IsTable
<1>8. SumOf(r, D) = SumOf(OnDayFen, I)
  BY <1>1, <1>7, SumByColumns
<1> QED BY <1>8, Zenon DEF D, I, r

\* The rounding of the days.
LEMMA HeldFenNear ==
  ASSUME Priced, NEW d \in NavDays(navs)
  PROVE  HeldFen[d] \in Int /\ Near(FenScale * HeldFen[d], Held[d], FenScale)
<1> DEFINE s == AtOpen(entries, d).st.SharesE8
           x == PrevNav(navs, d)
<1>1. /\ NavsOf(today, navs) /\ entries \in Seq(Counted) /\ InOrder(entries)
      /\ d \in Int /\ d \in Days /\ Move(d) \in Int /\ ~ Replay(entries).err
  BY PricedFacts DEF Priced, Shown
<1>2. PICK h : IsRun(h, entries) /\ Replay(entries) = h[Len(entries)]
  BY <1>1, ReplayRuns
<1>3. s = SumOf(SignsBefore(entries, d), DOMAIN entries)
  BY <1>1, <1>2, OpenAdds
<1>4. s \in Int
  <2>1. s \in Nat
    BY <1>1, BeforeTyped, RemainingTyped DEF AtOpen
  <2> QED BY <2>1
<1>5. Held[d] = Move(d) * s
  BY <1>3 DEF Held
<1>6. HeldFen[d] = Hold(s, navs, d)
  BY DEF HeldFen
<1> HIDE DEF s
<1>7. HeldFen[d] \in Int
  BY <1>1, <1>4, <1>6, HoldTyped DEF NavsOf
<1>8. CASE x = NoNav
  <2>1. HeldFen[d] = 0 /\ Move(d) = 0
    BY <1>6, <1>8 DEF Hold, Move
  <2>2. FenScale * 0 = 0 /\ 0 * s = 0
    BY <1>4, FenScaleAssumption
  <2> QED BY <1>5, <1>7, <2>1, <2>2, FenScaleAssumption DEF Near
<1>9. CASE x # NoNav
  <2>1. HeldFen[d] = MulDiv(s, Move(d), FenScale)
    BY <1>6, <1>9 DEF Hold, Move
  <2>2. Near(FenScale * MulDiv(s, Move(d), FenScale), s * Move(d), FenScale)
    BY <1>1, <1>4, MulDivNear
  <2>3. s * Move(d) = Move(d) * s
    BY <1>1, <1>4
  <2> QED BY <1>5, <1>7, <2>1, <2>2, <2>3
<1> QED BY <1>8, <1>9

\* The rounding of the entries.
LEMMA OnDayFenNear ==
  ASSUME Priced, NEW i \in DOMAIN entries
  PROVE  /\ OnDayFen[i] \in Int /\ OnDay[i] \in Int
         /\ Near(FenScale * OnDayFen[i], OnDay[i], FenScale)
<1> DEFINE e == entries[i]
           s == e.shares
           m == navs[e.day] - e.nav
<1>1. CASE ~ CountsOnDay(e)
  <2>1. OnDayFen[i] = 0 /\ OnDay[i] = 0
    BY <1>1 DEF OnDayFen, OnDay
  <2>2. FenScale * 0 = 0
    BY FenScaleAssumption
  <2> QED BY <2>1, <2>2, FenScaleAssumption DEF Near
<1>2. CASE CountsOnDay(e)
  <2>1. OnDayFen[i] = MulDiv(s, m, FenScale) /\ OnDay[i] = s * m
    BY <1>2 DEF OnDayFen, OnDay
  <2>2. s \in Int /\ m \in Int
    <3>1. entries \in Seq(Counted) /\ e.day \in NavDays(navs)
      BY <1>2, PricedFacts DEF CountsOnDay
    <3>2. navs[e.day] \in Nat
      BY <3>1, PricedFacts
    <3>3. e.nav \in Nat /\ s \in Nat
      BY <3>1, EntryTyped
    <3> QED BY <3>2, <3>3
  <2> HIDE DEF s, m
  <2>3. MulDiv(s, m, FenScale) \in Int
    BY <2>2, FenScaleAssumption, MulDivInt
  <2>4. Near(FenScale * MulDiv(s, m, FenScale), s * m, FenScale)
    BY <2>2, MulDivNear
  <2>5. s * m \in Int
    BY <2>2
  <2> QED BY <2>1, <2>3, <2>4, <2>5
<1> QED BY <1>1, <1>2

\* The days collected are what is held and what is bought.
LEMMA CollectedIs ==
  ASSUME Priced
  PROVE  CollectedDailySum(entries, navs)
           = SumOf(HeldFen, NavDays(navs)) + SumOf(OnDayFen, DOMAIN entries)
<1> DEFINE D == NavDays(navs)
           w == Daily(entries, navs, D)
           u == HeldFen
           v == [d \in D |-> BuyD(entries, navs, d)]
<1>1. IsFiniteSet(D)
  BY PricedFacts
<1>2. /\ NavsOf(today, navs) /\ entries \in Seq(Counted) /\ InOrder(entries)
      /\ ~ Replay(entries).err /\ navs \in [Days -> Navs \cup {NoNav}]
  BY PricedFacts DEF Priced, Shown, NavsOf
<1>3. PICK h : IsRun(h, entries) /\ Replay(entries) = h[Len(entries)]
  BY <1>2, ReplayRuns
<1>4. ASSUME NEW d \in D PROVE u[d] \in Int /\ v[d] \in Int /\ w[d] = u[d] + v[d]
  <2>1. d \in Int /\ d \in Days /\ navs[d] # 0
    <3>1. d \in Nat /\ d \in Days
      BY PricedFacts
    <3>2. navs[d] # 0
      BY <1>2, NavsTyped
    <3> QED BY <3>1, <3>2
  <2>2. AtOpen(entries, d).err = FALSE
    BY <1>2, <1>3, <2>1, OpenAdds
  <2>3. NavOn(navs, d) # NoNav
    BY <2>1 DEF NavOn, NoNav
  <2>4. DailyPnl(entries, navs, d) =
          Hold(AtOpen(entries, d).st.SharesE8, navs, d) + BuyD(entries, navs, d)
    BY <2>2, <2>3 DEF DailyPnl
  <2>5. w[d] = u[d] + v[d]
    BY <2>4 DEF Daily, HeldFen
  <2>6. u[d] \in Int
    BY HeldFenNear
  <2>7. v[d] \in Int
    BY <1>2, <2>1, BuyDTyped
  <2> QED BY <2>5, <2>6, <2>7
<1>5. SumOf(v, D) = SumOf(OnDayFen, DOMAIN entries)
  BY BoughtIsOnDay
<1>6. CollectedDailySum(entries, navs) = SumOf(w, D)
  BY DailySum
<1> HIDE DEF D, u, v, w
<1>7. SumOf(w, D) = SumOf(u, D) + SumOf(v, D)
  BY <1>1, <1>4, SumOfSums
<1>8. CollectedDailySum(entries, navs) = SumOf(u, D) + SumOf(OnDayFen, DOMAIN entries)
  BY <1>5, <1>6, <1>7
<1> QED BY <1>8, Zenon DEF D, u

\* There are n numbers from one to n.
LEMMA CountUpTo ==
  ASSUME NEW n \in Nat
  PROVE  Cardinality(1..n) = n
BY FS_Interval

\* A number and its negative below a bound are within it.
LEMMA AbsBelow ==
  ASSUME NEW n \in Int, NEW bound \in Int, n < bound, - n < bound
  PROVE  Abs(n) < bound
BY DEF Abs

\* They are, but for the rounding, what the shares gain after the day of each
\* entry and on it.
LEMMA CollectedNear ==
  ASSUME Priced
  PROVE  /\ Near(FenScale * SumOf(HeldFen, NavDays(navs)), SumOf(After, DOMAIN entries),
                 FenScale * Cardinality(NavDays(navs)))
         /\ Near(FenScale * SumOf(OnDayFen, DOMAIN entries), SumOf(OnDay, DOMAIN entries),
                 FenScale * Len(entries))
         /\ SumOf(HeldFen, NavDays(navs)) \in Int /\ SumOf(OnDayFen, DOMAIN entries) \in Int
         /\ SumOf(After, DOMAIN entries) \in Int /\ SumOf(OnDay, DOMAIN entries) \in Int
         /\ Cardinality(NavDays(navs)) \in Nat
<1> DEFINE D == NavDays(navs)
           I == DOMAIN entries
<1>1. /\ IsFiniteSet(D) /\ IsFiniteSet(I) /\ entries \in Seq(Counted)
      /\ FenScale \in Nat /\ FenScale \in Int
  BY PricedFacts, FenScaleAssumption
<1>2. Cardinality(I) = Len(entries)
  <2>1. I = 1..Len(entries) /\ Len(entries) \in Nat
    BY <1>1
  <2>2. Cardinality(1..Len(entries)) = Len(entries)
    BY <2>1, CountUpTo
  <2> QED BY <2>1, <2>2
<1>3. \A d \in D : /\ HeldFen[d] \in Int /\ Held[d] \in Int
                   /\ Near(FenScale * HeldFen[d], Held[d], FenScale)
  BY HeldFenNear, HeldIsAfter
<1>4. \A i \in I : /\ OnDayFen[i] \in Int /\ OnDay[i] \in Int
                   /\ Near(FenScale * OnDayFen[i], OnDay[i], FenScale)
  BY OnDayFenNear
<1>5. SumOf(Held, D) = SumOf(After, I)
  BY HeldIsAfter
<1>6. Cardinality(D) \in Nat
  BY <1>1, FS_CardinalityType
<1> HIDE DEF D, I
<1>7. /\ Near(FenScale * SumOf(HeldFen, D), SumOf(Held, D), FenScale * Cardinality(D))
      /\ SumOf(HeldFen, D) \in Int /\ SumOf(Held, D) \in Int
  BY <1>1, <1>3, SumScaledNear
<1>8. /\ Near(FenScale * SumOf(OnDayFen, I), SumOf(OnDay, I), FenScale * Cardinality(I))
      /\ SumOf(OnDayFen, I) \in Int /\ SumOf(OnDay, I) \in Int
  BY <1>1, <1>4, SumScaledNear
<1>9. /\ Near(FenScale * SumOf(HeldFen, D), SumOf(After, I), FenScale * Cardinality(D))
      /\ Near(FenScale * SumOf(OnDayFen, I), SumOf(OnDay, I), FenScale * Len(entries))
      /\ SumOf(HeldFen, D) \in Int /\ SumOf(OnDayFen, I) \in Int
      /\ SumOf(After, I) \in Int /\ SumOf(OnDay, I) \in Int
      /\ Cardinality(D) \in Nat
  BY <1>2, <1>5, <1>6, <1>7, <1>8
<1> QED BY <1>9, Zenon DEF D, I

\* What each entry adds to the gap, and their sum.
GapParts == [i \in DOMAIN entries |-> GapPart(entries[i])]

GapSum ==
    LET Part(i) == GapPart(entries[i])
    IN MapThenSumSet(Part, DOMAIN entries)

\* It is a sum in the sense of FoldProofs.
LEMMA GapSumIs == GapSum = SumOf(GapParts, DOMAIN entries)
<1> DEFINE S == DOMAIN entries
           v(i) == GapPart(entries[i])
           w == GapParts
           R(g, s) == IF s = {} THEN 0 ELSE v(Some(s)) + g[s \ {Some(s)}]
<1>1. GapSum = (CHOOSE g : g = [s \in SUBSET S |-> R(g, s)])[S]
  BY DEF GapSum, MapThenSumSet, MapThenFoldSet, Some
<1>2. ASSUME NEW g
      PROVE  [s \in SUBSET S |-> R(g, s)] = [s \in SUBSET S |-> SumRound(g, w, s)]
  <2>1. ASSUME NEW s \in SUBSET S PROVE R(g, s) = SumRound(g, w, s)
    <3>1. CASE s = {}
      BY <3>1 DEF SumRound
    <3>2. CASE s # {}
      <4>1. Some(s) \in DOMAIN entries
        BY <3>2 DEF Some
      <4>2. w[Some(s)] = v(Some(s))
        BY <4>1 DEF GapParts
      <4> QED BY <3>2, <4>2 DEF SumRound
    <3> QED BY <3>1, <3>2
  <2> HIDE DEF R, S, w
  <2> QED BY <2>1
<1> HIDE DEF S, v, w, R
<1>3. (CHOOSE g : g = [s \in SUBSET S |-> R(g, s)])
        = (CHOOSE g : g = [s \in SUBSET S |-> SumRound(g, w, s)])
  BY <1>2, Zenon
<1>4. GapSum = SumOf(w, S)
  BY <1>1, <1>3, Zenon DEF SumOf, IsSum
<1> QED BY <1>4 DEF w, S

\* What one entry adds to the gap, with what its shares gain, is what it pays
\* out and what its shares are worth at the latest NAV.
LEMMA PartIs ==
  ASSUME Priced, NEW i \in DOMAIN entries
  PROVE  /\ GapParts[i] \in Int /\ After[i] \in Int /\ OnDay[i] \in Int
         /\ GapParts[i] + (After[i] + OnDay[i])
              = FenScale * Flow(entries)[i] + LatestNav(navs) * Signs(entries)[i]
<1> DEFINE e == entries[i]
           s == e.shares
           c == e.cash
           n == e.nav
           base == BaseNav(e.day)
           N == LatestNav(navs)
           F == FenScale
<1>1. /\ s \in Nat /\ c \in Nat /\ n \in Nat /\ e.kind \in {"buy", "redeem"}
      /\ Signs(entries)[i] = Signed(e) /\ Flow(entries)[i] = PaidOut(e)
  BY PricedFacts, EntryTyped
<1>2. base \in Int /\ N \in Int /\ F \in Int
  BY PricedFacts, FenScaleAssumption
<1>3. /\ GapParts[i] = GapPart(e) /\ After[i] = Signed(e) * (N - base)
  BY DEF GapParts, After
<1>4. CASE e.kind = "buy" /\ CountsOnDay(e)
  <2>1. e.day \in NavDays(navs) /\ NavsOf(today, navs)
    BY <1>4, PricedFacts DEF CountsOnDay
  <2>2. navs[e.day] = base
    <3> DEFINE u == {d \in NavDays(navs) : d <= e.day}
    <3>1. u \subseteq Int /\ e.day \in u /\ \A d \in u : d <= e.day
      BY <2>1, NavsTyped
    <3>2. base = navs[Max(u)]
      BY <3>1 DEF BaseNav
    <3> HIDE DEF u
    <3>3. Max(u) = e.day
      BY <3>1, MaxIs
    <3> QED BY <3>2, <3>3
  <2>3. NavOn(navs, e.day) # NoNav
    <3>1. navs[e.day] # 0
      BY <2>1, NavsTyped
    <3> QED BY <2>1, <3>1 DEF NavOn, NoNav
  <2>4. /\ GapPart(e) = s * n - F * c
        /\ Signed(e) = s /\ PaidOut(e) = -c
        /\ OnDay[i] = s * (base - n)
    BY <1>4, <2>2, <2>3 DEF GapPart, Signed, PaidOut, OnDay
  <2> HIDE DEF e, s, c, n, base, N, F
  <2>5. /\ s * (N - base) = s * N - s * base /\ s * (base - n) = s * base - s * n
        /\ F * (-c) = -(F * c) /\ N * s = s * N
        /\ s * N \in Int /\ s * base \in Int /\ s * n \in Int /\ F * c \in Int
    BY <1>1, <1>2
  <2>6. /\ GapParts[i] = s * n - F * c
        /\ After[i] = s * N - s * base
        /\ OnDay[i] = s * base - s * n
        /\ F * Flow(entries)[i] = -(F * c)
        /\ N * Signs(entries)[i] = s * N
    BY <1>1, <1>3, <2>4, <2>5
  <2>7. /\ GapParts[i] \in Int /\ After[i] \in Int /\ OnDay[i] \in Int
        /\ GapParts[i] + (After[i] + OnDay[i])
             = F * Flow(entries)[i] + N * Signs(entries)[i]
    BY <2>5, <2>6
  <2> QED BY <2>7 DEF F, N
<1>5. CASE e.kind = "buy" /\ ~ CountsOnDay(e)
  <2>1. NavOn(navs, e.day) = NoNav
    BY <1>5 DEF CountsOnDay, NavOn
  <2>2. /\ GapPart(e) = s * base - F * c
        /\ Signed(e) = s /\ PaidOut(e) = -c
        /\ OnDay[i] = 0
    BY <1>5, <2>1 DEF GapPart, Signed, PaidOut, OnDay
  <2> HIDE DEF e, s, c, n, base, N, F
  <2>5. /\ s * (N - base) = s * N - s * base
        /\ F * (-c) = -(F * c) /\ N * s = s * N
        /\ s * N \in Int /\ s * base \in Int /\ F * c \in Int
    BY <1>1, <1>2
  <2>6. /\ GapParts[i] = s * base - F * c
        /\ After[i] = s * N - s * base
        /\ OnDay[i] = 0
        /\ F * Flow(entries)[i] = -(F * c)
        /\ N * Signs(entries)[i] = s * N
    BY <1>1, <1>3, <2>2, <2>5
  <2>7. /\ GapParts[i] \in Int /\ After[i] \in Int /\ OnDay[i] \in Int
        /\ GapParts[i] + (After[i] + OnDay[i])
             = F * Flow(entries)[i] + N * Signs(entries)[i]
    BY <2>5, <2>6
  <2> QED BY <2>7 DEF F, N
<1>6. CASE e.kind = "redeem"
  <2>2. /\ GapPart(e) = F * c - s * base
        /\ Signed(e) = -s /\ PaidOut(e) = c
        /\ OnDay[i] = 0
    BY <1>6 DEF GapPart, Signed, PaidOut, OnDay, CountsOnDay
  <2> HIDE DEF e, s, c, n, base, N, F
  <2>5. /\ (-s) * (N - base) = s * base - s * N
        /\ N * (-s) = -(s * N)
        /\ s * N \in Int /\ s * base \in Int /\ F * c \in Int
    BY <1>1, <1>2
  <2>6. /\ GapParts[i] = F * c - s * base
        /\ After[i] = s * base - s * N
        /\ OnDay[i] = 0
        /\ F * Flow(entries)[i] = F * c
        /\ N * Signs(entries)[i] = -(s * N)
    BY <1>1, <1>3, <2>2, <2>5
  <2>7. /\ GapParts[i] \in Int /\ After[i] \in Int /\ OnDay[i] \in Int
        /\ GapParts[i] + (After[i] + OnDay[i])
             = F * Flow(entries)[i] + N * Signs(entries)[i]
    BY <2>5, <2>6
  <2> QED BY <2>7 DEF F, N
<1> QED BY <1>1, <1>4, <1>5, <1>6

\* So it is of all entries.
LEMMA PartsAre ==
  ASSUME Priced
  PROVE  /\ SumOf(GapParts, DOMAIN entries)
              + (SumOf(After, DOMAIN entries) + SumOf(OnDay, DOMAIN entries))
              = FenScale * SumOf(Flow(entries), DOMAIN entries)
                  + LatestNav(navs) * SumOf(Signs(entries), DOMAIN entries)
         /\ SumOf(GapParts, DOMAIN entries) \in Int
<1> DEFINE I == DOMAIN entries
           N == LatestNav(navs)
           F == FenScale
           flow == Flow(entries)
           signs == Signs(entries)
           gain == [i \in I |-> After[i] + OnDay[i]]
           cash == [i \in I |-> F * flow[i]]
           worth == [i \in I |-> N * signs[i]]
           total == [i \in I |-> cash[i] + worth[i]]
<1>1. IsFiniteSet(I) /\ N \in Int /\ F \in Int
  BY PricedFacts, FenScaleAssumption
<1>2. \A i \in I : flow[i] \in Int /\ signs[i] \in Int
  BY PricedFacts, EntryTyped
<1>3. \A i \in I : /\ GapParts[i] \in Int /\ After[i] \in Int /\ OnDay[i] \in Int
                   /\ GapParts[i] + gain[i] = total[i]
  BY PartIs
<1>4. \A i \in I : /\ cash[i] = F * flow[i] /\ cash[i] \in Int
                   /\ worth[i] = N * signs[i] /\ worth[i] \in Int
                   /\ total[i] = cash[i] + worth[i]
                   /\ gain[i] = After[i] + OnDay[i]
  <2> HIDE DEF F, N, flow, signs
  <2> QED BY <1>1, <1>2
<1> HIDE DEF I, N, F, flow, signs, gain, cash, worth, total
<1>5. SumOf(gain, I) = SumOf(After, I) + SumOf(OnDay, I)
  BY <1>1, <1>3, <1>4, SumOfSums
<1>6. SumOf(total, I) = SumOf(GapParts, I) + SumOf(gain, I)
  <2>1. \A i \in I : /\ GapParts[i] \in Int /\ gain[i] \in Int
                     /\ total[i] = GapParts[i] + gain[i]
    BY <1>3, <1>4
  <2> QED BY <1>1, <2>1, SumOfSums
<1>7. SumOf(total, I) = SumOf(cash, I) + SumOf(worth, I)
  BY <1>1, <1>4, SumOfSums
<1>8. SumOf(cash, I) = F * SumOf(flow, I)
  BY <1>1, <1>2, <1>4, SumScaled
<1>9. SumOf(worth, I) = N * SumOf(signs, I)
  BY <1>1, <1>2, <1>4, SumScaled
<1>10. SumOf(GapParts, I) \in Int
  BY <1>1, <1>3, SumTyped
<1>11. /\ SumOf(GapParts, I) + (SumOf(After, I) + SumOf(OnDay, I))
            = F * SumOf(flow, I) + N * SumOf(signs, I)
       /\ SumOf(GapParts, I) \in Int
  BY <1>5, <1>6, <1>7, <1>8, <1>9, <1>10
<1> QED BY <1>11, Zenon DEF I, N, F, flow, signs

\* An account has been opened at a NAV: without any there are no entries.
GInv == HInv /\ (opened => NavDays(navs) # {})

\* Nothing removes a NAV, and a first buy needs one.
LEMMA StepGInv == GInv /\ [Next]_vars => GInv'
<1> SUFFICES ASSUME GInv, [Next]_vars PROVE GInv'
  OBVIOUS
<1>1. HInv /\ HInv'
  BY StepHInv DEF GInv
<1>2. NavDays(navs) # {} => NavDays(navs') # {}
  <2>1. CASE Publish
    <3>1. PICK day \in 1..today, nav \in Navs : navs' = [navs EXCEPT ![day] = nav]
      BY <2>1 DEF Publish
    <3>2. day \in Days /\ nav > 0 /\ DOMAIN navs = Days
      BY <1>1, InputsAssumption DEF HInv, NavsOf, Days
    <3>3. day \in NavDays(navs')
      BY <3>1, <3>2 DEF NavDays
    <3> QED BY <3>3
  <2>2. CASE ~ Publish
    <3>1. navs' = navs
      BY <2>2 DEF Next, Tick, Create, CreateDeclared, Buy, Redeem, Void, DeleteHolding, vars
    <3> QED BY <3>1
  <2> QED BY <2>1, <2>2
<1>3. CASE Create
  <2>1. PICK day \in OccurDays, cash \in Cash :
          SharesFromCash(cash, ResolveNavForOccur(navs, day, NoNav)) > 0
    BY <1>3 DEF Create
  <2>2. ResolveNavForOccur(navs, day, NoNav) > 0
    <3>1. day \in Days
      BY <1>1, OccurDayTyped DEF HInv, NavsOf
    <3>2. ResolveNavForOccur(navs, day, NoNav) \in Nat
      BY <1>1, <3>1, ResolveTyped DEF HInv, NavsOf
    <3> QED BY <2>1, <3>2 DEF SharesFromCash
  <2>3. NavDays(navs) # {}
    <3> SUFFICES ASSUME NavDays(navs) = {} PROVE FALSE
      OBVIOUS
    <3>1. NavOn(navs, day) = NoNav
      BY DEF NavOn
    <3>2. PrevNav(navs, day) = NoNav
      BY DEF PrevNav, LatestOf
    <3> QED BY <2>2, <3>1, <3>2 DEF ResolveNavForOccur, NoNav
  <2> QED BY <1>1, <1>2, <2>3 DEF GInv
<1>4. ASSUME NEW cumulative \in Declared, CreateDeclared(cumulative) PROVE GInv'
  <2>1. PICK cash \in Cash : ImpliedBuy(cash, cumulative, LatestNav(navs)).shares > 0
    BY <1>4 DEF CreateDeclared
  <2>2. NavDays(navs) # {}
    <3> SUFFICES ASSUME NavDays(navs) = {} PROVE FALSE
      OBVIOUS
    <3>1. LatestNav(navs) = 0
      BY DEF LatestNav, LatestOf, NoNav
    <3>2. ImpliedShares(cash, cumulative, 0) = 0
      BY DEF ImpliedShares, SharesFromCash
    <3>3. ImpliedBuy(cash, cumulative, 0).shares = 0
      BY <3>2 DEF ImpliedBuy
    <3> QED BY <2>1, <3>1, <3>3
  <2> QED BY <1>1, <1>2, <2>2 DEF GInv
<1>5. CASE Tick \/ Publish \/ Buy \/ Redeem \/ Void \/ UNCHANGED vars
  <2>1. opened' = opened
    BY <1>5 DEF Tick, Publish, Buy, Redeem, Void, vars
  <2> QED BY <1>1, <1>2, <2>1 DEF GInv
<1>6. CASE DeleteHolding
  BY <1>1, <1>6 DEF DeleteHolding, GInv
<1> QED BY <1>3, <1>4, <1>5, <1>6 DEF Next

\* The invariant is enough for the gap to come from the prices alone.
LEMMA GapHolds == GInv => GapIsFromPrices
<1> SUFFICES ASSUME GInv, Shown PROVE GapIsFromPrices
  BY DEF GapIsFromPrices
<1> DEFINE F == FenScale
           D == NavDays(navs)
           L == Len(entries)
           divisions == Cardinality(D) + L + 1
<1>0. /\ F \in Nat \ {0} /\ F \in Int
      /\ entries \in Seq(Counted) /\ L \in Nat /\ L \in 0..L /\ DOMAIN entries = 1..L
  <2>1. entries \in Seq(Counted)
    BY DEF GInv, HInv, Listed
  <2> QED BY <2>1, FenScaleAssumption
<1>1. PICK h : IsRun(h, entries) /\ Replay(entries) = h[L]
  BY <1>0, ReplayRuns
<1> DEFINE st == h[L].st
<1>2. ~ h[L].err /\ st \in Positions
  <2>1. ~ h[L].err
    BY <1>1 DEF Shown
  <2>2. h[L] \in Accounts
    BY <1>0, <1>1 DEF IsRun
  <2> QED BY <2>1, <2>2 DEF Accounts
<1>3. /\ st.SharesE8 = SumOf(Signs(entries), 1..L)
      /\ st.TotalRedeemFen - st.TotalBuyFen = SumOf(Flow(entries), 1..L)
  BY <1>0, <1>1, <1>2, RunAdds
<1>4. CASE D = {}
  <2>1. entries = <<>> /\ L = 0
    <3>1. entries = <<>>
      BY <1>4 DEF GInv, HInv
    <3> QED BY <3>1
  <2>2. h[0] = Start
    BY <1>1 DEF IsRun
  <2>3. st.RealizedFen = 0
    BY <2>1, <2>2 DEF Start, NoPosition
  <2>4. CumulativeFen = 0
    <3>1. LatestNav(navs) = NoNav
      BY <1>4 DEF LatestNav, LatestOf
    <3>2. Replay(entries).st.RealizedFen = 0
      BY <1>1, <2>3
    <3> QED BY <3>1, <3>2 DEF CumulativeFen, Cumulative
  <2>5. CollectedDailySum(entries, navs) = 0
    <3>1. SumOf(Daily(entries, navs, D), {}) = 0
      BY SumOfNone
    <3> QED BY <1>4, <3>1, DailySum
  <2>6. Gap = 0
    BY <2>4, <2>5 DEF Gap, CollectionGap
  <2>7. GapSum = 0
    <3>1. DOMAIN entries = {}
      BY <2>1
    <3>2. SumOf(GapParts, {}) = 0
      BY SumOfNone
    <3> QED BY <3>1, <3>2, GapSumIs
  <2>8. divisions = 1
    <3>1. Cardinality(D) = 0
      BY <1>4, FS_EmptySet
    <3> HIDE DEF D
    <3> QED BY <2>1, <3>1
  <2>9. Abs(F * Gap - GapSum) < F * divisions
    <3>1. F * 0 = 0 /\ F * 1 = F
      BY <1>0
    <3>2. F * Gap - GapSum = 0 /\ F * divisions = F
      BY <2>6, <2>7, <2>8, <3>1
    <3>3. Abs(0) = 0
      BY DEF Abs
    <3> QED BY <1>0, <3>2, <3>3
  <2> QED BY <2>9 DEF GapIsFromPrices, GapSum
<1>5. CASE D # {}
  <2>0. Priced
    BY <1>5 DEF Priced, GInv
  <2> DEFINE N == LatestNav(navs)
             worth == CashFromShares(st.SharesE8, N)
             held == SumOf(HeldFen, D)
             onDay == SumOf(OnDayFen, DOMAIN entries)
             heldX == SumOf(After, DOMAIN entries)
             onDayX == SumOf(OnDay, DOMAIN entries)
             parts == SumOf(GapParts, DOMAIN entries)
             flow == SumOf(Flow(entries), 1..L)
             card == Cardinality(D)
  <2>1. N \in Nat /\ N # NoNav
    <3>1. D \subseteq NavDays(navs) /\ NavsOf(today, navs)
      BY <2>0, PricedFacts
    <3>2. N = LatestOf(navs, NavDays(navs))
      BY DEF LatestNav
    <3>3. Max(NavDays(navs)) \in NavDays(navs) /\ N = navs[Max(NavDays(navs))]
      BY <1>5, <3>1, <3>2, LatestIs
    <3> QED BY <3>1, <3>3, NavsTyped DEF NoNav
  <2>2. /\ st.SharesE8 \in Nat /\ st.RealizedFen \in Int /\ st.CostFen \in Int
        /\ st.TotalBuyFen \in Int /\ st.TotalRedeemFen \in Int
        /\ st.RealizedFen = st.TotalRedeemFen - (st.TotalBuyFen - st.CostFen)
    BY <1>2 DEF Positions, Fields
  <2>3. CumulativeFen = st.RealizedFen + (worth - st.CostFen)
    <3>1. Replay(entries).st = st
      BY <1>1
    <3> QED BY <2>1, <3>1 DEF CumulativeFen, Cumulative
  <2>4. /\ worth \in Nat
        /\ F * worth - st.SharesE8 * N < F /\ st.SharesE8 * N - F * worth < F
    BY <2>1, <2>2, CashTyped, CashNear
  <2>5. CollectedDailySum(entries, navs) = held + onDay
    BY <2>0, CollectedIs
  <2>6. /\ Near(F * held, heldX, F * card) /\ Near(F * onDay, onDayX, F * L)
        /\ held \in Int /\ onDay \in Int /\ heldX \in Int /\ onDayX \in Int /\ card \in Nat
    BY <2>0, CollectedNear
  <2>7. parts + (heldX + onDayX) = F * flow + N * st.SharesE8 /\ parts \in Int
    <3>1. 1..L = DOMAIN entries
      BY <1>0
    <3>2. flow = SumOf(Flow(entries), DOMAIN entries)
          /\ st.SharesE8 = SumOf(Signs(entries), DOMAIN entries)
      BY <1>3, <3>1, Zenon
    <3> HIDE DEF N, flow, st
    <3> QED BY <2>0, <3>2, PartsAre DEF N
  <2>8. GapSum = parts
    BY GapSumIs
  <2>9. st.TotalRedeemFen - st.TotalBuyFen = flow
    BY <1>3
  <2> HIDE DEF F, N, worth, held, onDay, heldX, onDayX, parts, flow, card, st, D, L
  <2>10. Gap = flow + worth - held - onDay /\ flow \in Int
    BY <2>2, <2>3, <2>4, <2>5, <2>6, <2>9 DEF Gap, CollectionGap
  <2>11. /\ F * Gap = F * flow + F * worth - F * held - F * onDay
         /\ F * flow \in Int /\ F * worth \in Int /\ F * held \in Int /\ F * onDay \in Int
    BY <1>0, <2>4, <2>6, <2>10
  <2>12. /\ F * (card + L + 1) = F * card + F * L + F
         /\ F * card \in Int /\ F * L \in Int
    BY <1>0, <2>6
  <2>13. N * st.SharesE8 = st.SharesE8 * N /\ st.SharesE8 * N \in Int
    BY <2>1, <2>2
  <2>14. /\ F * Gap - parts < F * (card + L + 1)
         /\ parts - F * Gap < F * (card + L + 1)
         /\ F * Gap - parts \in Int
    BY <1>0, <2>4, <2>6, <2>7, <2>11, <2>12, <2>13 DEF Near
  <2>15. Abs(F * Gap - parts) < F * (card + L + 1)
    <3>1. - (F * Gap - parts) = parts - F * Gap /\ F * (card + L + 1) \in Int
      BY <1>0, <2>6, <2>7, <2>10, <2>11, <2>12
    <3> QED BY <2>14, <3>1, AbsBelow
  <2> QED BY <2>8, <2>15 DEF GapIsFromPrices, GapSum, F, card, D, L
<1> QED BY <1>4, <1>5

\* However many entries and NAVs there are, written and published in whatever
\* order, the collection gap is what was paid beside the NAVs from which the
\* entries are counted, to within one fen for each division.
THEOREM GapIsFromPricesAlways == Spec => []GapIsFromPrices
<1>1. Init => GInv
  BY InitHInv DEF Init, GInv
<1>2. Spec => []GInv
  BY <1>1, StepGInv, PTL DEF Spec
<1> QED BY <1>2, GapHolds, PTL
===============================================================================
