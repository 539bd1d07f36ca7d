---------------------------- MODULE PagesProofs ----------------------------
(***************************************************************************)
(* The pages of the web client, whatever the answers and in whatever order *)
(* they come: Products.vue shows what is asked for, and its pages are the  *)
(* whole list; the pages that open and keep an account show the product    *)
(* and the account that they say they show.                                *)
(***************************************************************************)
EXTENDS CatalogPage, HoldingPages, FoldProofs, FunctionTheorems, SequenceTheorems

-----------------------------------------------------------------------------
(* What is shown.  HandleProductCatalog is an unknown function here.       *)

\* While the page loads, its last request is under way.
LoadingIsPending == loading => \E r \in requests : r.n = seq

\* The last request, unless the text has changed since, asks for what the page
\* asks for; no two requests have one number.
LastAsks ==
    \A r \in requests :
        /\ r.n \in Nat
        /\ r.n <= seq
        /\ r.n = seq /\ ~ timer => r.query = query
        /\ r.n = seq => loading

IInv ==
    /\ seq \in Nat
    /\ loading \in BOOLEAN
    /\ err \in BOOLEAN
    /\ timer \in BOOLEAN
    /\ LoadingIsPending
    /\ LastAsks
    /\ \A r, s \in requests : r.n = s.n => r = s
    /\ ShownIsAsked

\* The first request satisfies the invariant.
LEMMA InitIInv == Init => IInv
<1> SUFFICES ASSUME Init PROVE IInv
  OBVIOUS
<1>1. /\ timer = FALSE
      /\ seq = 1
      /\ requests = {[n |-> 1, query |-> query]}
      /\ loading = TRUE
      /\ err = FALSE
  BY DEF Init
<1>2. \A r \in requests : r.n = 1 /\ r.query = query
  BY <1>1
<1>3. LoadingIsPending
  BY <1>1 DEF LoadingIsPending
<1>4. LastAsks
  BY <1>1, <1>2 DEF LastAsks
<1> QED BY <1>1, <1>3, <1>4 DEF IInv, ShownIsAsked

\* A request sent keeps the invariant, whatever becomes of the timer, as long
\* as the page asks for what is sent.
LEMMA LoadKeeps ==
  ASSUME IInv, NEW asked, Load(asked), timer' \in BOOLEAN
  PROVE  IInv'
<1> DEFINE new == [n |-> seq + 1, query |-> asked]
<1>1. /\ requests' = requests \cup {new}
      /\ seq' = seq + 1
      /\ query' = asked
      /\ loading' = TRUE
      /\ err' = FALSE
  BY DEF Load
<1>2. \A r \in requests : r.n \in Nat /\ r.n <= seq
  BY DEF IInv, LastAsks
<1>3. seq \in Nat
  BY DEF IInv
<1>4. \A r \in requests : r.n # seq'
  BY <1>1, <1>2, <1>3
<1>5. LoadingIsPending'
  <2>1. new \in requests' /\ new.n = seq'
    BY <1>1
  <2> QED BY <2>1 DEF LoadingIsPending
<1>6. LastAsks'
  BY <1>1, <1>2, <1>3, <1>4 DEF LastAsks
<1>7. \A r, s \in requests' : r.n = s.n => r = s
  BY <1>1, <1>4 DEF IInv
<1>8. ShownIsAsked'
  BY <1>1 DEF ShownIsAsked
<1>9. seq' \in Nat
  BY <1>1, <1>3
<1>10. loading' \in BOOLEAN /\ err' \in BOOLEAN
  <2>1. loading' = TRUE /\ err' = FALSE
    BY <1>1
  <2> QED BY <2>1
<1> QED BY <1>5, <1>6, <1>7, <1>8, <1>9, <1>10 DEF IInv

\* Changing the text keeps it: the timer runs.
LEMMA TypeTextKeeps ==
  ASSUME IInv, TypeText PROVE IInv'
<1>1. timer' = TRUE /\ UNCHANGED <<products, seq, requests, loading, err, shown>>
  BY DEF TypeText
<1>2. LoadingIsPending'
  BY <1>1 DEF IInv, LoadingIsPending
<1>3. LastAsks'
  BY <1>1 DEF IInv, LastAsks
<1>4. ShownIsAsked'
  BY <1>1 DEF ShownIsAsked
<1>5. \A r, s \in requests' : r.n = s.n => r = s
  BY <1>1 DEF IInv
<1>6. /\ seq' \in Nat
      /\ loading' \in BOOLEAN
      /\ err' \in BOOLEAN
      /\ timer' \in BOOLEAN
  BY <1>1 DEF IInv
<1> QED BY <1>2, <1>3, <1>4, <1>5, <1>6 DEF IInv

\* An answer keeps it: that of the last request is what the page asks for.
LEMMA AnswerKeeps ==
  ASSUME IInv, NEW r \in requests, Answer(r) PROVE IInv'
<1>1. /\ requests' = requests \ {r}
      /\ loading' = (loading /\ r.n # seq)
      /\ UNCHANGED <<products, query, timer, seq, err>>
  BY DEF Answer
<1>2. LoadingIsPending'
  BY <1>1 DEF IInv, LoadingIsPending
<1>3. LastAsks'
  BY <1>1 DEF IInv, LastAsks
<1>4. ShownIsAsked'
  <2>1. CASE r.n = seq
    BY <1>1, <2>1 DEF IInv, LastAsks, ShownIsAsked, Answer
  <2>2. CASE r.n # seq
    BY <1>1, <2>2 DEF IInv, ShownIsAsked, Answer
  <2> QED BY <2>1, <2>2
<1> QED BY <1>1, <1>2, <1>3, <1>4 DEF IInv

\* A failure keeps it: after that of the last request the page shows err.
LEMMA FailKeeps ==
  ASSUME IInv, NEW r \in requests, Fail(r) PROVE IInv'
<1>1. /\ requests' = requests \ {r}
      /\ err' = (err \/ r.n = seq)
      /\ loading' = (loading /\ r.n # seq)
      /\ UNCHANGED <<products, query, timer, seq, shown>>
  BY DEF Fail
<1>2. LoadingIsPending'
  BY <1>1 DEF IInv, LoadingIsPending
<1>3. LastAsks'
  BY <1>1 DEF IInv, LastAsks
<1>4. ShownIsAsked'
  BY <1>1 DEF IInv, ShownIsAsked
<1> QED BY <1>1, <1>2, <1>3, <1>4 DEF IInv

\* Every step keeps the invariant.
LEMMA StepIInv == IInv /\ [Next]_vars => IInv'
<1> SUFFICES ASSUME IInv, [Next]_vars PROVE IInv'
  OBVIOUS
<1>1. timer \in BOOLEAN
  BY DEF IInv
<1>2. CASE TypeText
  BY <1>2, TypeTextKeeps
<1>3. CASE TimerFires
  BY <1>3, LoadKeeps DEF TimerFires
<1>4. CASE ToggleUnlisted
  BY <1>1, <1>4, LoadKeeps DEF ToggleUnlisted
<1>5. CASE \E key \in SortKeys : ClickSort(key)
  BY <1>1, <1>5, LoadKeeps DEF ClickSort
<1>6. CASE Prev
  BY <1>1, <1>6, LoadKeeps DEF Prev
<1>7. CASE NextPage
  BY <1>1, <1>7, LoadKeeps DEF NextPage
<1>8. CASE Settle
  BY <1>8, AnswerKeeps, FailKeeps DEF Settle
<1>9. CASE UNCHANGED vars
  BY <1>9 DEF vars, IInv, LoadingIsPending, LastAsks, ShownIsAsked
<1> QED BY <1>2, <1>3, <1>4, <1>5, <1>6, <1>7, <1>8, <1>9 DEF Next

\* At rest the page of the list shows the rows that it asks for: for every
\* table, every text, any number of requests and any order of their answers.
THEOREM ShownIsAskedAlways == Spec => []ShownIsAsked
<1>1. IInv => ShownIsAsked
  BY DEF IInv
<1> QED BY InitIInv, StepIInv, <1>1, PTL DEF Spec

-----------------------------------------------------------------------------
(* The order of the rows.  An order is given as the set of the pairs <<a,   *)
(* b>> where a goes before b.                                              *)

IsOrder(R, S) ==
    /\ \A a \in S : <<a, a>> \notin R
    /\ \A a, b, c \in S : <<a, b>> \in R /\ <<b, c>> \in R => <<a, c>> \in R
    /\ \A a, b \in S : a # b => <<a, b>> \in R \/ <<b, a>> \in R

InOrderOf(R, f) == \A i, j \in DOMAIN f : i < j => <<f[i], f[j]>> \in R

\* The elements of a finite set can be put in order.
LEMMA OrderExists ==
  ASSUME NEW S, IsFiniteSet(S), NEW R, IsOrder(R, S)
  PROVE  \E f \in [1..Cardinality(S) -> S] : InOrderOf(R, f)
<1> DEFINE n == Cardinality(S)
           Ahead(c) == {d \in S : <<d, c>> \in R}
           place == [c \in S |-> Cardinality(Ahead(c)) + 1]
<1>1. n \in Nat
  BY FS_CardinalityType
<1>2. \A c \in S : IsFiniteSet(Ahead(c)) /\ Cardinality(Ahead(c)) \in Nat
  BY FS_Subset, FS_CardinalityType
<1>3. ASSUME NEW c \in S PROVE place[c] \in 1..n
  <2>1. Ahead(c) \in SUBSET (S \ {c})
    BY DEF IsOrder
  <2>2. IsFiniteSet(S \ {c}) /\ Cardinality(S \ {c}) = n - 1
    BY FS_RemoveElement
  <2>3. Cardinality(Ahead(c)) <= n - 1
    <3> HIDE DEF Ahead, n
    <3>1. Cardinality(Ahead(c)) <= Cardinality(S \ {c})
      BY <2>1, <2>2, FS_Subset
    <3> QED BY <2>2, <3>1
  <2>4. place[c] = Cardinality(Ahead(c)) + 1 /\ Cardinality(Ahead(c)) \in Nat
    BY <1>2
  <2> DEFINE k == Cardinality(Ahead(c))
  <2> HIDE DEF n, k, place
  <2>5. place[c] = k + 1 /\ k \in Nat /\ k <= n - 1
    BY <2>3, <2>4 DEF k
  <2> QED BY <1>1, <2>5
<1>4. ASSUME NEW c \in S, NEW d \in S, <<c, d>> \in R PROVE place[c] < place[d]
  <2>1. Ahead(c) \in SUBSET (Ahead(d) \ {c}) /\ c \in Ahead(d)
    BY <1>4 DEF IsOrder
  <2>2. /\ IsFiniteSet(Ahead(d) \ {c})
        /\ Cardinality(Ahead(d) \ {c}) = Cardinality(Ahead(d)) - 1
    BY <1>2, <2>1, FS_RemoveElement
  <2>3. Cardinality(Ahead(c)) <= Cardinality(Ahead(d)) - 1
    <3> HIDE DEF Ahead, place
    <3>1. Cardinality(Ahead(c)) <= Cardinality(Ahead(d) \ {c})
      BY <2>1, <2>2, FS_Subset
    <3> QED BY <2>2, <3>1
  <2>4. /\ place[c] = Cardinality(Ahead(c)) + 1 /\ Cardinality(Ahead(c)) \in Nat
        /\ place[d] = Cardinality(Ahead(d)) + 1 /\ Cardinality(Ahead(d)) \in Nat
    BY <1>2
  <2> HIDE DEF Ahead, place
  <2> QED BY <2>3, <2>4
<1>5. \A i \in 1..n : \E c \in S : place[c] = i
  <2>1. place \in [S -> 1..n]
    BY <1>3
  <2>2. \A c, d \in S : place[c] = place[d] => c = d
    <3>1. \A c \in S : place[c] \in Int
      BY <1>1, <1>3
    <3> HIDE DEF place
    <3>2. \A c, d \in S : <<c, d>> \in R => place[c] < place[d]
      BY <1>4
    <3>3. \A c, d \in S : c # d => <<c, d>> \in R \/ <<d, c>> \in R
      BY DEF IsOrder
    <3>4. ASSUME NEW c \in S, NEW d \in S, place[c] = place[d], c # d PROVE FALSE
      <4>1. place[c] \in Int /\ place[d] \in Int
        BY <3>1
      <4>2. place[c] < place[d] \/ place[d] < place[c]
        BY <3>2, <3>3, <3>4
      <4> QED BY <3>4, <4>1, <4>2
    <3> QED BY <3>4
  <2> HIDE DEF place
  <2>3. place \in Injection(S, 1..n)
    BY <2>1, <2>2, Fun_IsInj
  <2>4. IsFiniteSet(1..n) /\ Cardinality(1..n) = n
    <3> HIDE DEF n
    <3> QED BY <1>1, FS_Interval
  <2>5. place \in Surjection(S, 1..n)
    BY <2>3, <2>4, FS_Injection
  <2> QED BY <2>5, Fun_SurjectionProperties
<1> DEFINE f == [i \in 1..n |-> CHOOSE c \in S : place[c] = i]
<1> HIDE DEF place
<1>6. \A i \in 1..n : f[i] \in S /\ place[f[i]] = i
  BY <1>5
<1>7. f \in [1..n -> S]
  BY <1>5
<1> HIDE DEF f, n
<1>8. ASSUME NEW i \in DOMAIN f, NEW j \in DOMAIN f, i < j PROVE <<f[i], f[j]>> \in R
  <2>1. i \in 1..n /\ j \in 1..n
    BY <1>7
  <2>2. f[i] # f[j] /\ ~ <<f[j], f[i]>> \in R
    BY <1>1, <1>4, <1>6, <1>8, <2>1
  <2> QED BY <1>6, <2>1, <2>2 DEF IsOrder
<1> QED BY <1>7, <1>8 DEF InOrderOf, n

\* As many as there are, in order, are all of them.
LEMMA OrderIsOnto ==
  ASSUME NEW S, IsFiniteSet(S), NEW R, IsOrder(R, S),
         NEW f \in [1..Cardinality(S) -> S], InOrderOf(R, f)
  PROVE  \A c \in S : \E i \in 1..Cardinality(S) : f[i] = c
<1> DEFINE n == Cardinality(S)
<1>1. n \in Nat
  BY FS_CardinalityType
<1>2. IsFiniteSet(1..n) /\ Cardinality(1..n) = n
  <2> HIDE DEF n
  <2> QED BY <1>1, FS_Interval
<1>3. ASSUME NEW i \in 1..n, NEW j \in 1..n, f[i] = f[j] PROVE i = j
  <2>1. i < j => <<f[i], f[j]>> \in R
    BY DEF InOrderOf
  <2>2. j < i => <<f[j], f[i]>> \in R
    BY DEF InOrderOf
  <2>3. <<f[i], f[i]>> \notin R
    BY DEF IsOrder
  <2>4. ~ (i < j) /\ ~ (j < i)
    BY <1>3, <2>1, <2>2, <2>3
  <2>5. i \in Int /\ j \in Int
    BY <1>1
  <2> QED BY <2>4, <2>5
<1>4. f \in Injection(1..n, S)
  <2> HIDE DEF n
  <2>1. f \in [1..n -> S]
    BY DEF n
  <2> QED BY <1>3, <2>1, Fun_IsInj
<1>5. f \in Surjection(1..n, S)
  BY <1>2, <1>4, FS_Injection
<1> HIDE DEF n
<1>6. \A c \in S : \E i \in 1..n : f[i] = c
  <2> DEFINE X == 1..n
  <2>1. f \in Surjection(X, S)
    BY <1>5
  <2> HIDE DEF X
  <2>2. \A c \in S : \E i \in X : f[i] = c
    BY <2>1, Fun_SurjectionProperties
  <2> QED BY <2>2 DEF X
<1> QED BY <1>6 DEF n

\* The comparison by cases: by value in the direction asked for, a value before
\* none, and equal when both have one value or none.
LEMMA CmpMeans ==
  ASSUME NEW a \in Int, NEW b \in Int, NEW aOK \in BOOLEAN, NEW bOK \in BOOLEAN,
         NEW desc \in BOOLEAN
  PROVE  CmpNullLast(aOK, a, bOK, b, desc) =
           IF \/ aOK /\ ~ bOK
              \/ aOK /\ bOK /\ desc /\ a > b
              \/ aOK /\ bOK /\ ~ desc /\ a < b
           THEN -1
           ELSE IF /\ aOK <=> bOK
                   /\ aOK => a = b
           THEN 0 ELSE 1
<1>1. CASE desc = TRUE
  <2>1. ((a > b) = desc) <=> a > b
    BY <1>1
  <2>2. CmpNullLast(aOK, a, bOK, b, desc) =
    IF aOK /\ bOK THEN (IF a = b THEN 0 ELSE IF a > b THEN -1 ELSE 1)
    ELSE IF aOK = bOK THEN 0
    ELSE IF aOK THEN -1 ELSE 1
    BY <2>1 DEF CmpNullLast
  <2> QED BY <1>1, <2>2
<1>2. CASE desc = FALSE
  <2>1. ((a > b) = desc) <=> ~ (a > b)
    BY <1>2
  <2>2. CmpNullLast(aOK, a, bOK, b, desc) =
    IF aOK /\ bOK THEN (IF a = b THEN 0 ELSE IF ~ (a > b) THEN -1 ELSE 1)
    ELSE IF aOK = bOK THEN 0
    ELSE IF aOK THEN -1 ELSE 1
    BY <2>1 DEF CmpNullLast
  <2> QED BY <1>2, <2>2
<1> QED BY <1>1, <1>2

\* What a row is: its code, and what it is sorted by.
Row == [code : Nat, value : [ok : BOOLEAN, v : Int]]

\* The rows in order: by value, those without one behind, the equal ones by code.
Earlier(a, b, desc) ==
    \/ a.value.ok /\ ~ b.value.ok
    \/ a.value.ok /\ b.value.ok /\ desc /\ a.value.v > b.value.v
    \/ a.value.ok /\ b.value.ok /\ ~ desc /\ a.value.v < b.value.v
    \/ /\ a.value.ok <=> b.value.ok
       /\ a.value.ok => a.value.v = b.value.v
       /\ a.code < b.code

LEMMA PrecedesMeans ==
  ASSUME NEW a \in Row, NEW b \in Row, NEW desc \in BOOLEAN
  PROVE  Precedes(a, b, desc) <=> Earlier(a, b, desc)
<1>1. /\ a.code \in Nat /\ a.value.ok \in BOOLEAN /\ a.value.v \in Int
      /\ b.code \in Nat /\ b.value.ok \in BOOLEAN /\ b.value.v \in Int
  BY DEF Row
<1> DEFINE cmp == CmpNullLast(a.value.ok, a.value.v, b.value.ok, b.value.v, desc)
<1>2. cmp = IF \/ a.value.ok /\ ~ b.value.ok
               \/ a.value.ok /\ b.value.ok /\ desc /\ a.value.v > b.value.v
               \/ a.value.ok /\ b.value.ok /\ ~ desc /\ a.value.v < b.value.v
            THEN -1
            ELSE IF /\ a.value.ok <=> b.value.ok
                    /\ a.value.ok => a.value.v = b.value.v
            THEN 0 ELSE 1
  BY <1>1, CmpMeans
<1>3. Precedes(a, b, desc) <=> IF cmp # 0 THEN cmp < 0 ELSE a.code < b.code
  BY DEF Precedes
<1> HIDE DEF cmp
<1> QED BY <1>1, <1>2, <1>3 DEF Earlier

\* Rows of different products go one before the other.
OrderOf(rows, desc) == {p \in rows \X rows : Precedes(p[1], p[2], desc)}

LEMMA RowsAreOrdered ==
  ASSUME NEW rows \in SUBSET Row, NEW desc \in BOOLEAN,
         \A a, b \in rows : a.code = b.code => a = b
  PROVE  IsOrder(OrderOf(rows, desc), rows)
<1>1. \A a, b \in rows : <<a, b>> \in OrderOf(rows, desc) <=> Precedes(a, b, desc)
  BY DEF OrderOf
<1>2. \A a, b \in rows : Precedes(a, b, desc) <=> Earlier(a, b, desc)
  BY PrecedesMeans
<1>3. \A a \in rows : /\ a.code \in Nat /\ a.value.ok \in BOOLEAN
                       /\ a.value.v \in Int
  BY DEF Row
<1>4. \A a \in rows : ~ Earlier(a, a, desc)
  BY <1>3 DEF Earlier
<1>5. ASSUME NEW a \in rows, NEW b \in rows, NEW c \in rows,
             Earlier(a, b, desc), Earlier(b, c, desc)
      PROVE  Earlier(a, c, desc)
  <2>1. /\ a.code \in Nat /\ a.value.ok \in BOOLEAN /\ a.value.v \in Int
        /\ b.code \in Nat /\ b.value.ok \in BOOLEAN /\ b.value.v \in Int
        /\ c.code \in Nat /\ c.value.ok \in BOOLEAN /\ c.value.v \in Int
    BY <1>3
  <2> QED BY <1>5, <2>1 DEF Earlier
<1>6. ASSUME NEW a \in rows, NEW b \in rows, a # b
      PROVE  Earlier(a, b, desc) \/ Earlier(b, a, desc)
  <2>1. /\ a.code \in Nat /\ a.value.ok \in BOOLEAN /\ a.value.v \in Int
        /\ b.code \in Nat /\ b.value.ok \in BOOLEAN /\ b.value.v \in Int
        /\ a.code # b.code
    BY <1>3, <1>6
  <2> QED BY <2>1 DEF Earlier
<1> QED BY <1>1, <1>2, <1>4, <1>5, <1>6 DEF IsOrder

\* The rows sorted: each of them once, in order.
RowsSorted(sorted, rows, desc) ==
    /\ sorted \in [1..Cardinality(rows) -> rows]
    /\ \A i, j \in 1..Cardinality(rows) :
         i < j => Precedes(sorted[i], sorted[j], desc)
    /\ \A c \in rows : \E i \in 1..Cardinality(rows) : sorted[i] = c

LEMMA SortSorts ==
  ASSUME NEW rows \in SUBSET Row, IsFiniteSet(rows), NEW desc \in BOOLEAN,
         \A a, b \in rows : a.code = b.code => a = b
  PROVE  RowsSorted(SortCatalog(rows, desc), rows, desc)
<1> DEFINE R == OrderOf(rows, desc)
           n == Cardinality(rows)
           f == SortCatalog(rows, desc)
           Good(g) == \A i, j \in DOMAIN g : i < j => Precedes(g[i], g[j], desc)
<1>1. IsOrder(R, rows)
  BY RowsAreOrdered
<1>2. \A g \in [1..n -> rows] : InOrderOf(R, g) <=> Good(g)
  <2> TAKE g \in [1..n -> rows]
  <2>1. \A i, j \in DOMAIN g : <<g[i], g[j]>> \in R <=> Precedes(g[i], g[j], desc)
    BY DEF OrderOf
  <2> HIDE DEF R
  <2> QED BY <2>1 DEF InOrderOf
<1>3. \E g \in [1..n -> rows] : Good(g)
  <2> HIDE DEF R, Good
  <2> QED BY <1>1, <1>2, OrderExists
<1>4. f = CHOOSE g \in [1..n -> rows] : Good(g)
  BY DEF SortCatalog
<1> HIDE DEF f
<1>5. f \in [1..n -> rows] /\ Good(f)
  <2> HIDE DEF Good
  <2> QED BY <1>3, <1>4
<1>6. \A c \in rows : \E i \in 1..n : f[i] = c
  <2>1. InOrderOf(R, f)
    <3> HIDE DEF Good, R
    <3> QED BY <1>2, <1>5
  <2> HIDE DEF R
  <2> QED BY <1>1, <1>5, <2>1, OrderIsOnto
<1> HIDE DEF n
<1>7. \A i, j \in 1..n : i < j => Precedes(f[i], f[j], desc)
  BY <1>5
<1> QED BY <1>5, <1>6, <1>7 DEF RowsSorted, f, n

-----------------------------------------------------------------------------
(* What the rows are sorted by.                                            *)

LEMMA RoundedIsInt ==
  ASSUME NEW a \in Int, NEW b \in Int, NEW d \in Nat \ {0}
  PROVE  MulDivRound(a, b, d) \in Int
<1> DEFINE p == Abs(a) * Abs(b)
<1>1. p \in Int
  BY DEF Abs
<1>2. MulDivRound(a, b, d) =
        IF (a < 0) # (b < 0)
        THEN - ((p \div d) + (IF p % d >= (d + 1) \div 2 THEN 1 ELSE 0))
        ELSE (p \div d) + (IF p % d >= (d + 1) \div 2 THEN 1 ELSE 0)
  BY DEF MulDivRound
<1> HIDE DEF p
<1>3. p \div d \in Int
  BY <1>1
<1> QED BY <1>2, <1>3

\* The last of some days with a NAV.
LEMMA LastNavDay ==
  ASSUME NEW navs \in Seq(Nat), NEW days \in SUBSET NavDays(navs), days # {}
  PROVE  Max(days) \in days /\ Max(days) \in Nat \ {0} /\ navs[Max(days)] \in Nat \ {0}
<1>1. Len(navs) \in Nat /\ days \in SUBSET Nat /\ \A d \in days : d <= Len(navs)
  BY DEF NavDays
<1>2. Max(days) \in days
  BY <1>1, MaxOfBounded
<1> QED BY <1>2 DEF NavDays

From(navs, days) == {d \in NavDays(navs) : d <= LatestNavDay(navs) - days}

Move(navs, days) ==
    MulDivRound(navs[LatestNavDay(navs)] - navs[Max(From(navs, days))], 10000,
                navs[Max(From(navs, days))])

LEMMA WindowIs ==
  ASSUME NEW navs \in Seq(Nat), NEW days \in Nat \ {0}
  PROVE  WindowPctE4(navs, days) =
           IF From(navs, days) = {} THEN [ok |-> FALSE, e4 |-> 0]
           ELSE [ok |-> TRUE, e4 |-> Move(navs, days)]
<1> DEFINE D == NavDays(navs)
           last == LatestNavDay(navs)
           from == From(navs, days)
<1>1. CASE D = {}
  <2>1. from = {} /\ LatestNav(navs) = NoNav
    BY <1>1 DEF LatestNav, LatestOf, From
  <2> QED BY <2>1 DEF WindowPctE4, NoRate
<1>2. CASE D # {}
  <2>1. last = Max(D) /\ LatestNav(navs) = navs[last] /\ navs[last] \in Nat \ {0}
    BY <1>2, LastNavDay DEF LatestNav, LatestOf, LatestNavDay
  <2>2. NavOnOrBefore(navs, last - days) = LatestOf(navs, from)
    BY DEF NavOnOrBefore, From
  <2>3. CASE from = {}
    <3>1. NavOnOrBefore(navs, last - days) = NoNav
      BY <2>2, <2>3 DEF LatestOf
    <3> QED BY <2>3, <3>1 DEF WindowPctE4, NoRate
  <2>4. CASE from # {}
    <3>1. navs[Max(from)] \in Nat \ {0}
      <4>1. from \in SUBSET NavDays(navs)
        BY DEF From
      <4> HIDE DEF from
      <4> QED BY <2>4, <4>1, LastNavDay
    <3>2. NavOnOrBefore(navs, last - days) = navs[Max(from)]
      BY <2>2, <2>4 DEF LatestOf
    <3>3. navs[last] # NoNav /\ navs[Max(from)] # NoNav
      BY <2>1, <3>1 DEF NoNav
    <3> HIDE DEF from, last
    <3>4. WindowPctE4(navs, days) =
            [ok |-> TRUE, e4 |-> MulDivRound(navs[last] - navs[Max(from)], 10000,
                                             navs[Max(from)])]
      <4> DEFINE end == LatestNav(navs)
                 start == NavOnOrBefore(navs, LatestNavDay(navs) - days)
      <4>1. end = navs[last] /\ start = navs[Max(from)]
        BY <2>1, <3>2 DEF last
      <4>2. end # NoNav /\ start # NoNav
        BY <3>3, <4>1
      <4>3. WindowPctE4(navs, days) =
              IF end = NoNav \/ start = NoNav THEN NoRate
              ELSE [ok |-> TRUE, e4 |-> MulDivRound(end - start, 10000, start)]
        BY DEF WindowPctE4
      <4> HIDE DEF end, start
      <4> QED BY <4>1, <4>2, <4>3
    <3> QED BY <2>4, <3>4 DEF Move, from, last
  <2> QED BY <2>3, <2>4
<1> QED BY <1>1, <1>2

LEMMA MoveIsInt ==
  ASSUME NEW navs \in Seq(Nat), NEW days \in Nat \ {0}, From(navs, days) # {}
  PROVE  Move(navs, days) \in Int
<1> DEFINE from == From(navs, days)
<1>1. from \in SUBSET NavDays(navs) /\ NavDays(navs) # {}
  BY DEF From
<1>2. navs[Max(from)] \in Nat \ {0}
  <2>1. from # {}
    OBVIOUS
  <2> HIDE DEF from
  <2> QED BY <1>1, <2>1, LastNavDay
<1>3. navs[LatestNavDay(navs)] \in Nat
  <2>1. LatestNavDay(navs) = Max(NavDays(navs))
    BY <1>1 DEF LatestNavDay
  <2> QED BY <1>1, <2>1, LastNavDay
<1> DEFINE a == navs[LatestNavDay(navs)]
           b == navs[Max(from)]
<1>4. a - b \in Int /\ 10000 \in Int
  BY <1>2, <1>3
<1>5. Move(navs, days) = MulDivRound(a - b, 10000, b)
  BY DEF Move
<1>6. b \in Nat \ {0}
  BY <1>2
<1> HIDE DEF a, b
<1>7. MulDivRound(a - b, 10000, b) \in Int
  BY <1>4, <1>6, RoundedIsInt
<1> QED BY <1>5, <1>7

\* A value of a row and the same as a set.
IsValue(value, values) ==
    /\ value \in [ok : BOOLEAN, v : Int]
    /\ values = IF value.ok THEN {value.v} ELSE {}

LEMMA KnownIsValue ==
  ASSUME NEW n \in Int PROVE IsValue(Known(n), {n})
BY DEF IsValue, Known

LEMMA SortValueIs ==
  ASSUME NEW table \in [Codes -> Product], NEW key, NEW c \in Codes
  PROVE  IsValue(SortValue(table, key, c), Values(table, key, c))
<1> DEFINE navs == table[c].navs
<1>1. navs \in Seq(Nat) /\ table[c].name \in Int /\ table[c].listed \in BOOLEAN
  BY DEF Product
<1>2. CASE key \in DOMAIN Windows
  <2> DEFINE days == Windows[key]
             ret == WindowPctE4(navs, days)
  <2>1. days \in Nat \ {0}
    BY <1>2, CatalogAssumption
  <2>2. SortValue(table, key, c) = [ok |-> ret.ok, v |-> ret.e4]
    BY <1>2 DEF SortValue
  <2>3. Values(table, key, c) =
          IF From(navs, days) = {} THEN {} ELSE {Move(navs, days)}
    BY <1>2 DEF Values, From, Move
  <2> HIDE DEF navs, days
  <2>4. CASE From(navs, days) = {}
    <3>1. ret = [ok |-> FALSE, e4 |-> 0]
      BY <1>1, <2>1, <2>4, WindowIs
    <3>2. SortValue(table, key, c) = [ok |-> FALSE, v |-> 0]
      BY <2>2, <3>1
    <3> QED BY <2>3, <2>4, <3>2 DEF IsValue
  <2>5. CASE From(navs, days) # {}
    <3>1. ret = [ok |-> TRUE, e4 |-> Move(navs, days)]
      BY <1>1, <2>1, <2>5, WindowIs
    <3>2. SortValue(table, key, c) = [ok |-> TRUE, v |-> Move(navs, days)]
      BY <2>2, <3>1
    <3>3. Move(navs, days) \in Int
      BY <1>1, <2>1, <2>5, MoveIsInt
    <3> QED BY <2>3, <2>5, <3>2, <3>3 DEF IsValue
  <2> QED BY <2>4, <2>5
<1>3. CASE key \notin DOMAIN Windows /\ key = "latest_nav_date"
  <2>1. SortValue(table, key, c) =
          [ok |-> LatestNavDay(navs) # NoDay, v |-> LatestNavDay(navs)]
    BY <1>3 DEF SortValue
  <2>2. Values(table, key, c) = IF NavDays(navs) = {} THEN {} ELSE {Max(NavDays(navs))}
    BY <1>3 DEF Values
  <2> HIDE DEF navs
  <2>3. CASE NavDays(navs) = {}
    <3>1. LatestNavDay(navs) = 0
      BY <2>3 DEF LatestNavDay, NoDay
    <3>2. SortValue(table, key, c) = [ok |-> FALSE, v |-> 0]
      BY <2>1, <3>1 DEF NoDay
    <3> QED BY <2>2, <2>3, <3>2 DEF IsValue
  <2>4. CASE NavDays(navs) # {}
    <3>1. LatestNavDay(navs) = Max(NavDays(navs)) /\ Max(NavDays(navs)) \in Nat \ {0}
      BY <1>1, <2>4, LastNavDay DEF LatestNavDay
    <3>2. SortValue(table, key, c) = [ok |-> TRUE, v |-> Max(NavDays(navs))]
      BY <2>1, <3>1 DEF NoDay
    <3> QED BY <2>2, <2>4, <3>1, <3>2 DEF IsValue
  <2> QED BY <2>3, <2>4
<1>4. CASE key \notin DOMAIN Windows /\ key # "latest_nav_date" /\ key = "listed"
  <2>1. Bit(table[c].listed) \in Int
    BY DEF Bit
  <2>2. SortValue(table, key, c) = Known(Bit(table[c].listed))
    BY <1>4 DEF SortValue
  <2>3. Values(table, key, c) = {Bit(table[c].listed)}
    BY <1>4 DEF Values
  <2> QED BY <2>1, <2>2, <2>3, KnownIsValue
<1>5. CASE /\ key \notin DOMAIN Windows /\ key # "latest_nav_date" /\ key # "listed"
           /\ key = "name"
  <2>1. SortValue(table, key, c) = Known(table[c].name)
    BY <1>5 DEF SortValue
  <2>2. Values(table, key, c) = {table[c].name}
    BY <1>5 DEF Values
  <2> QED BY <1>1, <2>1, <2>2, KnownIsValue
<1>6. CASE /\ key \notin DOMAIN Windows /\ key # "latest_nav_date" /\ key # "listed"
           /\ key # "name"
  <2>1. SortValue(table, key, c) = Known(c)
    BY <1>6 DEF SortValue
  <2>2. Values(table, key, c) = {c}
    BY <1>6 DEF Values
  <2>3. c \in Int
    BY CatalogAssumption
  <2> QED BY <2>1, <2>2, <2>3, KnownIsValue
<1> QED BY <1>2, <1>3, <1>4, <1>5, <1>6

RowOf(table, key, c) == [code |-> c, value |-> SortValue(table, key, c)]

\* The rows of a query: one for each matching product.
LEMMA RowsOfQuery ==
  ASSUME NEW table \in [Codes -> Product], NEW asked, asked.q \subseteq Codes
  PROVE  /\ Rows(table, asked) \in SUBSET Row
         /\ IsFiniteSet(Rows(table, asked))
         /\ Cardinality(Rows(table, asked)) = Cardinality(Matching(table, asked))
         /\ \A a, b \in Rows(table, asked) : a.code = b.code => a = b
         /\ \A a \in Rows(table, asked) :
              a.code \in Matching(table, asked) /\ a = RowOf(table, asked.sort, a.code)
         /\ \A c \in Matching(table, asked) :
              RowOf(table, asked.sort, c) \in Rows(table, asked)
<1> DEFINE rows == Rows(table, asked)
           M == Matching(table, asked)
           f == [c \in M |-> RowOf(table, asked.sort, c)]
<1>1. M \subseteq Codes /\ IsFiniteSet(M)
  BY CatalogAssumption, FS_Subset DEF Matching
<1>2. rows = {RowOf(table, asked.sort, c) : c \in M}
  BY DEF Rows, RowOf
<1> HIDE DEF rows, M
<1>3. \A c \in M : RowOf(table, asked.sort, c).code = c
  BY DEF RowOf
<1>4. \A c \in M : RowOf(table, asked.sort, c) \in Row
  <2> TAKE c \in M
  <2>1. SortValue(table, asked.sort, c) \in [ok : BOOLEAN, v : Int]
    BY <1>1, SortValueIs DEF IsValue
  <2>2. c \in Nat
    BY <1>1, CatalogAssumption
  <2> QED BY <2>1, <2>2 DEF RowOf, Row
<1>5. f \in Surjection(M, rows) /\ f \in Injection(M, rows)
  <2>1. f \in [M -> rows]
    BY <1>2
  <2>2. \A a, b \in M : f[a] = f[b] => a = b
    BY <1>3
  <2>3. \A r \in rows : \E c \in M : f[c] = r
    BY <1>2
  <2> HIDE DEF f
  <2>4. f \in Injection(M, rows)
    BY <2>1, <2>2, Fun_IsInj
  <2>5. f \in Surjection(M, rows)
    BY <2>1, <2>3, Fun_IsSurj
  <2> QED BY <2>4, <2>5
<1>6. IsFiniteSet(rows) /\ Cardinality(rows) = Cardinality(M)
  <2> HIDE DEF f
  <2> QED BY <1>1, <1>5, FS_Surjection
<1>7. \A a \in rows : a.code \in M /\ a = RowOf(table, asked.sort, a.code)
  BY <1>2, <1>3
<1>8. \A c \in M : RowOf(table, asked.sort, c) \in rows
  BY <1>2
<1>9. rows \in SUBSET Row
  BY <1>2, <1>4
<1>10. \A a, b \in rows : a.code = b.code => a = b
  BY <1>7
<1> QED BY <1>6, <1>7, <1>8, <1>9, <1>10 DEF rows, M

-----------------------------------------------------------------------------
(* The pages of the rows.                                                  *)

\* How many of n rows the first p pages hold.
Cut(n, p) == Min({p * PageSize, n})

LEMMA SmallerOf ==
  ASSUME NEW a \in Int, NEW b \in Int
  PROVE  Min({a, b}) = IF a <= b THEN a ELSE b
<1> DEFINE S == {a, b}
           m == IF a <= b THEN a ELSE b
<1>1. m \in S /\ \A y \in S : m <= y
  OBVIOUS
<1>2. \A x \in S : (\A y \in S : x <= y) => x = m
  OBVIOUS
<1> HIDE DEF S, m
<1>3. Min(S) = m
  BY <1>1, <1>2 DEF Min
<1> QED BY <1>3 DEF S, m

LEMMA LargerOf ==
  ASSUME NEW a \in Int, NEW b \in Int
  PROVE  Max({a, b}) = IF a <= b THEN b ELSE a
<1> DEFINE S == {a, b}
           m == IF a <= b THEN b ELSE a
<1>1. m \in S /\ S \subseteq Int /\ \A y \in S : y <= m
  OBVIOUS
<1> HIDE DEF S, m
<1>2. Max(S) = m
  BY <1>1, MaxIs
<1> QED BY <1>2 DEF S, m

LEMMA PageSizeIs == PageSize \in Nat /\ PageSize >= 1
  BY CatalogAssumption

LEMMA CutIs ==
  ASSUME NEW n \in Nat, NEW p \in Nat
  PROVE  /\ Cut(n, p) = IF p * PageSize <= n THEN p * PageSize ELSE n
         /\ p * PageSize \in Nat
         /\ Cut(n, p) \in 0..n
<1> DEFINE k == p * PageSize
<1>1. k \in Nat
  BY PageSizeIs
<1> HIDE DEF k
<1>2. Cut(n, p) = IF k <= n THEN k ELSE n
  BY <1>1, SmallerOf DEF Cut, k
<1>3. Cut(n, p) \in 0..n
  BY <1>1, <1>2
<1> QED BY <1>1, <1>2, <1>3 DEF k

LEMMA NextProduct ==
  ASSUME NEW p \in Nat \ {0}
  PROVE  p * PageSize = (p - 1) * PageSize + PageSize
  BY PageSizeIs

LEMMA PageIsCut ==
  ASSUME NEW n \in Nat, NEW p \in Nat \ {0}, NEW sorted
  PROVE  /\ PageOf(sorted, n, p) = SubSeq(sorted, Cut(n, p - 1) + 1, Cut(n, p))
         /\ Cut(n, p - 1) <= Cut(n, p)
<1> DEFINE a == (p - 1) * PageSize
           b == p * PageSize
<1>1. p - 1 \in Nat /\ p \in Nat
  OBVIOUS
<1>2. /\ a \in Nat /\ Cut(n, p - 1) = IF a <= n THEN a ELSE n
      /\ b \in Nat /\ Cut(n, p) = IF b <= n THEN b ELSE n
  BY <1>1, CutIs
<1>3. b = a + PageSize
  BY NextProduct
<1>4. PageOf(sorted, n, p) =
        SubSeq(sorted, Min({a, n}) + 1, Min({Min({a, n}) + PageSize, n}))
  BY DEF PageOf
<1> HIDE DEF a, b
<1>5. Min({a, n}) = Cut(n, p - 1)
  BY <1>2, SmallerOf
<1>6. Min({Cut(n, p - 1) + PageSize, n}) = Cut(n, p)
  <2>1. Cut(n, p - 1) + PageSize \in Int
    BY <1>2, PageSizeIs
  <2>2. Min({Cut(n, p - 1) + PageSize, n}) =
          IF Cut(n, p - 1) + PageSize <= n THEN Cut(n, p - 1) + PageSize ELSE n
    BY <2>1, SmallerOf
  <2> QED BY <1>2, <1>3, <2>2, PageSizeIs
<1>7. Cut(n, p - 1) <= Cut(n, p)
  BY <1>2, <1>3, PageSizeIs
<1> QED BY <1>4, <1>5, <1>6, <1>7

\* The last page ends where the rows do.
LEMMA LastCut ==
  ASSUME NEW n \in Nat
  PROVE  /\ Pages(n) \in Nat \ {0}
         /\ Cut(n, Pages(n)) = n
         /\ Cut(n, 0) = 0
<1> DEFINE k == (n + PageSize - 1) \div PageSize
<1>1. k \in Nat /\ k * PageSize >= n
  <2> DEFINE m == n + PageSize - 1
             r == m % PageSize
  <2>1. m \in Nat
    BY PageSizeIs
  <2>2. k = m \div PageSize
    OBVIOUS
  <2> HIDE DEF m, k
  <2>3. k \in Nat /\ r \in 0..(PageSize - 1) /\ m = PageSize * k + r
    BY <2>1, <2>2, PageSizeIs
  <2> HIDE DEF r
  <2>4. PageSize * k = k * PageSize
    BY <2>3, PageSizeIs
  <2> DEFINE b == k * PageSize
  <2>5. b \in Nat
    BY <2>3, PageSizeIs
  <2> HIDE DEF b
  <2>6. m = b + r
    BY <2>3, <2>4 DEF b
  <2>7. b >= n
    BY <2>3, <2>5, <2>6, PageSizeIs DEF m
  <2> QED BY <2>3, <2>7 DEF b
<1> HIDE DEF k
<1>2. Pages(n) = IF 1 <= k THEN k ELSE 1
  BY <1>1, LargerOf DEF Pages, k
<1>3. Cut(n, Pages(n)) = n
  <2>1. CASE 1 <= k
    <3>1. Cut(n, k) = IF k * PageSize <= n THEN k * PageSize ELSE n
      BY <1>1, CutIs
    <3> DEFINE b == k * PageSize
    <3>2. b \in Nat /\ b >= n /\ Cut(n, k) = IF b <= n THEN b ELSE n
      BY <1>1, <3>1, CutIs
    <3> HIDE DEF b
    <3>3. Cut(n, k) = n
      BY <3>2
    <3> QED BY <1>2, <2>1, <3>3
  <2>2. CASE ~ (1 <= k)
    <3>1. k = 0
      BY <1>1, <2>2
    <3>2. n = 0
      BY <1>1, <3>1, PageSizeIs
    <3>3. Cut(n, 1) \in 0..n
      BY CutIs
    <3>4. Cut(n, 1) = n
      BY <3>2, <3>3
    <3> QED BY <1>2, <2>2, <3>4
  <2> QED BY <2>1, <2>2
<1>4. Cut(n, 0) = 0
  <2>1. 0 * PageSize = 0
    BY PageSizeIs
  <2> QED BY <2>1, CutIs
<1> QED BY <1>1, <1>2, <1>3, <1>4

\* The joining of the pages of a query, round by round.
IsJoin(h, table, asked, m, E) ==
    /\ h \in [0..m -> Seq(E)]
    /\ h[0] = <<>>
    /\ \A p \in 1..m : h[p] = h[p - 1] \o PageAt(table, asked, p)

LEMMA JoinRuns ==
  ASSUME NEW table, NEW asked, NEW m \in Nat, NEW E,
         \A p \in 1..m : PageAt(table, asked, p) \in Seq(E)
  PROVE  \E h : IsJoin(h, table, asked, m, E) /\ JoinedTo(table, asked, m) = h[m]
<1> DEFINE A == Seq(E)
           q == [p \in 1..m |-> p]
           Step(l, p) == l \o PageAt(table, asked, p)
           w == [p \in A \X (1..m) |-> Step(p[1], p[2])]
           Round(g, s) == IF s = {} THEN <<>> ELSE Step(g[s \ {Max(s)}], q[Max(s)])
           Is(g) == g = [s \in SUBSET DOMAIN q |-> Round(g, s)]
           c == CHOOSE g : Is(g)
<1>0. <<>> \in A /\ \A l \in A, p \in 1..m : Step(l, p) \in A
  OBVIOUS
<1>1. q \in Seq(1..m) /\ Len(q) = m /\ \A p \in 1..m : q[p] = p
  OBVIOUS
<1>2. w \in [A \X (1..m) -> A]
  <2> HIDE DEF A, Step
  <2> QED BY <1>0
<1>3. JoinedTo(table, asked, m) = c[DOMAIN q]
  BY DEF JoinedTo, FoldLeft, MapThenFoldSet
<1> HIDE DEF A, Step, q
<1>4. \A s \in SUBSET DOMAIN q : s # {} => q[Max(s)] \in 1..m
  <2>1. \A s \in SUBSET DOMAIN q : s # {} => Max(s) \in DOMAIN q
    BY <1>1, LastOfIndices
  <2>2. \A i \in DOMAIN q : q[i] \in 1..m
    BY <1>1
  <2> QED BY <2>1, <2>2
<1>5. PICK f : IsFold(f, w, <<>>, q)
  BY <1>1, FoldExists
<1>6. \A s \in SUBSET DOMAIN q : f[s] \in A
  <2> HIDE DEF w
  <2> QED BY <1>0, <1>1, <1>2, <1>5, FoldTyped
<1>7. Is(f)
  <2>1. ASSUME NEW s \in SUBSET DOMAIN q
        PROVE  FoldRound(f, w, <<>>, q, s) = Round(f, s)
    <3>1. CASE s = {}
      BY <3>1 DEF FoldRound
    <3>2. CASE s # {}
      <4>1. f[s \ {Max(s)}] \in A /\ q[Max(s)] \in 1..m
        BY <1>1, <1>4, <1>6, <3>2, LastOfIndices
      <4>2. w[<<f[s \ {Max(s)}], q[Max(s)]>>]
              = Step(f[s \ {Max(s)}], q[Max(s)])
        BY <4>1
      <4> QED BY <3>2, <4>2 DEF FoldRound
    <3> QED BY <3>1, <3>2
  <2>2. f = [s \in SUBSET DOMAIN q |-> FoldRound(f, w, <<>>, q, s)]
    BY <1>5 DEF IsFold
  <2> HIDE DEF w, Round
  <2> QED BY <2>1, <2>2
<1>8. Is(c)
  BY <1>7
<1>9. IsFold(c, w, <<>>, q)
  <2>1. c = [s \in SUBSET DOMAIN q |-> c[s]]
    BY <1>8
  <2>2. c[{}] = <<>>
    BY <1>8
  <2>3. ASSUME NEW s \in SUBSET DOMAIN q, s # {}, c[s \ {Max(s)}] \in A
        PROVE  c[s] = w[<<c[s \ {Max(s)}], q[Max(s)]>>]
    <3>1. c[s] = Round(c, s)
      <4> HIDE DEF Round, c
      <4> QED BY <1>8
    <3> HIDE DEF c
    <3>2. <<c[s \ {Max(s)}], q[Max(s)]>> \in A \X (1..m)
      BY <1>4, <2>3
    <3> QED BY <2>3, <3>1, <3>2
  <2> HIDE DEF w, c, Is
  <2> QED BY <1>0, <1>1, <1>2, <2>1, <2>2, <2>3, FoldKnown
<1> HIDE DEF c, Is
<1>10. PICK h : IsFolding(h, c, w, <<>>, q, A)
  <2> HIDE DEF w, Round
  <2> QED BY <1>0, <1>1, <1>2, <1>9, FoldRuns
<1>11. \A n \in 1..m : h[n] = Step(h[n - 1], n)
  <2> TAKE n \in 1..m
  <2>1. n - 1 \in 0..Len(q) /\ n \in 1..Len(q) /\ q[n] = n
    BY <1>1
  <2>2. <<h[n - 1], n>> \in A \X (1..m)
    BY <1>10, <2>1 DEF IsFolding
  <2>3. h[n] = w[<<h[n - 1], n>>]
    <3> HIDE DEF w
    <3> QED BY <1>10, <2>1 DEF IsFolding
  <2> QED BY <2>2, <2>3
<1> HIDE DEF w
<1>12. h \in [0..m -> A] /\ h[0] = <<>> /\ c[DOMAIN q] = h[m]
  BY <1>1, <1>10 DEF IsFolding
<1>13. IsJoin(h, table, asked, m, E)
  BY <1>11, <1>12 DEF IsJoin, A, Step
<1> QED BY <1>3, <1>12, <1>13

\* A query as the page sends it.
IsQuery(asked) ==
    /\ asked = [q |-> asked.q, unlisted |-> asked.unlisted, desc |-> asked.desc,
                page |-> asked.page, sort |-> asked.sort]
    /\ asked.q \subseteq Codes
    /\ asked.desc \in BOOLEAN

SortedRows(table, asked) == SortCatalog(Rows(table, asked), asked.desc)

\* Joined, the pages are the rows sorted.
LEMMA PagesJoined ==
  ASSUME NEW table \in [Codes -> Product], NEW asked, IsQuery(asked)
  PROVE  /\ HandleProductCatalog(table, asked).total = Cardinality(Matching(table, asked))
         /\ JoinedTo(table, asked, Pages(Cardinality(Matching(table, asked))))
              = SortedRows(table, asked)
         /\ RowsSorted(SortedRows(table, asked), Rows(table, asked), asked.desc)
         /\ SortedRows(table, asked) \in Seq(Rows(table, asked))
         /\ Len(SortedRows(table, asked)) = Cardinality(Matching(table, asked))
<1> DEFINE rows == Rows(table, asked)
           n == Cardinality(Matching(table, asked))
           m == Pages(n)
           all == SortedRows(table, asked)
<1>1. /\ rows \in SUBSET Row /\ IsFiniteSet(rows) /\ Cardinality(rows) = n
      /\ \A a, b \in rows : a.code = b.code => a = b
  BY RowsOfQuery DEF IsQuery
<1>2. n \in Nat
  BY <1>1, FS_CardinalityType
<1>3. RowsSorted(all, rows, asked.desc)
  <2>1. asked.desc \in BOOLEAN
    BY DEF IsQuery
  <2> HIDE DEF rows, n
  <2>2. RowsSorted(SortCatalog(rows, asked.desc), rows, asked.desc)
    BY <1>1, <2>1, SortSorts
  <2> QED BY <2>2 DEF SortedRows, rows
<1>4. HandleProductCatalog(table, asked).total = n
  BY DEF HandleProductCatalog
<1>5. \A p : PageAt(table, asked, p) = PageOf(all, n, p)
  <2> TAKE p
  <2> DEFINE other == [asked EXCEPT !.page = p]
  <2>1. /\ other.q = asked.q /\ other.unlisted = asked.unlisted
        /\ other.desc = asked.desc /\ other.sort = asked.sort /\ other.page = p
    BY DEF IsQuery
  <2> HIDE DEF other
  <2>2. Matching(table, other) = Matching(table, asked)
    BY <2>1 DEF Matching
  <2>3. Rows(table, other) = Rows(table, asked)
    BY <2>1, <2>2 DEF Rows
  <2>4. HandleProductCatalog(table, other).items = PageOf(all, n, p)
    BY <2>1, <2>2, <2>3 DEF HandleProductCatalog, SortedRows
  <2> QED BY <2>4 DEF PageAt, other
<1> HIDE DEF rows, n, all
<1>6. all \in [1..n -> rows] /\ all \in Seq(rows) /\ Len(all) = n
  <2>1. all \in [1..n -> rows]
    BY <1>1, <1>3 DEF RowsSorted
  <2> QED BY <1>2, <2>1
<1>7. m \in Nat \ {0} /\ Cut(n, m) = n /\ Cut(n, 0) = 0
  BY <1>2, LastCut
<1> HIDE DEF m
<1>8. \A p \in 1..m : /\ PageAt(table, asked, p) = SubSeq(all, Cut(n, p - 1) + 1, Cut(n, p))
                     /\ Cut(n, p - 1) \in 0..n /\ Cut(n, p) \in Cut(n, p - 1)..n
  <2> TAKE p \in 1..m
  <2>1. p \in Nat \ {0} /\ p - 1 \in Nat
    BY <1>7
  <2>2. /\ PageOf(all, n, p) = SubSeq(all, Cut(n, p - 1) + 1, Cut(n, p))
        /\ Cut(n, p - 1) <= Cut(n, p)
    BY <1>2, <2>1, PageIsCut
  <2>3. Cut(n, p - 1) \in 0..n /\ Cut(n, p) \in 0..n
    BY <1>2, <2>1, CutIs
  <2>4. PageAt(table, asked, p) = SubSeq(all, Cut(n, p - 1) + 1, Cut(n, p))
    BY <1>5, <2>2
  <2> DEFINE a == Cut(n, p - 1)
             b == Cut(n, p)
  <2>5. a <= b /\ a \in 0..n /\ b \in 0..n
    BY <2>2, <2>3
  <2> HIDE DEF a, b
  <2>6. b \in a..n
    BY <1>2, <2>5
  <2> QED BY <2>4, <2>5, <2>6 DEF a, b
<1>9. \A p \in 1..m : PageAt(table, asked, p) \in Seq(rows)
  <2> TAKE p \in 1..m
  <2> DEFINE a == Cut(n, p - 1) + 1
             b == Cut(n, p)
  <2>1. a \in Int /\ b \in Int /\ \A i \in a..b : i \in 1..n
    BY <1>2, <1>8
  <2>2. \A i \in a..b : all[i] \in rows
    BY <1>6, <2>1
  <2> HIDE DEF a, b
  <2>3. SubSeq(all, a, b) \in Seq(rows)
    BY <2>1, <2>2, SubSeqProperties
  <2> QED BY <1>8, <2>3 DEF a, b
<1>10. PICK h : IsJoin(h, table, asked, m, rows) /\ JoinedTo(table, asked, m) = h[m]
  BY <1>7, <1>9, JoinRuns
<1> DEFINE T == {p \in 0..m : h[p] = SubSeq(all, 1, Cut(n, p))}
<1>11. 0 \in T
  <2>1. SubSeq(all, 1, 0) = <<>>
    BY SubSeqEmpty
  <2> QED BY <1>7, <1>10, <2>1 DEF IsJoin
<1>12. ASSUME NEW p \in 1..m, p - 1 \in T PROVE p \in T
  <2> DEFINE a == Cut(n, p - 1)
             b == Cut(n, p)
  <2>1. a \in 0..Len(all) /\ b \in a..Len(all) /\ 1 \in 1..(Len(all) + 1)
    BY <1>2, <1>6, <1>8
  <2>2. h[p] = SubSeq(all, 1, a) \o SubSeq(all, a + 1, b)
    BY <1>8, <1>10, <1>12 DEF IsJoin
  <2> HIDE DEF a, b
  <2>3. SubSeq(all, 1, a) \o SubSeq(all, a + 1, b) = SubSeq(all, 1, b)
    BY <1>6, <2>1, ConcatAdjacentSubSeq
  <2>4. h[p] = SubSeq(all, 1, Cut(n, p))
    BY <2>2, <2>3 DEF b
  <2> QED BY <1>7, <2>4
<1>13. h[m] = all
  <2>1. T \subseteq Nat /\ m \in Nat
    BY <1>7
  <2>2. \A p \in 0..m : p \in T
    <3> HIDE DEF T
    <3> QED BY <1>11, <1>12, <2>1, InductionUpTo
  <2>3. h[m] = SubSeq(all, 1, n)
    BY <1>7, <2>2
  <2> QED BY <1>6, <2>3, SubSeqFull
<1> QED BY <1>3, <1>4, <1>6, <1>10, <1>13 DEF rows, n, all, m

\* PagesAreTheList of any table and query.
ListIsRight(table, asked) ==
    LET total == HandleProductCatalog(table, asked).total
        list == JoinedTo(table, asked, Pages(total))
    IN /\ Len(list) = Cardinality(Matching(table, asked))
       /\ {row.code : row \in Range(list)} = Matching(table, asked)
       /\ \A i, j \in DOMAIN list :
            i < j => InOrder(table, asked, list[i].code, list[j].code)

LEMMA ListOfQuery ==
  ASSUME NEW table \in [Codes -> Product], NEW asked, IsQuery(asked)
  PROVE  ListIsRight(table, asked)
<1> DEFINE total == HandleProductCatalog(table, asked).total
           list == JoinedTo(table, asked, Pages(total))
           rows == Rows(table, asked)
           M == Matching(table, asked)
           n == Cardinality(M)
           Value(c) == Values(table, asked.sort, c)
<1>1. /\ list = SortedRows(table, asked) /\ RowsSorted(list, rows, asked.desc)
      /\ list \in Seq(rows) /\ Len(list) = n
  BY PagesJoined
<1>2. /\ rows \in SUBSET Row /\ Cardinality(rows) = n
      /\ \A a \in rows : a.code \in M /\ a = RowOf(table, asked.sort, a.code)
      /\ \A c \in M : RowOf(table, asked.sort, c) \in rows
  BY RowsOfQuery DEF IsQuery
<1>3. M \subseteq Codes /\ asked.desc \in BOOLEAN
  BY DEF Matching, IsQuery
<1> HIDE DEF list, rows, n, M
<1>4. /\ DOMAIN list = 1..n
      /\ \A i \in 1..n : list[i] \in rows
      /\ \A i, j \in 1..n : i < j => Precedes(list[i], list[j], asked.desc)
      /\ \A r \in rows : \E i \in 1..n : list[i] = r
  BY <1>1, <1>2 DEF RowsSorted
<1>5. {row.code : row \in Range(list)} = M
  <2>1. Range(list) = rows
    <3>1. Range(list) = {list[i] : i \in 1..n}
      BY <1>4 DEF Range
    <3> QED BY <1>4, <3>1
  <2>2. \A c \in M : RowOf(table, asked.sort, c) \in rows /\ RowOf(table, asked.sort, c).code = c
    BY <1>2 DEF RowOf
  <2> QED BY <1>2, <2>1, <2>2
<1>6. ASSUME NEW a \in rows, NEW b \in rows, Precedes(a, b, asked.desc)
      PROVE  InOrder(table, asked, a.code, b.code)
  <2>1. IsValue(a.value, Value(a.code)) /\ IsValue(b.value, Value(b.code))
    <3>1. /\ a.value = SortValue(table, asked.sort, a.code) /\ a.code \in Codes
          /\ b.value = SortValue(table, asked.sort, b.code) /\ b.code \in Codes
      BY <1>2, <1>3 DEF RowOf
    <3> QED BY <3>1, SortValueIs
  <2>2. Earlier(a, b, asked.desc)
    BY <1>2, <1>3, <1>6, PrecedesMeans
  <2>3. /\ Value(a.code) = IF a.value.ok THEN {a.value.v} ELSE {}
        /\ Value(b.code) = IF b.value.ok THEN {b.value.v} ELSE {}
    BY <2>1 DEF IsValue
  <2>4. InOrder(table, asked, a.code, b.code) <=>
          \/ Value(a.code) # {} /\ Value(b.code) = {}
          \/ \E x \in Value(a.code), y \in Value(b.code) :
               IF asked.desc THEN x > y ELSE x < y
          \/ Value(a.code) = Value(b.code) /\ a.code < b.code
    BY DEF InOrder
  <2> HIDE DEF Value
  <2> QED BY <2>2, <2>3, <2>4 DEF Earlier
<1>7. \A i, j \in DOMAIN list :
        i < j => InOrder(table, asked, list[i].code, list[j].code)
  BY <1>4, <1>6
<1>8. Len(list) = Cardinality(Matching(table, asked))
  BY <1>1 DEF n, M
<1> QED BY <1>5, <1>7, <1>8 DEF ListIsRight, list, M

\* A query with a part changed is one.
LEMMA QueryChanged ==
  ASSUME NEW asked, IsQuery(asked), NEW unlisted, NEW desc \in BOOLEAN, NEW key,
         NEW number, NEW text \in SUBSET Codes
  PROVE  /\ IsQuery([asked EXCEPT !.q = text])
         /\ IsQuery([asked EXCEPT !.page = number])
         /\ IsQuery([asked EXCEPT !.unlisted = unlisted, !.page = number])
         /\ IsQuery([asked EXCEPT !.sort = key, !.desc = desc, !.page = number])
<1>1. PICK r : r = [q |-> asked.q, unlisted |-> asked.unlisted, desc |-> asked.desc,
                    page |-> asked.page, sort |-> asked.sort]
  OBVIOUS
<1>2. asked = r /\ r.q \subseteq Codes /\ r.desc \in BOOLEAN
  BY <1>1 DEF IsQuery
<1>3. ASSUME NEW t, t = [r EXCEPT !.q = text] PROVE IsQuery(t)
  BY <1>1, <1>2, <1>3 DEF IsQuery
<1>4. ASSUME NEW t, t = [r EXCEPT !.page = number] PROVE IsQuery(t)
  BY <1>1, <1>2, <1>4 DEF IsQuery
<1>5. ASSUME NEW t, t = [r EXCEPT !.unlisted = unlisted, !.page = number] PROVE IsQuery(t)
  BY <1>1, <1>2, <1>5 DEF IsQuery
<1>6. ASSUME NEW t, t = [r EXCEPT !.sort = key, !.desc = desc, !.page = number]
      PROVE  IsQuery(t)
  BY <1>1, <1>2, <1>6 DEF IsQuery
<1> QED BY <1>2, <1>3, <1>4, <1>5, <1>6

\* The table is that of the start, and the query has its fields.
QInv == products \in Tables /\ IsQuery(query)

LEMMA QInvAlways == Spec => []QInv
<1>1. Init => QInv
  BY DEF Init, QInv, IsQuery
<1>2. ASSUME QInv, [Next]_vars PROVE QInv'
  <2>1. ASSUME NEW asked, Load(asked), IsQuery(asked) PROVE QInv'
    BY <1>2, <2>1 DEF Load, QInv
  <2>2. CASE TypeText
    <3>1. PICK text \in Texts : query' = [query EXCEPT !.q = text]
      BY <2>2 DEF TypeText
    <3>2. text \in SUBSET Codes
      BY PageAssumption
    <3>3. IsQuery([query EXCEPT !.q = text])
      BY <1>2, <3>2, QueryChanged DEF QInv
    <3> QED BY <1>2, <2>2, <3>1, <3>3 DEF TypeText, QInv
  <2>3. CASE TimerFires
    <3>1. IsQuery([query EXCEPT !.page = 1])
      BY <1>2, QueryChanged DEF QInv
    <3> QED BY <2>1, <2>3, <3>1 DEF TimerFires
  <2>4. CASE ToggleUnlisted
    <3> DEFINE unlisted == ~ query.unlisted
               asked == [query EXCEPT !.unlisted = unlisted, !.page = 1]
    <3>1. Load(asked)
      BY <2>4 DEF ToggleUnlisted
    <3>2. IsQuery(asked)
      <4> HIDE DEF unlisted
      <4> QED BY <1>2, QueryChanged DEF QInv
    <3> HIDE DEF asked
    <3> QED BY <2>1, <3>1, <3>2
  <2>5. ASSUME NEW key, ClickSort(key) PROVE QInv'
    <3> DEFINE desc == IF key = query.sort THEN ~ query.desc
                       ELSE key \in DOMAIN Windows \cup {"listed"}
               asked == [query EXCEPT !.sort = key, !.desc = desc, !.page = 1]
    <3>1. desc \in BOOLEAN
      <4>1. /\ (~ query.desc) \in BOOLEAN
            /\ (key \in DOMAIN Windows \cup {"listed"}) \in BOOLEAN
        BY <1>2 DEF QInv, IsQuery
      <4> QED BY <4>1
    <3>2. Load(asked)
      BY <2>5 DEF ClickSort
    <3>3. IsQuery(asked)
      <4> HIDE DEF desc
      <4> QED BY <1>2, <3>1, QueryChanged DEF QInv
    <3> HIDE DEF asked
    <3> QED BY <2>1, <3>2, <3>3
  <2>6. CASE Prev
    <3> DEFINE number == query.page - 1
    <3>1. IsQuery([query EXCEPT !.page = number])
      <4> HIDE DEF number
      <4> QED BY <1>2, QueryChanged DEF QInv
    <3> QED BY <2>1, <2>6, <3>1 DEF Prev
  <2>7. CASE NextPage
    <3> DEFINE number == query.page + 1
    <3>1. IsQuery([query EXCEPT !.page = number])
      <4> HIDE DEF number
      <4> QED BY <1>2, QueryChanged DEF QInv
    <3> QED BY <2>1, <2>7, <3>1 DEF NextPage
  <2>8. CASE Settle
    BY <1>2, <2>8 DEF Settle, Answer, Fail, QInv
  <2>9. CASE UNCHANGED vars
    BY <1>2, <2>9 DEF vars, QInv
  <2> QED BY <1>2, <2>2, <2>3, <2>4, <2>5, <2>6, <2>7, <2>8, <2>9 DEF Next
<1> QED BY <1>1, <1>2, PTL DEF Spec

\* PagesAreTheList, in the words used here.
LEMMA PagesAreTheListIs == PagesAreTheList <=> ListIsRight(products, query)
  BY DEF PagesAreTheList, ListIsRight

\* The pages of a list, joined, hold each matching product once and in the order
\* asked for: whatever the products, their NAVs, the search, the sort and the
\* size of a page.
THEOREM PagesAreTheListAlways == Spec => []PagesAreTheList
<1>1. QInv => PagesAreTheList
  <2> SUFFICES ASSUME QInv PROVE PagesAreTheList
    OBVIOUS
  <2>1. products \in [Codes -> Product] /\ IsQuery(query)
    BY PageAssumption DEF QInv
  <2>2. ListIsRight(products, query)
    BY <2>1, ListOfQuery
  <2> QED BY <2>2, PagesAreTheListIs
<1> QED BY <1>1, QInvAlways, PTL

-----------------------------------------------------------------------------
(* The pages of an account: NewHolding.vue and HoldingDetail.vue. *)

\* What the pages keep: the rows of the ledger, the form, the detail page, a run.
EntryRows == [id : Nat, code : Products, day : 1..MaxDay, voided : BOOLEAN]

Forms == [box : Typed, verified : Typed,
          preview : [code : Typed, product : Fitness, existing : BOOLEAN],
          looking : BOOLEAN, inflight : Typed, typed : BOOLEAN]

Details == [code : Typed, loaded : BOOLEAN, ledger : SUBSET EntryRows,
            err : BOOLEAN, disturbed : BOOLEAN, removeFailed : BOOLEAN]

Whats == Writes \cup {"none", "product", "exists", "refresh", "acted", "get", "pnl"}

RunSet == [what : Whats, code : Typed, id : Nat, live : BOOLEAN, latest : BOOLEAN,
           box : Typed, shown : SUBSET EntryRows,
           status : {"sent", "ok", "failed", "notfound", "done"},
           product : Fitness, rows : SUBSET EntryRows]

\* The ids in use have a largest one.
Bounded == \E b \in Nat : \A e \in ledger : e.id <= b

PagesTyped ==
    /\ product \in [Products -> Fitness]
    /\ holding \subseteq Products
    /\ ledger \subseteq EntryRows /\ Bounded
    /\ page \in {"list", "new", "detail"}
    /\ form \in Forms
    /\ detail \in Details
    /\ fetch \in [Slots -> RunSet]

\* The last lookup, and it alone, is what the form is busy with.
LookedUp ==
    /\ form.verified = form.preview.code
    /\ form.verified # Empty => Norm[form.box] = form.verified
    /\ form.looking => \E s \in Slots : fetch[s].latest
    /\ \A s \in Slots : fetch[s].latest =>
         /\ form.looking
         /\ fetch[s].code = form.inflight
         /\ \A d \in Slots : fetch[d].latest => d = s

\* Only a lookup is the last one, a load is of the page shown, and a product is
\* found for its code only.
Found ==
    \A s \in Slots :
        /\ fetch[s].latest => fetch[s].what \in {"product", "exists"}
        /\ fetch[s].what \in {"get", "pnl"} => fetch[s].live
        /\ fetch[s].what = "exists" => fetch[s].code \in Products
        /\ fetch[s].what = "product" /\ fetch[s].status = "ok" => fetch[s].code \in Products

\* A submit whose form is still there has posted what the form shows, as long
\* as nobody types.
Posted ==
    /\ page = "new" /\ ~ form.typed => form.box \in Products \cup {Empty}
    /\ \A s \in Submits :
         /\ page = "new"
         /\ ~ form.typed =>
              /\ form.verified = Norm[form.box] /\ form.verified # Empty
              /\ ~ form.looking
              /\ Norm[fetch[s].code] = Norm[form.box]

\* The account that the page is of is not there any more.
Gone == detail.code \notin holding

\* While the page is not disturbed, its one action is all that may write; what
\* a load has read is what the account is, and a removal may only end it.
Current ==
    /\ Actions = {} /\ ~ detail.err =>
         detail.ledger = RowsOf(detail.code) \/ (detail.removeFailed /\ Gone)
    /\ \A s \in Slots : fetch[s].what \in Writes => s \in Actions
    /\ \A s \in Actions :
         /\ \A d \in Actions : d = s
         /\ fetch[s].what = "get" =>
              /\ fetch[s].code = detail.code
              /\ fetch[s].status = "ok" => fetch[s].rows = RowsOf(detail.code)
         /\ fetch[s].what = "pnl" /\ ~ detail.err => detail.ledger = RowsOf(detail.code)
         /\ fetch[s].what = "delete" /\ ~ detail.err =>
              detail.ledger = RowsOf(detail.code) \/ Gone

\* A void under way names the last entry of the list it was chosen from.
VoidNamed ==
    \A s \in Slots :
        fetch[s].what = "void" /\ fetch[s].status = "sent" =>
          \E e \in LastShown(fetch[s].shown) : e.id = fetch[s].id

PagesInv ==
    /\ PagesTyped
    /\ page = "new" => LookedUp
    /\ Found
    /\ Posted
    /\ page = "detail" /\ ~ detail.disturbed => Current
    /\ VoidNamed

-----------------------------------------------------------------------------
(* Facts about runs. *)

Reading == {"product", "exists", "acted", "get", "pnl"}

\* A new run.
LEMMA RunIs ==
  ASSUME NEW what \in Whats, NEW text \in Typed
  PROVE  /\ Run(what, text) \in RunSet
         /\ Run(what, text).what = what /\ Run(what, text).code = text
         /\ Run(what, text).live /\ ~ Run(what, text).latest
         /\ Run(what, text).status = "sent"
BY PagesAssumption DEF Run, RunSet, Fitness

\* No run.
LEMMA NoRunIs ==
  /\ NoRun \in RunSet /\ NoRun.what = "none" /\ NoRun.status = "done"
  /\ ~ NoRun.live /\ ~ NoRun.latest
BY PagesAssumption DEF NoRun, Run, RunSet, Fitness, Whats

\* What is not a code is a text like any other.
LEMMA TextsAre ==
  /\ Products \subseteq Typed /\ Empty \in Typed /\ Empty \notin Products
  /\ \A t \in Typed : Norm[t] \in Typed /\ Upper[t] \in Typed
  /\ \A k \in Products : Norm[k] = k /\ Upper[k] = k
  /\ Norm[Empty] = Empty
BY PagesAssumption

\* A slot is given another run.
LEMMA Placed ==
  ASSUME NEW f \in [Slots -> RunSet], NEW s \in Slots, NEW r \in RunSet
  PROVE  /\ [f EXCEPT ![s] = r] \in [Slots -> RunSet]
         /\ [f EXCEPT ![s] = r][s] = r
         /\ \A d \in Slots : d # s => [f EXCEPT ![s] = r][d] = f[d]
OBVIOUS

\* What remains of the runs of a page that is left.
LEMMA LeftIs ==
  ASSUME PagesTyped
  PROVE  /\ Left \in [Slots -> RunSet]
         /\ \A d \in Slots :
              /\ ~ Left[d].live
              /\ Left[d].what \notin Reading
              /\ Left[d].latest => fetch[d].latest /\ fetch[d].what \notin Reading
              /\ Left[d].what # "none" =>
                   /\ Left[d].what = fetch[d].what /\ Left[d].status = fetch[d].status
                   /\ Left[d].code = fetch[d].code
                   /\ Left[d].id = fetch[d].id /\ Left[d].shown = fetch[d].shown
<1>1. ASSUME NEW d \in Slots
      PROVE  /\ Left[d] \in RunSet
             /\ ~ Left[d].live
             /\ Left[d].what \notin Reading
             /\ Left[d].latest => fetch[d].latest /\ fetch[d].what \notin Reading
             /\ Left[d].what # "none" =>
                  /\ Left[d].what = fetch[d].what /\ Left[d].status = fetch[d].status
                  /\ Left[d].code = fetch[d].code
                  /\ Left[d].id = fetch[d].id /\ Left[d].shown = fetch[d].shown
  <2>1. fetch[d] \in RunSet /\ form.box \in Typed
    BY DEF PagesTyped, Forms
  <2>2. CASE fetch[d].what \in Reading
    BY <2>2, NoRunIs DEF Left, Reading
  <2>3. CASE fetch[d].what \notin Reading /\ ~ fetch[d].live
    BY <2>1, <2>3 DEF Left, Reading, RunSet
  <2>4. CASE fetch[d].what \notin Reading /\ fetch[d].live
    BY <2>1, <2>4 DEF Left, Reading, RunSet
  <2> QED BY <2>2, <2>3, <2>4
<1>2. Left \in [Slots -> RunSet]
  BY <1>1 DEF Left
<1> QED BY <1>1, <1>2

\* The answer to a run changes what it waits for and what is known of it.
LEMMA AnsweredIs ==
  ASSUME PagesTyped, NEW s \in Slots, NEW known \in Fitness, NEW rows \in SUBSET EntryRows,
         NEW status \in {"ok", "failed", "notfound"}, Answered(s, status, known, rows)
  PROVE  /\ fetch' \in [Slots -> RunSet]
         /\ \A d \in Slots :
              /\ d # s => fetch'[d] = fetch[d]
              /\ fetch'[d].live = fetch[d].live /\ fetch'[d].latest = fetch[d].latest
              /\ fetch'[d].code = fetch[d].code
              /\ fetch'[d].what # fetch[d].what =>
                   /\ fetch[d].what \in {"write", "void", "refresh"}
                   /\ fetch'[d].what = "acted"
         /\ fetch'[s].status = status /\ fetch'[s].rows = rows
         /\ fetch'[s].what \notin {"write", "void", "refresh"}
<1>1. fetch \in [Slots -> RunSet] /\ fetch[s] \in RunSet
  BY DEF PagesTyped
<1> DEFINE what == IF fetch[s].what \in {"write", "void", "refresh"} THEN "acted"
                                                         ELSE fetch[s].what
           r == [fetch[s] EXCEPT !.what = what, !.status = status, !.product = known,
                                 !.rows = rows, !.id = 0, !.shown = {}]
<1>2. fetch' = [fetch EXCEPT ![s] = r]
  BY DEF Answered
<1>3. what \in Whats
  BY <1>1 DEF Whats, RunSet
<1>4. /\ r \in RunSet
      /\ r.what = what /\ r.status = status /\ r.rows = rows
      /\ r.live = fetch[s].live /\ r.latest = fetch[s].latest /\ r.code = fetch[s].code
  <2> HIDE DEF what
  <2> QED BY <1>1, <1>3 DEF RunSet
<1> HIDE DEF r
<1>5. /\ fetch'[s] = r /\ fetch' \in [Slots -> RunSet]
      /\ \A d \in Slots : d # s => fetch'[d] = fetch[d]
  BY <1>1, <1>2, <1>4, Placed
<1> QED BY <1>4, <1>5

-----------------------------------------------------------------------------
(* What the server does. *)

LedgerTyped == ledger \subseteq EntryRows /\ Bounded

\* An entry is written with a new id.
LEMMA InsertIs ==
  ASSUME PagesTyped, NEW k \in Products, Insert(k)
  PROVE  LedgerTyped'
<1>1. PICK d \in 1..MaxDay :
        ledger' = ledger \cup {[id |-> NewRowid, code |-> k, day |-> d, voided |-> FALSE]}
  BY DEF Insert
<1>2. PICK b \in Nat : \A e \in ledger : e.id <= b
  BY DEF PagesTyped, Bounded
<1>3. \A e \in ledger : e.id \in Nat
  BY DEF PagesTyped, EntryRows
<1>4. NewRowid \in Nat
  <2>1. CASE ledger = {}
    BY <2>1 DEF NewRowid
  <2>2. CASE ledger # {}
    <3> DEFINE ids == {e.id : e \in ledger}
    <3>1. ids \in SUBSET Nat /\ ids # {} /\ \A x \in ids : x <= b
      BY <1>2, <1>3, <2>2
    <3> HIDE DEF ids
    <3>2. Max(ids) \in ids
      BY <3>1, MaxOfBounded
    <3>3. Max(ids) \in Nat
      BY <3>1, <3>2
    <3>4. NewRowid = Max(ids) + 1
      BY <2>2 DEF NewRowid, ids
    <3> DEFINE m == Max(ids)
    <3> HIDE DEF m
    <3>5. m + 1 \in Nat
      BY <3>3 DEF m
    <3> QED BY <3>4, <3>5 DEF m
  <2> QED BY <2>1, <2>2
<1> DEFINE new == [id |-> NewRowid, code |-> k, day |-> d, voided |-> FALSE]
<1>5. new \in EntryRows /\ new.id = NewRowid
  BY <1>4 DEF EntryRows
<1> HIDE DEF new
<1>6. ledger' \subseteq EntryRows
  BY <1>1, <1>5 DEF PagesTyped, new
<1>7. PICK c \in Nat : b <= c /\ NewRowid <= c
  <2>1. CASE b <= NewRowid
    BY <1>4, <2>1
  <2>2. CASE ~ (b <= NewRowid)
    BY <1>4, <2>2
  <2> QED BY <2>1, <2>2
<1>8. \A e \in ledger' : e.id <= c
  BY <1>1, <1>2, <1>3, <1>4, <1>5, <1>7 DEF new
<1>9. Bounded'
  BY <1>8 DEF Bounded
<1> QED BY <1>6, <1>9 DEF LedgerTyped

\* An entry is voided.
LEMMA VoidRowIs ==
  ASSUME PagesTyped, NEW e \in ledger, VoidRow(e)
  PROVE  LedgerTyped'
<1>1. e \in EntryRows /\ [e EXCEPT !.voided = TRUE] \in EntryRows /\ [e EXCEPT !.voided = TRUE].id = e.id
  BY DEF PagesTyped, EntryRows
<1>2. PICK b \in Nat : \A f \in ledger : f.id <= b
  BY DEF PagesTyped, Bounded
<1>3. \A f \in ledger' : f \in EntryRows /\ f.id <= b
  BY <1>1, <1>2 DEF VoidRow, PagesTyped
<1> QED BY <1>3 DEF LedgerTyped, Bounded

\* An account is deleted.
LEMMA DeleteIs ==
  ASSUME PagesTyped, NEW k, DeleteAccount(k)
  PROVE  LedgerTyped' /\ holding' \subseteq Products
<1>1. ledger' \subseteq ledger /\ holding' \subseteq holding
  BY DEF DeleteAccount
<1>2. PICK b \in Nat : \A f \in ledger : f.id <= b
  BY DEF PagesTyped, Bounded
<1>3. \A f \in ledger' : f.id <= b
  BY <1>1, <1>2
<1> QED BY <1>1, <1>3 DEF LedgerTyped, Bounded, PagesTyped

\* An answer is one to what was asked.
Answers(s, status, known, rows) ==
    /\ Answered(s, status, known, rows)
    /\ fetch[s].what = "product" /\ status = "ok" => fetch[s].code \in Products
    /\ fetch[s].what = "get" /\ status = "ok" => rows = RowsOf(fetch[s].code)

\* A request is answered once, only those that write change the ledger, and
\* everything keeps its type.
LEMMA ServeIs ==
  ASSUME PagesTyped, NEW s \in Slots, Serve(s)
  PROVE  /\ fetch[s].status = "sent"
         /\ UNCHANGED <<page, form, detail>>
         /\ product' \in [Products -> Fitness] /\ holding' \subseteq Products /\ LedgerTyped'
         /\ fetch[s].what \notin Writes => UNCHANGED ledger
         /\ \E known \in Fitness, rows \in SUBSET EntryRows, status \in {"ok", "failed", "notfound"} :
              Answers(s, status, known, rows)
<1>0. fetch[s] \in RunSet /\ fetch[s].product \in Fitness /\ fetch[s].code \in Typed
  BY DEF PagesTyped, RunSet
<1>1. fetch[s].status = "sent" /\ UNCHANGED <<page, form, detail>>
  BY DEF Serve
<1>2. /\ product \in [Products -> Fitness] /\ holding \subseteq Products /\ LedgerTyped
      /\ "absent" \in Fitness /\ {} \in SUBSET EntryRows
      /\ \A k : RowsOf(k) \in SUBSET EntryRows
  BY DEF PagesTyped, LedgerTyped, Fitness, RowsOf
<1> DEFINE Served == \E known \in Fitness, rows \in SUBSET EntryRows,
                         status \in {"ok", "failed", "notfound"} :
                           Answers(s, status, known, rows)
           Typing == /\ product' \in [Products -> Fitness] /\ holding' \subseteq Products
                     /\ LedgerTyped'
           Goal == Typing /\ Served /\ (fetch[s].what \notin Writes => UNCHANGED ledger)
<1> SUFFICES Goal
  BY <1>1
<1>3. (UNCHANGED serverVars) =>
        Typing /\ UNCHANGED ledger
  BY <1>2 DEF serverVars, LedgerTyped, Bounded
<1>4. ASSUME NEW status \in {"failed", "notfound"}, Refuse(s, status) PROVE Goal
  <2>1. Answers(s, status, fetch[s].product, {})
    BY <1>4 DEF Refuse, Answers
  <2>2. Served
    BY <1>0, <1>2, <2>1
  <2> HIDE DEF Served, Typing
  <2> QED BY <1>3, <1>4, <2>2 DEF Refuse
<1>5. CASE ServeRead(s)
  <2> DEFINE k == fetch[s].code
             known == IF k \in Products THEN product[k] ELSE "absent"
             found == IF fetch[s].what = "product" THEN known # "absent" ELSE k \in holding
  <2>1. known \in Fitness /\ (fetch[s].what = "product" /\ found => k \in Products)
    BY <1>2
  <2>2. UNCHANGED serverVars
    BY <1>5 DEF ServeRead
  <2>3. \/ \E status \in {"failed", "notfound"} : Answered(s, status, fetch[s].product, {})
        \/ found /\ fetch[s].what = "product" /\ Answered(s, "ok", known, {})
        \/ fetch[s].what = "exists" /\ Answered(s, "ok", fetch[s].product, {})
        \/ fetch[s].what = "get" /\ Answered(s, "ok", "absent", RowsOf(k))
        \/ fetch[s].what = "pnl" /\ Answered(s, "ok", "absent", {})
    BY <1>5 DEF ServeRead
  <2>4. \/ \E status \in {"failed", "notfound"} : Answers(s, status, fetch[s].product, {})
        \/ Answers(s, "ok", known, {})
        \/ Answers(s, "ok", fetch[s].product, {})
        \/ Answers(s, "ok", "absent", RowsOf(k))
        \/ Answers(s, "ok", "absent", {})
    BY <2>1, <2>3 DEF Answers
  <2> HIDE DEF k, known, found
  <2>5. Served
    <3>1. CASE \E status \in {"failed", "notfound"} : Answers(s, status, fetch[s].product, {})
      BY <1>0, <1>2, <3>1
    <3>2. CASE Answers(s, "ok", known, {})
      BY <1>2, <2>1, <3>2
    <3>3. CASE Answers(s, "ok", fetch[s].product, {})
      BY <1>0, <1>2, <3>3
    <3>4. CASE Answers(s, "ok", "absent", RowsOf(k))
      BY <1>2, <3>4
    <3>5. CASE Answers(s, "ok", "absent", {})
      BY <1>2, <3>5
    <3> QED BY <2>4, <3>1, <3>2, <3>3, <3>4, <3>5
  <2> HIDE DEF Served, Typing
  <2> QED BY <1>3, <2>2, <2>5
<1>6. ASSUME fetch[s].what \in {"create", "write", "void", "delete", "refresh"},
             NEW status \in {"ok", "failed"},
             Answered(s, status, "absent", {})
      PROVE  Served
  <2>1. Answers(s, status, "absent", {})
    BY <1>6 DEF Answers
  <2> QED BY <1>2, <2>1
<1> HIDE DEF Served, Goal
<1>7. CASE ServeCreate(s)
  <2>1. CASE Refuse(s, "failed")
    BY <1>4, <2>1
  <2>2. CASE ~ Refuse(s, "failed")
    <3>1. /\ Norm[fetch[s].code] \in Products
          /\ Insert(Norm[fetch[s].code]) /\ holding' = holding \cup {Norm[fetch[s].code]}
          /\ Answered(s, "ok", "absent", {}) /\ UNCHANGED product /\ fetch[s].what = "create"
      BY <1>7, <2>2 DEF ServeCreate
    <3>2. LedgerTyped'
      BY <3>1, InsertIs
    <3> QED BY <1>2, <1>6, <3>1, <3>2 DEF Writes, Goal
  <2> QED BY <2>1, <2>2
<1>8. CASE ServeWrite(s)
  <2>1. CASE Refuse(s, "failed")
    BY <1>4, <2>1
  <2>2. CASE ~ Refuse(s, "failed")
    <3>1. /\ fetch[s].code \in Products
          /\ Insert(fetch[s].code)
          /\ Answered(s, "ok", "absent", {}) /\ UNCHANGED <<product, holding>>
          /\ fetch[s].what = "write"
      BY <1>2, <1>8, <2>2 DEF ServeWrite
    <3>2. LedgerTyped'
      BY <3>1, InsertIs
    <3> QED BY <1>2, <1>6, <3>1, <3>2 DEF Writes, Goal
  <2> QED BY <2>1, <2>2
<1>9. CASE ServeVoid(s)
  <2>1. CASE Refuse(s, "failed")
    BY <1>4, <2>1
  <2>2. CASE ~ Refuse(s, "failed")
    <3>1. PICK e \in Voidable(s) :
            /\ VoidRow(e)
            /\ Answered(s, "ok", "absent", {}) /\ UNCHANGED <<product, holding>>
            /\ fetch[s].what = "void"
      BY <1>9, <2>2 DEF ServeVoid
    <3>2. e \in ledger
      BY DEF Voidable, LastActive, Active, RowsOf
    <3>3. LedgerTyped'
      BY <3>1, <3>2, VoidRowIs
    <3> QED BY <1>2, <1>6, <3>1, <3>3 DEF Writes, Goal
  <2> QED BY <2>1, <2>2
<1>10. CASE ServeRefresh(s)
  <2>1. CASE Refuse(s, "failed")
    BY <1>4, <2>1
  <2>2. CASE ~ Refuse(s, "failed")
    <3>1. PICK known \in Fitness, status \in {"ok", "failed"} :
            /\ product' = [product EXCEPT ![fetch[s].code] = known]
            /\ Answered(s, status, "absent", {}) /\ UNCHANGED <<holding, ledger>>
            /\ fetch[s].what = "refresh"
      BY <1>10, <2>2 DEF ServeRefresh
    <3>2. product' \in [Products -> Fitness]
      BY <1>2, <3>1
    <3>3. LedgerTyped'
      BY <1>2, <3>1 DEF LedgerTyped, Bounded
    <3> QED BY <1>2, <1>6, <3>1, <3>2, <3>3 DEF Writes, Goal
  <2> QED BY <2>1, <2>2
<1>11. CASE ServeDelete(s)
  <2>1. CASE Refuse(s, "failed")
    BY <1>4, <2>1
  <2>2. CASE ~ Refuse(s, "failed")
    <3>1. /\ DeleteAccount(fetch[s].code)
          /\ Answered(s, "ok", "absent", {}) /\ fetch[s].what = "delete"
      BY <1>11, <2>2 DEF ServeDelete
    <3>2. LedgerTyped' /\ holding' \subseteq Products /\ product' = product
      BY <3>1, DeleteIs DEF DeleteAccount
    <3> QED BY <1>2, <1>6, <3>1, <3>2 DEF Writes, Goal
  <2> QED BY <2>1, <2>2
<1>12. Goal
  BY <1>5, <1>7, <1>8, <1>9, <1>10, <1>11 DEF Serve
<1> QED BY <1>12

\* An answer, or the loss of a request.
LEMMA AnswerIs ==
  ASSUME PagesTyped, NEW s \in Slots, Serve(s) \/ Lose(s)
  PROVE  /\ UNCHANGED <<page, form, detail>>
         /\ product' \in [Products -> Fitness] /\ holding' \subseteq Products /\ LedgerTyped'
         /\ fetch[s].what \notin Writes => UNCHANGED ledger
         /\ fetch' \in [Slots -> RunSet]
         /\ \A d \in Slots :
              /\ d # s => fetch'[d] = fetch[d]
              /\ fetch'[d].live = fetch[d].live /\ fetch'[d].latest = fetch[d].latest
              /\ fetch'[d].code = fetch[d].code
              /\ fetch'[d].what # fetch[d].what =>
                   /\ fetch[d].what \in {"write", "void", "refresh"}
                   /\ fetch'[d].what = "acted"
         /\ fetch'[s].what \notin {"write", "void", "refresh"}
         /\ fetch'[s].what = "product" /\ fetch'[s].status = "ok" => fetch[s].code \in Products
         /\ fetch'[s].what = "get" /\ fetch'[s].status = "ok" =>
              fetch'[s].rows = RowsOf(fetch[s].code)
<1>1. /\ UNCHANGED <<page, form, detail>>
      /\ product' \in [Products -> Fitness] /\ holding' \subseteq Products /\ LedgerTyped'
      /\ fetch[s].what \notin Writes => UNCHANGED ledger
      /\ \E known \in Fitness, rows \in SUBSET EntryRows, status \in {"ok", "failed", "notfound"} :
           Answers(s, status, known, rows)
  <2>1. CASE Serve(s)
    BY <2>1, ServeIs
  <2>2. CASE Lose(s)
    <3>1. Answers(s, "failed", "absent", {})
      BY <2>2 DEF Lose, Answers
    <3>2. "absent" \in Fitness /\ {} \in SUBSET EntryRows
      BY DEF Fitness
    <3>3. /\ product' \in [Products -> Fitness] /\ holding' \subseteq Products /\ LedgerTyped'
          /\ UNCHANGED <<ledger, page, form, detail>>
      BY <2>2 DEF Lose, PagesTyped, serverVars, LedgerTyped, Bounded
    <3> QED BY <3>1, <3>2, <3>3
  <2> QED BY <2>1, <2>2
<1>2. PICK known \in Fitness, rows \in SUBSET EntryRows, status \in {"ok", "failed", "notfound"} :
        Answers(s, status, known, rows)
  BY <1>1
<1>3. /\ fetch' \in [Slots -> RunSet]
      /\ \A d \in Slots :
           /\ d # s => fetch'[d] = fetch[d]
           /\ fetch'[d].live = fetch[d].live /\ fetch'[d].latest = fetch[d].latest
           /\ fetch'[d].code = fetch[d].code
           /\ fetch'[d].what # fetch[d].what =>
                /\ fetch[d].what \in {"write", "void", "refresh"}
                /\ fetch'[d].what = "acted"
      /\ fetch'[s].status = status /\ fetch'[s].rows = rows
      /\ fetch'[s].what \notin {"write", "void", "refresh"}
  BY <1>2, AnsweredIs DEF Answers
<1>4. /\ fetch[s].what = "product" /\ status = "ok" => fetch[s].code \in Products
      /\ fetch[s].what = "get" /\ status = "ok" => rows = RowsOf(fetch[s].code)
  BY <1>2 DEF Answers
<1>5. fetch'[s].what \in {"product", "get"} => fetch'[s].what = fetch[s].what
  BY <1>3
<1> QED BY <1>1, <1>3, <1>4, <1>5

\* Only what writes changes an account, and a removal leaves the others alone.
LEMMA AccountsKept ==
  ASSUME NEW s \in Slots, Serve(s) \/ Lose(s)
  PROVE  /\ fetch[s].what \notin Writes => UNCHANGED <<holding, ledger>>
         /\ fetch[s].what = "delete" =>
              \A k : k \in holding' => k \in holding /\ RowsOf(k)' = RowsOf(k)
<1>1. \A status : Refuse(s, status) => UNCHANGED <<holding, ledger>>
  BY DEF Refuse, serverVars
<1>2. ASSUME UNCHANGED <<holding, ledger>>
      PROVE  \A k : k \in holding' => k \in holding /\ RowsOf(k)' = RowsOf(k)
  BY <1>2 DEF RowsOf
<1>3. CASE Lose(s) \/ ServeRead(s)
  BY <1>2, <1>3 DEF Lose, ServeRead, serverVars
<1>4. CASE ServeCreate(s) \/ ServeWrite(s) \/ ServeVoid(s)
  BY <1>4 DEF ServeCreate, ServeWrite, ServeVoid, Writes
<1>5. CASE ServeRefresh(s)
  BY <1>1, <1>2, <1>5 DEF ServeRefresh
<1>6. CASE ServeDelete(s)
  <2>1. CASE UNCHANGED <<holding, ledger>>
    BY <1>2, <2>1
  <2>2. CASE DeleteAccount(fetch[s].code)
    <3>1. /\ holding' = holding \ {fetch[s].code}
          /\ ledger' = ledger \ RowsOf(fetch[s].code)
      BY <2>2 DEF DeleteAccount
    <3>2. \A k : k # fetch[s].code => RowsOf(k)' = RowsOf(k)
      BY <3>1 DEF RowsOf
    <3> QED BY <1>6, <3>1, <3>2 DEF ServeDelete, Writes
  <2> QED BY <1>1, <1>6, <2>1, <2>2 DEF ServeDelete
<1> QED BY <1>3, <1>4, <1>5, <1>6 DEF Serve

-----------------------------------------------------------------------------
(* What the pages do. *)

\* After a change of the box the form shows what is of the code in it.
LEMMA WatchedIs ==
  ASSUME NEW f \in Forms
  PROVE  /\ Watched(f) \in Forms
         /\ Watched(f).box = f.box /\ Watched(f).typed = f.typed
         /\ Watched(f).looking = f.looking /\ Watched(f).inflight = f.inflight
         /\ f.verified = f.preview.code => Watched(f).verified = Watched(f).preview.code
         /\ Watched(f).verified # Empty => Norm[f.box] = Watched(f).verified
         /\ Norm[f.box] = f.verified => Watched(f) = f
<1>1. CASE Norm[f.box] = f.verified
  BY <1>1 DEF Watched
<1>2. CASE Norm[f.box] # f.verified
  <2>1. /\ NoPreview \in [code : Typed, product : Fitness, existing : BOOLEAN]
        /\ NoPreview.code = Empty
    BY TextsAre DEF NoPreview, Fitness
  <2>2. Watched(f) = [f EXCEPT !.verified = Empty, !.preview = NoPreview]
    BY <1>2 DEF Watched
  <2> HIDE DEF NoPreview
  <2> QED BY <1>2, <2>1, <2>2, TextsAre DEF Forms
<1> QED BY <1>1, <1>2

\* A new form has nothing looked up.
LEMMA NewFormIs ==
  ASSUME NEW text \in Typed
  PROVE  /\ NewForm(text) \in Forms
         /\ NewForm(text).box = text /\ ~ NewForm(text).typed
         /\ NewForm(text).verified = Empty /\ NewForm(text).preview.code = Empty
         /\ ~ NewForm(text).looking
BY TextsAre DEF NewForm, Forms, NoPreview, Fitness

\* The last answer of the last lookup fills the form; any other changes nothing.
LEMMA LookedIs ==
  ASSUME PagesTyped, NEW s \in Slots
  PROVE  /\ Looked(s) \in Forms
         /\ form.verified = form.preview.code => Looked(s).verified = Looked(s).preview.code
         /\ ~ fetch[s].latest => Looked(s) = form
         /\ fetch[s].latest => ~ Looked(s).looking
         /\ \/ Looked(s).box = form.box /\ Looked(s).typed = form.typed
            \/ /\ fetch[s].what = "exists" /\ Looked(s).box = fetch[s].code
               /\ Looked(s).typed = (form.typed /\ Submits # {})
<1>1. /\ form \in Forms /\ fetch[s] \in RunSet
      /\ fetch[s].code \in Typed /\ fetch[s].product \in Fitness /\ fetch[s].latest \in BOOLEAN
  BY DEF PagesTyped, RunSet
<1>2. CASE ~ fetch[s].latest
  BY <1>1, <1>2 DEF Looked
<1>3. CASE /\ fetch[s].latest
           /\ fetch[s].what = "exists" /\ fetch[s].status \in {"ok", "notfound"}
  <2> DEFINE p == [code |-> fetch[s].code, product |-> fetch[s].product,
                   existing |-> fetch[s].status = "ok"]
             g == [form EXCEPT !.box = fetch[s].code, !.verified = fetch[s].code,
                               !.typed = @ /\ Submits # {}, !.preview = p]
  <2>1. p \in [code : Typed, product : Fitness, existing : BOOLEAN] /\ p.code = fetch[s].code
    BY <1>1
  <2>2. Looked(s) = Idle(g)
    BY <1>3 DEF Looked
  <2> HIDE DEF p
  <2>3. /\ g \in Forms /\ g.box = fetch[s].code /\ g.verified = g.preview.code
        /\ g.typed = (form.typed /\ Submits # {})
    BY <1>1, <2>1 DEF Forms
  <2> HIDE DEF g
  <2>4. /\ Idle(g) \in Forms /\ Idle(g).box = g.box /\ Idle(g).verified = g.verified
        /\ Idle(g).preview = g.preview /\ ~ Idle(g).looking /\ Idle(g).typed = g.typed
    BY <2>3, TextsAre DEF Forms, Idle
  <2> QED BY <1>3, <2>2, <2>3, <2>4
<1>4. CASE /\ fetch[s].latest
           /\ ~ (fetch[s].what = "exists" /\ fetch[s].status \in {"ok", "notfound"})
  <2> DEFINE g == [form EXCEPT !.verified = Empty, !.preview = NoPreview]
  <2>1. /\ NoPreview \in [code : Typed, product : Fitness, existing : BOOLEAN]
        /\ NoPreview.code = Empty
    BY TextsAre DEF NoPreview, Fitness
  <2>2. Looked(s) = Idle(g)
    BY <1>4 DEF Looked
  <2> HIDE DEF NoPreview
  <2>3. g \in Forms /\ g.box = form.box /\ g.verified = g.preview.code /\ g.typed = form.typed
    BY <1>1, <2>1, TextsAre DEF Forms
  <2> HIDE DEF g
  <2>4. /\ Idle(g) \in Forms /\ Idle(g).box = g.box /\ Idle(g).verified = g.verified
        /\ Idle(g).preview = g.preview /\ ~ Idle(g).looking /\ Idle(g).typed = g.typed
    BY <2>3, TextsAre DEF Forms, Idle
  <2> QED BY <1>4, <2>2, <2>3, <2>4
<1> QED BY <1>2, <1>3, <1>4

\* A lookup begins: it is the last one.
LEMMA BeginsIs ==
  ASSUME NEW s \in Slots, NEW k \in Typed, NEW f \in Forms,
         NEW runs \in [Slots -> RunSet], Begins(s, k, f, runs)
  PROVE  /\ form' \in Forms
         /\ form'.looking /\ form'.inflight = k
         /\ form'.box = f.box /\ form'.typed = f.typed
         /\ form'.verified = f.verified /\ form'.preview = f.preview
         /\ fetch' \in [Slots -> RunSet]
         /\ fetch'[s].latest /\ fetch'[s].code = k
         /\ fetch'[s].what = "product" /\ fetch'[s].status = "sent"
         /\ \A d \in Slots : d # s =>
              /\ ~ fetch'[d].latest /\ fetch'[d].live = runs[d].live
              /\ fetch'[d].what = runs[d].what /\ fetch'[d].status = runs[d].status
              /\ fetch'[d].code = runs[d].code
              /\ fetch'[d].id = runs[d].id /\ fetch'[d].shown = runs[d].shown
<1>1. /\ form' \in Forms
      /\ form'.looking /\ form'.inflight = k
      /\ form'.box = f.box /\ form'.typed = f.typed
      /\ form'.verified = f.verified /\ form'.preview = f.preview
  BY DEF Begins, Forms
<1> DEFINE g == [d \in Slots |-> [runs[d] EXCEPT !.latest = FALSE]]
           r == [Run("product", k) EXCEPT !.latest = TRUE]
<1>2. ASSUME NEW d \in Slots
      PROVE  /\ g[d] \in RunSet
             /\ ~ g[d].latest /\ g[d].live = runs[d].live
             /\ g[d].what = runs[d].what /\ g[d].status = runs[d].status
             /\ g[d].code = runs[d].code
             /\ g[d].id = runs[d].id /\ g[d].shown = runs[d].shown
  BY DEF RunSet
<1>3. g \in [Slots -> RunSet]
  BY <1>2
<1>4. r \in RunSet /\ r.latest /\ r.code = k /\ r.what = "product" /\ r.status = "sent"
  <2> DEFINE v == Run("product", k)
  <2>1. v \in RunSet /\ v.code = k /\ v.what = "product" /\ v.status = "sent"
    BY RunIs DEF Whats
  <2> HIDE DEF v
  <2>2. /\ [v EXCEPT !.latest = TRUE] \in RunSet
        /\ [v EXCEPT !.latest = TRUE].latest /\ [v EXCEPT !.latest = TRUE].code = k
        /\ [v EXCEPT !.latest = TRUE].what = "product"
        /\ [v EXCEPT !.latest = TRUE].status = "sent"
    BY <2>1 DEF RunSet
  <2> QED BY <2>2 DEF v
<1>5. fetch' = [g EXCEPT ![s] = r]
  BY DEF Begins
<1> HIDE DEF g, r
<1>6. fetch' \in [Slots -> RunSet] /\ fetch'[s] = r /\ \A d \in Slots : d # s => fetch'[d] = g[d]
  BY <1>3, <1>4, <1>5, Placed
<1>7. ASSUME NEW d \in Slots, d # s
      PROVE  /\ ~ fetch'[d].latest /\ fetch'[d].live = runs[d].live
             /\ fetch'[d].what = runs[d].what /\ fetch'[d].status = runs[d].status
             /\ fetch'[d].code = runs[d].code
             /\ fetch'[d].id = runs[d].id /\ fetch'[d].shown = runs[d].shown
  <2>1. fetch'[d] = g[d]
    BY <1>6, <1>7
  <2> QED BY <1>2, <2>1
<1> QED BY <1>1, <1>4, <1>6, <1>7

\* A page with nothing loaded.
LEMMA NewDetailIs ==
  ASSUME NEW text \in Typed, NEW b \in BOOLEAN
  PROVE  /\ NewDetail(text) \in Details
         /\ [NewDetail(text) EXCEPT !.disturbed = b] \in Details
         /\ [NewDetail(text) EXCEPT !.disturbed = b].code = text
         /\ [NewDetail(text) EXCEPT !.disturbed = b].disturbed = b
BY DEF NewDetail, Details

\* The page of an account opens, and begins to load.
LEMMA MountsIs ==
  ASSUME PagesTyped, NEW s \in Slots, NEW text \in Typed, Mounts(s, text, Left)
  PROVE  /\ page' = "detail"
         /\ form' = NewForm(Empty) /\ form' \in Forms
         /\ detail' \in Details /\ detail'.code = text
         /\ detail'.disturbed = (\E d \in Slots \ {s} : Left[d].what \in Writes)
         /\ fetch' \in [Slots -> RunSet]
         /\ fetch'[s] = Run("get", text)
         /\ \A d \in Slots : d # s => fetch'[d] = Left[d]
<1>1. page' = "detail" /\ form' = NewForm(Empty) /\ form' \in Forms
  BY NewFormIs, TextsAre DEF Mounts
<1> DEFINE b == \E d \in Slots \ {s} : Left[d].what \in Writes
<1>2. detail' = [NewDetail(text) EXCEPT !.disturbed = b] /\ b \in BOOLEAN
  BY DEF Mounts
<1> HIDE DEF b
<1>3. detail' \in Details /\ detail'.code = text /\ detail'.disturbed = b
  BY <1>2, NewDetailIs
<1>4. Left \in [Slots -> RunSet] /\ "get" \in Whats
  BY LeftIs DEF Whats
<1>5. fetch' = [Left EXCEPT ![s] = Run("get", text)] /\ Run("get", text) \in RunSet
  BY <1>4, RunIs DEF Mounts
<1>6. /\ fetch' \in [Slots -> RunSet] /\ fetch'[s] = Run("get", text)
      /\ \A d \in Slots : d # s => fetch'[d] = Left[d]
  BY <1>4, <1>5, Placed
<1> QED BY <1>1, <1>3, <1>6 DEF b

\* An action of the page of an account begins.
LEMMA ActIs ==
  ASSUME PagesTyped, NEW s \in Slots, Write(s) \/ VoidLast(s) \/ Refresh(s) \/ RemoveAccount(s)
  PROVE  /\ UNCHANGED <<serverVars, page, form>>
         /\ page = "detail" /\ fetch[s] = NoRun
         /\ detail' \in Details
         /\ ~ detail'.disturbed => \A d \in Slots : fetch[d] = NoRun
         /\ fetch'[s].what = "delete" =>
              /\ ~ detail'.disturbed => ~ detail.disturbed
              /\ detail'.code = detail.code /\ detail'.ledger = detail.ledger
              /\ detail'.err = detail.err
         /\ fetch' \in [Slots -> RunSet]
         /\ \A d \in Slots : d # s => fetch'[d] = fetch[d]
         /\ fetch'[s].what \in {"write", "void", "refresh", "delete"}
         /\ fetch'[s].live /\ ~ fetch'[s].latest
         /\ fetch'[s].what = "void" => \E e \in LastShown(fetch'[s].shown) : e.id = fetch'[s].id
<1> DEFINE Good(r) == /\ r \in RunSet /\ r.what \in {"write", "void", "refresh", "delete"}
                      /\ r.live /\ ~ r.latest
                      /\ r.what = "void" => \E e \in LastShown(r.shown) : e.id = r.id
<1>1. detail \in Details /\ detail.code \in Typed /\ detail.ledger \subseteq EntryRows
  BY DEF PagesTyped, Details
<1>2. \A what \in {"write", "refresh", "delete"} : Good(Run(what, detail.code))
  BY <1>1, RunIs DEF Whats, Writes
<1>3. ASSUME NEW e \in LastShown(detail.ledger)
      PROVE  Good([Run("void", detail.code) EXCEPT !.id = e.id, !.shown = detail.ledger])
  <2> DEFINE v == Run("void", detail.code)
             r == [v EXCEPT !.id = e.id, !.shown = detail.ledger]
  <2>1. e \in EntryRows /\ e.id \in Nat
    BY <1>1 DEF LastShown, Active, EntryRows
  <2>2. v \in RunSet /\ v.what = "void" /\ v.live /\ ~ v.latest
    BY <1>1, RunIs DEF Whats, Writes
  <2> HIDE DEF v
  <2>3. /\ r \in RunSet /\ r.what = "void" /\ r.live /\ ~ r.latest
        /\ r.id = e.id /\ r.shown = detail.ledger
    BY <1>1, <2>1, <2>2 DEF RunSet
  <2> HIDE DEF r
  <2>4. Good(r)
    BY <2>3
  <2> QED BY <2>4 DEF r, v
<1>4. \A r : Good(r) => r \in RunSet
  OBVIOUS
<1> HIDE DEF Good
<1>5. PICK r \in RunSet, reloads \in BOOLEAN :
        Good(r) /\ Act(s, r, reloads) /\ (r.what = "delete" => ~ reloads)
  <2> DEFINE v(e) == [Run("void", detail.code) EXCEPT !.id = e.id, !.shown = detail.ledger]
  <2>0. \A what \in Whats : Run(what, detail.code).what = what
    BY <1>1, RunIs
  <2>1. CASE Write(s)
    BY <1>2, <1>4, <2>0, <2>1 DEF Write, Whats, Writes
  <2>2. CASE VoidLast(s)
    <3>1. PICK e \in LastShown(detail.ledger) : Act(s, v(e), TRUE)
      BY <2>2 DEF VoidLast
    <3>2. Good(v(e)) /\ v(e) \in RunSet /\ v(e).what # "delete"
      <4>1. Good(v(e))
        BY <1>3
      <4>2. v(e).what = "void"
        BY <2>0 DEF Run
      <4> QED BY <1>4, <4>1, <4>2
    <3> HIDE DEF v
    <3> QED BY <3>1, <3>2
  <2>3. CASE Refresh(s)
    BY <1>2, <1>4, <2>0, <2>3 DEF Refresh, Whats
  <2>4. CASE RemoveAccount(s)
    BY <1>2, <1>4, <2>4 DEF RemoveAccount
  <2> QED BY <2>1, <2>2, <2>3, <2>4
<1>6. /\ UNCHANGED <<serverVars, page, form>>
      /\ page = "detail" /\ fetch[s] = NoRun
      /\ fetch' = [fetch EXCEPT ![s] = r]
  BY <1>5 DEF Act, Free
<1>7. /\ detail' \in Details
      /\ detail'.disturbed = ((detail.disturbed /\ ~ reloads) \/ \E d \in Slots : fetch[d] # NoRun)
      /\ detail'.code = detail.code /\ detail'.ledger = detail.ledger
      /\ detail'.err = (detail.err /\ ~ reloads)
  <2> DEFINE b == (detail.disturbed /\ ~ reloads) \/ \E d \in Slots : fetch[d] # NoRun
             e == detail.err /\ ~ reloads
             f == detail.removeFailed /\ ~ reloads
  <2>1. detail' = [detail EXCEPT !.err = e, !.removeFailed = f, !.disturbed = b]
    BY <1>5 DEF Act
  <2>2. b \in BOOLEAN /\ e \in BOOLEAN /\ f \in BOOLEAN
    BY <1>1 DEF Details
  <2> HIDE DEF b, e, f
  <2>3. /\ detail' \in Details /\ detail'.disturbed = b
        /\ detail'.code = detail.code /\ detail'.ledger = detail.ledger /\ detail'.err = e
    BY <1>1, <2>1, <2>2 DEF Details
  <2> QED BY <2>3 DEF b, e
<1>8. /\ r \in RunSet /\ r.what \in {"write", "void", "refresh", "delete"}
      /\ r.live /\ ~ r.latest
      /\ r.what = "void" => \E e \in LastShown(r.shown) : e.id = r.id
  BY <1>5 DEF Good
<1>9. /\ fetch' \in [Slots -> RunSet] /\ fetch'[s] = r
      /\ \A d \in Slots : d # s => fetch'[d] = fetch[d]
  BY <1>6, <1>8, Placed DEF PagesTyped
<1>10. /\ ~ detail'.disturbed => \A d \in Slots : fetch[d] = NoRun
       /\ fetch'[s].what = "delete" =>
            /\ ~ detail'.disturbed => ~ detail.disturbed
            /\ detail'.err = detail.err
  <2>1. detail.err \in BOOLEAN /\ detail.disturbed \in BOOLEAN
    BY <1>1 DEF Details
  <2> QED BY <1>5, <1>7, <1>9, <2>1
<1> QED BY <1>6, <1>7, <1>8, <1>9, <1>10

\* A lookup goes on with the answer: it asks whether there is an account, or it
\* is over.
LEMMA TakeLookupIs ==
  ASSUME PagesTyped, NEW s \in Slots, TakeLookup(s)
  PROVE  /\ UNCHANGED <<serverVars, page, detail>>
         /\ fetch[s].what \in {"product", "exists"}
         /\ form' \in Forms /\ fetch' \in [Slots -> RunSet]
         /\ \A d \in Slots : d # s => fetch'[d] = fetch[d]
         /\ \/ /\ form' = form
               /\ fetch[s].what = "product" /\ fetch[s].status = "ok"
               /\ fetch'[s].what = "exists" /\ fetch'[s].status = "sent"
               /\ fetch'[s].code = fetch[s].code
               /\ fetch'[s].live = fetch[s].live /\ fetch'[s].latest = fetch[s].latest
            \/ fetch'[s] = NoRun /\ form' = Watched(Looked(s))
<1>1. /\ UNCHANGED <<serverVars, page, detail>> /\ fetch[s].what \in {"product", "exists"}
      /\ fetch \in [Slots -> RunSet] /\ fetch[s] \in RunSet /\ form \in Forms
  BY DEF TakeLookup, Lookups, PagesTyped
<1>2. CASE fetch[s].what = "product" /\ fetch[s].status = "ok" /\ fetch[s].latest
  <2> DEFINE r == [fetch[s] EXCEPT !.what = "exists", !.status = "sent", !.rows = {}]
  <2>1. fetch' = [fetch EXCEPT ![s] = r] /\ form' = form
    BY <1>2 DEF TakeLookup
  <2>2. /\ r \in RunSet /\ r.what = "exists" /\ r.status = "sent" /\ r.code = fetch[s].code
        /\ r.live = fetch[s].live /\ r.latest = fetch[s].latest
    BY <1>1 DEF RunSet, Whats
  <2> HIDE DEF r
  <2>3. /\ fetch' \in [Slots -> RunSet] /\ fetch'[s] = r
        /\ \A d \in Slots : d # s => fetch'[d] = fetch[d]
    BY <1>1, <2>1, <2>2, Placed
  <2> QED BY <1>1, <1>2, <2>1, <2>2, <2>3
<1>3. CASE ~ (fetch[s].what = "product" /\ fetch[s].status = "ok" /\ fetch[s].latest)
  <2>1. fetch' = [fetch EXCEPT ![s] = NoRun] /\ form' = Watched(Looked(s))
    BY <1>3 DEF TakeLookup
  <2>2. Looked(s) \in Forms
    BY LookedIs
  <2>3. form' \in Forms
    BY <2>1, <2>2, WatchedIs
  <2>4. /\ fetch' \in [Slots -> RunSet] /\ fetch'[s] = NoRun
        /\ \A d \in Slots : d # s => fetch'[d] = fetch[d]
    BY <1>1, <2>1, NoRunIs, Placed
  <2> QED BY <1>1, <2>1, <2>3, <2>4
<1> QED BY <1>2, <1>3

\* A slot is freed or goes on to a run that reads, on the same page.
Onward(s) ==
    /\ UNCHANGED <<serverVars, page, form>>
    /\ fetch' \in [Slots -> RunSet]
    /\ \A d \in Slots : d # s => fetch'[d] = fetch[d]
    /\ detail' \in Details
    /\ detail'.code = detail.code

\* An action of the page of an account goes on with its answer.
LEMMA TakeActIs ==
  ASSUME PagesTyped, NEW s \in Slots, TakeAct(s)
  PROVE  /\ Onward(s) /\ fetch[s].what = "acted" /\ detail'.ledger = detail.ledger
         /\ detail'.disturbed = detail.disturbed
         /\ detail'.removeFailed = detail.removeFailed
         /\ \/ fetch'[s] = Run("get", detail.code) /\ fetch[s].live
            \/ fetch'[s] = NoRun /\ detail'.err = (detail.err \/ fetch[s].live)
<1>1. /\ UNCHANGED <<serverVars, page, form>> /\ fetch[s].what = "acted"
      /\ fetch \in [Slots -> RunSet] /\ fetch[s].live \in BOOLEAN /\ detail \in Details
      /\ detail.code \in Typed /\ "get" \in Whats
  BY DEF TakeAct, PagesTyped, RunSet, Details, Whats
<1>2. CASE fetch[s].status = "ok" /\ fetch[s].live
  <2>1. fetch' = [fetch EXCEPT ![s] = Run("get", detail.code)] /\ UNCHANGED detail
    BY <1>2 DEF TakeAct
  <2>2. /\ fetch' \in [Slots -> RunSet] /\ fetch'[s] = Run("get", detail.code)
        /\ \A d \in Slots : d # s => fetch'[d] = fetch[d]
    BY <1>1, <2>1, RunIs, Placed
  <2> QED BY <1>1, <1>2, <2>1, <2>2 DEF Onward
<1>3. CASE ~ (fetch[s].status = "ok" /\ fetch[s].live)
  <2>1. Fails(s)
    BY <1>3 DEF TakeAct
  <2>2. /\ fetch' \in [Slots -> RunSet] /\ fetch'[s] = NoRun
        /\ \A d \in Slots : d # s => fetch'[d] = fetch[d]
    BY <1>1, <2>1, NoRunIs, Placed DEF Fails
  <2>3. /\ detail' \in Details /\ detail'.code = detail.code
        /\ detail'.ledger = detail.ledger /\ detail'.disturbed = detail.disturbed
        /\ detail'.removeFailed = detail.removeFailed
        /\ detail'.err = (detail.err \/ fetch[s].live)
    BY <1>1, <2>1 DEF Fails, Details
  <2> QED BY <1>1, <2>2, <2>3 DEF Onward
<1> QED BY <1>2, <1>3

\* A load goes on with its answer.
LEMMA TakeLoadIs ==
  ASSUME PagesTyped, NEW s \in Slots, TakeLoad(s)
  PROVE  /\ Onward(s) /\ fetch[s].what \in {"get", "pnl"}
         /\ detail'.disturbed = detail.disturbed
         /\ \/ /\ fetch[s].what = "get" /\ fetch[s].status = "ok"
               /\ fetch'[s] = Run("pnl", detail.code)
               /\ detail'.ledger = fetch[s].rows /\ detail'.err = detail.err
            \/ fetch[s].what = "pnl" /\ fetch'[s] = NoRun /\ UNCHANGED detail
            \/ /\ fetch'[s] = NoRun
               /\ detail'.ledger = detail.ledger /\ detail'.err = (detail.err \/ fetch[s].live)
<1>1. /\ UNCHANGED <<serverVars, page, form>> /\ fetch[s].what \in {"get", "pnl"}
      /\ fetch \in [Slots -> RunSet] /\ fetch[s].live \in BOOLEAN /\ detail \in Details
      /\ fetch[s].rows \in SUBSET EntryRows
      /\ detail.code \in Typed /\ "pnl" \in Whats
  BY DEF TakeLoad, PagesTyped, RunSet, Details, Whats
<1>2. CASE fetch[s].status # "ok"
  <2>1. Fails(s)
    BY <1>2 DEF TakeLoad
  <2>2. /\ fetch' \in [Slots -> RunSet] /\ fetch'[s] = NoRun
        /\ \A d \in Slots : d # s => fetch'[d] = fetch[d]
    BY <1>1, <2>1, NoRunIs, Placed DEF Fails
  <2>3. /\ detail' \in Details /\ detail'.code = detail.code
        /\ detail'.ledger = detail.ledger /\ detail'.disturbed = detail.disturbed
        /\ detail'.err = (detail.err \/ fetch[s].live)
    BY <1>1, <2>1 DEF Fails, Details
  <2> QED BY <1>1, <2>2, <2>3 DEF Onward
<1>3. CASE fetch[s].status = "ok" /\ fetch[s].what = "get"
  <2>1. /\ fetch' = [fetch EXCEPT ![s] = Run("pnl", detail.code)]
        /\ detail' = [detail EXCEPT !.loaded = TRUE, !.ledger = fetch[s].rows]
    BY <1>3 DEF TakeLoad
  <2>2. /\ fetch' \in [Slots -> RunSet] /\ fetch'[s] = Run("pnl", detail.code)
        /\ \A d \in Slots : d # s => fetch'[d] = fetch[d]
    BY <1>1, <2>1, RunIs, Placed
  <2>3. /\ detail' \in Details /\ detail'.code = detail.code
        /\ detail'.ledger = fetch[s].rows /\ detail'.disturbed = detail.disturbed
        /\ detail'.err = detail.err
    BY <1>1, <2>1 DEF Details
  <2> QED BY <1>1, <1>3, <2>2, <2>3 DEF Onward
<1>4. CASE fetch[s].status = "ok" /\ fetch[s].what = "pnl"
  <2>1. fetch' = [fetch EXCEPT ![s] = NoRun] /\ UNCHANGED detail
    BY <1>4 DEF TakeLoad
  <2>2. /\ fetch' \in [Slots -> RunSet] /\ fetch'[s] = NoRun
        /\ \A d \in Slots : d # s => fetch'[d] = fetch[d]
    BY <1>1, <2>1, NoRunIs, Placed
  <2> QED BY <1>1, <1>4, <2>1, <2>2 DEF Onward
<1> QED BY <1>1, <1>2, <1>3, <1>4

\* A page is left for one that has nothing to do with an account.
Leaves ==
    /\ UNCHANGED serverVars
    /\ page' \in {"list", "new"}
    /\ detail' = NewDetail(Empty)
    /\ fetch' \in [Slots -> RunSet]
    /\ \A d \in Slots : fetch'[d] = Left[d] \/ fetch'[d] = NoRun

\* The list opens, and one run of the page that is left is over as well.
LEMMA ToListIs ==
  ASSUME PagesTyped, UNCHANGED serverVars, NEW s \in Slots, ToList([Left EXCEPT ![s] = NoRun])
  PROVE  Leaves /\ page' = "list" /\ form' = NewForm(Empty)
<1>1. /\ page' = "list" /\ form' = NewForm(Empty) /\ detail' = NewDetail(Empty)
      /\ fetch' = [Left EXCEPT ![s] = NoRun]
  BY DEF ToList
<1>2. /\ fetch' \in [Slots -> RunSet] /\ fetch'[s] = NoRun
      /\ \A d \in Slots : d # s => fetch'[d] = Left[d]
  BY <1>1, LeftIs, NoRunIs, Placed
<1> QED BY <1>1, <1>2 DEF Leaves

\* The submit of a form goes on with its answer: the page of an account opens,
\* or the list, or nothing else happens.
LEMMA TakeCreateIs ==
  ASSUME PagesTyped, NEW s \in Slots, TakeCreate(s)
  PROVE  /\ UNCHANGED serverVars /\ fetch[s].what = "create"
         /\ \/ /\ page # "detail"
               /\ \E text \in Typed :
                    /\ Mounts(s, text, Left)
                    /\ fetch[s].live => text = Upper[form.box]
            \/ Leaves /\ page' = "list" /\ form' = NewForm(Empty)
            \/ /\ UNCHANGED <<page, form, detail>>
               /\ fetch' \in [Slots -> RunSet] /\ fetch'[s] = NoRun
               /\ \A d \in Slots : d # s => fetch'[d] = fetch[d]
<1> DEFINE text == Upper[IF fetch[s].live THEN form.box ELSE fetch[s].box]
<1>1. /\ UNCHANGED serverVars /\ fetch[s].what = "create"
      /\ \/ page # "detail" /\ Mounts(s, text, Left)
         \/ ToList([Left EXCEPT ![s] = NoRun])
         \/ UNCHANGED <<page, form, detail>> /\ fetch' = [fetch EXCEPT ![s] = NoRun]
  BY DEF TakeCreate
<1>2. form.box \in Typed /\ fetch[s].box \in Typed /\ fetch \in [Slots -> RunSet]
  BY DEF PagesTyped, RunSet, Forms
<1>3. text \in Typed /\ (fetch[s].live => text = Upper[form.box])
  BY <1>2, TextsAre
<1>4. CASE page # "detail" /\ Mounts(s, text, Left)
  BY <1>1, <1>3, <1>4
<1>5. CASE UNCHANGED <<page, form, detail>> /\ fetch' = [fetch EXCEPT ![s] = NoRun]
  <2>1. /\ fetch' \in [Slots -> RunSet] /\ fetch'[s] = NoRun
        /\ \A d \in Slots : d # s => fetch'[d] = fetch[d]
    BY <1>2, <1>5, NoRunIs, Placed
  <2> QED BY <1>1, <1>5, <2>1
<1>6. CASE ToList([Left EXCEPT ![s] = NoRun])
  BY <1>1, <1>6, ToListIs
<1> QED BY <1>1, <1>4, <1>5, <1>6

\* The deletion of an account goes on with its answer.
LEMMA TakeRemoveIs ==
  ASSUME PagesTyped, NEW s \in Slots, TakeRemove(s)
  PROVE  /\ fetch[s].what = "delete"
         /\ \/ Leaves /\ page' = "list" /\ form' = NewForm(Empty)
            \/ /\ Onward(s) /\ fetch'[s] = NoRun
               /\ detail'.ledger = detail.ledger /\ detail'.err = detail.err
               /\ detail'.disturbed = detail.disturbed
               /\ detail'.removeFailed = (detail.removeFailed \/ fetch[s].live)
<1>1. /\ UNCHANGED serverVars /\ fetch[s].what = "delete"
      /\ fetch \in [Slots -> RunSet] /\ fetch[s].live \in BOOLEAN /\ detail \in Details
  BY DEF TakeRemove, PagesTyped, RunSet
<1>2. CASE fetch[s].status = "ok" /\ page # "list"
  <2>1. ToList([Left EXCEPT ![s] = NoRun])
    BY <1>2 DEF TakeRemove
  <2> QED BY <1>1, <2>1, ToListIs
<1>3. CASE ~ (fetch[s].status = "ok" /\ page # "list")
  <2>1. /\ UNCHANGED <<page, form>>
        /\ fetch' = [fetch EXCEPT ![s] = NoRun]
        /\ detail' = [detail EXCEPT !.removeFailed = @ \/ fetch[s].live]
    BY <1>3 DEF TakeRemove
  <2>2. /\ fetch' \in [Slots -> RunSet] /\ fetch'[s] = NoRun
        /\ \A d \in Slots : d # s => fetch'[d] = fetch[d]
    BY <1>1, <2>1, NoRunIs, Placed
  <2>3. /\ detail' \in Details /\ detail'.code = detail.code
        /\ detail'.ledger = detail.ledger /\ detail'.err = detail.err
        /\ detail'.disturbed = detail.disturbed
        /\ detail'.removeFailed = (detail.removeFailed \/ fetch[s].live)
    BY <1>1, <2>1 DEF Details
  <2> QED BY <1>1, <2>1, <2>2, <2>3 DEF Onward
<1> QED BY <1>2, <1>3

\* The list, or the form of a new account, opens; a lookup may begin with it.
LEMMA OpensIs ==
  ASSUME PagesTyped,
         OpenList \/ (\E s \in Slots, k \in Products : OpenNew(s, k))
  PROVE  \/ Leaves /\ page' = "list" /\ form' = NewForm(Empty)
         \/ /\ Leaves /\ page' = "new"
            /\ \E k \in Products : form' = NewForm(k)
         \/ /\ UNCHANGED serverVars /\ page' = "new" /\ detail' = NewDetail(Empty)
            /\ \E s \in Slots, k \in Products : Begins(s, k, NewForm(k), Left)
<1>1. CASE OpenList
  BY <1>1, LeftIs DEF OpenList, ToList, Leaves
<1>2. ASSUME NEW s \in Slots, NEW k \in Products, OpenNew(s, k)
      PROVE  \/ Leaves /\ page' = "new" /\ form' = NewForm(k)
             \/ /\ UNCHANGED serverVars /\ page' = "new" /\ detail' = NewDetail(Empty)
                /\ Begins(s, k, NewForm(k), Left)
  <2>1. UNCHANGED serverVars /\ page' = "new" /\ detail' = NewDetail(Empty)
    BY <1>2 DEF OpenNew
  <2>2. \/ form' = NewForm(k) /\ fetch' = Left
        \/ Begins(s, k, NewForm(k), Left)
    BY <1>2 DEF OpenNew
  <2> QED BY <2>1, <2>2, LeftIs DEF Leaves
<1> QED BY <1>1, <1>2

\* The form is submitted.
LEMMA SubmitIs ==
  ASSUME PagesTyped, NEW s \in Slots, Submit(s)
  PROVE  /\ UNCHANGED <<serverVars, page, form, detail>>
         /\ page = "new" /\ canSubmit /\ fetch[s] = NoRun
         /\ fetch' \in [Slots -> RunSet]
         /\ fetch'[s] = Run("create", form.box)
         /\ fetch'[s].what = "create" /\ fetch'[s].live /\ ~ fetch'[s].latest
         /\ fetch'[s].code = form.box
         /\ \A d \in Slots : d # s => fetch'[d] = fetch[d]
<1>1. /\ UNCHANGED <<serverVars, page, form, detail>>
      /\ page = "new" /\ canSubmit /\ fetch[s] = NoRun
      /\ fetch' = [fetch EXCEPT ![s] = Run("create", form.box)]
  BY DEF Submit, Free
<1>2. fetch \in [Slots -> RunSet] /\ form.box \in Typed /\ "create" \in Whats
  BY DEF PagesTyped, Forms, Whats, Writes
<1>3. /\ Run("create", form.box) \in RunSet /\ Run("create", form.box).what = "create"
      /\ Run("create", form.box).live /\ ~ Run("create", form.box).latest
      /\ Run("create", form.box).code = form.box
  BY <1>2, RunIs
<1>4. /\ fetch' \in [Slots -> RunSet] /\ fetch'[s] = Run("create", form.box)
      /\ \A d \in Slots : d # s => fetch'[d] = fetch[d]
  BY <1>1, <1>2, <1>3, Placed
<1> QED BY <1>1, <1>3, <1>4

\* A lookup of nothing ends all lookups; the runs are otherwise as they were.
LEMMA LookupNothingIs ==
  ASSUME PagesTyped, LookupNothing
  PROVE  /\ UNCHANGED <<serverVars, page, detail>> /\ page = "new"
         /\ Norm[form.box] = Empty
         /\ form' \in Forms /\ form'.box = form.box /\ form'.typed = form.typed
         /\ form'.verified = Empty /\ form'.preview.code = Empty /\ ~ form'.looking
         /\ fetch' \in [Slots -> RunSet]
         /\ \A d \in Slots :
              /\ ~ fetch'[d].latest /\ fetch'[d].live = fetch[d].live
              /\ fetch'[d].what = fetch[d].what /\ fetch'[d].status = fetch[d].status
              /\ fetch'[d].code = fetch[d].code
              /\ fetch'[d].id = fetch[d].id /\ fetch'[d].shown = fetch[d].shown
<1>1. /\ UNCHANGED <<serverVars, page, detail>> /\ page = "new" /\ Norm[form.box] = Empty
      /\ form \in Forms /\ fetch \in [Slots -> RunSet]
  BY DEF LookupNothing, PagesTyped
<1>2. NoPreview \in [code : Typed, product : Fitness, existing : BOOLEAN] /\ NoPreview.code = Empty
  BY TextsAre DEF NoPreview, Fitness
<1>3. /\ form' \in Forms /\ form'.box = form.box /\ form'.typed = form.typed
      /\ form'.verified = Empty /\ form'.preview = NoPreview /\ ~ form'.looking
  BY <1>1, <1>2, TextsAre DEF LookupNothing, Forms
<1>4. ASSUME NEW d \in Slots
      PROVE  /\ fetch'[d] \in RunSet
             /\ ~ fetch'[d].latest /\ fetch'[d].live = fetch[d].live
             /\ fetch'[d].what = fetch[d].what /\ fetch'[d].status = fetch[d].status
             /\ fetch'[d].code = fetch[d].code
             /\ fetch'[d].id = fetch[d].id /\ fetch'[d].shown = fetch[d].shown
  <2>1. fetch'[d] = [fetch[d] EXCEPT !.latest = FALSE] /\ fetch[d] \in RunSet
    BY <1>1 DEF LookupNothing
  <2> QED BY <2>1 DEF RunSet
<1>5. fetch' \in [Slots -> RunSet]
  BY <1>4 DEF LookupNothing
<1> QED BY <1>1, <1>2, <1>3, <1>4, <1>5

\* Something is typed.
LEMMA TypeIs ==
  ASSUME PagesTyped, NEW text \in Typed, Type(text)
  PROVE  /\ UNCHANGED <<serverVars, page, detail, fetch>> /\ page = "new"
         /\ form' \in Forms /\ form'.typed
         /\ form'.looking = form.looking /\ form'.inflight = form.inflight
         /\ form.verified = form.preview.code => form'.verified = form'.preview.code
         /\ form'.verified # Empty => Norm[form'.box] = form'.verified
<1> DEFINE f == [form EXCEPT !.box = text, !.typed = TRUE]
<1>1. /\ f \in Forms /\ f.typed /\ f.looking = form.looking /\ f.inflight = form.inflight
      /\ f.verified = form.verified /\ f.preview = form.preview
  BY DEF PagesTyped, Forms
<1>2. UNCHANGED <<serverVars, page, detail, fetch>> /\ page = "new" /\ form' = Watched(f)
  BY DEF Type
<1> HIDE DEF f
<1> QED BY <1>1, <1>2, WatchedIs

\* The account is written from elsewhere.
LEMMA WriteElsewhereIs ==
  ASSUME PagesTyped, NEW k \in Products, WriteElsewhere(k)
  PROVE  /\ UNCHANGED <<product, page, form, fetch>>
         /\ holding' \subseteq Products /\ LedgerTyped'
         /\ detail' \in Details /\ detail'.disturbed
<1>1. /\ UNCHANGED <<page, form, fetch>> /\ detail \in Details
      /\ detail' = [detail EXCEPT !.disturbed = TRUE] /\ holding \subseteq Products
      /\ \/ Insert(k) /\ UNCHANGED <<product, holding>>
         \/ \E e \in LastActive(k) : VoidRow(e) /\ UNCHANGED <<product, holding>>
         \/ DeleteAccount(k)
  BY DEF WriteElsewhere, PagesTyped
<1>2. LedgerTyped' /\ holding' \subseteq Products /\ UNCHANGED product
  <2>1. LastActive(k) \subseteq ledger
    BY DEF LastActive, Active, RowsOf
  <2> QED BY <1>1, <2>1, InsertIs, VoidRowIs, DeleteIs DEF DeleteAccount
<1>3. detail' \in Details /\ detail'.disturbed
  BY <1>1 DEF Details
<1> QED BY <1>1, <1>2, <1>3

\* Leaving a page keeps the types.
LEMMA LeavesTyped ==
  ASSUME PagesTyped, UNCHANGED serverVars, detail' = NewDetail(Empty),
         page' \in {"list", "new"}, form' \in Forms, fetch' \in [Slots -> RunSet]
  PROVE  PagesTyped'
<1>1. detail' \in Details
  BY NewDetailIs, TextsAre DEF NewDetail, Details
<1> QED BY <1>1 DEF PagesTyped, serverVars, Bounded

-----------------------------------------------------------------------------
(* Every step keeps the invariant. *)

\* Everything keeps its type.
LEMMA StepPagesTyped ==
  ASSUME PagesTyped, [HoldingNext]_holdingVars
  PROVE  PagesTyped'
<1> USE DEF serverVars
<1>0. Empty \in Typed /\ NewForm(Empty) \in Forms /\ Products \subseteq Typed
  BY NewFormIs, TextsAre
<1>1. ASSUME NEW s \in Slots, Serve(s) \/ Lose(s) PROVE PagesTyped'
  BY <1>1, AnswerIs DEF PagesTyped, LedgerTyped
<1>2. ASSUME NEW s \in Slots, TakeLookup(s) PROVE PagesTyped'
  BY <1>2, TakeLookupIs DEF PagesTyped, Bounded
<1>3. ASSUME NEW s \in Slots, TakeCreate(s) PROVE PagesTyped'
  <2>1. \/ /\ UNCHANGED <<serverVars, page, form, detail>>
           /\ fetch' \in [Slots -> RunSet]
        \/ \E text \in Typed : UNCHANGED serverVars /\ Mounts(s, text, Left)
        \/ Leaves /\ form' = NewForm(Empty)
    BY <1>3, TakeCreateIs
  <2>2. CASE Leaves /\ form' = NewForm(Empty)
    BY <1>0, <2>2, LeavesTyped DEF Leaves
  <2> QED BY <2>1, <2>2, MountsIs DEF PagesTyped, Bounded
<1>4. ASSUME NEW s \in Slots, TakeAct(s) \/ TakeLoad(s) PROVE PagesTyped'
  <2>1. Onward(s)
    BY <1>4, TakeActIs, TakeLoadIs
  <2> QED BY <2>1 DEF PagesTyped, Onward, Bounded
<1>5. ASSUME NEW s \in Slots, TakeRemove(s) PROVE PagesTyped'
  <2>1. CASE Leaves /\ form' = NewForm(Empty)
    BY <1>0, <2>1, LeavesTyped DEF Leaves
  <2>2. CASE Onward(s)
    BY <2>2 DEF PagesTyped, Onward, Bounded
  <2> QED BY <1>5, <2>1, <2>2, TakeRemoveIs
<1>6. ASSUME NEW s \in Slots, NEW k \in Products, OpenDetail(s, k) PROVE PagesTyped'
  <2>1. UNCHANGED serverVars /\ Mounts(s, k, Left) /\ k \in Typed
    BY <1>0, <1>6 DEF OpenDetail
  <2> QED BY <2>1, MountsIs DEF PagesTyped, Bounded
<1>7. CASE OpenList \/ (\E s \in Slots, k \in Products : OpenNew(s, k))
  <2>1. CASE \E text \in Typed : Leaves /\ form' = NewForm(text)
    BY <2>1, NewFormIs, LeavesTyped DEF Leaves
  <2>2. ASSUME UNCHANGED serverVars, page' = "new", detail' = NewDetail(Empty),
               NEW s \in Slots, NEW k \in Products, Begins(s, k, NewForm(k), Left)
        PROVE PagesTyped'
    <3>1. k \in Typed /\ NewForm(k) \in Forms /\ Left \in [Slots -> RunSet]
      BY <1>0, NewFormIs, LeftIs
    <3>2. form' \in Forms /\ fetch' \in [Slots -> RunSet]
      BY <2>2, <3>1, BeginsIs
    <3> QED BY <2>2, <3>2, LeavesTyped
  <2> QED BY <1>0, <1>7, <2>1, <2>2, OpensIs
<1>8. ASSUME NEW s \in Slots, Lookup(s) PROVE PagesTyped'
  <2>1. /\ UNCHANGED <<serverVars, page, detail>>
        /\ Begins(s, Norm[form.box], form, fetch)
    BY <1>8 DEF Lookup
  <2>2. Norm[form.box] \in Typed /\ form \in Forms /\ fetch \in [Slots -> RunSet]
    BY TextsAre DEF PagesTyped, Forms
  <2>3. form' \in Forms /\ fetch' \in [Slots -> RunSet]
    BY <2>1, <2>2, BeginsIs
  <2> QED BY <2>1, <2>3 DEF PagesTyped, Bounded
<1>9. ASSUME NEW s \in Slots, Submit(s) PROVE PagesTyped'
  BY <1>9, SubmitIs DEF PagesTyped, Bounded
<1>10. ASSUME NEW s \in Slots, Write(s) \/ VoidLast(s) \/ Refresh(s) \/ RemoveAccount(s)
       PROVE  PagesTyped'
  BY <1>10, ActIs DEF PagesTyped, Bounded
<1>11. CASE LookupNothing
  BY <1>11, LookupNothingIs DEF PagesTyped, Bounded
<1>12. ASSUME NEW text \in Typed, Type(text) PROVE PagesTyped'
  BY <1>12, TypeIs DEF PagesTyped, Bounded
<1>13. ASSUME NEW k \in Crawled, Crawl(k) PROVE PagesTyped'
  BY <1>13 DEF Crawl, PagesTyped, Bounded
<1>14. ASSUME NEW k \in Products, WriteElsewhere(k) PROVE PagesTyped'
  BY <1>14, WriteElsewhereIs DEF PagesTyped, LedgerTyped
<1>15. CASE UNCHANGED holdingVars
  BY <1>15 DEF holdingVars, PagesTyped, Bounded
<1> QED BY <1>1, <1>2, <1>3, <1>4, <1>5, <1>6, <1>7, <1>8, <1>9, <1>10, <1>11, <1>12,
           <1>13, <1>14, <1>15 DEF HoldingNext, Take

\* The form is busy with the last lookup, and shows what is of its box.
LEMMA StepLookedUp ==
  ASSUME PagesTyped, page = "new" => LookedUp, Found, [HoldingNext]_holdingVars, page' = "new"
  PROVE  LookedUp'
<1>0. /\ Products \subseteq Typed /\ Empty \in Typed
      /\ \A d \in Slots : ~ Left[d].latest
  BY LeftIs, TextsAre DEF Found, Reading
<1>1. ASSUME NEW s \in Slots, Serve(s) \/ Lose(s) PROVE LookedUp'
  BY <1>1, AnswerIs DEF LookedUp
<1>2. ASSUME NEW s \in Slots, TakeLookup(s) PROVE LookedUp'
  <2>1. CASE form' = form /\ fetch'[s].code = fetch[s].code /\ fetch'[s].latest = fetch[s].latest
    BY <1>2, <2>1, TakeLookupIs DEF LookedUp
  <2>2. CASE fetch'[s] = NoRun /\ form' = Watched(Looked(s))
    <3>1. /\ page = "new" /\ LookedUp
          /\ \A d \in Slots : d # s => fetch'[d] = fetch[d]
      BY <1>2, TakeLookupIs
    <3>2. /\ Looked(s) \in Forms /\ Looked(s).verified = Looked(s).preview.code
          /\ ~ fetch[s].latest => Looked(s) = form
          /\ fetch[s].latest => ~ Looked(s).looking
      BY <3>1, LookedIs DEF LookedUp
    <3>3. /\ form'.looking = Looked(s).looking /\ form'.inflight = Looked(s).inflight
          /\ form'.verified = form'.preview.code
          /\ form'.verified # Empty => Norm[form'.box] = form'.verified
      BY <2>2, <3>2, WatchedIs
    <3> QED BY <2>2, <3>1, <3>2, <3>3, NoRunIs DEF LookedUp
  <2> QED BY <1>2, <2>1, <2>2, TakeLookupIs
<1>3. ASSUME NEW s \in Slots, TakeCreate(s) PROVE LookedUp'
  <2>1. /\ UNCHANGED <<page, form>> /\ fetch'[s] = NoRun /\ fetch[s].what = "create"
        /\ \A d \in Slots : d # s => fetch'[d] = fetch[d]
    BY <1>3, TakeCreateIs, MountsIs
  <2> QED BY <2>1, NoRunIs DEF LookedUp, Found
<1>4. ASSUME NEW s \in Slots, TakeAct(s) \/ TakeLoad(s) PROVE LookedUp'
  <2>1. /\ Onward(s) /\ fetch[s].what \notin {"product", "exists"}
        /\ \/ fetch'[s] = NoRun
           \/ \E what \in {"get", "pnl"} : fetch'[s] = Run(what, detail.code)
    BY <1>4, TakeActIs, TakeLoadIs
  <2>2. ~ fetch'[s].latest
    <3>1. detail.code \in Typed /\ {"get", "pnl"} \subseteq Whats
      BY DEF PagesTyped, Details, Whats
    <3> QED BY <2>1, <3>1, NoRunIs, RunIs
  <2> QED BY <2>1, <2>2 DEF Onward, LookedUp, Found
<1>5. ASSUME NEW s \in Slots, TakeRemove(s) PROVE LookedUp'
  <2>1. Onward(s) /\ fetch'[s] = NoRun /\ fetch[s].what = "delete"
    BY <1>5, TakeRemoveIs
  <2> QED BY <2>1, NoRunIs DEF Onward, LookedUp, Found
<1>6. ASSUME NEW s \in Slots, NEW k \in Products, OpenDetail(s, k) PROVE LookedUp'
  BY <1>6 DEF OpenDetail, Mounts
<1>7. ASSUME NEW s \in Slots, NEW k \in Typed, NEW f \in Forms,
              NEW runs \in [Slots -> RunSet], Begins(s, k, f, runs),
              f.verified = f.preview.code,
              f.verified # Empty => Norm[f.box] = f.verified
       PROVE  LookedUp'
  <2>1. /\ form'.looking /\ form'.inflight = k
        /\ form'.box = f.box
        /\ form'.verified = f.verified /\ form'.preview = f.preview
        /\ fetch'[s].latest /\ fetch'[s].code = k
        /\ \A d \in Slots : d # s => ~ fetch'[d].latest
    BY <1>7, BeginsIs
  <2>2. /\ form'.looking => \E d \in Slots : fetch'[d].latest
        /\ \A d \in Slots : fetch'[d].latest => d = s
    BY <2>1
  <2> QED BY <1>7, <2>1, <2>2 DEF LookedUp
<1>8. CASE OpenList \/ (\E s \in Slots, k \in Products : OpenNew(s, k))
  <2>1. ASSUME Leaves, NEW k \in Products, form' = NewForm(k) PROVE LookedUp'
    <3>1. \A d \in Slots : ~ fetch'[d].latest
      BY <1>0, <2>1, NoRunIs DEF Leaves
    <3> QED BY <1>0, <2>1, <3>1, NewFormIs DEF LookedUp
  <2>2. ASSUME NEW s \in Slots, NEW k \in Products, Begins(s, k, NewForm(k), Left) PROVE LookedUp'
    <3>1. /\ k \in Typed /\ NewForm(k) \in Forms /\ Left \in [Slots -> RunSet]
          /\ NewForm(k).verified = Empty /\ NewForm(k).preview.code = Empty
      BY <1>0, NewFormIs, LeftIs
    <3> QED BY <1>7, <2>2, <3>1
  <2> QED BY <1>8, <2>1, <2>2, OpensIs
<1>9. ASSUME NEW s \in Slots, Lookup(s) PROVE LookedUp'
  <2>1. page = "new" /\ Begins(s, Norm[form.box], form, fetch)
    BY <1>9 DEF Lookup
  <2>2. Norm[form.box] \in Typed /\ form \in Forms /\ fetch \in [Slots -> RunSet]
    BY TextsAre DEF PagesTyped, Forms
  <2>3. LookedUp
    BY <2>1
  <2> QED BY <1>7, <2>1, <2>2, <2>3 DEF LookedUp
<1>10. ASSUME NEW s \in Slots, Submit(s) PROVE LookedUp'
  <2>1. /\ UNCHANGED <<page, form>> /\ fetch[s] = NoRun /\ ~ fetch'[s].latest
        /\ \A d \in Slots : d # s => fetch'[d] = fetch[d]
    BY <1>10, SubmitIs
  <2> QED BY <2>1, NoRunIs DEF LookedUp
<1>11. ASSUME NEW s \in Slots, Write(s) \/ VoidLast(s) \/ Refresh(s) \/ RemoveAccount(s)
       PROVE  LookedUp'
  BY <1>11, ActIs
<1>12. CASE LookupNothing
  BY <1>12, LookupNothingIs DEF LookedUp
<1>13. ASSUME NEW text \in Typed, Type(text) PROVE LookedUp'
  BY <1>13, TypeIs DEF LookedUp
<1>14. ASSUME NEW k \in Crawled, Crawl(k) PROVE LookedUp'
  BY <1>14 DEF Crawl, LookedUp
<1>15. ASSUME NEW k \in Products, WriteElsewhere(k) PROVE LookedUp'
  BY <1>15, WriteElsewhereIs DEF LookedUp
<1>16. CASE UNCHANGED holdingVars
  BY <1>16 DEF holdingVars, LookedUp
<1> QED BY <1>1, <1>2, <1>3, <1>4, <1>5, <1>6, <1>8, <1>9, <1>10, <1>11, <1>12, <1>13,
           <1>14, <1>15, <1>16 DEF HoldingNext, Take

\* A slot that is given a run which says nothing new keeps what is found.
LEMMA FoundKept ==
  ASSUME Found, NEW s \in Slots, \A d \in Slots : d # s => fetch'[d] = fetch[d],
         ~ fetch'[s].latest, fetch'[s].what \notin {"product", "exists"},
         fetch'[s].what \in {"get", "pnl"} => fetch'[s].live
  PROVE  Found'
BY DEF Found

\* Leaving a page leaves nothing that was found.
LEMMA FoundLeft ==
  ASSUME PagesTyped, Found, NEW S \in SUBSET Slots,
         \A d \in S : fetch'[d] = Left[d] \/ fetch'[d] = NoRun
  PROVE  \A d \in S : /\ ~ fetch'[d].latest /\ ~ fetch'[d].live
                      /\ fetch'[d].what \notin {"product", "exists", "get", "pnl", "acted"}
<1>1. ASSUME NEW d \in Slots
      PROVE  /\ ~ Left[d].latest /\ ~ Left[d].live
             /\ Left[d].what \notin {"product", "exists", "get", "pnl", "acted"}
  BY LeftIs DEF Found, Reading
<1> QED BY <1>1, NoRunIs

\* What is known of the runs is kept.
LEMMA StepFound ==
  ASSUME PagesTyped, Found, [HoldingNext]_holdingVars
  PROVE  Found'
<1>0. /\ detail.code \in Typed /\ {"get", "pnl"} \subseteq Whats /\ Products \subseteq Typed
      /\ Left \in [Slots -> RunSet]
  BY LeftIs, TextsAre DEF PagesTyped, Details, Whats
<1>1. ASSUME NEW s \in Slots, Serve(s) \/ Lose(s) PROVE Found'
  <2>1. \A d \in Slots :
          /\ d # s => fetch'[d] = fetch[d]
          /\ fetch'[d].live = fetch[d].live /\ fetch'[d].latest = fetch[d].latest
          /\ fetch'[d].code = fetch[d].code
          /\ fetch'[d].what # fetch[d].what =>
               /\ fetch[d].what \in {"write", "void", "refresh"}
               /\ fetch'[d].what = "acted"
    BY <1>1, AnswerIs
  <2>2. fetch'[s].what = "product" /\ fetch'[s].status = "ok" => fetch[s].code \in Products
    BY <1>1, AnswerIs
  <2> QED BY <2>1, <2>2 DEF Found
<1>2. ASSUME NEW s \in Slots, TakeLookup(s) PROVE Found'
  BY <1>2, TakeLookupIs, NoRunIs DEF Found
<1>3. ASSUME NEW s \in Slots, NEW text \in Typed, Mounts(s, text, Left) PROVE Found'
  <2>1. \A d \in Slots \ {s} : /\ ~ fetch'[d].latest
                               /\ fetch'[d].what \notin {"product", "exists", "get", "pnl", "acted"}
    <3>1. \A d \in Slots \ {s} : fetch'[d] = Left[d] \/ fetch'[d] = NoRun
      BY <1>3, MountsIs
    <3> QED BY <3>1, FoundLeft
  <2>2. fetch'[s].what = "get" /\ ~ fetch'[s].latest /\ fetch'[s].live
    <3>1. fetch'[s] = Run("get", text)
      BY <1>3, MountsIs
    <3> QED BY <1>0, <3>1, RunIs
  <2> QED BY <2>1, <2>2 DEF Found
<1>4. CASE Leaves
  BY <1>4, FoundLeft DEF Leaves, Found
<1>5. ASSUME NEW s \in Slots, TakeAct(s) \/ TakeLoad(s) PROVE Found'
  <2>1. /\ Onward(s)
        /\ \/ fetch'[s] = NoRun
           \/ \E what \in {"get", "pnl"} : fetch'[s] = Run(what, detail.code)
    BY <1>5, TakeActIs, TakeLoadIs
  <2>2. /\ ~ fetch'[s].latest /\ fetch'[s].what \notin {"product", "exists"}
        /\ fetch'[s].what \in {"get", "pnl"} => fetch'[s].live
    BY <1>0, <2>1, NoRunIs, RunIs
  <2> QED BY <2>1, <2>2, FoundKept DEF Onward
<1>6. ASSUME NEW s \in Slots, TakeCreate(s) PROVE Found'
  <2>1. CASE \E text \in Typed : Mounts(s, text, Left)
    BY <1>3, <2>1
  <2>2. CASE fetch'[s] = NoRun /\ \A d \in Slots : d # s => fetch'[d] = fetch[d]
    BY <2>2, NoRunIs, FoundKept
  <2> QED BY <1>4, <1>6, <2>1, <2>2, TakeCreateIs
<1>7. ASSUME NEW s \in Slots, TakeRemove(s) PROVE Found'
  <2>1. CASE Onward(s) /\ fetch'[s] = NoRun
    BY <2>1, NoRunIs, FoundKept DEF Onward
  <2> QED BY <1>4, <1>7, <2>1, TakeRemoveIs
<1>8. ASSUME NEW s \in Slots, NEW k \in Products, OpenDetail(s, k) PROVE Found'
  BY <1>0, <1>3, <1>8 DEF OpenDetail
<1>9. ASSUME NEW s \in Slots, NEW k \in Typed, NEW f \in Forms,
             NEW runs \in [Slots -> RunSet], Begins(s, k, f, runs),
             \A d \in Slots :
               /\ runs[d].what \in {"get", "pnl"} => runs[d].live
               /\ runs[d].what = "exists" => runs[d].code \in Products
               /\ runs[d].what = "product" /\ runs[d].status = "ok" => runs[d].code \in Products
      PROVE  Found'
  BY <1>9, BeginsIs DEF Found
<1>10. CASE OpenList \/ (\E s \in Slots, k \in Products : OpenNew(s, k))
  <2>1. ASSUME NEW s \in Slots, NEW k \in Products, Begins(s, k, NewForm(k), Left) PROVE Found'
    <3>1. k \in Typed /\ NewForm(k) \in Forms
      BY <1>0, NewFormIs
    <3>2. \A d \in Slots : Left[d].what \notin {"product", "exists", "get", "pnl"}
      BY LeftIs DEF Reading
    <3> QED BY <1>0, <1>9, <2>1, <3>1, <3>2
  <2> QED BY <1>4, <1>10, <2>1, OpensIs
<1>11. ASSUME NEW s \in Slots, Lookup(s) PROVE Found'
  <2>1. Begins(s, Norm[form.box], form, fetch)
    BY <1>11 DEF Lookup
  <2>2. Norm[form.box] \in Typed /\ form \in Forms /\ fetch \in [Slots -> RunSet]
    BY TextsAre DEF PagesTyped, Forms
  <2> QED BY <1>9, <2>1, <2>2 DEF Found
<1>12. ASSUME NEW s \in Slots, Submit(s) PROVE Found'
  BY <1>12, SubmitIs, FoundKept
<1>13. ASSUME NEW s \in Slots, Write(s) \/ VoidLast(s) \/ Refresh(s) \/ RemoveAccount(s)
       PROVE  Found'
  BY <1>13, ActIs, FoundKept
<1>14. CASE LookupNothing
  BY <1>14, LookupNothingIs DEF Found
<1>15. CASE UNCHANGED fetch
  BY <1>15 DEF Found
<1>16. CASE \/ UNCHANGED holdingVars
            \/ \E text \in Typed : Type(text)
            \/ \E k \in Crawled : Crawl(k)
            \/ \E k \in Products : WriteElsewhere(k)
  BY <1>15, <1>16 DEF holdingVars, Type, Crawl, WriteElsewhere
<1> QED BY <1>1, <1>2, <1>5, <1>6, <1>7, <1>8, <1>10, <1>11, <1>12, <1>13, <1>14, <1>16
        DEF HoldingNext, Take

\* A void keeps the name and the list that it was sent with.
LEMMA StepVoidNamed ==
  ASSUME PagesTyped, VoidNamed, [HoldingNext]_holdingVars
  PROVE  VoidNamed'
<1>0. /\ detail.code \in Typed /\ {"get", "pnl"} \subseteq Whats /\ Products \subseteq Typed
      /\ Left \in [Slots -> RunSet]
  BY LeftIs, TextsAre DEF PagesTyped, Details, Whats
<1> DEFINE Same(d, r) == r.what = "void" => /\ r.what = fetch[d].what /\ r.status = fetch[d].status
                                           /\ r.id = fetch[d].id /\ r.shown = fetch[d].shown
<1>1. \A d \in Slots : Same(d, Left[d]) /\ Same(d, NoRun) /\ Same(d, fetch[d])
  BY LeftIs, NoRunIs
<1>2. ASSUME \A d \in Slots : Same(d, fetch'[d]) PROVE VoidNamed'
  BY <1>2 DEF VoidNamed
<1>3. ASSUME NEW s \in Slots, \A d \in Slots : d # s => fetch'[d] = fetch[d],
             fetch'[s].what # "void"
      PROVE  VoidNamed'
  BY <1>3 DEF VoidNamed
<1>4. ASSUME NEW s \in Slots, Serve(s) \/ Lose(s) PROVE VoidNamed'
  BY <1>3, <1>4, AnswerIs
<1>5. ASSUME NEW s \in Slots, TakeLookup(s) PROVE VoidNamed'
  BY <1>3, <1>5, TakeLookupIs, NoRunIs
<1>6. ASSUME NEW s \in Slots, NEW text \in Typed, Mounts(s, text, Left) PROVE VoidNamed'
  <2>1. fetch'[s].what # "void"
    <3>1. fetch'[s] = Run("get", text)
      BY <1>6, MountsIs
    <3> QED BY <1>0, <3>1, RunIs
  <2>2. \A d \in Slots : d # s => fetch'[d] = Left[d]
    BY <1>6, MountsIs
  <2> QED BY <1>1, <1>2, <2>1, <2>2
<1>7. CASE Leaves
  BY <1>1, <1>2, <1>7 DEF Leaves
<1>8. ASSUME NEW s \in Slots, TakeAct(s) \/ TakeLoad(s) PROVE VoidNamed'
  <2>1. /\ Onward(s)
        /\ \/ fetch'[s] = NoRun
           \/ \E what \in {"get", "pnl"} : fetch'[s] = Run(what, detail.code)
    BY <1>8, TakeActIs, TakeLoadIs
  <2>2. fetch'[s].what # "void"
    BY <1>0, <2>1, NoRunIs, RunIs
  <2> QED BY <1>3, <2>1, <2>2 DEF Onward
<1>9. ASSUME NEW s \in Slots, TakeCreate(s) PROVE VoidNamed'
  <2>1. CASE \E text \in Typed : Mounts(s, text, Left)
    BY <1>6, <2>1
  <2>2. CASE fetch'[s] = NoRun /\ \A d \in Slots : d # s => fetch'[d] = fetch[d]
    BY <1>3, <2>2, NoRunIs
  <2> QED BY <1>7, <1>9, <2>1, <2>2, TakeCreateIs
<1>10. ASSUME NEW s \in Slots, TakeRemove(s) PROVE VoidNamed'
  <2>1. CASE Onward(s) /\ fetch'[s] = NoRun
    BY <1>3, <2>1, NoRunIs DEF Onward
  <2> QED BY <1>7, <1>10, <2>1, TakeRemoveIs
<1>11. ASSUME NEW s \in Slots, NEW k \in Products, OpenDetail(s, k) PROVE VoidNamed'
  BY <1>0, <1>6, <1>11 DEF OpenDetail
<1>12. ASSUME NEW s \in Slots, NEW k \in Typed, NEW f \in Forms,
              NEW runs \in [Slots -> RunSet], Begins(s, k, f, runs),
              \A d \in Slots : Same(d, runs[d])
       PROVE  VoidNamed'
  <2>1. fetch'[s].what = "product"
    BY <1>12, BeginsIs
  <2>2. \A d \in Slots : d # s =>
          /\ fetch'[d].what = runs[d].what /\ fetch'[d].status = runs[d].status
          /\ fetch'[d].id = runs[d].id /\ fetch'[d].shown = runs[d].shown
    BY <1>12, BeginsIs
  <2> QED BY <1>2, <1>12, <2>1, <2>2
<1>13. CASE OpenList \/ (\E s \in Slots, k \in Products : OpenNew(s, k))
  <2>1. ASSUME NEW s \in Slots, NEW k \in Products, Begins(s, k, NewForm(k), Left) PROVE VoidNamed'
    <3>1. k \in Typed /\ NewForm(k) \in Forms
      BY <1>0, NewFormIs
    <3> QED BY <1>0, <1>1, <1>12, <2>1, <3>1
  <2> QED BY <1>7, <1>13, <2>1, OpensIs
<1>14. ASSUME NEW s \in Slots, Lookup(s) PROVE VoidNamed'
  <2>1. Begins(s, Norm[form.box], form, fetch)
    BY <1>14 DEF Lookup
  <2>2. Norm[form.box] \in Typed /\ form \in Forms /\ fetch \in [Slots -> RunSet]
    BY TextsAre DEF PagesTyped, Forms
  <2> QED BY <1>1, <1>12, <2>1, <2>2
<1>15. ASSUME NEW s \in Slots, Submit(s) PROVE VoidNamed'
  BY <1>3, <1>15, SubmitIs
<1>16. ASSUME NEW s \in Slots, Write(s) \/ VoidLast(s) \/ Refresh(s) \/ RemoveAccount(s)
       PROVE  VoidNamed'
  <2>1. /\ \A d \in Slots : d # s => fetch'[d] = fetch[d]
        /\ fetch'[s].what = "void" => \E e \in LastShown(fetch'[s].shown) : e.id = fetch'[s].id
    BY <1>16, ActIs
  <2> QED BY <2>1 DEF VoidNamed
<1>17. CASE LookupNothing
  BY <1>2, <1>17, LookupNothingIs
<1>18. CASE UNCHANGED fetch
  BY <1>18 DEF VoidNamed
<1>19. CASE \/ UNCHANGED holdingVars
            \/ \E text \in Typed : Type(text)
            \/ \E k \in Crawled : Crawl(k)
            \/ \E k \in Products : WriteElsewhere(k)
  BY <1>18, <1>19 DEF holdingVars, Type, Crawl, WriteElsewhere
<1> QED BY <1>4, <1>5, <1>8, <1>9, <1>10, <1>11, <1>13, <1>14, <1>15, <1>16, <1>17, <1>19
        DEF HoldingNext, Take

\* What one submit has posted.
PostedBy(s) ==
    /\ page = "new"
    /\ ~ form.typed =>
         /\ form.verified = Norm[form.box] /\ form.verified # Empty
         /\ ~ form.looking
         /\ Norm[fetch[s].code] = Norm[form.box]

\* A form with a submit under way keeps what it shows, unless something is typed.
LEMMA StepPosted ==
  ASSUME PagesTyped, page = "new" => LookedUp, Found, Posted, [HoldingNext]_holdingVars
  PROVE  Posted'
<1>0. /\ detail.code \in Typed /\ {"get", "pnl"} \subseteq Whats /\ Products \subseteq Typed
      /\ Left \in [Slots -> RunSet] /\ form \in Forms /\ form.typed \in BOOLEAN
      /\ Empty \in Typed /\ \A k \in Products : k \in Typed /\ k # Empty
  BY LeftIs, TextsAre DEF PagesTyped, Details, Whats, Forms
<1>1. \A s \in Submits : PostedBy(s)
  BY DEF Posted, PostedBy
<1>2. ASSUME Submits' = {}, (page' = "new" /\ ~ form'.typed) => form'.box \in Products \cup {Empty}
      PROVE  Posted'
  BY <1>2 DEF Posted
\* Neither the form nor a submit changes.
<1>3. ASSUME UNCHANGED <<page, form>>,
             \A d \in Slots : fetch'[d].what = "create" /\ fetch'[d].live =>
                                /\ fetch[d].what = "create" /\ fetch[d].live
                                /\ fetch'[d].code = fetch[d].code
      PROVE  Posted'
  <2>1. \A d \in Submits' : d \in Submits /\ fetch'[d].code = fetch[d].code
    BY <1>3 DEF Submits
  <2> QED BY <1>3, <2>1 DEF Posted
<1>4. ASSUME NEW s \in Slots, Serve(s) \/ Lose(s) PROVE Posted'
  <2>1. /\ UNCHANGED <<page, form>>
        /\ \A d \in Slots :
             /\ fetch'[d].live = fetch[d].live
             /\ fetch'[d].code = fetch[d].code
             /\ fetch'[d].what # fetch[d].what => fetch'[d].what = "acted"
    BY <1>4, AnswerIs
  <2> QED BY <1>3, <2>1
<1>5. ASSUME NEW s \in Slots, TakeLookup(s) PROVE Posted'
  <2>1. /\ page' = page /\ \A d \in Slots : d # s => fetch'[d] = fetch[d]
        /\ fetch[s].what \in {"product", "exists"} /\ fetch'[s].what # "create"
    BY <1>5, TakeLookupIs, NoRunIs
  <2>2. CASE form' = form
    BY <1>3, <2>1, <2>2
  <2>3. CASE form' = Watched(Looked(s))
    <3>1. /\ Looked(s) \in Forms
          /\ ~ fetch[s].latest => Looked(s) = form
          /\ \/ Looked(s).box = form.box /\ Looked(s).typed = form.typed
             \/ /\ fetch[s].what = "exists" /\ Looked(s).box = fetch[s].code
                /\ Looked(s).typed = (form.typed /\ Submits # {})
      BY LookedIs
    <3>2. form'.box = Looked(s).box /\ form'.typed = Looked(s).typed
          /\ (Norm[Looked(s).box] = Looked(s).verified => form' = Looked(s))
      BY <2>3, <3>1, WatchedIs
    <3>3. page' = "new" /\ ~ form'.typed => form'.box \in Products \cup {Empty}
      BY <2>1, <3>1, <3>2 DEF Found, Posted
    <3>4. Submits' \subseteq Submits /\ \A d \in Submits' : fetch'[d] = fetch[d]
      BY <2>1 DEF Submits
    <3>5. ASSUME NEW d \in Submits', ~ form'.typed
          PROVE  form' = form
      <4>1. PostedBy(d) /\ page = "new" /\ LookedUp
        BY <1>1, <3>4 DEF PostedBy
      <4>2. Submits # {} /\ ~ form.typed
        BY <3>1, <3>2, <3>4, <3>5
      <4>3. form.verified = Norm[form.box] /\ ~ form.looking
        BY <4>1, <4>2 DEF PostedBy
      <4>4. ~ fetch[s].latest
        BY <4>1, <4>3 DEF LookedUp
      <4> QED BY <3>1, <3>2, <4>3, <4>4
    <3> QED BY <2>1, <3>3, <3>4, <3>5, <1>1 DEF Posted, PostedBy
  <2> QED BY <1>5, <2>2, <2>3, TakeLookupIs
<1>6. ASSUME NEW s \in Slots, NEW text \in Typed, Mounts(s, text, Left) PROVE Posted'
  <2>1. \A d \in Slots \ {s} : ~ fetch'[d].live
    <3>1. \A d \in Slots \ {s} : fetch'[d] = Left[d]
      BY <1>6, MountsIs
    <3> QED BY <3>1, LeftIs
  <2>2. fetch'[s].what = "get" /\ page' = "detail"
    <3>1. fetch'[s] = Run("get", text) /\ page' = "detail"
      BY <1>6, MountsIs
    <3> QED BY <1>0, <3>1, RunIs
  <2>3. Submits' = {}
    BY <2>1, <2>2 DEF Submits
  <2> QED BY <1>2, <2>2, <2>3
<1>7. ASSUME Leaves, NEW k \in Typed, k \in Products \cup {Empty}, form' = NewForm(k) PROVE Posted'
  <2>1. \A d \in Slots : ~ fetch'[d].live
    BY <1>7, LeftIs, NoRunIs DEF Leaves
  <2>2. Submits' = {}
    BY <2>1 DEF Submits
  <2>3. form'.box = k
    BY <1>7, NewFormIs
  <2> QED BY <1>2, <1>7, <2>2, <2>3
<1>8. ASSUME NEW s \in Slots, TakeAct(s) \/ TakeLoad(s) PROVE Posted'
  <2>1. /\ Onward(s)
        /\ \/ fetch'[s] = NoRun
           \/ \E what \in {"get", "pnl"} : fetch'[s] = Run(what, detail.code)
    BY <1>8, TakeActIs, TakeLoadIs
  <2>2. fetch'[s].what # "create"
    BY <1>0, <2>1, NoRunIs, RunIs
  <2> QED BY <1>3, <2>1, <2>2 DEF Onward
<1>9. ASSUME NEW s \in Slots, TakeCreate(s) PROVE Posted'
  <2>1. CASE \E text \in Typed : Mounts(s, text, Left)
    BY <1>6, <2>1
  <2>2. CASE /\ UNCHANGED <<page, form>>
             /\ fetch'[s] = NoRun /\ \A d \in Slots : d # s => fetch'[d] = fetch[d]
    BY <1>3, <2>2, NoRunIs
  <2>3. CASE Leaves /\ form' = NewForm(Empty)
    BY <1>0, <1>7, <2>3
  <2> QED BY <1>9, <2>1, <2>2, <2>3, TakeCreateIs
<1>10. ASSUME NEW s \in Slots, TakeRemove(s) PROVE Posted'
  <2>1. CASE Leaves /\ form' = NewForm(Empty)
    BY <1>0, <1>7, <2>1
  <2>2. CASE Onward(s) /\ fetch'[s] = NoRun
    BY <1>3, <2>2, NoRunIs DEF Onward
  <2> QED BY <1>10, <2>1, <2>2, TakeRemoveIs
<1>11. ASSUME NEW s \in Slots, NEW k \in Products, OpenDetail(s, k) PROVE Posted'
  BY <1>0, <1>6, <1>11 DEF OpenDetail
<1>12. CASE OpenList \/ (\E s \in Slots, k \in Products : OpenNew(s, k))
  <2>1. ASSUME NEW s \in Slots, NEW k \in Products, Begins(s, k, NewForm(k), Left) PROVE Posted'
    <3>1. k \in Typed /\ NewForm(k) \in Forms /\ NewForm(k).box = k
      BY <1>0, NewFormIs
    <3>2. /\ form'.box = NewForm(k).box /\ fetch'[s].what = "product"
          /\ \A d \in Slots : d # s => fetch'[d].live = Left[d].live
      BY <1>0, <2>1, <3>1, BeginsIs
    <3>3. Submits' = {}
      BY <3>2, LeftIs DEF Submits
    <3> QED BY <1>2, <3>1, <3>2, <3>3
  <2> QED BY <1>0, <1>7, <1>12, <2>1, OpensIs
<1>13. ASSUME NEW s \in Slots, Lookup(s) PROVE Posted'
  <2>1. /\ page' = page /\ Begins(s, Norm[form.box], form, fetch)
        /\ form.verified # Norm[form.box]
    BY <1>13 DEF Lookup
  <2>2. Norm[form.box] \in Typed /\ form \in Forms /\ fetch \in [Slots -> RunSet]
    BY TextsAre DEF PagesTyped, Forms
  <2>3. /\ form'.box = form.box /\ form'.typed = form.typed /\ fetch'[s].what = "product"
        /\ \A d \in Slots : d # s =>
             fetch'[d].live = fetch[d].live /\ fetch'[d].what = fetch[d].what
    BY <2>1, <2>2, BeginsIs
  <2>4. Submits' \subseteq Submits
    BY <2>3 DEF Submits
  <2>5. form.typed \/ Submits = {}
    BY <1>1, <2>1 DEF PostedBy
  <2> QED BY <1>1, <2>1, <2>3, <2>4, <2>5 DEF Posted, PostedBy
<1>14. ASSUME NEW s \in Slots, Submit(s) PROVE Posted'
  <2>1. /\ UNCHANGED <<page, form>> /\ page = "new" /\ fetch'[s].code = form.box
        /\ \A d \in Slots : d # s => fetch'[d] = fetch[d]
        /\ form.verified = Norm[form.box] /\ form.verified # Empty /\ ~ form.looking
    BY <1>14, SubmitIs DEF canSubmit
  <2>2. \A d \in Submits' : d = s \/ (d \in Submits /\ fetch'[d] = fetch[d])
    BY <2>1 DEF Submits
  <2> QED BY <1>1, <2>1, <2>2 DEF Posted, PostedBy
<1>15. ASSUME NEW s \in Slots, Write(s) \/ VoidLast(s) \/ Refresh(s) \/ RemoveAccount(s)
       PROVE  Posted'
  <2>1. /\ UNCHANGED <<page, form>> /\ fetch'[s].what # "create"
        /\ \A d \in Slots : d # s => fetch'[d] = fetch[d]
    BY <1>15, ActIs
  <2> QED BY <1>3, <2>1
<1>16. CASE LookupNothing
  <2>1. /\ UNCHANGED page /\ page = "new" /\ Norm[form.box] = Empty
        /\ form'.box = form.box /\ form'.typed = form.typed
        /\ \A d \in Slots : fetch'[d].live = fetch[d].live /\ fetch'[d].what = fetch[d].what
    BY <1>16, LookupNothingIs
  <2>2. Submits' = Submits
    BY <2>1 DEF Submits
  <2>3. form.typed \/ Submits = {}
    BY <1>1, <2>1 DEF PostedBy
  <2> QED BY <2>1, <2>2, <2>3 DEF Posted
<1>17. ASSUME NEW text \in Typed, Type(text) PROVE Posted'
  <2>1. UNCHANGED <<page, fetch>> /\ page = "new" /\ form'.typed
    BY <1>17, TypeIs
  <2> QED BY <2>1 DEF Posted
<1>18. CASE \/ UNCHANGED holdingVars
            \/ \E k \in Crawled : Crawl(k)
            \/ \E k \in Products : WriteElsewhere(k)
  <2>1. UNCHANGED <<page, form, fetch>>
    BY <1>18 DEF holdingVars, Crawl, WriteElsewhere
  <2> QED BY <1>3, <2>1
<1> QED BY <1>4, <1>5, <1>8, <1>9, <1>10, <1>11, <1>12, <1>13, <1>14, <1>15, <1>16, <1>17,
           <1>18 DEF HoldingNext, Take

\* What no action waits for, or nobody may change, stays as it is.
LEMMA StepCurrent ==
  ASSUME PagesTyped, Found, page = "detail" /\ ~ detail.disturbed => Current,
         [HoldingNext]_holdingVars, page' = "detail", ~ detail'.disturbed
  PROVE  Current'
<1>0. /\ detail.code \in Typed /\ {"get", "pnl"} \subseteq Whats /\ Products \subseteq Typed
      /\ Left \in [Slots -> RunSet] /\ detail.disturbed \in BOOLEAN /\ detail.err \in BOOLEAN
      /\ \A d \in Slots : fetch[d].live \in BOOLEAN
  BY LeftIs, TextsAre DEF PagesTyped, Details, Whats, RunSet
<1>1. ASSUME UNCHANGED <<holding, ledger, detail, page>>, Actions' = Actions,
             \A d \in Slots : fetch'[d].what \in Writes => fetch'[d] = fetch[d],
             \A d \in Actions : fetch'[d] = fetch[d]
      PROVE  Current'
  BY <1>1 DEF Current, RowsOf, Gone
<1>2. ASSUME NEW s \in Slots, Serve(s) \/ Lose(s) PROVE Current'
  <2>1. /\ UNCHANGED <<page, detail>>
        /\ fetch[s].what \notin Writes => UNCHANGED <<holding, ledger>>
        /\ \A d \in Slots :
             /\ d # s => fetch'[d] = fetch[d]
             /\ fetch'[d].live = fetch[d].live
             /\ fetch'[d].code = fetch[d].code
             /\ fetch'[d].what # fetch[d].what =>
                  /\ fetch[d].what \in {"write", "void", "refresh"}
                  /\ fetch'[d].what = "acted"
    BY <1>2, AnswerIs, AccountsKept
  <2>2. fetch'[s].what = "get" /\ fetch'[s].status = "ok" =>
          fetch'[s].rows = RowsOf(fetch[s].code)
    BY <1>2, AnswerIs
  <2>3. Current
    BY <2>1
  <2>4. Actions' = Actions
    BY <2>1 DEF Actions
  <2>5. fetch[s].what \in Writes => s \in Actions
    BY <2>3 DEF Current
  <2>6. \A d \in Slots : fetch'[d].what \in Writes => d \in Actions'
    BY <2>1, <2>3, <2>4 DEF Current, Writes
  <2>7. Actions' = {} => UNCHANGED <<holding, ledger>>
    BY <2>1, <2>4, <2>5
  <2>8. ASSUME NEW d \in Actions, fetch'[d].what \in {"get", "pnl"} PROVE UNCHANGED ledger
    <3>1. fetch[d].what = fetch'[d].what
      BY <2>1, <2>8 DEF Actions
    <3>2. fetch[s].what \in Writes => d = s
      BY <2>3, <2>5 DEF Current
    <3> QED BY <2>1, <2>8, <3>1, <3>2 DEF Writes
  <2>9. ASSUME NEW d \in Actions, fetch'[d].what = "delete", ~ detail.err
        PROVE  detail.ledger = RowsOf(detail.code)' \/ detail.code \notin holding'
    <3>1. fetch[d].what = "delete"
      BY <2>1, <2>9 DEF Actions
    <3>2. detail.ledger = RowsOf(detail.code) \/ detail.code \notin holding
      BY <2>3, <2>9, <3>1 DEF Current, Gone
    <3>3. CASE fetch[s].what \in Writes
      <4>1. fetch[s].what = "delete"
        BY <2>3, <2>5, <3>1, <3>3 DEF Current
      <4> QED BY <1>2, <2>1, <3>2, <4>1, AccountsKept
    <3>4. CASE fetch[s].what \notin Writes
      BY <2>1, <3>2, <3>4 DEF RowsOf
    <3> QED BY <3>3, <3>4
  <2>10. ASSUME NEW d \in Actions
         PROVE  /\ \A c \in Actions : c = d
                /\ fetch'[d].what = "get" =>
                     /\ fetch'[d].code = detail.code
                     /\ fetch'[d].status = "ok" => fetch'[d].rows = RowsOf(detail.code)
                /\ fetch'[d].what = "pnl" /\ ~ detail.err => detail.ledger = RowsOf(detail.code)
    <3>1. fetch'[d].what \in {"get", "pnl"} => fetch[d].what = fetch'[d].what
      BY <2>1 DEF Actions
    <3>2. CASE d = s
      BY <2>1, <2>2, <2>3, <3>1, <3>2 DEF Current
    <3>3. CASE d # s
      BY <2>1, <2>3, <3>3 DEF Current, Actions
    <3> QED BY <3>2, <3>3
  <2>11. Actions' = {} /\ ~ detail'.err =>
           detail'.ledger = RowsOf(detail.code)' \/ (detail'.removeFailed /\ Gone')
    BY <2>1, <2>3, <2>4, <2>7 DEF Current, RowsOf, Gone
  <2>12. ASSUME NEW d \in Actions, fetch'[d].what \in {"get", "pnl"}
         PROVE  /\ fetch'[d].what = "get" =>
                     /\ fetch'[d].code = detail'.code
                     /\ fetch'[d].status = "ok" => fetch'[d].rows = RowsOf(detail.code)'
                /\ fetch'[d].what = "pnl" /\ ~ detail'.err =>
                     detail'.ledger = RowsOf(detail.code)'
    <3>1. ledger' = ledger
      BY <2>8, <2>12
    <3> QED BY <2>1, <2>10, <2>12, <3>1 DEF RowsOf
  <2> QED BY <2>1, <2>4, <2>6, <2>9, <2>10, <2>11, <2>12 DEF Current, Gone
<1>3. ASSUME NEW s \in Slots, TakeLookup(s) PROVE Current'
  <2>1. /\ UNCHANGED <<holding, ledger, detail, page>> /\ \A d \in Slots : d # s => fetch'[d] = fetch[d]
        /\ fetch[s].what \in {"product", "exists"}
        /\ fetch'[s].what = "exists" \/ fetch'[s] = NoRun
    BY <1>3, TakeLookupIs DEF serverVars
  <2>2. s \notin Actions /\ s \notin Actions' /\ fetch'[s].what \notin Writes
    BY <2>1, NoRunIs DEF Actions, Writes
  <2>3. Actions' = Actions
    BY <2>1, <2>2 DEF Actions
  <2>4. \A d \in Slots : fetch'[d].what \in Writes => fetch'[d] = fetch[d]
    BY <2>1, <2>2
  <2>5. \A d \in Actions : fetch'[d] = fetch[d]
    BY <2>1, <2>2 DEF Actions
  <2> QED BY <1>1, <2>1, <2>3, <2>4, <2>5
<1>4. ASSUME NEW s \in Slots, NEW text \in Typed, Mounts(s, text, Left) PROVE Current'
  <2>1. /\ \A d \in Slots : d # s => fetch'[d] = Left[d]
        /\ fetch'[s] = Run("get", text) /\ detail'.code = text
        /\ \A d \in Slots \ {s} : Left[d].what \notin Writes
    BY <1>4, MountsIs
  <2>2. \A d \in Slots : d # s => ~ fetch'[d].live /\ fetch'[d].what \notin Writes
    BY <2>1, LeftIs
  <2>3. /\ fetch'[s].what = "get" /\ fetch'[s].live /\ fetch'[s].code = text
        /\ fetch'[s].status = "sent"
    BY <1>0, <2>1, RunIs
  <2>4. Actions' = {s}
    BY <2>2, <2>3 DEF Actions
  <2> QED BY <2>1, <2>2, <2>3, <2>4 DEF Current, Writes
<1>5. ASSUME NEW s \in Slots, TakeCreate(s) PROVE Current'
  <2>1. CASE \E text \in Typed : Mounts(s, text, Left)
    BY <1>4, <2>1
  <2>2. CASE UNCHANGED <<page, detail>>
    <3>1. Current /\ fetch[s].what = "create"
      BY <1>5, <2>2, TakeCreateIs
    <3> QED BY <3>1 DEF Current, Actions, Writes
  <2>3. CASE page' = "list"
    BY <2>3
  <2> QED BY <1>5, <2>1, <2>2, <2>3, TakeCreateIs
<1>6. ASSUME NEW s \in Slots, Onward(s), detail'.disturbed = detail.disturbed,
             fetch[s].what \in {"acted", "get", "pnl"}
      PROVE  /\ Current /\ UNCHANGED <<ledger, page>> /\ detail'.code = detail.code
             /\ \A d \in Slots : d # s => fetch'[d] = fetch[d]
             /\ \A d \in Slots : d # s => (d \in Actions' <=> d \in Actions)
             /\ s \in Actions <=> fetch[s].live
             /\ \A k : RowsOf(k)' = RowsOf(k)
             /\ Gone' = Gone
  BY <1>6 DEF Onward, serverVars, Actions, RowsOf, Gone
<1>7. ASSUME NEW s \in Slots, TakeAct(s) PROVE Current'
  <2>1. /\ Onward(s) /\ fetch[s].what = "acted" /\ detail'.ledger = detail.ledger
        /\ detail'.disturbed = detail.disturbed
        /\ detail'.removeFailed = detail.removeFailed
        /\ \/ fetch'[s] = Run("get", detail.code) /\ fetch[s].live
           \/ fetch'[s] = NoRun /\ detail'.err = (detail.err \/ fetch[s].live)
    BY <1>7, TakeActIs
  <2>2. /\ Current /\ UNCHANGED <<ledger, page>> /\ detail'.code = detail.code
        /\ \A d \in Slots : d # s => fetch'[d] = fetch[d]
        /\ \A d \in Slots : d # s => (d \in Actions' <=> d \in Actions)
        /\ s \in Actions <=> fetch[s].live
        /\ \A k : RowsOf(k)' = RowsOf(k)
        /\ Gone' = Gone
    BY <1>6, <2>1
  <2>3. CASE fetch'[s] = Run("get", detail.code) /\ fetch[s].live
    <3>1. /\ fetch'[s].what = "get" /\ fetch'[s].live /\ fetch'[s].code = detail.code
          /\ fetch'[s].status = "sent"
      BY <1>0, <2>3, RunIs
    <3>2. Actions = {s}
      BY <2>2, <2>3 DEF Current
    <3>3. Actions' = {s}
      BY <2>2, <3>1, <3>2 DEF Actions
    <3> QED BY <2>2, <3>1, <3>2, <3>3 DEF Current, Writes
  <2>4. CASE fetch'[s] = NoRun /\ detail'.err = (detail.err \/ fetch[s].live)
    <3>1. fetch'[s].what = "none" /\ s \notin Actions' /\ Actions' = Actions \ {s}
      BY <2>2, <2>4, NoRunIs DEF Actions
    <3>2. CASE fetch[s].live
      <4>1. Actions' = {} /\ detail'.err
        BY <2>2, <2>4, <3>1, <3>2 DEF Current
      <4> QED BY <2>2, <3>1, <4>1 DEF Current, Writes
    <3>3. CASE ~ fetch[s].live
      <4>1. Actions' = Actions /\ detail'.err = detail.err
        BY <1>0, <2>2, <2>4, <3>1, <3>3
      <4>2. \A d \in Actions : d # s /\ fetch'[d] = fetch[d]
        BY <2>2, <3>3 DEF Actions
      <4>3. \A d \in Slots : fetch'[d].what \in Writes => d \in Actions
        BY <2>2, <3>1 DEF Current, Writes
      <4> QED BY <2>1, <2>2, <4>1, <4>2, <4>3 DEF Current
    <3> QED BY <1>0, <3>2, <3>3
  <2> QED BY <2>1, <2>3, <2>4
<1>8. ASSUME NEW s \in Slots, TakeLoad(s) PROVE Current'
  <2>1. /\ Onward(s) /\ fetch[s].what \in {"get", "pnl"}
        /\ detail'.disturbed = detail.disturbed
        /\ \/ /\ fetch[s].what = "get" /\ fetch[s].status = "ok"
              /\ fetch'[s] = Run("pnl", detail.code)
              /\ detail'.ledger = fetch[s].rows /\ detail'.err = detail.err
           \/ fetch[s].what = "pnl" /\ fetch'[s] = NoRun /\ UNCHANGED detail
           \/ /\ fetch'[s] = NoRun
              /\ detail'.ledger = detail.ledger /\ detail'.err = (detail.err \/ fetch[s].live)
    BY <1>8, TakeLoadIs
  <2>2. /\ Current /\ UNCHANGED <<ledger, page>> /\ detail'.code = detail.code
        /\ \A d \in Slots : d # s => fetch'[d] = fetch[d]
        /\ \A d \in Slots : d # s => (d \in Actions' <=> d \in Actions)
        /\ s \in Actions <=> fetch[s].live
        /\ \A k : RowsOf(k)' = RowsOf(k)
        /\ Gone' = Gone
    BY <1>6, <2>1
  <2>3. fetch[s].live /\ Actions = {s}
    BY <2>1, <2>2 DEF Found, Current
  <2>4. \A d \in Slots : d # s => fetch'[d].what \notin Writes
    BY <2>2, <2>3 DEF Current
  <2>5. CASE /\ fetch[s].what = "get" /\ fetch[s].status = "ok"
             /\ fetch'[s] = Run("pnl", detail.code)
             /\ detail'.ledger = fetch[s].rows
    <3>1. fetch'[s].what = "pnl" /\ fetch'[s].live
      BY <1>0, <2>5, RunIs
    <3>2. Actions' = {s}
      BY <2>2, <2>3, <3>1 DEF Actions
    <3>3. detail'.ledger = RowsOf(detail.code)
      BY <2>2, <2>3, <2>5 DEF Current
    <3> QED BY <2>2, <2>4, <3>1, <3>2, <3>3 DEF Current, Writes
  <2>6. ASSUME fetch'[s] = NoRun, detail'.ledger = RowsOf(detail.code) \/ detail'.err
        PROVE  Current'
    <3>1. fetch'[s].what = "none" /\ Actions' = {}
      BY <2>2, <2>3, <2>6, NoRunIs DEF Actions
    <3> QED BY <2>2, <2>4, <2>6, <3>1 DEF Current, Writes
  <2>7. CASE fetch[s].what = "pnl" /\ fetch'[s] = NoRun /\ UNCHANGED detail
    BY <2>2, <2>3, <2>6, <2>7 DEF Current
  <2> QED BY <2>1, <2>3, <2>5, <2>6, <2>7
<1>9. ASSUME NEW s \in Slots, TakeRemove(s) PROVE Current'
  <2>1. /\ Onward(s) /\ fetch[s].what = "delete" /\ fetch'[s] = NoRun
        /\ detail'.ledger = detail.ledger /\ detail'.err = detail.err
        /\ detail'.disturbed = detail.disturbed
        /\ detail'.removeFailed = (detail.removeFailed \/ fetch[s].live)
    BY <1>9, TakeRemoveIs
  <2>2. /\ Current /\ UNCHANGED <<holding, ledger, page>> /\ detail'.code = detail.code
        /\ \A d \in Slots : d # s => fetch'[d] = fetch[d]
    BY <2>1 DEF Onward, serverVars
  <2>3. s \in Actions /\ fetch[s].live /\ Actions = {s}
    BY <2>1, <2>2 DEF Current, Writes, Actions
  <2>4. Actions' = {} /\ \A d \in Slots : fetch'[d].what \notin Writes
    BY <2>1, <2>2, <2>3, NoRunIs DEF Current, Actions, Writes
  <2>5. ~ detail.err => detail.ledger = RowsOf(detail.code) \/ Gone
    BY <2>1, <2>2, <2>3 DEF Current
  <2> QED BY <2>1, <2>2, <2>3, <2>4, <2>5 DEF Current, RowsOf, Gone
<1>10. ASSUME NEW s \in Slots, NEW k \in Products, OpenDetail(s, k) PROVE Current'
  BY <1>0, <1>4, <1>10 DEF OpenDetail
<1>11. CASE OpenList \/ (\E s \in Slots, k \in Products : OpenNew(s, k))
  BY <1>11 DEF OpenList, ToList, OpenNew
<1>12. CASE \/ \E s \in Slots : Lookup(s) \/ Submit(s)
            \/ LookupNothing
            \/ \E text \in Typed : Type(text)
  BY <1>12 DEF Lookup, Submit, LookupNothing, Type
<1>13. ASSUME NEW s \in Slots, Write(s) \/ VoidLast(s) \/ Refresh(s) \/ RemoveAccount(s)
       PROVE  Current'
  <2>1. /\ \A d \in Slots : d # s => fetch'[d] = fetch[d]
        /\ \A d \in Slots : fetch[d] = NoRun
        /\ fetch'[s].what \in {"write", "void", "refresh", "delete"} /\ fetch'[s].live
        /\ UNCHANGED <<serverVars, page>> /\ page = "detail"
        /\ fetch'[s].what = "delete" =>
             /\ ~ detail.disturbed
             /\ detail'.code = detail.code /\ detail'.ledger = detail.ledger
             /\ detail'.err = detail.err
    BY <1>13, ActIs
  <2>2. Actions' = {s} /\ Actions = {}
    BY <2>1, NoRunIs DEF Actions
  <2>3. fetch'[s].what = "delete" /\ ~ detail'.err =>
          detail'.ledger = RowsOf(detail.code)' \/ detail.code \notin holding'
    BY <2>1, <2>2 DEF Current, Gone, RowsOf, serverVars
  <2> QED BY <2>1, <2>2, <2>3, NoRunIs DEF Current, Gone, Writes
<1>14. CASE UNCHANGED holdingVars \/ \E k \in Crawled : Crawl(k)
  <2>1. UNCHANGED <<holding, ledger, detail, page, fetch>>
    BY <1>14 DEF holdingVars, serverVars, Crawl
  <2> QED BY <1>1, <2>1 DEF Actions
<1>15. ASSUME NEW k \in Products, WriteElsewhere(k) PROVE Current'
  BY <1>15, WriteElsewhereIs
<1> QED BY <1>2, <1>3, <1>5, <1>7, <1>8, <1>9, <1>10, <1>11, <1>12, <1>13, <1>14, <1>15
        DEF HoldingNext, Take

\* At the start no page is open and nothing runs.
LEMMA InitPagesInv == HoldingInit => PagesInv
<1> SUFFICES ASSUME HoldingInit PROVE PagesInv
  OBVIOUS
<1>1. /\ fetch = [s \in Slots |-> NoRun] /\ page = "list" /\ form = NewForm(Empty)
      /\ detail = NewDetail(Empty) /\ ledger = {} /\ holding = {} /\ product \in [Products -> Fitness]
  BY DEF HoldingInit
<1>2. \A s \in Slots : /\ fetch[s] = NoRun /\ fetch[s].what = "none"
                       /\ ~ fetch[s].live /\ ~ fetch[s].latest
  BY <1>1, NoRunIs
<1>3. PagesTyped
  <2>1. Bounded
    BY <1>1 DEF Bounded
  <2>2. form \in Forms /\ detail \in Details
    BY <1>1, TextsAre, NewFormIs DEF NewDetail, Details
  <2>3. fetch \in [Slots -> RunSet]
    BY <1>1, NoRunIs
  <2> QED BY <1>1, <2>1, <2>2, <2>3 DEF PagesTyped
<1>4. Found /\ VoidNamed
  BY <1>2 DEF Found, VoidNamed
<1>5. Posted
  BY <1>1, <1>2 DEF Posted, Submits
<1> QED BY <1>1, <1>3, <1>4, <1>5 DEF PagesInv

\* Every step keeps the invariant.
LEMMA StepPagesInv == PagesInv /\ [HoldingNext]_holdingVars => PagesInv'
<1> SUFFICES ASSUME PagesInv, [HoldingNext]_holdingVars PROVE PagesInv'
  OBVIOUS
<1>1. PagesTyped /\ (page = "new" => LookedUp) /\ Found /\ Posted /\ VoidNamed
  BY DEF PagesInv
<1>2. page = "detail" /\ ~ detail.disturbed => Current
  BY DEF PagesInv
<1>3. PagesTyped'
  BY <1>1, StepPagesTyped
<1>4. (page = "new" => LookedUp)'
  BY <1>1, StepLookedUp
<1>5. Found' /\ VoidNamed'
  BY <1>1, StepFound, StepVoidNamed
<1>6. Posted'
  BY <1>1, StepPosted
<1>7. (page = "detail" /\ ~ detail.disturbed => Current)'
  BY <1>1, <1>2, StepCurrent
<1> QED BY <1>3, <1>4, <1>5, <1>6, <1>7 DEF PagesInv

\* The invariant holds always.
LEMMA PagesInvAlways == HoldingSpec => []PagesInv
BY InitPagesInv, StepPagesInv, PTL DEF HoldingSpec

\* Whatever is typed, and in whatever order the lookups are answered, the form
\* shows the product of the code in its box, and is busy exactly while the last
\* lookup is under way.
THEOREM PreviewIsOfBoxAlways == HoldingSpec => []PreviewIsOfBox
<1>1. PagesInv => PreviewIsOfBox
  <2> SUFFICES ASSUME PagesInv, page = "new" PROVE PreviewIsOfBox
    BY DEF PreviewIsOfBox
  <2>1. LookedUp /\ Found
    BY DEF PagesInv
  <2>2. \A s \in Slots : fetch[s].latest => s \in Lookups /\ fetch[s].code = form.inflight
    BY <2>1 DEF LookedUp, Found, Lookups
  <2>3. form.looking <=> \E s \in Lookups : fetch[s].latest /\ fetch[s].code = form.inflight
    BY <2>1, <2>2 DEF LookedUp, Lookups
  <2> QED BY <2>1, <2>3 DEF LookedUp, PreviewIsOfBox
<1> QED BY <1>1, PagesInvAlways, PTL

\* However many actions, losses, crawls and writes from elsewhere there were,
\* a page that waits for nothing, shows no error and was not disturbed shows the
\* account as it is, or one that is gone, after a removal that it was told failed.
THEOREM DetailCurrentAlways == HoldingSpec => []DetailCurrent
<1>1. PagesInv => DetailCurrent
  BY DEF PagesInv, Current, DetailCurrent, Gone
<1> QED BY <1>1, PagesInvAlways, PTL

\* The entry that the page names as the last one is the one that the server
\* voids, in an account of any length whose entries were not dated back.
THEOREM VoidAcceptedAlways == HoldingSpec => []VoidAccepted
<1>1. PagesInv => VoidAccepted
  <2> SUFFICES ASSUME PagesInv, NEW s \in Slots,
                      fetch[s].what = "void", fetch[s].status = "sent",
                      fetch[s].shown = RowsOf(fetch[s].code),
                      ~ DatedBack(Active(fetch[s].shown))
               PROVE  Voidable(s) # {}
    BY DEF VoidAccepted
  <2> DEFINE active == Active(RowsOf(fetch[s].code))
  <2>1. PICK e \in LastShown(fetch[s].shown) : e.id = fetch[s].id
    BY DEF PagesInv, VoidNamed
  <2>2. e \in active /\ \A f \in active : f.day < e.day \/ (f.day = e.day /\ f.id <= e.id)
    BY DEF LastShown
  <2>3. \A f, g \in active : ~ (f.id < g.id /\ g.day < f.day)
    BY DEF DatedBack
  <2>4. \A f \in active : f.id \in Nat /\ f.day \in Nat
    BY DEF PagesInv, PagesTyped, Active, RowsOf, EntryRows
  <2> HIDE DEF active
  <2>5. \A f \in active : f.id <= e.id
    BY <2>2, <2>3, <2>4
  <2>6. e \in LastActive(fetch[s].code)
    BY <2>2, <2>5 DEF LastActive, active
  <2> QED BY <2>1, <2>6 DEF Voidable
<1> QED BY <1>1, PagesInvAlways, PTL

\* The page that a submit opens is the one of the account that it created,
\* unless something was typed meanwhile.
THEOREM PushesPostedAlways == HoldingSpec => PushesPosted
<1> DEFINE Pushes == \A s \in Slots :
                       /\ fetch[s].what = "create"
                       /\ fetch[s].live
                       /\ ~ form.typed
                       /\ fetch'[s].what = "get"
                       => detail'.code = Norm[fetch[s].code]
<1>1. PagesInv /\ [HoldingNext]_holdingVars => [Pushes]_fetch
  <2> SUFFICES ASSUME PagesInv, [HoldingNext]_holdingVars, NEW s \in Slots,
                      fetch[s].what = "create", fetch[s].live, ~ form.typed,
                      fetch'[s].what = "get"
               PROVE  detail'.code = Norm[fetch[s].code]
    OBVIOUS
  <2>0. PagesTyped /\ Posted /\ Products \subseteq Typed
    BY TextsAre DEF PagesInv
  <2>1. ASSUME TakeCreate(s) PROVE detail'.code = Norm[fetch[s].code]
    <3>0. ~ Leaves
      BY <2>0, LeftIs, NoRunIs DEF Leaves, Reading
    <3>1. PICK text \in Typed : Mounts(s, text, Left) /\ text = Upper[form.box]
      BY <2>0, <2>1, <3>0, NoRunIs, TakeCreateIs
    <3>2. detail'.code = text
      BY <2>0, <3>1, MountsIs
    <3>3. s \in Submits
      BY DEF Submits
    <3>4. /\ form.box \in Products \cup {Empty}
          /\ Norm[form.box] # Empty /\ Norm[fetch[s].code] = Norm[form.box]
      BY <2>0, <3>3 DEF Posted
    <3>5. Upper[form.box] = Norm[form.box]
      BY <3>4, TextsAre
    <3> QED BY <3>1, <3>2, <3>4, <3>5
  <2>2. fetch'[s] # fetch[s] /\ fetch'[s] # Left[s] /\ fetch'[s] # NoRun
    BY <2>0, LeftIs, NoRunIs DEF Reading
  <2>3. ASSUME NEW t \in Slots, Serve(t) \/ Lose(t) PROVE FALSE
    BY <2>0, <2>3, AnswerIs
  <2>4. ASSUME NEW t \in Slots, TakeLookup(t) PROVE FALSE
    BY <2>0, <2>2, <2>4, TakeLookupIs
  <2>5. ASSUME NEW t \in Slots, t # s, TakeCreate(t) PROVE FALSE
    BY <2>0, <2>2, <2>5, TakeCreateIs, MountsIs DEF Leaves
  <2>6. ASSUME NEW t \in Slots, TakeAct(t) \/ TakeLoad(t) PROVE FALSE
    <3>1. Onward(t) /\ fetch[t].what \in {"acted", "get", "pnl"}
      BY <2>0, <2>6, TakeActIs, TakeLoadIs
    <3> QED BY <2>2, <3>1 DEF Onward
  <2>7. ASSUME NEW t \in Slots, TakeRemove(t) PROVE FALSE
    BY <2>0, <2>2, <2>7, TakeRemoveIs DEF Leaves, Onward
  <2>8. ASSUME NEW t \in Slots, NEW k \in Products, OpenDetail(t, k) PROVE FALSE
    <3>1. fetch[t] = NoRun /\ Mounts(t, k, Left) /\ k \in Typed
      BY <2>0, <2>8 DEF OpenDetail, Free
    <3>2. t # s
      BY <3>1, NoRunIs
    <3> QED BY <2>0, <2>2, <3>1, <3>2, MountsIs
  <2>9. ASSUME NEW t \in Slots, NEW k \in Typed, NEW f \in Forms,
                NEW runs \in [Slots -> RunSet], Begins(t, k, f, runs),
                runs[s].what # "get"
         PROVE  FALSE
    BY <2>9, BeginsIs
  <2>10. CASE OpenList \/ (\E t \in Slots, k \in Products : OpenNew(t, k))
    <3>1. ASSUME NEW t \in Slots, NEW k \in Products, Begins(t, k, NewForm(k), Left) PROVE FALSE
      <4>1. k \in Typed /\ NewForm(k) \in Forms /\ Left \in [Slots -> RunSet]
        BY <2>0, NewFormIs, LeftIs
      <4>2. Left[s].what # "get"
        BY <2>0, LeftIs DEF Reading
      <4> QED BY <2>9, <3>1, <4>1, <4>2
    <3> QED BY <2>0, <2>2, <2>10, <3>1, OpensIs DEF Leaves
  <2>11. ASSUME NEW t \in Slots, Lookup(t) PROVE FALSE
    <3>1. Begins(t, Norm[form.box], form, fetch)
      BY <2>11 DEF Lookup
    <3>2. Norm[form.box] \in Typed /\ form \in Forms /\ fetch \in [Slots -> RunSet]
      BY <2>0, TextsAre DEF PagesTyped, Forms
    <3> QED BY <2>9, <3>1, <3>2
  <2>12. ASSUME NEW t \in Slots, Submit(t) PROVE FALSE
    BY <2>0, <2>2, <2>12, SubmitIs
  <2>13. ASSUME NEW t \in Slots, Write(t) \/ VoidLast(t) \/ Refresh(t) \/ RemoveAccount(t)
         PROVE  FALSE
    BY <2>0, <2>2, <2>13, ActIs
  <2>14. CASE LookupNothing
    BY <2>0, <2>14, LookupNothingIs
  <2>15. CASE \/ UNCHANGED holdingVars
              \/ \E text \in Typed : Type(text)
              \/ \E k \in Crawled : Crawl(k)
              \/ \E k \in Products : WriteElsewhere(k)
    BY <2>2, <2>15 DEF holdingVars, Type, Crawl, WriteElsewhere
  <2> QED BY <2>1, <2>3, <2>4, <2>5, <2>6, <2>7, <2>8, <2>10, <2>11, <2>12, <2>13, <2>14,
             <2>15 DEF HoldingNext, Take
<1> QED BY <1>1, PagesInvAlways, PTL DEF HoldingSpec, PushesPosted
=============================================================================
