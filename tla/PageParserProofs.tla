-------------------------- MODULE PageParserProofs --------------------------
(***************************************************************************)
(* The rows that a page is read as, for pages of any length with any texts *)
(* in their cells: what a row says stands under the headings of its own    *)
(* table, and a refresh takes from the rows what a crawl takes from them.  *)
(***************************************************************************)
EXTENDS PageParser, FoldProofs, SequenceTheorems, TLAPS

\* The pages of the bank have one column of each kind; with more of them the
\* one that is read depends on the order in which a map is searched.
OneColumnEach ==
    \A heads \in Lines : LooksLikeHeader(heads) =>
        \A field \in Fields : \A i, j \in DOMAIN heads :
            field \in Says[heads[i]] /\ field \in Says[heads[j]] => i = j

\* The rows that a page may give.
Rows == [code : Texts, unit : Nat, day : Nat]

-----------------------------------------------------------------------------
(* A line under its headings. *)

\* The text read as a field is the one in its column.
LEMMA FirstIs ==
  ASSUME OneColumnEach, NEW heads \in Lines, LooksLikeHeader(heads),
         NEW vals \in Lines, NEW field \in Fields, NEW t \in First(heads, vals, field)
  PROVE  /\ t \in Texts
         /\ \A i \in Columns(heads, vals, field) : vals[i] = t
         /\ Columns(heads, vals, field) = {} => t = Blank
<1>1. heads \in Seq(Texts) /\ vals \in Seq(Texts) /\ Blank \in Texts
  BY TextsAssumption
<1>2. CASE Columns(heads, vals, field) = {}
  BY <1>1, <1>2 DEF First
<1>3. CASE Columns(heads, vals, field) # {}
  <2>1. PICK i \in Columns(heads, vals, field) : t = Under(heads, vals, i)
    BY <1>3 DEF First
  <2> DEFINE J == {j \in DOMAIN heads \cap DOMAIN vals : heads[j] = heads[i]}
  <2>2. /\ i \in DOMAIN heads /\ i \in DOMAIN vals /\ field \in Says[heads[i]]
        /\ \A k \in Columns(heads, vals, field) :
             k \in DOMAIN heads /\ field \in Says[heads[k]]
    BY DEF Columns
  <2>3. J \in SUBSET Nat /\ J # {} /\ Len(vals) \in Nat /\ \A j \in J : j <= Len(vals)
    BY <1>1, <2>2
  <2>4. Max(J) \in J
    <3> HIDE DEF J
    <3> QED BY <2>3, MaxOfBounded
  <2>5. Max(J) = i
    BY <2>2, <2>4 DEF OneColumnEach
  <2>6. t = vals[i]
    BY <2>1, <2>5 DEF Under
  <2>7. \A k \in Columns(heads, vals, field) : k = i
    BY <2>2 DEF OneColumnEach
  <2> QED BY <1>1, <1>3, <2>2, <2>6, <2>7
<1> QED BY <1>2, <1>3

\* What the line says under its headings.
ReadUnder(row, heads, vals) ==
    /\ \A i \in Columns(heads, vals, "code") : vals[i] = row.code
    /\ Columns(heads, vals, "code") = {} => row.code = Blank
    /\ \A i \in Columns(heads, vals, "unit") : NavOf[vals[i]] = row.unit
    /\ Columns(heads, vals, "unit") = {} => row.unit = NoNav
    /\ \A i \in Columns(heads, vals, "day") : DayOf[vals[i]] = row.day
    /\ Columns(heads, vals, "day") = {} => row.day = NoDay

\* A row of the line says what stands there.
LEMMA RowIsReadUnder ==
  ASSUME OneColumnEach, NEW heads \in Lines, LooksLikeHeader(heads),
         NEW vals \in Lines, NEW row \in RowFrom(heads, vals)
  PROVE  row \in Rows /\ ReadUnder(row, heads, vals)
<1>1. PICK code \in First(heads, vals, "code"),
           unit \in First(heads, vals, "unit"),
           day \in First(heads, vals, "day") :
             row = [code |-> code, unit |-> NavOf[unit], day |-> DayOf[day]]
  BY DEF RowFrom
<1>2. "code" \in Fields /\ "unit" \in Fields /\ "day" \in Fields
  BY DEF Fields
<1>3. /\ code \in Texts
      /\ \A i \in Columns(heads, vals, "code") : vals[i] = code
      /\ Columns(heads, vals, "code") = {} => code = Blank
  BY <1>2, FirstIs
<1>4. /\ unit \in Texts
      /\ \A i \in Columns(heads, vals, "unit") : vals[i] = unit
      /\ Columns(heads, vals, "unit") = {} => unit = Blank
  BY <1>2, FirstIs
<1>5. /\ day \in Texts
      /\ \A i \in Columns(heads, vals, "day") : vals[i] = day
      /\ Columns(heads, vals, "day") = {} => day = Blank
  BY <1>2, FirstIs
<1>6. row.code = code /\ row.unit = NavOf[unit] /\ row.day = DayOf[day]
  BY <1>1
<1>7. row \in Rows
  BY <1>1, <1>3, <1>4, <1>5, TextsAssumption DEF Rows
<1>8. ReadUnder(row, heads, vals)
  BY <1>3, <1>4, <1>5, <1>6, TextsAssumption DEF ReadUnder
<1> QED BY <1>7, <1>8

-----------------------------------------------------------------------------
(* The invariant. *)

\* The headings in force are those of the table that is read, and every row was
\* read from a line under headings.
Source == [head : Lines, vals : Lines]

PInv ==
    /\ head = headers
    /\ headers # <<>> => headers \in Lines /\ LooksLikeHeader(headers)
    /\ out \in Seq(Rows)
    /\ from \in Seq(Source)
    /\ Len(from) = Len(out)
    /\ \A k \in 1..Len(out) : ReadUnder(out[k], from[k].head, from[k].vals)

\* It holds of an empty page.
LEMMA InitPInv == Init => PInv
<1> SUFFICES ASSUME Init PROVE PInv
  OBVIOUS
<1>1. <<>> \in Seq(Rows) /\ <<>> \in Seq(Source) /\ Len(<<>>) = 0
  OBVIOUS
<1>2. 1..0 = {}
  BY SMT
<1> QED BY <1>1, <1>2 DEF Init, PInv

\* A row is added together with where it was read.
LEMMA RowKeeps ==
  ASSUME PInv, NEW row \in Rows, NEW heads \in Lines, NEW vals \in Lines,
         ReadUnder(row, heads, vals), headers' = headers, head' = head,
         out' = Append(out, row), from' = Append(from, [head |-> heads, vals |-> vals])
  PROVE  PInv'
<1> DEFINE n == Len(out)
           src == [head |-> heads, vals |-> vals]
<1>1. n \in Nat /\ Len(from) = n /\ out \in Seq(Rows) /\ from \in Seq(Source) /\ src \in Source
  BY DEF PInv, Source
<1>2. /\ out' \in Seq(Rows) /\ Len(out') = n + 1
      /\ out'[n + 1] = row /\ \A k \in 1..n : out'[k] = out[k]
  BY <1>1
<1>3. /\ from' \in Seq(Source) /\ Len(from') = n + 1
      /\ from'[n + 1] = src /\ \A k \in 1..n : from'[k] = from[k]
  <2> HIDE DEF src, n
  <2>1. from' = Append(from, src)
    BY DEF src
  <2> QED BY <1>1, <2>1
<1>4. \A k \in 1..Len(out') : ReadUnder(out'[k], from'[k].head, from'[k].vals)
  <2> TAKE k \in 1..Len(out')
  <2>1. CASE k = n + 1
    <3>1. src.head = heads /\ src.vals = vals
      OBVIOUS
    <3> HIDE DEF n, src
    <3> QED BY <1>2, <1>3, <2>1, <3>1
  <2>2. CASE k \in 1..n
    <3>1. ReadUnder(out[k], from[k].head, from[k].vals)
      BY <2>2 DEF PInv
    <3> HIDE DEF n
    <3> QED BY <1>2, <1>3, <2>2, <3>1
  <2>3. k = n + 1 \/ k \in 1..n
    <3> HIDE DEF n
    <3> QED BY <1>1, <1>2
  <2> QED BY <2>1, <2>2, <2>3
<1> HIDE DEF n, src
<1> QED BY <1>2, <1>3, <1>4 DEF PInv

\* Every line and every new table keeps it.
LEMMA StepPInv ==
  ASSUME OneColumnEach PROVE PInv /\ [Next]_vars => PInv'
<1> SUFFICES ASSUME PInv, [Next]_vars PROVE PInv'
  OBVIOUS
<1>1. CASE NewTable
  BY <1>1 DEF NewTable, PInv
<1>2. CASE ReadLine
  <2>1. PICK vals \in Lines : ReadHeader(vals) \/ ReadRow(vals)
    BY <1>2 DEF ReadLine
  <2>2. CASE ReadHeader(vals)
    BY <2>2 DEF ReadHeader, PInv
  <2>3. CASE ReadRow(vals) /\ UNCHANGED <<out, from>>
    BY <2>3 DEF ReadRow, PInv
  <2>4. CASE ReadRow(vals) /\ ~ UNCHANGED <<out, from>>
    <3>1. headers # <<>> /\ headers' = headers /\ head' = head
      BY <2>4 DEF ReadRow
    <3>2. PICK row \in RowFrom(headers, vals) :
            /\ out' = Append(out, row)
            /\ from' = Append(from, [head |-> head, vals |-> vals])
      BY <2>4, <3>1 DEF ReadRow
    <3>3. headers \in Lines /\ LooksLikeHeader(headers) /\ head = headers
      BY <3>1 DEF PInv
    <3>4. row \in Rows /\ ReadUnder(row, headers, vals)
      BY <3>3, RowIsReadUnder
    <3> QED BY <3>1, <3>2, <3>3, <3>4, RowKeeps
  <2> QED BY <2>1, <2>2, <2>3, <2>4
<1>3. CASE UNCHANGED vars
  BY <1>3 DEF PInv, vars
<1> QED BY <1>1, <1>2, <1>3 DEF Next

\* On pages with one column of each kind every row says what stands under the
\* headings of its own table, whatever tables and lines came before it.
THEOREM RowsUnderOwnHeadAlways ==
  ASSUME OneColumnEach PROVE Spec => []RowsUnderOwnHead
<1>1. Spec => []PInv
  BY InitPInv, StepPInv, PTL DEF Spec
<1>2. PInv => RowsUnderOwnHead
  <2> SUFFICES ASSUME PInv, NEW k \in DOMAIN out
               PROVE  ReadUnder(out[k], from[k].head, from[k].vals)
    BY DEF RowsUnderOwnHead, ReadUnder
  <2>1. k \in 1..Len(out)
    BY DEF PInv
  <2> QED BY <2>1 DEF PInv
<1> QED BY <1>1, <1>2, PTL

-----------------------------------------------------------------------------
(* What is taken from the rows. *)

\* What one row does to the row that a refresh has picked.
PickStep(p, row, code) ==
    IF UpperOf[row.code] # code \/ row.day = NoDay THEN p
    ELSE IF p.hasUnit /\ row.unit = NoNav THEN p
    ELSE [row |-> row, found |-> TRUE, hasUnit |-> row.unit # NoNav]

\* What the two loops work on.
Picks == [row : Rows, found : BOOLEAN, hasUnit : BOOLEAN]
Crawls == [snapshot : SUBSET Rows, obs : SUBSET Rows]

\* What the loops of PickProductRow and of a crawl have after each row.
IsPick(h, q, code) ==
    /\ h \in [0..Len(q) -> Picks]
    /\ h[0] = NothingPicked
    /\ \A n \in 1..Len(q) : h[n] = PickStep(h[n - 1], q[n], code)

\* Before the first row.
NothingCrawled == [snapshot |-> {}, obs |-> {}]

IsCrawl(h, q) ==
    /\ h \in [0..Len(q) -> Crawls]
    /\ h[0] = NothingCrawled
    /\ \A n \in 1..Len(q) : h[n] = CrawlRow(h[n - 1], q[n])

\* The loop of PickProductRow stays in its type.
LEMMA PickTyped ==
  /\ NothingPicked \in Picks
  /\ \A code : \A p \in Picks, row \in Rows : PickStep(p, row, code) \in Picks
<1>1. NothingPicked \in Picks
  BY TextsAssumption DEF NothingPicked, Picks, Rows, NoNav, NoDay
<1>2. ASSUME NEW code, NEW p \in Picks, NEW row \in Rows
      PROVE  PickStep(p, row, code) \in Picks
  BY DEF PickStep, Picks
<1> QED BY <1>1, <1>2

\* So does that of a crawl.
LEMMA CrawlTyped ==
  /\ NothingCrawled \in Crawls
  /\ \A s \in Crawls, row \in Rows : CrawlRow(s, row) \in Crawls
<1>1. NothingCrawled \in Crawls
  BY DEF NothingCrawled, Crawls
<1>2. ASSUME NEW s \in Crawls, NEW row \in Rows
      PROVE  CrawlRow(s, row) \in Crawls
  <2>1. s.snapshot \in SUBSET Rows /\ s.obs \in SUBSET Rows
    BY DEF Crawls
  <2>2. /\ {n \in s.snapshot : n.code # row.code \/ n.day # row.day} \cup {row} \in SUBSET Rows
        /\ {o \in s.obs : o.code # row.code} \cup {row} \in SUBSET Rows
    BY <2>1
  <2> QED BY <2>1, <2>2 DEF CrawlRow, Crawls
<1> QED BY <1>1, <1>2

\* What is picked is the last of the rows picked by such a loop.
LEMMA PickRuns ==
  ASSUME NEW q \in Seq(Rows), NEW code
  PROVE  \E h : IsPick(h, q, code) /\ PickProductRow(q, code) = h[Len(q)]
<1> DEFINE A == Picks
           Step(l, e) == PickStep(l, e, code)
           w == [p \in A \X Rows |-> Step(p[1], p[2])]
           Round(g, s) == IF s = {} THEN NothingPicked
                          ELSE Step(g[s \ {Max(s)}], q[Max(s)])
           Is(g) == g = [s \in SUBSET DOMAIN q |-> Round(g, s)]
           c == CHOOSE g : Is(g)
<1>0. NothingPicked \in A /\ \A l \in A, e \in Rows : Step(l, e) \in A
  BY PickTyped
<1>1. w \in [A \X Rows -> A]
  <2> HIDE DEF A, Step
  <2> QED BY <1>0
<1>2. \A s \in SUBSET DOMAIN q : s # {} => q[Max(s)] \in Rows
  <2>1. \A s \in SUBSET DOMAIN q : s # {} => Max(s) \in DOMAIN q
    BY LastOfIndices
  <2>2. \A i \in DOMAIN q : q[i] \in Rows
    OBVIOUS
  <2> QED BY <2>1, <2>2
<1>3. PickProductRow(q, code) = c[DOMAIN q]
  BY DEF PickProductRow, FoldLeft, MapThenFoldSet, PickStep
<1> HIDE DEF A, Step
<1>4. PICK f : IsFold(f, w, NothingPicked, q)
  BY FoldExists
<1>5. \A s \in SUBSET DOMAIN q : f[s] \in A
  <2> HIDE DEF w
  <2> QED BY <1>0, <1>1, <1>4, FoldTyped
<1>6. Is(f)
  <2>1. ASSUME NEW s \in SUBSET DOMAIN q
        PROVE  FoldRound(f, w, NothingPicked, q, s) = Round(f, s)
    <3>1. CASE s = {}
      BY <3>1 DEF FoldRound
    <3>2. CASE s # {}
      <4>1. f[s \ {Max(s)}] \in A /\ q[Max(s)] \in Rows
        BY <1>2, <1>5, <3>2, LastOfIndices
      <4>2. w[<<f[s \ {Max(s)}], q[Max(s)]>>]
              = Step(f[s \ {Max(s)}], q[Max(s)])
        BY <4>1
      <4> QED BY <3>2, <4>2 DEF FoldRound
    <3> QED BY <3>1, <3>2
  <2>2. f = [s \in SUBSET DOMAIN q |-> FoldRound(f, w, NothingPicked, q, s)]
    BY <1>4 DEF IsFold
  <2> HIDE DEF w, Round
  <2> QED BY <2>1, <2>2
<1>7. Is(c)
  BY <1>6
<1>8. IsFold(c, w, NothingPicked, q)
  <2>1. c = [s \in SUBSET DOMAIN q |-> c[s]]
    BY <1>7
  <2>2. c[{}] = NothingPicked
    BY <1>7
  <2>3. ASSUME NEW s \in SUBSET DOMAIN q, s # {}, c[s \ {Max(s)}] \in A
        PROVE  c[s] = w[<<c[s \ {Max(s)}], q[Max(s)]>>]
    <3>1. c[s] = Round(c, s)
      <4> HIDE DEF Round, c
      <4> QED BY <1>7
    <3> HIDE DEF c
    <3>2. <<c[s \ {Max(s)}], q[Max(s)]>> \in A \X Rows
      BY <1>2, <2>3
    <3> QED BY <2>3, <3>1, <3>2
  <2> HIDE DEF w, c, Is
  <2> QED BY <1>0, <1>1, <2>1, <2>2, <2>3, FoldKnown
<1> HIDE DEF c, Is
<1>9. PICK h : IsFolding(h, c, w, NothingPicked, q, A)
  <2> HIDE DEF w, Round
  <2> QED BY <1>0, <1>1, <1>8, FoldRuns
<1>10. \A n \in 1..Len(q) : h[n] = Step(h[n - 1], q[n])
  <2> TAKE n \in 1..Len(q)
  <2>1. n - 1 \in 0..Len(q) /\ q[n] \in Rows
    BY ElementOfSeq
  <2>2. <<h[n - 1], q[n]>> \in A \X Rows
    BY <1>9, <2>1 DEF IsFolding
  <2> QED BY <1>9, <2>2 DEF IsFolding
<1> HIDE DEF w
<1>11. IsPick(h, q, code)
  BY <1>9, <1>10 DEF IsPick, IsFolding, A, Step
<1> QED BY <1>3, <1>9, <1>11 DEF IsFolding

\* What is crawled is the last of what such a loop has.
LEMMA CrawlRuns ==
  ASSUME NEW q \in Seq(Rows)
  PROVE  \E h : IsCrawl(h, q) /\ Crawled(q) = h[Len(q)]
<1> DEFINE A == Crawls
           Step(l, e) == CrawlRow(l, e)
           w == [p \in A \X Rows |-> Step(p[1], p[2])]
           Round(g, s) == IF s = {} THEN NothingCrawled
                          ELSE Step(g[s \ {Max(s)}], q[Max(s)])
           Is(g) == g = [s \in SUBSET DOMAIN q |-> Round(g, s)]
           c == CHOOSE g : Is(g)
<1>0. NothingCrawled \in A /\ \A l \in A, e \in Rows : Step(l, e) \in A
  BY CrawlTyped
<1>1. w \in [A \X Rows -> A]
  <2> HIDE DEF A, Step
  <2> QED BY <1>0
<1>2. \A s \in SUBSET DOMAIN q : s # {} => q[Max(s)] \in Rows
  <2>1. \A s \in SUBSET DOMAIN q : s # {} => Max(s) \in DOMAIN q
    BY LastOfIndices
  <2>2. \A i \in DOMAIN q : q[i] \in Rows
    OBVIOUS
  <2> QED BY <2>1, <2>2
<1>3. Crawled(q) = c[DOMAIN q]
  BY DEF Crawled, FoldLeft, MapThenFoldSet, NothingCrawled
<1> HIDE DEF A, Step
<1>4. PICK f : IsFold(f, w, NothingCrawled, q)
  BY FoldExists
<1>5. \A s \in SUBSET DOMAIN q : f[s] \in A
  <2> HIDE DEF w
  <2> QED BY <1>0, <1>1, <1>4, FoldTyped
<1>6. Is(f)
  <2>1. ASSUME NEW s \in SUBSET DOMAIN q
        PROVE  FoldRound(f, w, NothingCrawled, q, s) = Round(f, s)
    <3>1. CASE s = {}
      BY <3>1 DEF FoldRound
    <3>2. CASE s # {}
      <4>1. f[s \ {Max(s)}] \in A /\ q[Max(s)] \in Rows
        BY <1>2, <1>5, <3>2, LastOfIndices
      <4>2. w[<<f[s \ {Max(s)}], q[Max(s)]>>]
              = Step(f[s \ {Max(s)}], q[Max(s)])
        BY <4>1
      <4> QED BY <3>2, <4>2 DEF FoldRound
    <3> QED BY <3>1, <3>2
  <2>2. f = [s \in SUBSET DOMAIN q |-> FoldRound(f, w, NothingCrawled, q, s)]
    BY <1>4 DEF IsFold
  <2> HIDE DEF w, Round
  <2> QED BY <2>1, <2>2
<1>7. Is(c)
  BY <1>6
<1>8. IsFold(c, w, NothingCrawled, q)
  <2>1. c = [s \in SUBSET DOMAIN q |-> c[s]]
    BY <1>7
  <2>2. c[{}] = NothingCrawled
    BY <1>7
  <2>3. ASSUME NEW s \in SUBSET DOMAIN q, s # {}, c[s \ {Max(s)}] \in A
        PROVE  c[s] = w[<<c[s \ {Max(s)}], q[Max(s)]>>]
    <3>1. c[s] = Round(c, s)
      <4> HIDE DEF Round, c
      <4> QED BY <1>7
    <3> HIDE DEF c
    <3>2. <<c[s \ {Max(s)}], q[Max(s)]>> \in A \X Rows
      BY <1>2, <2>3
    <3> QED BY <2>3, <3>1, <3>2
  <2> HIDE DEF w, c, Is
  <2> QED BY <1>0, <1>1, <2>1, <2>2, <2>3, FoldKnown
<1> HIDE DEF c, Is
<1>9. PICK h : IsFolding(h, c, w, NothingCrawled, q, A)
  <2> HIDE DEF w, Round
  <2> QED BY <1>0, <1>1, <1>8, FoldRuns
<1>10. \A n \in 1..Len(q) : h[n] = Step(h[n - 1], q[n])
  <2> TAKE n \in 1..Len(q)
  <2>1. n - 1 \in 0..Len(q) /\ q[n] \in Rows
    BY ElementOfSeq
  <2>2. <<h[n - 1], q[n]>> \in A \X Rows
    BY <1>9, <2>1 DEF IsFolding
  <2> QED BY <1>9, <2>2 DEF IsFolding
<1> HIDE DEF w
<1>11. IsCrawl(h, q)
  BY <1>9, <1>10 DEF IsCrawl, IsFolding, A, Step
<1> QED BY <1>3, <1>9, <1>11 DEF IsFolding

\* What a crawl and a refresh of one product have taken from the rows so far.
Agree(p, s, code) ==
    /\ p.found <=> \E o \in s.obs : UpperOf[o.code] = code
    /\ p.hasUnit <=> \E n \in s.snapshot : UpperOf[n.code] = code
    /\ p.hasUnit => p.row \in s.snapshot \cap s.obs
    /\ p.hasUnit => UpperOf[p.row.code] = code

\* One more row, and they still agree.
LEMMA AgreeKept ==
  ASSUME NEW code, NEW p \in Picks, NEW s \in Crawls, Agree(p, s, code), NEW row \in Rows
  PROVE  Agree(PickStep(p, row, code), CrawlRow(s, row), code)
<1> DEFINE snap == {n \in s.snapshot : n.code # row.code \/ n.day # row.day} \cup {row}
           seen == {o \in s.obs : o.code # row.code} \cup {row}
           pick == [row |-> row, found |-> TRUE, hasUnit |-> row.unit # NoNav]
<1>1. CASE row.day = NoDay
  BY <1>1 DEF PickStep, CrawlRow
<1>2. CASE row.day # NoDay /\ row.unit = NoNav /\ \E o \in s.obs : o.code = row.code
  <2>1. CrawlRow(s, row) = s
    BY <1>2 DEF CrawlRow
  <2>2. CASE UpperOf[row.code] # code \/ p.hasUnit
    <3>1. PickStep(p, row, code) = p
      BY <1>2, <2>2 DEF PickStep
    <3> QED BY <2>1, <3>1
  <2>3. CASE UpperOf[row.code] = code /\ ~ p.hasUnit
    <3>1. PickStep(p, row, code) = pick
      BY <1>2, <2>3 DEF PickStep
    <3>2. pick.found = TRUE /\ pick.hasUnit = FALSE
      BY <1>2
    <3> HIDE DEF pick
    <3> QED BY <1>2, <2>1, <2>3, <3>1, <3>2 DEF Agree
  <2> QED BY <2>2, <2>3
<1>3. CASE row.day # NoDay /\ row.unit = NoNav /\ ~ \E o \in s.obs : o.code = row.code
  <2>1. CrawlRow(s, row) = [snapshot |-> s.snapshot, obs |-> seen]
    BY <1>3 DEF CrawlRow
  <2>2. CASE UpperOf[row.code] # code
    <3>1. PickStep(p, row, code) = p
      BY <2>2 DEF PickStep
    <3> QED BY <1>3, <2>1, <2>2, <3>1 DEF Agree
  <2>3. CASE UpperOf[row.code] = code
    <3>1. row \in seen /\ \A o \in s.obs : o \in seen
      BY <1>3
    <3>2. CASE p.hasUnit
      <4>1. PickStep(p, row, code) = p /\ p.found
        BY <1>3, <3>2 DEF PickStep, Agree
      <4> HIDE DEF seen
      <4> QED BY <2>1, <2>3, <3>1, <3>2, <4>1 DEF Agree
    <3>3. CASE ~ p.hasUnit
      <4>1. PickStep(p, row, code) = pick
        BY <1>3, <2>3, <3>3 DEF PickStep
      <4>2. pick.found = TRUE /\ pick.hasUnit = FALSE
        BY <1>3
      <4> HIDE DEF pick, seen
      <4> QED BY <2>1, <2>3, <3>1, <3>3, <4>1, <4>2 DEF Agree
    <3> QED BY <3>2, <3>3
  <2> QED BY <2>2, <2>3
<1>4. CASE row.day # NoDay /\ row.unit # NoNav
  <2>1. CrawlRow(s, row) = [snapshot |-> snap, obs |-> seen]
    BY <1>4 DEF CrawlRow
  <2>2. CASE UpperOf[row.code] # code
    <3>1. PickStep(p, row, code) = p
      BY <2>2 DEF PickStep
    <3>2. /\ \A n : UpperOf[n.code] = code => (n \in snap <=> n \in s.snapshot)
          /\ \A o : UpperOf[o.code] = code => (o \in seen <=> o \in s.obs)
      BY <2>2
    <3> HIDE DEF snap, seen
    <3> QED BY <2>1, <3>1, <3>2 DEF Agree
  <2>3. CASE UpperOf[row.code] = code
    <3>1. PickStep(p, row, code) = pick
      BY <1>4, <2>3 DEF PickStep
    <3>2. pick.found = TRUE /\ pick.hasUnit = TRUE /\ pick.row = row
          /\ row \in seen /\ row \in snap
      BY <1>4
    <3> HIDE DEF pick, seen, snap
    <3> QED BY <2>1, <2>3, <3>1, <3>2 DEF Agree
  <2> QED BY <2>2, <2>3
<1> QED BY <1>1, <1>2, <1>3, <1>4

\* So they agree after all of the rows.
LEMMA AgreeAtEnd ==
  ASSUME NEW q \in Seq(Rows), NEW code
  PROVE  Agree(PickProductRow(q, code), Crawled(q), code)
<1>1. PICK h : IsPick(h, q, code) /\ PickProductRow(q, code) = h[Len(q)]
  BY PickRuns
<1>2. PICK f : IsCrawl(f, q) /\ Crawled(q) = f[Len(q)]
  BY CrawlRuns
<1> DEFINE T == {n \in 0..Len(q) : Agree(h[n], f[n], code)}
<1>3. T \subseteq Nat /\ Len(q) \in Nat
  OBVIOUS
<1>4. 0 \in T
  <2>1. Agree(NothingPicked, NothingCrawled, code)
    BY DEF Agree, NothingPicked, NothingCrawled
  <2> QED BY <1>1, <1>2, <1>3, <2>1 DEF IsPick, IsCrawl
<1>5. ASSUME NEW n \in 1..Len(q), n - 1 \in T PROVE n \in T
  <2>1. n - 1 \in 0..Len(q) /\ n \in 0..Len(q) /\ q[n] \in Rows
    BY ElementOfSeq
  <2>2. h[n - 1] \in Picks /\ f[n - 1] \in Crawls
    BY <1>1, <1>2, <2>1 DEF IsPick, IsCrawl
  <2>3. h[n] = PickStep(h[n - 1], q[n], code) /\ f[n] = CrawlRow(f[n - 1], q[n])
    BY <1>1, <1>2 DEF IsPick, IsCrawl
  <2>4. Agree(h[n - 1], f[n - 1], code)
    BY <1>5
  <2>5. Agree(PickStep(h[n - 1], q[n], code), CrawlRow(f[n - 1], q[n]), code)
    BY <2>1, <2>2, <2>4, AgreeKept
  <2> QED BY <2>1, <2>3, <2>5
<1>6. Len(q) \in T
  <2> HIDE DEF T
  <2>1. \A n \in 0..Len(q) : n \in T
    BY <1>3, <1>4, <1>5, InductionUpTo
  <2> QED BY <1>3, <2>1
<1> QED BY <1>1, <1>2, <1>6

\* A row is made of texts and of numbers, whichever column is read.
LEMMA RowTyped ==
  ASSUME NEW heads \in Seq(Texts), NEW vals \in Seq(Texts)
  PROVE  RowFrom(heads, vals) \subseteq Rows
<1>1. ASSUME NEW field PROVE First(heads, vals, field) \subseteq Texts
  <2>1. ASSUME NEW i \in Columns(heads, vals, field) PROVE Under(heads, vals, i) \in Texts
    <3> DEFINE J == {j \in DOMAIN heads \cap DOMAIN vals : heads[j] = heads[i]}
    <3>1. J \in SUBSET Nat /\ J # {} /\ Len(vals) \in Nat /\ \A j \in J : j <= Len(vals)
      BY DEF Columns
    <3>2. Max(J) \in J
      <4> HIDE DEF J
      <4> QED BY <3>1, MaxOfBounded
    <3>3. vals[Max(J)] \in Texts
      BY <3>2
    <3> QED BY <3>3 DEF Under
  <2> QED BY <2>1, TextsAssumption DEF First
<1>2. ASSUME NEW row \in RowFrom(heads, vals) PROVE row \in Rows
  <2>1. PICK code \in First(heads, vals, "code"),
             unit \in First(heads, vals, "unit"),
             day \in First(heads, vals, "day") :
               row = [code |-> code, unit |-> NavOf[unit], day |-> DayOf[day]]
    BY DEF RowFrom
  <2>2. code \in Texts /\ NavOf[unit] \in Nat /\ DayOf[day] \in Nat
    BY <1>1, TextsAssumption
  <2> QED BY <2>1, <2>2 DEF Rows
<1> QED BY <1>2

\* All that this needs to know of a page.
RowsTyped == headers \in Seq(Texts) /\ out \in Seq(Rows)

\* It is kept.
LEMMA StepRowsTyped == RowsTyped /\ [Next]_vars => RowsTyped'
<1> SUFFICES ASSUME RowsTyped, [Next]_vars PROVE RowsTyped'
  OBVIOUS
<1>1. CASE NewTable
  BY <1>1 DEF NewTable, RowsTyped
<1>2. CASE ReadLine
  <2>1. PICK vals \in Lines : ReadHeader(vals) \/ ReadRow(vals)
    BY <1>2 DEF ReadLine
  <2>2. vals \in Seq(Texts)
    BY TextsAssumption
  <2>3. CASE ReadHeader(vals)
    BY <2>2, <2>3 DEF ReadHeader, RowsTyped
  <2>4. CASE ReadRow(vals) /\ out' = out
    BY <2>4 DEF ReadRow, RowsTyped
  <2>5. CASE ReadRow(vals) /\ out' # out
    <3>1. PICK row \in RowFrom(headers, vals) : out' = Append(out, row)
      BY <2>5 DEF ReadRow
    <3>2. row \in Rows
      BY <2>2, RowTyped DEF RowsTyped
    <3> QED BY <2>5, <3>1, <3>2 DEF RowsTyped, ReadRow
  <2> QED BY <2>1, <2>3, <2>4, <2>5
<1>3. CASE UNCHANGED vars
  BY <1>3 DEF RowsTyped, vars
<1> QED BY <1>1, <1>2, <1>3 DEF Next

\* For every page and every product, in whatever letters its code is written
\* there, a refresh finds the product exactly if a crawl of the page has observed
\* it, and the NAV it writes is one that the crawl has written for it.
THEOREM RefreshAgreesAlways == Spec => []RefreshAgreesWithCrawl
<1>1. Init => RowsTyped
  BY DEF Init, RowsTyped
<1>2. Spec => []RowsTyped
  BY <1>1, StepRowsTyped, PTL DEF Spec
<1>3. RowsTyped => RefreshAgreesWithCrawl
  <2>1. ASSUME RowsTyped PROVE out \in Seq(Rows)
    BY <2>1 DEF RowsTyped
  <2>2. ASSUME RowsTyped, NEW code
        PROVE  Agree(PickProductRow(out, code), Crawled(out), code)
    BY <2>1, <2>2, AgreeAtEnd
  <2> QED BY <2>2 DEF RefreshAgreesWithCrawl, Agree
<1> QED BY <1>2, <1>3, PTL
=============================================================================
