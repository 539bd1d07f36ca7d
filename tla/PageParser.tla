----------------------------- MODULE PageParser -----------------------------
(***************************************************************************)
(* crawl.ParsePage: the rows that one page of the catalogue is read as,    *)
(* line by line, and what a crawl and a refresh take from these rows.  A   *)
(* line is the texts of its cells.  Of a text the model tells apart which  *)
(* columns it is the heading of, the unit NAV and the date that it is read *)
(* as, and the text that it is in upper case; names, issuers and the other *)
(* numbers are read as the unit NAV is.  A table inside a table is walked  *)
(* twice: its lines are lines of the outer table as well, and then a table *)
(* of their own.                                                           *)
(***************************************************************************)
EXTENDS Naturals, FiniteSetsExt, SequencesExt

CONSTANTS
    Texts,    \* texts of cells
    Blank,    \* the text of an empty cell
    Says,     \* Says[t]: the fields one of whose headings the text contains
    NavOf,    \* NavOf[t]: the unit NAV of a number, or NoNav
    DayOf,    \* DayOf[t]: the NAV date in a text, or NoDay
    UpperOf,  \* UpperOf[t]: the text in upper case
    Lines,    \* the lines that a page may have
    MaxLines  \* bound: lines of a page

Fields == {"code", "unit", "day"}
NoNav == 0
NoDay == 0

ASSUME TextsAssumption ==
    /\ Blank \in Texts
    /\ Says \in [Texts -> SUBSET Fields]
    /\ NavOf \in [Texts -> Nat]
    /\ DayOf \in [Texts -> Nat]
    /\ UpperOf \in [Texts -> Texts]
    /\ UpperOf[Blank] = Blank
    /\ \A t \in Texts : UpperOf[UpperOf[t]] = UpperOf[t]
    /\ Says[Blank] = {} /\ NavOf[Blank] = NoNav /\ DayOf[Blank] = NoDay
    /\ Lines \subseteq Seq(Texts)
    /\ MaxLines \in Nat

VARIABLES
    headers, \* the headings in force
    out,     \* the rows so far
    lines,   \* lines read
    head,    \* history: the last headings of the table that is walked
    from     \* history: head and line that each row of out was read from

vars == <<headers, out, lines, head, from>>

-----------------------------------------------------------------------------
LooksLikeHeader(vals) == \E i \in DOMAIN vals : "code" \in Says[vals[i]]

\* The columns of a field, as far as the line goes.
Columns(heads, vals, field) ==
    {i \in DOMAIN heads \cap DOMAIN vals : field \in Says[heads[i]]}

\* The map of a line: of two columns with one heading the later is kept.
Under(heads, vals, i) ==
    vals[Max({j \in DOMAIN heads \cap DOMAIN vals : heads[j] = heads[i]})]

\* What first may return: the map is searched in any order.
First(heads, vals, field) ==
    IF Columns(heads, vals, field) = {} THEN {Blank}
    ELSE {Under(heads, vals, i) : i \in Columns(heads, vals, field)}

RowFrom(heads, vals) ==
    {[code |-> code, unit |-> NavOf[unit], day |-> DayOf[day]] :
        code \in First(heads, vals, "code"),
        unit \in First(heads, vals, "unit"),
        day \in First(heads, vals, "day")}

-----------------------------------------------------------------------------
Init ==
    /\ headers = <<>>
    /\ out = <<>>
    /\ lines = 0
    /\ head = <<>>
    /\ from = <<>>

\* Mutant of NewTable: the headings of the table before stay in force.
NewTableKeepingHeaders ==
    /\ head # <<>>
    /\ head' = <<>>
    /\ UNCHANGED <<headers, out, lines, from>>

NewTable ==
    /\ head # <<>>
    /\ headers' = <<>>
    /\ head' = <<>>
    /\ UNCHANGED <<out, lines, from>>

\* A line with a heading of the product code in it holds headings.
ReadHeader(vals) ==
    /\ LooksLikeHeader(vals)
    /\ headers' = vals
    /\ head' = vals
    /\ UNCHANGED <<out, from>>

\* Lines before the headings, and lines without a code, are passed over.
ReadRow(vals) ==
    /\ ~ LooksLikeHeader(vals)
    /\ IF headers = <<>> THEN UNCHANGED <<out, from>>
       ELSE \E row \in RowFrom(headers, vals) :
              IF row.code = Blank THEN UNCHANGED <<out, from>>
              ELSE /\ out' = Append(out, row)
                   /\ from' = Append(from, [head |-> head, vals |-> vals])
    /\ UNCHANGED <<headers, head>>

ReadLine ==
    /\ lines < MaxLines
    /\ lines' = lines + 1
    /\ \E vals \in Lines : ReadHeader(vals) \/ ReadRow(vals)

Next == NewTable \/ ReadLine

Spec == Init /\ [][Next]_vars

-----------------------------------------------------------------------------
(* What is done with the rows of a page. *)

NothingPicked == [row |-> [code |-> Blank, unit |-> NoNav, day |-> NoDay],
                  found |-> FALSE, hasUnit |-> FALSE]

\* Mutant of PickProductRow: the first row with a unit NAV is kept.
PickFirstRow(rows, code) ==
    LET step(p, row) ==
          IF UpperOf[row.code] # code \/ row.day = NoDay \/ p.hasUnit THEN p
          ELSE [row |-> row, found |-> TRUE, hasUnit |-> row.unit # NoNav]
    IN FoldLeft(step, NothingPicked, rows)

\* pickProductRow: the last dated row of the product, one with a unit NAV
\* before one without.  The code is in upper case, that of a row need not be.
PickProductRow(rows, code) ==
    LET step(p, row) ==
          IF UpperOf[row.code] # code \/ row.day = NoDay THEN p
          ELSE IF p.hasUnit /\ row.unit = NoNav THEN p
          ELSE [row |-> row, found |-> TRUE, hasUnit |-> row.unit # NoNav]
    IN FoldLeft(step, NothingPicked, rows)

\* The loop of a crawl over the rows of a page, without failures: the rows that
\* end up in nav_snapshot and the ones that the map obs holds.
CrawlRow(s, row) ==
    IF \/ row.day = NoDay
       \/ row.unit = NoNav /\ \E o \in s.obs : o.code = row.code
    THEN s
    ELSE [snapshot |-> IF row.unit = NoNav THEN s.snapshot
                       ELSE {n \in s.snapshot : n.code # row.code \/ n.day # row.day}
                              \cup {row},
          obs |-> {o \in s.obs : o.code # row.code} \cup {row}]

Crawled(rows) == FoldLeft(CrawlRow, [snapshot |-> {}, obs |-> {}], rows)

-----------------------------------------------------------------------------
\* Every row says what stands under the last headings of the table in whose walk
\* it is read, whatever tables and lines came before it and in whatever order its
\* map is searched; what its line is too short for is missing.
RowsUnderOwnHead ==
    \A k \in DOMAIN out :
        LET heads == from[k].head
            vals == from[k].vals
            Reads(field, value(_), none, read) ==
                /\ \A i \in Columns(heads, vals, field) : value(vals[i]) = read
                /\ Columns(heads, vals, field) = {} => read = none
        IN /\ Reads("code", LAMBDA t : t, Blank, out[k].code)
           /\ Reads("unit", LAMBDA t : NavOf[t], NoNav, out[k].unit)
           /\ Reads("day", LAMBDA t : DayOf[t], NoDay, out[k].day)

\* A refresh takes from a page what a crawl has taken from it, also when the
\* product is on it several times: it finds the products that the crawl has
\* observed, and the NAV it writes is the one that is there already.  A crawl
\* keeps a code as the page has it: of a product whose code is on the page in
\* other letters the refresh takes, and writes, what the crawl has under these.
RefreshAgreesWithCrawl ==
    LET crawled == Crawled(out)
    IN \A text \in Texts :
         LET code == UpperOf[text]
             p == PickProductRow(out, code)
             Of(row) == UpperOf[row.code] = code
         IN /\ p.found <=> \E o \in crawled.obs : Of(o)
            /\ p.hasUnit <=> \E n \in crawled.snapshot : Of(n)
            /\ p.hasUnit => p.row \in crawled.snapshot \cap crawled.obs /\ Of(p.row)
=============================================================================
