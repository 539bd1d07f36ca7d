----------------------------- MODULE CatalogPage -----------------------------
(***************************************************************************)
(* The page Products.vue over the list of products: the search text with   *)
(* its delay, the sort, the pager, and answers that arrive in any order.   *)
(* Each action is one event of the browser with the code that runs until   *)
(* the next await; watchers run before the next event.                     *)
(***************************************************************************)
EXTENDS Catalog

CONSTANTS
    Tables,      \* contents of the table product, with their NAVs
    Texts,       \* search texts: the codes each is found in
    SortKeys,    \* columns that the user sorts by
    InitialSort, \* the column that the page is sorted by at first
    MaxLoads     \* bound: requests sent

ASSUME PageAssumption ==
    /\ Tables \subseteq [Codes -> Product]
    /\ Texts \subseteq SUBSET Codes
    /\ InitialSort \in DOMAIN Windows
    /\ MaxLoads \in Nat \ {0}

VARIABLES
    products,  \* the table product; it does not change here
    query,     \* q, includeUnlisted, sort, order and page of the page
    timer,     \* qTimer is running
    seq,       \* number of the last request
    requests,  \* requests not answered yet: number and query
    loading,   \* loading
    err,       \* err is shown
    shown      \* items and total

vars == <<products, query, timer, seq, requests, loading, err, shown>>

Request == [n : 1..MaxLoads, query : Query]

-----------------------------------------------------------------------------
\* load() up to its await, with what the page asks for at this moment.
Load(asked) ==
    /\ seq < MaxLoads
    /\ query' = asked
    /\ seq' = seq + 1
    /\ requests' = requests \cup {[n |-> seq + 1, query |-> asked]}
    /\ loading' = TRUE
    /\ err' = FALSE
    /\ UNCHANGED <<products, shown>>

\* onMounted(load).
Init ==
    /\ products \in Tables
    /\ query = [q |-> Codes, unlisted |-> FALSE, desc |-> TRUE, page |-> 1,
                sort |-> InitialSort]
    /\ timer = FALSE
    /\ seq = 1
    /\ requests = {[n |-> 1, query |-> query]}
    /\ loading = TRUE
    /\ err = FALSE
    /\ shown = [items |-> <<>>, total |-> 0]

\* A change of the text starts the timer anew.
TypeText ==
    /\ \E text \in Texts : query' = [query EXCEPT !.q = text]
    /\ timer' = TRUE
    /\ UNCHANGED <<products, seq, requests, loading, err, shown>>

TimerFires ==
    /\ timer
    /\ timer' = FALSE
    /\ Load([query EXCEPT !.page = 1])

ToggleUnlisted ==
    /\ Load([query EXCEPT !.unlisted = ~ @, !.page = 1])
    /\ UNCHANGED timer

\* The table, and with it the heads of its columns, is on the page.
TableShown == ~ err /\ (loading \/ shown.items # <<>>)

ClickSort(key) ==
    /\ TableShown
    /\ Load([query EXCEPT
               !.sort = key,
               !.desc = IF key = query.sort THEN ~ @
                        ELSE key \in DOMAIN Windows \cup {"listed"},
               !.page = 1])
    /\ UNCHANGED timer

Prev ==
    /\ shown.total > PageSize
    /\ query.page > 1
    /\ Load([query EXCEPT !.page = @ - 1])
    /\ UNCHANGED timer

\* The button is off on the last page of what is shown.
NextPage ==
    /\ shown.total > PageSize
    /\ query.page < Pages(shown.total)
    /\ Load([query EXCEPT !.page = @ + 1])
    /\ UNCHANGED timer

\* Mutant of Answer: every answer is shown.
AnswerAny(r) ==
    /\ r \in requests
    /\ requests' = requests \ {r}
    /\ shown' = HandleProductCatalog(products, r.query)
    /\ loading' = (loading /\ r.n # seq)
    /\ UNCHANGED <<products, query, timer, seq, err>>

\* Mutant of Answer: only a request that is overtaken ends the loading.
AnswerStillLoading(r) ==
    /\ r \in requests
    /\ requests' = requests \ {r}
    /\ shown' = IF r.n = seq THEN HandleProductCatalog(products, r.query) ELSE shown
    /\ loading' = (loading /\ r.n = seq)
    /\ UNCHANGED <<products, query, timer, seq, err>>

\* load() after its await: an answer that is overtaken is dropped.
Answer(r) ==
    /\ r \in requests
    /\ requests' = requests \ {r}
    /\ shown' = IF r.n = seq THEN HandleProductCatalog(products, r.query) ELSE shown
    /\ loading' = (loading /\ r.n # seq)
    /\ UNCHANGED <<products, query, timer, seq, err>>

\* load() after its await failed.
Fail(r) ==
    /\ r \in requests
    /\ requests' = requests \ {r}
    /\ err' = (err \/ r.n = seq)
    /\ loading' = (loading /\ r.n # seq)
    /\ UNCHANGED <<products, query, timer, seq, shown>>

Settle == \E r \in requests : Answer(r) \/ Fail(r)

Next ==
    \/ TypeText
    \/ TimerFires
    \/ ToggleUnlisted
    \/ \E key \in SortKeys : ClickSort(key)
    \/ Prev
    \/ NextPage
    \/ Settle

\* Every request is answered or fails.
Spec == Init /\ [][Next]_vars /\ WF_vars(Settle)

-----------------------------------------------------------------------------
\* Type invariant.
TypeOK ==
    /\ products \in Tables
    /\ query \in Query
    /\ timer \in BOOLEAN
    /\ seq \in 1..MaxLoads
    /\ requests \subseteq Request
    /\ loading \in BOOLEAN
    /\ err \in BOOLEAN
    /\ shown.total \in Nat

\* When the page has come to rest it shows the rows that it asks for, whatever
\* the order in which the answers to its requests arrived.
ShownIsAsked ==
    ~ loading /\ ~ timer /\ ~ err =>
        shown = HandleProductCatalog(products, query)

\* The pages of a list as the user reads them, one after the other up to page m.
PageAt(table, asked, p) ==
    HandleProductCatalog(table, [asked EXCEPT !.page = p]).items

JoinedTo(table, asked, m) ==
    FoldLeft(LAMBDA rows, p : rows \o PageAt(table, asked, p), <<>>, [p \in 1..m |-> p])

\* What a product is sorted by: one value or none.
Values(table, key, c) ==
    LET navs == table[c].navs
        last == LatestNavDay(navs)
        from == {d \in NavDays(navs) : d <= last - Windows[key]}
    IN IF key \in DOMAIN Windows
       THEN (IF from = {} THEN {}
             ELSE {MulDivRound(navs[last] - navs[Max(from)], 10000, navs[Max(from)])})
       ELSE IF key = "latest_nav_date"
       THEN (IF NavDays(navs) = {} THEN {} ELSE {Max(NavDays(navs))})
       ELSE IF key = "listed" THEN {Bit(table[c].listed)}
       ELSE IF key = "name" THEN {table[c].name}
       ELSE {c}

\* Two products in the order asked for.
InOrder(table, asked, a, b) ==
    LET va == Values(table, asked.sort, a)
        vb == Values(table, asked.sort, b)
    IN \/ va # {} /\ vb = {}
       \/ \E x \in va, y \in vb : IF asked.desc THEN x > y ELSE x < y
       \/ va = vb /\ a < b

\* The pages of a list hold each matching product once, whatever it is sorted
\* by: products with a value in the order asked for, the others after them, and
\* those that compare equal by their codes, in both directions.
PagesAreTheList ==
    LET total == HandleProductCatalog(products, query).total
        list == JoinedTo(products, query, Pages(total))
    IN /\ Len(list) = Cardinality(Matching(products, query))
       /\ {row.code : row \in Range(list)} = Matching(products, query)
       /\ \A i, j \in DOMAIN list :
            i < j => InOrder(products, query, list[i].code, list[j].code)

\* The page never waits for good.
LoadingEnds == loading ~> ~ loading
=============================================================================
