------------------------------- MODULE Catalog -------------------------------
(***************************************************************************)
(* The list of products of the API (handleProductCatalog): which products  *)
(* match, in which order, and which of them are on a page.                 *)
(*                                                                         *)
(* Product codes are numbers in their order; so are the names.  A search   *)
(* text stands for the set of the codes it is found in (catalogMatch).     *)
(***************************************************************************)
EXTENDS Pnl

CONSTANTS
    Codes,    \* product codes
    Windows,  \* CatalogWindows: the days of each sort key "ret_..."
    PageSize  \* page_size of Products.vue

ASSUME CatalogAssumption ==
    /\ Codes \subseteq Nat
    /\ IsFiniteSet(Codes)
    /\ Windows \in [DOMAIN Windows -> Nat \ {0}]
    /\ PageSize \in Nat \ {0}

\* A row of the table product, with the NAVs of its days.
Product == [name : Int, listed : BOOLEAN, navs : Seq(Nat)]

\* What is asked of the list.
Query == [q : SUBSET Codes, unlisted : BOOLEAN, desc : BOOLEAN, page : Nat \ {0},
          sort : DOMAIN Windows \cup {"code", "name", "listed", "latest_nav_date"}]

-----------------------------------------------------------------------------
\* Mutant of CmpNullLast: the values that are missing follow the order too.
CmpNullWithOrder(aOK, a, bOK, b, desc) ==
    IF aOK /\ bOK THEN (IF a = b THEN 0 ELSE IF (a > b) = desc THEN -1 ELSE 1)
    ELSE IF aOK = bOK THEN 0
    ELSE IF aOK = desc THEN -1 ELSE 1

\* Negative when a goes before b: by value, and without one behind the others,
\* whatever the direction.
CmpNullLast(aOK, a, bOK, b, desc) ==
    IF aOK /\ bOK THEN (IF a = b THEN 0 ELSE IF (a > b) = desc THEN -1 ELSE 1)
    ELSE IF aOK = bOK THEN 0
    ELSE IF aOK THEN -1 ELSE 1

Bit(b) == IF b THEN 1 ELSE 0

\* A number that a product always has.
Known(n) == [ok |-> TRUE, v |-> n]

\* What a product is sorted by: whether there is a value, and which.
SortValue(products, key, c) ==
    LET p == products[c]
    IN IF key \in DOMAIN Windows THEN
            LET ret == WindowPctE4(p.navs, Windows[key])
            IN [ok |-> ret.ok, v |-> ret.e4]
       ELSE IF key = "latest_nav_date" THEN
            LET day == LatestNavDay(p.navs)
            IN [ok |-> day # NoDay, v |-> day]
       ELSE IF key = "listed" THEN Known(Bit(p.listed))
       ELSE IF key = "name" THEN Known(p.name)
       ELSE Known(c)

\* Rows that compare equal are in the order of their codes.
Precedes(a, b, desc) ==
    LET cmp == CmpNullLast(a.value.ok, a.value.v, b.value.ok, b.value.v, desc)
    IN IF cmp # 0 THEN cmp < 0 ELSE a.code < b.code

Matching(products, query) ==
    {c \in query.q : query.unlisted \/ products[c].listed}

Rows(products, query) ==
    {[code |-> c, value |-> SortValue(products, query.sort, c)] :
        c \in Matching(products, query)}

\* The rows in their order.
SortCatalog(rows, desc) ==
    CHOOSE sorted \in [1..Cardinality(rows) -> rows] :
        \A i, j \in DOMAIN sorted : i < j => Precedes(sorted[i], sorted[j], desc)

\* The rows of one page, none behind the last one.
PageOf(sorted, total, page) ==
    LET start == Min({(page - 1) * PageSize, total})
        end   == Min({start + PageSize, total})
    IN SubSeq(sorted, start + 1, end)

HandleProductCatalog(products, query) ==
    LET total  == Cardinality(Matching(products, query))
        sorted == SortCatalog(Rows(products, query), query.desc)
    IN [items |-> PageOf(sorted, total, query.page),
        total |-> total]

Pages(total) == Max({1, (total + PageSize - 1) \div PageSize})
=============================================================================
