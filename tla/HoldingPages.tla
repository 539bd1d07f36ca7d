---------------------------- MODULE HoldingPages ----------------------------
(***************************************************************************)
(* The pages that open and keep an account: NewHolding.vue with its lookup *)
(* of a product, and HoldingDetail.vue with its actions and its loads, in  *)
(* one tab of a browser.  A slot holds one run of an async function: it    *)
(* sends a request, waits, and goes on with the answer, while the user and *)
(* the other runs go on as well.  The server answers a request in one step *)
(* (module Ledger has the statements of its handlers); the same user also  *)
(* writes from elsewhere.                                                  *)
(***************************************************************************)
EXTENDS Integers, FiniteSets, FiniteSetsExt

CONSTANTS
    Runs,     \* bound: runs of async functions that are under way at once
    Products, \* product codes
    Typed,    \* what the box of the code may hold
    Empty,    \* the empty text
    Norm,     \* Norm[t]: t trimmed and in upper case
    Upper,    \* Upper[t]: t in upper case, not trimmed
    First,    \* First[k]: what may be known of the product k at the start
    Crawled,  \* the codes whose products a crawl changes
    MaxDay,   \* entries are dated 1..MaxDay
    MaxRows   \* bound: row ids of ledger_entry

ASSUME PagesAssumption ==
    /\ Products \cup {Empty} \subseteq Typed
    /\ Empty \notin Products
    /\ Norm \in [Typed -> Typed]
    /\ Upper \in [Typed -> Typed]
    /\ \A k \in Products \cup {Empty} : Norm[k] = k /\ Upper[k] = k
    /\ Crawled \subseteq Products
    /\ Runs \in Nat
    /\ MaxDay \in Nat \ {0}
    /\ MaxRows \in Nat

\* History: form.typed, the box was edited since the lookup; detail.disturbed,
\* actions of the page overlapped, or the account was written by others;
\* detail.removeFailed, the page was told of a removal that it failed, and no
\* action was taken since that reads the account again.
VARIABLES
    product,  \* what is known of each product
    holding,  \* codes for which the user has an account
    ledger,   \* rows of ledger_entry in these accounts
    page,     \* the page shown: "list", "new" or "detail"
    form,     \* the refs of NewHolding.vue
    detail,   \* the refs of HoldingDetail.vue
    fetch     \* the runs of async functions

serverVars == <<product, holding, ledger>>
holdingVars == <<serverVars, page, form, detail, fetch>>

Slots == 1..Runs

\* A product is fit for a first buy when it is listed and has a NAV.
Fitness == {"absent", "unfit", "fit"}

\* How a crawl changes what is known of a product: it is not forgotten.
Turns == {<<"absent", "unfit">>, <<"absent", "fit">>, <<"unfit", "fit">>, <<"fit", "unfit">>}

NoPreview == [code |-> Empty, product |-> "absent", existing |-> FALSE]

NewForm(text) ==
    [box |-> text, verified |-> Empty, preview |-> NoPreview,
     looking |-> FALSE, inflight |-> Empty, typed |-> FALSE]

NewDetail(text) ==
    [code |-> text, loaded |-> FALSE, ledger |-> {},
     err |-> FALSE, disturbed |-> FALSE, removeFailed |-> FALSE]

\* A run: what it waits for, of which code, which entry, whether its page is
\* still shown, whether it is the last lookup, the box of the page once that is
\* left, the list that was on the page, and the answer.
Run(what, text) ==
    [what |-> what, code |-> text, id |-> 0, live |-> TRUE, latest |-> FALSE,
     box |-> Empty, shown |-> {}, status |-> "sent", product |-> "absent",
     rows |-> {}]

NoRun == [Run("none", Empty) EXCEPT !.status = "done", !.live = FALSE]

\* The first slot that is free.
Free(s) == fetch[s] = NoRun /\ \A d \in 1..(s - 1) : fetch[d] # NoRun
Lookups == {s \in Slots : fetch[s].what \in {"product", "exists"}}
Submits == {s \in Slots : fetch[s].live /\ fetch[s].what = "create"}
Actions == {s \in Slots : fetch[s].live /\ fetch[s].what \notin {"product", "exists", "create"}}

-----------------------------------------------------------------------------
(* The server *)

RowsOf(k) == {e \in ledger : e.code = k}
Active(entries) == {e \in entries : ~ e.voided}
NewRowid == IF ledger = {} THEN 1 ELSE Max({e.id : e \in ledger}) + 1

\* InsertLedger, on whatever day the form says.
Insert(k) ==
    /\ NewRowid <= MaxRows
    /\ \E d \in 1..MaxDay :
         ledger' = ledger \cup {[id |-> NewRowid, code |-> k, day |-> d, voided |-> FALSE]}

\* LastActiveLedger: ORDER BY id DESC.
LastActive(k) ==
    {e \in Active(RowsOf(k)) : \A f \in Active(RowsOf(k)) : f.id <= e.id}

VoidRow(e) == ledger' = (ledger \ {e}) \cup {[e EXCEPT !.voided = TRUE]}

\* Of the request nothing is needed any more once it is answered, and what
\* comes after an action is the same for all.
Answered(s, status, known, rows) ==
    LET what == fetch[s].what
    IN fetch' = [fetch EXCEPT ![s] =
           [@ EXCEPT !.what = IF what \in {"write", "void", "refresh"} THEN "acted" ELSE what,
                     !.status = status, !.product = known, !.rows = rows,
                     !.id = 0, !.shown = {}]]

Refuse(s, status) ==
    /\ Answered(s, status, fetch[s].product, {})
    /\ UNCHANGED serverVars

\* handleProduct, handleGetHolding and handleHoldingPnl.
ServeRead(s) ==
    LET k == fetch[s].code
        known == IF k \in Products THEN product[k] ELSE "absent"
        found == IF fetch[s].what = "product" THEN known # "absent" ELSE k \in holding
    IN /\ fetch[s].what \in {"product", "exists", "get", "pnl"}
       /\ CASE ~ found -> Answered(s, IF fetch[s].what = "exists" THEN "notfound" ELSE "failed",
                                  fetch[s].product, {})
            [] found /\ fetch[s].what = "product" -> Answered(s, "ok", known, {})
            [] found /\ fetch[s].what = "exists" -> Answered(s, "ok", fetch[s].product, {})
            [] found /\ fetch[s].what = "get" -> Answered(s, "ok", "absent", RowsOf(k))
            [] found /\ fetch[s].what = "pnl" -> Answered(s, "ok", "absent", {})
       /\ UNCHANGED serverVars

\* handleCreateHolding: the code is trimmed and in upper case.
ServeCreate(s) ==
    LET k == Norm[fetch[s].code]
    IN /\ fetch[s].what = "create"
       /\ IF k \in Products \ holding /\ product[k] = "fit"
          THEN /\ Insert(k)
               /\ holding' = holding \cup {k}
               /\ Answered(s, "ok", "absent", {})
               /\ UNCHANGED product
          ELSE Refuse(s, "failed")

\* handleBuy and handleRedeem; what they refuse depends on amounts.
ServeWrite(s) ==
    LET k == fetch[s].code
    IN /\ fetch[s].what = "write"
       /\ \/ /\ k \in holding
             /\ Insert(k)
             /\ Answered(s, "ok", "absent", {})
             /\ UNCHANGED <<product, holding>>
          \/ Refuse(s, "failed")

\* What handleVoid voids: the last active entry, if that is the one named.
Voidable(s) == {e \in LastActive(fetch[s].code) : e.id = fetch[s].id}

ServeVoid(s) ==
    LET last == Voidable(s)
    IN /\ fetch[s].what = "void"
       /\ IF last = {} THEN Refuse(s, "failed")
          ELSE /\ \E e \in last : VoidRow(e)
               /\ Answered(s, "ok", "absent", {})
               /\ UNCHANGED <<product, holding>>

\* handleRefreshHolding; a refresh that fails may have written the product.
ServeRefresh(s) ==
    LET k == fetch[s].code
    IN /\ fetch[s].what = "refresh"
       /\ \/ /\ k \in holding
             /\ \E known \in Fitness :
                  /\ known = product[k] \/ (k \in Crawled /\ <<product[k], known>> \in Turns)
                  /\ product' = [product EXCEPT ![k] = known]
             /\ \E status \in {"ok", "failed"} : Answered(s, status, "absent", {})
             /\ UNCHANGED <<holding, ledger>>
          \/ k \notin holding /\ Refuse(s, "failed")

DeleteAccount(k) ==
    /\ holding' = holding \ {k}
    /\ ledger' = ledger \ RowsOf(k)
    /\ UNCHANGED product

\* handleDeleteHolding
ServeDelete(s) ==
    LET k == fetch[s].code
    IN /\ fetch[s].what = "delete"
       /\ IF k \in holding THEN DeleteAccount(k) /\ Answered(s, "ok", "absent", {})
                           ELSE Refuse(s, "failed")

Serve(s) ==
    /\ fetch[s].status = "sent"
    /\ \/ ServeRead(s)  \/ ServeCreate(s)  \/ ServeWrite(s)
       \/ ServeVoid(s)  \/ ServeRefresh(s) \/ ServeDelete(s)
    /\ UNCHANGED <<page, form, detail>>

\* The request or its answer is lost, or the server answers 500; a request that
\* the browser has given up is not served afterwards.
Lose(s) ==
    /\ fetch[s].status \notin {"done", "failed"}
    /\ Answered(s, "failed", "absent", {})
    /\ UNCHANGED <<serverVars, page, form, detail>>

\* A crawl changes what is known of a product.
Crawl(k) ==
    /\ \E known \in Fitness : /\ <<product[k], known>> \in Turns
                            /\ product' = [product EXCEPT ![k] = known]
    /\ UNCHANGED <<holding, ledger, page, form, detail, fetch>>

\* The user adds or voids an entry, or deletes the account, in another tab.
\* Bound: while some account is shown.
WriteElsewhere(k) ==
    /\ k \in holding
    /\ page = "detail"
    /\ \/ Insert(k) /\ UNCHANGED <<product, holding>>
       \/ \E e \in LastActive(k) : VoidRow(e) /\ UNCHANGED <<product, holding>>
       \/ DeleteAccount(k)
    /\ detail' = [detail EXCEPT !.disturbed = TRUE]
    /\ UNCHANGED <<page, form, fetch>>

-----------------------------------------------------------------------------
(* The router *)

\* A page is left: nobody waits for what its runs have read, and its box stays
\* as it is (bound: a lookup and a submit are not both under way).
Left == [s \in Slots |->
            IF fetch[s].what \in {"product", "exists", "acted", "get", "pnl"}
            THEN NoRun
            ELSE IF ~ fetch[s].live THEN fetch[s]
            ELSE [fetch[s] EXCEPT !.live = FALSE, !.box = form.box]]

\* Bound: the user waits for what a page writes before leaving it.
Writes == {"create", "write", "void", "delete"}
Unwritten == \A s \in Slots : fetch[s].what \notin Writes

ToList(left) ==
    /\ page' = "list"
    /\ form' = NewForm(Empty)
    /\ detail' = NewDetail(Empty)
    /\ fetch' = left

OpenList ==
    /\ page # "list"
    /\ Unwritten
    /\ ToList(Left)
    /\ UNCHANGED serverVars

\* The page mounts, and onMounted runs load in the slot s.
Mounts(s, text, left) ==
    /\ page' = "detail"
    /\ form' = NewForm(Empty)
    /\ detail' = [NewDetail(text) EXCEPT !.disturbed =
                     \E d \in Slots \ {s} : left[d].what \in Writes]
    /\ fetch' = [left EXCEPT ![s] = Run("get", text)]

OpenDetail(s, k) ==
    /\ page # "detail"
    /\ Unwritten
    /\ Free(s)
    /\ Mounts(s, k, Left)
    /\ UNCHANGED serverVars

\* The lookup begins for the code that the box stands for.
Begins(s, k, f, runs) ==
    /\ form' = [f EXCEPT !.looking = TRUE, !.inflight = k]
    /\ fetch' = [[d \in Slots |-> [runs[d] EXCEPT !.latest = FALSE]]
                 EXCEPT ![s] = [Run("product", k) EXCEPT !.latest = TRUE]]

\* onMounted: with a code in the address the lookup begins at once.
OpenNew(s, k) ==
    /\ page = "list"
    /\ Free(s)
    /\ page' = "new"
    /\ detail' = NewDetail(Empty)
    /\ \/ form' = NewForm(k) /\ fetch' = Left
       \/ Begins(s, k, NewForm(k), Left)
    /\ UNCHANGED serverVars

-----------------------------------------------------------------------------
(* NewHolding.vue *)

\* Mutant of Watched: what was found stays although the code is another one.
WatchedNever(f) == f

\* watch(product_code), after the box has changed.
Watched(f) ==
    IF Norm[f.box] = f.verified THEN f
    ELSE [f EXCEPT !.verified = Empty, !.preview = NoPreview]

Type(text) ==
    /\ page = "new"
    /\ text # form.box
    /\ form' = Watched([form EXCEPT !.box = text, !.typed = TRUE])
    /\ UNCHANGED <<serverVars, page, detail, fetch>>

\* lookup, when the box is left or its button is pressed.
Lookup(s) ==
    LET k == Norm[form.box]
    IN /\ page = "new"
       /\ Free(s)
       /\ k # Empty
       /\ form.verified # k
       /\ ~ (form.looking /\ form.inflight = k)
       /\ Begins(s, k, form, fetch)
       /\ UNCHANGED <<serverVars, page, detail>>

\* lookup of an empty box forgets what was looked up.
LookupNothing ==
    /\ page = "new"
    /\ Norm[form.box] = Empty
    /\ form' = [form EXCEPT !.looking = FALSE, !.inflight = Empty,
                            !.verified = Empty, !.preview = NoPreview]
    /\ fetch' = [s \in Slots |-> [fetch[s] EXCEPT !.latest = FALSE]]
    /\ UNCHANGED <<serverVars, page, detail>>

Idle(f) == [f EXCEPT !.looking = FALSE, !.inflight = Empty]

\* Mutant of Looked: an old answer is taken like the last one.
LookedAlways(s) ==
    IF fetch[s].status \in {"ok", "notfound"}
    THEN Idle([form EXCEPT !.box = fetch[s].code, !.verified = fetch[s].code, !.typed = @ /\ Submits # {},
                           !.preview = [code |-> fetch[s].code, product |-> fetch[s].product,
                                        existing |-> fetch[s].status = "ok"]])
    ELSE Idle([form EXCEPT !.verified = Empty, !.preview = NoPreview])

\* The refs once a lookup has its last answer: only the last lookup counts.
\* That there is no account is an answer; a product that is not there is not.
Looked(s) ==
    IF ~ fetch[s].latest THEN form
    ELSE IF fetch[s].what = "exists" /\ fetch[s].status \in {"ok", "notfound"}
    THEN Idle([form EXCEPT !.box = fetch[s].code, !.verified = fetch[s].code, !.typed = @ /\ Submits # {},
                           !.preview = [code |-> fetch[s].code, product |-> fetch[s].product,
                                        existing |-> fetch[s].status = "ok"]])
    ELSE Idle([form EXCEPT !.verified = Empty, !.preview = NoPreview])

\* lookup after an await; the box may now hold another code than was asked for.
TakeLookup(s) ==
    /\ s \in Lookups
    /\ fetch[s].status \notin {"sent", "done"}
    /\ IF fetch[s].what = "product" /\ fetch[s].status = "ok" /\ fetch[s].latest
       THEN /\ fetch' = [fetch EXCEPT ![s] = [@ EXCEPT !.what = "exists", !.status = "sent", !.rows = {}]]
            /\ UNCHANGED form
       ELSE /\ fetch' = [fetch EXCEPT ![s] = NoRun]
            /\ form' = Watched(Looked(s))
    /\ UNCHANGED <<serverVars, page, detail>>

canSubmit ==
    /\ Norm[form.box] # Empty
    /\ form.verified = Norm[form.box]
    /\ ~ form.looking
    /\ form.preview.product = "fit"
    /\ ~ form.preview.existing

\* submit; nothing keeps the button from being pressed twice.
Submit(s) ==
    /\ page = "new"
    /\ Free(s)
    /\ canSubmit
    /\ fetch' = [fetch EXCEPT ![s] = Run("create", form.box)]
    /\ UNCHANGED <<serverVars, page, form, detail>>

\* submit after its await opens the page of the code that the box holds now,
\* even when the form has been left; a detail page that is there stays.  The
\* address of an empty code is that of the list.
TakeCreate(s) ==
    LET text == Upper[IF fetch[s].live THEN form.box ELSE fetch[s].box]
        target == IF text = Empty THEN "list" ELSE "detail"
    IN /\ fetch[s].what = "create"
       /\ fetch[s].status \notin {"sent", "done"}
       /\ IF fetch[s].status = "ok" /\ page # target
          THEN IF text = Empty THEN ToList([Left EXCEPT ![s] = NoRun])
                               ELSE Mounts(s, text, Left)
          ELSE /\ fetch' = [fetch EXCEPT ![s] = NoRun]
               /\ UNCHANGED <<page, form, detail>>
       /\ UNCHANGED serverVars

-----------------------------------------------------------------------------
(* HoldingDetail.vue *)

\* An action of the page sends its request.  All but remove clear err and, when
\* they succeed, read the account again.
Act(s, run, reloads) ==
    /\ page = "detail"
    /\ detail.loaded
    /\ Free(s)
    /\ fetch' = [fetch EXCEPT ![s] = run]
    /\ detail' = [detail EXCEPT
                     !.err = @ /\ ~ reloads, !.removeFailed = @ /\ ~ reloads,
                     !.disturbed = (@ /\ ~ reloads) \/ \E d \in Slots : fetch[d] # NoRun]
    /\ UNCHANGED <<serverVars, page, form>>

\* buy, whose button needs a listed product, and redeem.
Write(s) == Act(s, Run("write", detail.code), TRUE)

\* Mutant of LastShown: voided entries are not passed over.
LastShownOfAll(entries) ==
    {e \in entries : \A f \in entries : f.day < e.day \/ (f.day = e.day /\ f.id <= e.id)}

\* The last entry, in the order of the list, that is not voided.
LastShown(entries) ==
    {e \in Active(entries) :
        \A f \in Active(entries) : f.day < e.day \/ (f.day = e.day /\ f.id <= e.id)}

\* voidLast
VoidLast(s) ==
    \E e \in LastShown(detail.ledger) :
        Act(s, [Run("void", detail.code) EXCEPT !.id = e.id, !.shown = detail.ledger], TRUE)

\* refreshProduct
Refresh(s) == Act(s, Run("refresh", detail.code), TRUE)

RemoveAccount(s) == Act(s, Run("delete", detail.code), FALSE)

\* The page has an answer that it can do nothing with.
Fails(s) ==
    /\ fetch' = [fetch EXCEPT ![s] = NoRun]
    /\ detail' = [detail EXCEPT !.err = @ \/ fetch[s].live]

\* Mutant of TakeAct: the page is not loaded again.
TakeActAlone(s) ==
    /\ fetch[s].what = "acted"
    /\ IF fetch[s].status = "ok" /\ fetch[s].live
       THEN fetch' = [fetch EXCEPT ![s] = NoRun] /\ UNCHANGED detail
       ELSE Fails(s)
    /\ UNCHANGED <<serverVars, page, form>>

\* buy, redeem, voidLast and refreshProduct after the await of their request.
TakeAct(s) ==
    /\ fetch[s].what = "acted"
    /\ IF fetch[s].status = "ok" /\ fetch[s].live
       THEN /\ fetch' = [fetch EXCEPT ![s] = Run("get", detail.code)]
            /\ UNCHANGED detail
       ELSE Fails(s)
    /\ UNCHANGED <<serverVars, page, form>>

\* load after each of its two awaits.
TakeLoad(s) ==
    /\ fetch[s].what \in {"get", "pnl"}
    /\ fetch[s].status \notin {"sent", "done"}
    /\ IF fetch[s].status # "ok" THEN Fails(s)
       ELSE IF fetch[s].what = "get"
       THEN /\ fetch' = [fetch EXCEPT ![s] = Run("pnl", detail.code)]
            /\ detail' = [detail EXCEPT !.loaded = TRUE, !.ledger = fetch[s].rows]
       ELSE /\ fetch' = [fetch EXCEPT ![s] = NoRun]
            /\ UNCHANGED detail
    /\ UNCHANGED <<serverVars, page, form>>

\* remove after its await; nothing catches a failure, and the page stays as it
\* is, without an error, also when the account has been deleted.
TakeRemove(s) ==
    /\ fetch[s].what = "delete"
    /\ fetch[s].status \notin {"sent", "done"}
    /\ IF fetch[s].status = "ok" /\ page # "list"
       THEN ToList([Left EXCEPT ![s] = NoRun])
       ELSE /\ fetch' = [fetch EXCEPT ![s] = NoRun]
            /\ detail' = [detail EXCEPT !.removeFailed = @ \/ fetch[s].live]
            /\ UNCHANGED <<page, form>>
    /\ UNCHANGED serverVars

-----------------------------------------------------------------------------
HoldingInit ==
    /\ product \in [Products -> Fitness]
    /\ \A k \in Products : product[k] \in First[k]
    /\ holding = {}
    /\ ledger = {}
    /\ page = "list"
    /\ form = NewForm(Empty)
    /\ detail = NewDetail(Empty)
    /\ fetch = [s \in Slots |-> NoRun]

Take(s) ==
    \/ TakeLookup(s) \/ TakeCreate(s) \/ TakeAct(s) \/ TakeLoad(s) \/ TakeRemove(s)

HoldingNext ==
    \/ \E s \in Slots :
         \/ Serve(s)
         \/ Lose(s)
         \/ Take(s)
         \/ \E k \in Products : OpenDetail(s, k) \/ OpenNew(s, k)
         \/ Lookup(s)
         \/ Submit(s)
         \/ Write(s)
         \/ VoidLast(s)
         \/ Refresh(s)
         \/ RemoveAccount(s)
    \/ OpenList
    \/ LookupNothing
    \/ \E text \in Typed : Type(text)
    \/ \E k \in Crawled : Crawl(k)
    \/ \E k \in Products : WriteElsewhere(k)

HoldingSpec == HoldingInit /\ [][HoldingNext]_holdingVars

-----------------------------------------------------------------------------
\* What the form shows of a product is the product of the code in its box, and
\* it is busy exactly while the last lookup is under way, whatever is typed and
\* in whatever order the lookups are answered.
PreviewIsOfBox ==
    page = "new" =>
        /\ form.verified = form.preview.code
        /\ form.verified # Empty => Norm[form.box] = form.verified
        /\ form.looking <=> \E s \in Lookups : fetch[s].latest /\ fetch[s].code = form.inflight

\* When nothing is typed from the answer of the lookup to that of the submit,
\* the page that submit opens is the one of the account that it created.
PushesPosted ==
    [][\A s \in Slots :
         /\ fetch[s].what = "create"
         /\ fetch[s].live
         /\ ~ form.typed
         /\ fetch'[s].what = "get"
         => detail'.code = Norm[fetch[s].code]]_fetch

\* A page whose actions were taken one at a time shows, when it waits for
\* nothing and shows no error, the account as it is, unless that was changed
\* from elsewhere.  After a removal of which it was told that it failed, the page
\* may go on showing an account that is gone; one that is there it shows as it is.
DetailCurrent ==
    page = "detail" /\ Actions = {} /\ ~ detail.disturbed /\ ~ detail.err =>
        \/ detail.ledger = RowsOf(detail.code)
        \/ detail.removeFailed /\ detail.code \notin holding

\* An entry of the account is dated before an entry written earlier.
DatedBack(entries) == \E e, f \in entries : e.id < f.id /\ f.day < e.day

\* The button that voids the last entry names the one that the server lets it
\* void, unless the account is no longer the one shown, or an entry is dated back.
VoidAccepted ==
    \A s \in Slots :
        /\ fetch[s].what = "void"
        /\ fetch[s].status = "sent"
        /\ fetch[s].shown = RowsOf(fetch[s].code)
        /\ ~ DatedBack(Active(fetch[s].shown))
        => Voidable(s) # {}
=============================================================================
