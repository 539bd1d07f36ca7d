------------------------------- MODULE Ledger -------------------------------
(***************************************************************************)
(* The write side of the holding accounts: the tables holding and          *)
(* ledger_entry, and the HTTP handlers that write them (writeBuy,          *)
(* handleRedeem, handleVoid, handleDeleteHolding).                         *)
(*                                                                         *)
(* The database handle is opened with one connection (db.go), so that one  *)
(* SQL statement is atomic; a handler issues several of them outside any   *)
(* transaction, so that the statements of two requests interleave.  Each   *)
(* action is one SQL statement with the Go code that runs up to the next   *)
(* one.  The model has one product, so an account is identified by its     *)
(* user; a NAV only decides how many shares an amount of cash is, so an    *)
(* entry keeps its shares and not its cash (the module Replay has both).   *)
(***************************************************************************)
EXTENDS Integers, FiniteSets, FiniteSetsExt

CONSTANTS
    Users,        \* registered users
    Requests,     \* HTTP requests that can be in progress at one time
    Ops,          \* Ops[r]: the operations the client behind r asks for
    Shares,       \* shares of a buy, or of a redemption by shares or amount
    MaxDay,       \* bound: the natural days 1..MaxDay
    MaxLag,       \* how many days before today a client dates an entry
    MaxEntries,   \* bound: row ids of ledger_entry
    MaxAccounts,  \* bound: row ids of holding
    Crashes,      \* TRUE: the server may stop and restart at any point
    WriteFaults,  \* TRUE: a statement that writes may fail (I/O error)
    Delisting     \* TRUE: crawls change whether the product is listed

OpNames == {"create", "append", "redeem", "void", "delete"}

ASSUME OpsAssumption == Ops \in [Requests -> SUBSET OpNames]
ASSUME SharesAssumption == Shares \subseteq Nat \ {0}
ASSUME DaysAssumption == MaxDay \in Nat \ {0} /\ MaxLag \in Nat
ASSUME FaultsAssumption ==
    /\ Crashes \in BOOLEAN
    /\ WriteFaults \in BOOLEAN
    /\ Delisting \in BOOLEAN

VARIABLES
    today,    \* the natural day of the server's clock
    listed,   \* product.listed
    holding,  \* rows of the table holding
    ledger,   \* rows of the table ledger_entry
    req,      \* req[r]: where the handler of r is, and its local variables
    stranded  \* history: empty accounts whose first buy was given up

vars == <<today, listed, holding, ledger, req, stranded>>

Kinds == {"buy", "redeem"}
Steps == {"lookup", "create", "insert", "cleanup", "redeem", "void",
          "mark", "delete"}

\* A row id no table uses: the value of a local variable not yet assigned.
NoRow == 0

Idle == [pc |-> "idle"]

Handler == [pc : Steps, op : OpNames, user : Users, day : 1..MaxDay,
            shares : Nat, h : Nat, target : Nat]

HoldingRow == [id : Nat, user : Users]

\* The field "by" is not a column: it records for whom the row was written.
LedgerRow == [id : Nat, holding : Nat, kind : Kinds, day : 1..MaxDay,
              shares : Nat, voided : BOOLEAN, by : Users]

-----------------------------------------------------------------------------
(* The tables and the queries on them. *)

IdsOf(table) == {row.id : row \in table}

\* INTEGER PRIMARY KEY without AUTOINCREMENT: one more than the largest id in
\* use, so that the id of the last row is used again once that row is gone.
NewRowid(table) == IF table = {} THEN 1 ELSE Max(IdsOf(table)) + 1

HoldingByUserCode(u) == {row \in holding : row.user = u}

ListLedger(h) == {e \in ledger : e.holding = h}

Active(entries) == {e \in entries : ~e.voided}

\* ORDER BY occur_date, id
Precedes(e, f) == e.day < f.day \/ (e.day = f.day /\ e.id < f.id)

SharesAfter(entries) ==
    MapThenSumSet(LAMBDA e : IF e.kind = "buy" THEN e.shares ELSE -e.shares,
                  entries)

SharesBefore(e, entries) == SharesAfter({f \in entries : Precedes(f, e)})

\* pnl.Replay returns no error: each redemption, at its place in the order of
\* the list, finds a non-empty account with enough shares.
Replays(entries) ==
    \A e \in Active(entries) :
        e.kind = "redeem" =>
            /\ e.shares <= SharesBefore(e, Active(entries))
            /\ SharesBefore(e, Active(entries)) # 0

\* Mutant of Remaining: voided entries still count.
RemainingOfAll(entries) == SharesAfter(entries)

Remaining(entries) == SharesAfter(Active(entries))

-----------------------------------------------------------------------------
(* Statements that write. *)

Goto(r, handler) == req' = [req EXCEPT ![r] = handler]

Reply(r) == Goto(r, Idle)

WithId(h) == {row \in holding : row.id = h}

\* The account has no entry and nobody is left to write its first buy.
GiveUp(rows) == stranded' = stranded \cup {row \in rows : ListLedger(row.id) = {}}

\* DELETE FROM holding, with ON DELETE CASCADE.
DeleteHolding(h) ==
    /\ holding' = {row \in holding : row.id # h}
    /\ ledger' = {e \in ledger : e.holding # h}
    /\ stranded' = stranded \ WithId(h)

\* The statement returns an error; the tables stay as they are.
WriteFails ==
    /\ WriteFaults
    /\ UNCHANGED <<holding, ledger>>

\* Mutant of InsertLedger: the operation is stored as the kind of the entry.
InsertLedgerOfOp(q) ==
    ledger' = ledger \cup
         {[id |-> NewRowid(ledger), holding |-> q.h, kind |-> q.op,
           day |-> q.day, shares |-> q.shares, voided |-> FALSE,
           by |-> q.user]}

InsertLedger(q) ==
    LET kind == IF q.op = "redeem" THEN "redeem" ELSE "buy"
    IN ledger' = ledger \cup
         {[id |-> NewRowid(ledger), holding |-> q.h, kind |-> kind,
           day |-> q.day, shares |-> q.shares, voided |-> FALSE,
           by |-> q.user]}

-----------------------------------------------------------------------------
Init ==
    /\ today = 1
    /\ listed = TRUE
    /\ holding = {}
    /\ ledger = {}
    /\ stranded = {}
    /\ req = [r \in Requests |-> Idle]

InProgress == {r \in Requests : req[r] # Idle}

\* Bound: an accepted request still finds a row id within the bound.
Room(table, bound) == NewRowid(table) + Cardinality(InProgress) <= bound

\* normOccur and the test occur > today, for clients that date no entry more
\* than MaxLag days back.
OccurDays == {d \in 1..MaxDay : d <= today /\ today <= d + MaxLag}

\* writeBuy reads the product, the listing gate passes and the amount, the day
\* and the shares are valid (a refused request changes nothing).
BuyStart(r) ==
    /\ req[r] = Idle
    /\ Room(ledger, MaxEntries)
    /\ listed
    /\ \E op \in {"create", "append"} \cap Ops[r], u \in Users,
          d \in OccurDays, s \in Shares :
         /\ op = "create" => Room(holding, MaxAccounts)
         /\ Goto(r, [pc |-> "lookup", op |-> op, user |-> u, day |-> d,
                     shares |-> s, h |-> NoRow, target |-> NoRow])
    /\ UNCHANGED <<today, listed, holding, ledger, stranded>>

\* writeBuy reads the holding: a first buy needs none, an append needs one.
BuyLookup(r) ==
    /\ req[r].pc = "lookup"
    /\ LET mine == HoldingByUserCode(req[r].user)
       IN \/ /\ mine = {}
             /\ req[r].op = "create"
             /\ Goto(r, [req[r] EXCEPT !.pc = "create"])
          \/ /\ req[r].op = "append"
             /\ \E row \in mine :
                  Goto(r, [req[r] EXCEPT !.pc = "insert", !.h = row.id])
          \/ /\ (mine = {}) <=> (req[r].op = "append")
             /\ Reply(r)
    /\ UNCHANGED <<today, listed, holding, ledger, stranded>>

\* Mutant of CreateHolding: the table has no UNIQUE constraint.
CreateHoldingNotUnique(r) ==
    /\ req[r].pc = "create"
    /\ holding' = holding \cup
         {[id |-> NewRowid(holding), user |-> req[r].user]}
    /\ Goto(r, [req[r] EXCEPT !.pc = "insert", !.h = NewRowid(holding)])
    /\ UNCHANGED <<today, listed, ledger, stranded>>

\* CreateHolding, under UNIQUE (user_id, product_code).
CreateHolding(r) ==
    /\ req[r].pc = "create"
    /\ \/ /\ HoldingByUserCode(req[r].user) = {}
          /\ holding' = holding \cup
               {[id |-> NewRowid(holding), user |-> req[r].user]}
          /\ Goto(r, [req[r] EXCEPT !.pc = "insert",
                                    !.h = NewRowid(holding)])
       \/ /\ HoldingByUserCode(req[r].user) # {} \/ WriteFaults
          /\ Reply(r)
          /\ UNCHANGED holding
    /\ UNCHANGED <<today, listed, ledger, stranded>>

\* Mutant of Insert: a first buy that fails leaves its holding.
InsertWithoutCleanup(r) ==
    /\ req[r].pc = "insert"
    /\ \/ /\ req[r].h \in IdsOf(holding)
          /\ InsertLedger(req[r])
          /\ stranded' = stranded \ WithId(req[r].h)
       \/ /\ req[r].h \notin IdsOf(holding) \/ WriteFaults
          /\ UNCHANGED <<ledger, stranded>>
    /\ Reply(r)
    /\ UNCHANGED <<today, listed, holding>>

\* InsertLedger for a buy or a redemption.  It fails when the holding is gone
\* (foreign key) or on an I/O error; a first buy then removes its holding.
Insert(r) ==
    /\ req[r].pc = "insert"
    /\ \/ /\ req[r].h \in IdsOf(holding)
          /\ InsertLedger(req[r])
          /\ stranded' = stranded \ WithId(req[r].h)
          /\ Reply(r)
       \/ /\ req[r].h \notin IdsOf(holding) \/ WriteFaults
          /\ IF req[r].op = "create"
             THEN Goto(r, [req[r] EXCEPT !.pc = "cleanup"])
             ELSE Reply(r)
          /\ UNCHANGED <<ledger, stranded>>
    /\ UNCHANGED <<today, listed, holding>>

\* DeleteHolding after a failed first buy.  Its error is ignored: when it fails
\* as well, the account stays, without an entry.
Cleanup(r) ==
    /\ req[r].pc = "cleanup"
    /\ \/ DeleteHolding(req[r].h)
       \/ /\ WriteFails
          /\ GiveUp(HoldingByUserCode(req[r].user) \cap WithId(req[r].h))
    /\ Reply(r)
    /\ UNCHANGED <<today, listed>>

\* handleRedeem, handleVoid and handleDeleteHolding first read the holding.
HoldingLookup(r) ==
    /\ req[r] = Idle
    /\ \E op \in {"redeem", "void", "delete"} \cap Ops[r], u \in Users :
         \E row \in HoldingByUserCode(u),
            d \in IF op = "redeem" THEN OccurDays ELSE {today} :
           /\ op = "redeem" => Room(ledger, MaxEntries)
           /\ Goto(r, [pc |-> op, op |-> op, user |-> u, day |-> d,
                       shares |-> 0, h |-> row.id, target |-> NoRow])
    /\ UNCHANGED <<today, listed, holding, ledger, stranded>>

\* handleRedeem reads and replays the ledger.  A redemption asks for all
\* shares, for a number of shares, or for an amount, which may round down to
\* no share at all.
RedeemCheck(r) ==
    /\ req[r].pc = "redeem"
    /\ LET entries == ListLedger(req[r].h)
           remaining == Remaining(entries)
           redeemable == Replays(entries) /\ remaining > 0
       IN \/ /\ redeemable
             /\ \E s \in 0..remaining :
                  /\ s \in Shares \cup {0, remaining}
                  /\ Goto(r, [req[r] EXCEPT !.pc = "insert", !.shares = s])
          \/ /\ ~redeemable \/ \E s \in Shares : s > remaining
             /\ Reply(r)
    /\ UNCHANGED <<today, listed, holding, ledger, stranded>>

\* Mutant of VoidCheck: the entry named need not be the last one.
VoidCheckAny(r) ==
    /\ req[r].pc = "void"
    /\ \/ \E e \in Active(ListLedger(req[r].h)) :
             Goto(r, [req[r] EXCEPT !.pc = "mark", !.target = e.id])
       \/ Reply(r)
    /\ UNCHANGED <<today, listed, holding, ledger, stranded>>

\* handleVoid reads the last active entry: the one with the largest id.  The
\* client names some entry; another one than this is refused.
VoidCheck(r) ==
    /\ req[r].pc = "void"
    /\ \/ \E last \in Active(ListLedger(req[r].h)) :
             /\ \A e \in Active(ListLedger(req[r].h)) : e.id <= last.id
             /\ Goto(r, [req[r] EXCEPT !.pc = "mark", !.target = last.id])
       \/ Reply(r)
    /\ UNCHANGED <<today, listed, holding, ledger, stranded>>

\* VoidLedger: UPDATE ... WHERE id, whatever happened since the check.
VoidLedger(r) ==
    /\ req[r].pc = "mark"
    /\ \/ /\ ledger' = {IF e.id = req[r].target THEN [e EXCEPT !.voided = TRUE]
                                                ELSE e : e \in ledger}
          /\ UNCHANGED holding
       \/ WriteFails
    /\ Reply(r)
    /\ UNCHANGED <<today, listed, stranded>>

DeleteAccount(r) ==
    /\ req[r].pc = "delete"
    /\ \/ DeleteHolding(req[r].h)
       \/ WriteFails /\ UNCHANGED stranded
    /\ Reply(r)
    /\ UNCHANGED <<today, listed>>

\* r has inserted row h; its first buy is still to be inserted or cleaned up.
Opener(r, h) ==
    /\ req[r] # Idle
    /\ req[r].op = "create"
    /\ req[r].pc \in {"insert", "cleanup"}
    /\ req[r].h = h

BeingOpened(row) ==
    \E r \in Requests : Opener(r, row.id) /\ req[r].user = row.user

\* The process stops: requests in progress are lost, the database is not.
Crash ==
    /\ Crashes
    /\ InProgress # {}
    /\ req' = [r \in Requests |-> Idle]
    /\ GiveUp({row \in holding : BeingOpened(row)})
    /\ UNCHANGED <<today, listed, holding, ledger>>

Tick ==
    /\ today < MaxDay
    /\ today' = today + 1
    /\ UNCHANGED <<listed, holding, ledger, req, stranded>>

\* UpsertProduct and MarkMissingUnlisted of a crawl (module CrawlRunner).
SetListed ==
    /\ Delisting
    /\ listed' = ~listed
    /\ UNCHANGED <<today, holding, ledger, req, stranded>>

Handle(r) ==
    \/ BuyStart(r)    \/ BuyLookup(r)   \/ CreateHolding(r)
    \/ Insert(r)      \/ Cleanup(r)     \/ HoldingLookup(r)
    \/ RedeemCheck(r) \/ VoidCheck(r)   \/ VoidLedger(r)
    \/ DeleteAccount(r)

Next == (\E r \in Requests : Handle(r)) \/ Crash \/ Tick \/ SetListed

Spec == Init /\ [][Next]_vars

-----------------------------------------------------------------------------
\* Type invariant: the shape of the two tables and of the handlers' locals.
TypeOK ==
    /\ today \in 1..MaxDay
    /\ listed \in BOOLEAN
    /\ holding \subseteq HoldingRow
    /\ ledger \subseteq LedgerRow
    /\ req \in [Requests -> {Idle} \cup Handler]
    /\ stranded \subseteq holding

\* The tables' keys under every interleaving of the handlers: row ids are
\* unique, a user has one account for the product although the handler tests
\* for one and inserts it in two statements, and a row of ledger_entry belongs
\* to a row of holding although the handler read the id of that row earlier.
TablesConsistent ==
    /\ \A a, b \in holding : (a.id = b.id \/ a.user = b.user) => a = b
    /\ \A e, f \in ledger : e.id = f.id => e = f
    /\ \A e \in ledger : e.holding \in IdsOf(holding)

\* Every account can be replayed, so that its pages can be shown: the check
\* handleRedeem makes when it writes is enough for what pnl.Replay does with
\* the list of entries later on.
Replayable == \A row \in holding : Replays(ListLedger(row.id))

\* Of the holding and its first buy, which are two statements, one without the
\* other is left only by a stop between the two, or by a buy and a clean-up that
\* both fail: never by requests of the same or other users that append to the
\* account, void its entries, delete it and open it again under the same row id.
NoEmptyAccount ==
    \A row \in holding :
        ListLedger(row.id) # {} \/ BeingOpened(row) \/ row \in stranded

\* An entry is in the account of the user who sent it, although the handler
\* writes it to a row id that it read some statements earlier.
OwnEntries ==
    \A e \in ledger, row \in holding : e.holding = row.id => row.user = e.by

\* Only the last entry in the order of time is ever voided.
VoidsOnlyLatest ==
    [][\A e \in ledger :
         (~e.voided /\ [e EXCEPT !.voided = TRUE] \in ledger')
           => \A f \in Active(ListLedger(e.holding)) : ~Precedes(e, f)]_vars
=============================================================================
