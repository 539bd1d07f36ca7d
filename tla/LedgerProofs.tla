---------------------------- MODULE LedgerProofs ----------------------------
(***************************************************************************)
(* What holds of the ledger under every interleaving of any number of      *)
(* requests: the keys of the two tables, the account that is left empty    *)
(* only where a write failed or the server stopped, and the owner of an    *)
(* entry as long as nothing is deleted.  And what holds as long as requests*)
(* are handled one at a time and no entry is dated back: every account can *)
(* be replayed, only the last entry is voided, and the tables implement the*)
(* account book.                                                           *)
(***************************************************************************)
EXTENDS LedgerBook, FoldProofs, SequenceTheorems

Bounded(table) == \E b \in Nat : \A row \in table : row.id <= b

\* The id of a new row is in the type of ids, above all those in use, and the
\* ids in use stay bounded when its row is added.
LEMMA NewRowidFresh ==
  ASSUME NEW table, IdsOf(table) \subseteq Nat, Bounded(table)
  PROVE  /\ NewRowid(table) \in Nat
         /\ \A row \in table : row.id < NewRowid(table)
<1>1. CASE table = {}
  BY <1>1 DEF NewRowid
<1>2. CASE table # {}
  <2>1. PICK b \in Nat : \A x \in IdsOf(table) : x <= b
    BY DEF Bounded, IdsOf
  <2>2. IdsOf(table) # {}
    BY <1>2 DEF IdsOf
  <2>3. /\ Max(IdsOf(table)) \in IdsOf(table)
        /\ \A y \in IdsOf(table) : y <= Max(IdsOf(table))
    BY <2>1, <2>2, MaxOfBounded
  <2>4. \A row \in table : row.id \in IdsOf(table)
    BY DEF IdsOf
  <2> QED BY <1>2, <2>3, <2>4 DEF NewRowid
<1> QED BY <1>1, <1>2
-----------------------------------------------------------------------------
(* The keys of the tables. *)

IInv ==
    /\ TypeOK
    /\ TablesConsistent
    /\ Bounded(holding)
    /\ Bounded(ledger)

\* Row ids are natural numbers.
LEMMA IdsAreNat == TypeOK => IdsOf(holding) \subseteq Nat /\ IdsOf(ledger) \subseteq Nat
  BY DEF TypeOK, IdsOf, HoldingRow, LedgerRow

\* A handler record is well typed again after an update of its locals.
LEMMA HandlerTyped ==
  ASSUME NEW q \in Handler, NEW pc \in Steps, NEW n \in Nat
  PROVE  /\ [q EXCEPT !.pc = pc] \in Handler
         /\ [q EXCEPT !.pc = pc, !.h = n] \in Handler
         /\ [q EXCEPT !.pc = pc, !.shares = n] \in Handler
         /\ [q EXCEPT !.pc = pc, !.target = n] \in Handler
  BY DEF Handler

\* A handler that has reached a statement has typed locals.
LEMMA NotIdle ==
  ASSUME TypeOK, NEW r \in Requests, req[r].pc \in Steps
  PROVE  req[r] \in Handler
  BY DEF TypeOK, Idle, Steps

\* The empty tables satisfy the inductive invariant.
LEMMA InitIInv == Init => IInv
<1> SUFFICES ASSUME Init PROVE IInv
  OBVIOUS
<1>1. TypeOK
  BY DaysAssumption DEF Init, TypeOK
<1>2. TablesConsistent
  BY DEF Init, TablesConsistent
<1>3. Bounded(holding) /\ Bounded(ledger)
  BY DEF Init, Bounded
<1> QED BY <1>1, <1>2, <1>3 DEF IInv

\* Every step keeps the types of the tables and of the handlers.
LEMMA StepTypeOK == IInv /\ [Next]_vars => TypeOK'
<1> SUFFICES ASSUME IInv, [Next]_vars PROVE TypeOK'
  OBVIOUS
<1> USE DEF IInv
<1>0. /\ NewRowid(holding) \in Nat
      /\ NewRowid(ledger) \in Nat
  BY IdsAreNat, NewRowidFresh
<1>1. ASSUME NEW r \in Requests, BuyStart(r) PROVE TypeOK'
  <2>1. PICK op \in {"create", "append"} \cap Ops[r], u \in Users,
            d \in OccurDays, s \in Shares :
          Goto(r, [pc |-> "lookup", op |-> op, user |-> u, day |-> d,
                   shares |-> s, h |-> NoRow, target |-> NoRow])
    BY <1>1 DEF BuyStart
  <2>2. [pc |-> "lookup", op |-> op, user |-> u, day |-> d,
         shares |-> s, h |-> NoRow, target |-> NoRow] \in Handler
    BY SharesAssumption DEF Handler, Steps, OpNames, OccurDays, NoRow
  <2> QED BY <1>1, <2>1, <2>2 DEF BuyStart, TypeOK, Goto
<1>2. ASSUME NEW r \in Requests, BuyLookup(r) PROVE TypeOK'
  <2>1. req[r] \in Handler
    BY <1>2, NotIdle DEF BuyLookup, Steps
  <2>2. \A row \in holding : row.id \in Nat
    BY DEF TypeOK, HoldingRow
  <2>3. \E q \in {Idle} \cup Handler : Goto(r, q)
    BY <1>2, <2>1, <2>2, HandlerTyped
       DEF BuyLookup, Reply, HoldingByUserCode, Steps
  <2> QED BY <1>2, <2>3 DEF BuyLookup, TypeOK, Goto
<1>3. ASSUME NEW r \in Requests, CreateHolding(r) PROVE TypeOK'
  <2>1. req[r] \in Handler
    BY <1>3, NotIdle DEF CreateHolding, Steps
  <2>2. [id |-> NewRowid(holding), user |-> req[r].user] \in HoldingRow
    BY <1>0, <2>1 DEF HoldingRow, Handler
  <2>3. \E q \in {Idle} \cup Handler : Goto(r, q)
    BY <1>0, <1>3, <2>1, HandlerTyped DEF CreateHolding, Reply, Steps
  <2> QED BY <1>3, <2>2, <2>3 DEF CreateHolding, TypeOK, Goto
<1>4. ASSUME NEW r \in Requests, Insert(r) PROVE TypeOK'
  <2>1. req[r] \in Handler
    BY <1>4, NotIdle DEF Insert, Steps
  <2>2. \A kind \in Kinds :
          [id |-> NewRowid(ledger), holding |-> req[r].h, kind |-> kind,
           day |-> req[r].day, shares |-> req[r].shares, voided |-> FALSE,
           by |-> req[r].user] \in LedgerRow
    BY <1>0, <2>1 DEF LedgerRow, Handler
  <2>3. ledger' \subseteq LedgerRow
    BY <1>4, <2>2 DEF Insert, InsertLedger, TypeOK, Kinds
  <2>4. \E q \in {Idle} \cup Handler : Goto(r, q)
    BY <1>4, <2>1, HandlerTyped DEF Insert, Reply, Steps
  <2> QED BY <1>4, <2>3, <2>4 DEF Insert, TypeOK, Goto
<1>5. ASSUME NEW r \in Requests, Cleanup(r) \/ DeleteAccount(r) PROVE TypeOK'
  BY <1>5
     DEF Cleanup, DeleteAccount, DeleteHolding, WithId, WriteFails, GiveUp,
         HoldingByUserCode, Reply, Goto, TypeOK
<1>6. ASSUME NEW r \in Requests, HoldingLookup(r) PROVE TypeOK'
  <2>1. PICK op \in {"redeem", "void", "delete"} \cap Ops[r], u \in Users :
          \E row \in HoldingByUserCode(u),
             d \in IF op = "redeem" THEN OccurDays ELSE {today} :
            Goto(r, [pc |-> op, op |-> op, user |-> u, day |-> d,
                     shares |-> 0, h |-> row.id, target |-> NoRow])
    BY <1>6 DEF HoldingLookup
  <2>2. PICK row \in holding, d \in 1..MaxDay :
            Goto(r, [pc |-> op, op |-> op, user |-> u, day |-> d,
                     shares |-> 0, h |-> row.id, target |-> NoRow])
    BY <2>1 DEF HoldingByUserCode, OccurDays, TypeOK
  <2>3. [pc |-> op, op |-> op, user |-> u, day |-> d,
         shares |-> 0, h |-> row.id, target |-> NoRow] \in Handler
    BY DEF Handler, Steps, OpNames, NoRow, TypeOK, HoldingRow
  <2> QED BY <1>6, <2>2, <2>3 DEF HoldingLookup, TypeOK, Goto
<1>7. ASSUME NEW r \in Requests, RedeemCheck(r) PROVE TypeOK'
  <2>1. req[r] \in Handler
    BY <1>7, NotIdle DEF RedeemCheck, Steps
  <2>2. \/ \E s \in Nat : Goto(r, [req[r] EXCEPT !.pc = "insert", !.shares = s])
        \/ Reply(r)
    <3> DEFINE remaining == Remaining(ListLedger(req[r].h))
    <3>1. \A s \in 0..remaining : s \in Nat
      OBVIOUS
    <3>2. \/ \E s \in 0..remaining :
               Goto(r, [req[r] EXCEPT !.pc = "insert", !.shares = s])
          \/ Reply(r)
      BY <1>7, Zenon DEF RedeemCheck
    <3> QED BY <3>1, <3>2, Zenon
  <2>3. \E q \in {Idle} \cup Handler : Goto(r, q)
    BY <2>1, <2>2, HandlerTyped DEF Reply, Steps
  <2> QED BY <1>7, <2>3 DEF RedeemCheck, TypeOK, Goto
<1>8. ASSUME NEW r \in Requests, VoidCheck(r) PROVE TypeOK'
  <2>1. req[r] \in Handler
    BY <1>8, NotIdle DEF VoidCheck, Steps
  <2>2. \A e \in ledger : e.id \in Nat
    BY DEF TypeOK, LedgerRow
  <2>3. \E q \in {Idle} \cup Handler : Goto(r, q)
    BY <1>8, <2>1, <2>2, HandlerTyped
       DEF VoidCheck, Reply, Steps, Active, ListLedger
  <2> QED BY <1>8, <2>3 DEF VoidCheck, TypeOK, Goto
<1>9. ASSUME NEW r \in Requests, VoidLedger(r) PROVE TypeOK'
  <2>1. \A e \in LedgerRow : [e EXCEPT !.voided = TRUE] \in LedgerRow
    BY DEF LedgerRow
  <2> QED BY <1>9, <2>1 DEF VoidLedger, WriteFails, Reply, Goto, TypeOK
<1>10. CASE Crash
  BY <1>10 DEF Crash, GiveUp, TypeOK
<1>11. CASE Tick
  BY <1>11, DaysAssumption DEF Tick, TypeOK
<1>12. CASE SetListed
  BY <1>12, Zenon DEF SetListed, TypeOK
<1>13. CASE UNCHANGED vars
  BY <1>13 DEF vars, TypeOK
<1> QED
  BY <1>1, <1>2, <1>3, <1>4, <1>5, <1>6, <1>7, <1>8, <1>9, <1>10, <1>11,
     <1>12, <1>13
     DEF Next, Handle

\* The steps that write one of the two tables, and how.
LEMMA TableWrites ==
  ASSUME [Next]_vars
  PROVE  \/ UNCHANGED <<holding, ledger>>
         \/ \E r \in Requests : CreateHolding(r) \/ Insert(r) \/ VoidLedger(r)
         \/ \E r \in Requests : Cleanup(r) \/ DeleteAccount(r)
  BY DEF Next, Handle, BuyStart, BuyLookup, HoldingLookup, RedeemCheck,
         VoidCheck, Crash, Tick, SetListed, vars

\* Every step keeps the keys of the two tables, and the bounds on their ids.
LEMMA StepTables ==
  ASSUME IInv, [Next]_vars
  PROVE  TablesConsistent' /\ Bounded(holding)' /\ Bounded(ledger)'
<1> USE DEF IInv
<1>0. /\ NewRowid(holding) \in Nat
      /\ NewRowid(ledger) \in Nat
      /\ \A row \in holding : row.id \in Nat /\ row.id < NewRowid(holding)
      /\ \A e \in ledger : e.id \in Nat /\ e.id < NewRowid(ledger)
  BY IdsAreNat, NewRowidFresh DEF TypeOK, HoldingRow, LedgerRow
<1>1. CASE UNCHANGED <<holding, ledger>>
  BY <1>1 DEF TablesConsistent, Bounded, IdsOf
<1>2. ASSUME NEW r \in Requests, CreateHolding(r),
             ~ UNCHANGED <<holding, ledger>>
      PROVE  TablesConsistent' /\ Bounded(holding)' /\ Bounded(ledger)'
  <2> DEFINE new == [id |-> NewRowid(holding), user |-> req[r].user]
  <2>1. /\ holding' = holding \cup {new}
        /\ ledger' = ledger
        /\ \A row \in holding : row.user # req[r].user
    BY <1>2 DEF CreateHolding, HoldingByUserCode
  <2>2. \A row \in holding : row.id # new.id /\ row.user # new.user
    BY <1>0, <2>1
  <2>3. TablesConsistent'
    BY <2>1, <2>2 DEF TablesConsistent, IdsOf
  <2>4. \A row \in holding' : row.id <= NewRowid(holding)
    BY <1>0, <2>1
  <2> QED BY <1>0, <2>1, <2>3, <2>4 DEF Bounded
<1>3. ASSUME NEW r \in Requests, Insert(r), ~ UNCHANGED <<holding, ledger>>
      PROVE  TablesConsistent' /\ Bounded(holding)' /\ Bounded(ledger)'
  <2> DEFINE new == [id |-> NewRowid(ledger), holding |-> req[r].h,
                     kind |-> IF req[r].op = "redeem" THEN "redeem" ELSE "buy",
                     day |-> req[r].day, shares |-> req[r].shares,
                     voided |-> FALSE, by |-> req[r].user]
  <2>1. /\ ledger' = ledger \cup {new}
        /\ new.id = NewRowid(ledger)
        /\ new.holding = req[r].h
    BY <1>3 DEF Insert, InsertLedger
  <2> HIDE DEF new
  <2>2. holding' = holding /\ req[r].h \in IdsOf(holding)
    BY <1>3 DEF Insert
  <2>3. \A e \in ledger : e.id # new.id
    BY <1>0, <2>1
  <2>4. TablesConsistent'
    BY <2>1, <2>2, <2>3 DEF TablesConsistent, IdsOf
  <2>5. \A e \in ledger' : e.id <= NewRowid(ledger)
    BY <1>0, <2>1
  <2> QED BY <1>0, <2>2, <2>4, <2>5 DEF Bounded
<1>4. ASSUME NEW r \in Requests, VoidLedger(r), ~ UNCHANGED <<holding, ledger>>
      PROVE  TablesConsistent' /\ Bounded(holding)' /\ Bounded(ledger)'
  <2> DEFINE marked(e) == IF e.id = req[r].target
                          THEN [e EXCEPT !.voided = TRUE] ELSE e
  <2>1. ledger' = {marked(e) : e \in ledger} /\ holding' = holding
    BY <1>4 DEF VoidLedger, WriteFails
  <2>2. \A e \in ledger : marked(e).id = e.id /\ marked(e).holding = e.holding
    BY DEF TypeOK, LedgerRow
  <2> HIDE DEF marked
  <2>3. TablesConsistent'
    BY <2>1, <2>2 DEF TablesConsistent, IdsOf
  <2> QED BY <2>1, <2>2, <2>3 DEF Bounded
<1>5. ASSUME NEW r \in Requests, Cleanup(r) \/ DeleteAccount(r),
             ~ UNCHANGED <<holding, ledger>>
      PROVE  TablesConsistent' /\ Bounded(holding)' /\ Bounded(ledger)'
  <2>1. /\ holding' = {row \in holding : row.id # req[r].h}
        /\ ledger' = {e \in ledger : e.holding # req[r].h}
    BY <1>5 DEF Cleanup, DeleteAccount, DeleteHolding, WriteFails
  <2>2. TablesConsistent'
    BY <2>1 DEF TablesConsistent, IdsOf
  <2> QED BY <2>1, <2>2 DEF Bounded
<1> QED BY <1>1, <1>2, <1>3, <1>4, <1>5, TableWrites

\* The tables stay well typed and their keys unique, and every entry belongs to
\* an account, for any number of concurrent requests, whatever fails or stops.
THEOREM TablesConsistentAlways == Spec => [](TypeOK /\ TablesConsistent)
<1>1. Init => IInv
  BY InitIInv
<1>2. IInv /\ [Next]_vars => IInv'
  BY StepTypeOK, StepTables DEF IInv
<1>3. IInv => TypeOK /\ TablesConsistent
  BY DEF IInv
<1> QED BY <1>1, <1>2, <1>3, PTL DEF Spec

\* The rows and the requests stay what their types say: for
\* any number of concurrent requests, whatever fails or stops.
THEOREM TypesAlways == Spec => []TypeOK
  BY TablesConsistentAlways, PTL

-----------------------------------------------------------------------------
(* An account without entries is being opened, or its opening was given up. *)

OpeningBy(r, row) == Opener(r, row.id) /\ req[r].user = row.user

\* Only a first buy inserts an account.
CreatesAreFirstBuys ==
    \A r \in Requests : req[r].pc = "create" => req[r].op = "create"

HasEntry(row) == \E e \in ledger : e.holding = row.id

Explained(row) ==
    HasEntry(row) \/ row \in stranded \/ \E r \in Requests : OpeningBy(r, row)

\* No empty account, in terms of the rows alone.
LEMMA NoEmptyAccountDef == NoEmptyAccount <=> \A row \in holding : Explained(row)
  BY DEF NoEmptyAccount, BeingOpened, ListLedger, OpeningBy, Opener, Explained, HasEntry

\* The same after a step.
LEMMA NoEmptyAccountDefPrime ==
  NoEmptyAccount' <=> \A row \in holding' : Explained(row)'
  BY DEF NoEmptyAccount, BeingOpened, ListLedger, OpeningBy, Opener, Explained, HasEntry

\* A step of one handler leaves the others as they are.
LEMMA OthersKeep ==
  ASSUME TypeOK, NEW r \in Requests, NEW q, Goto(r, q),
         NEW other \in Requests, other # r
  PROVE  req'[other] = req[other]
  BY DEF TypeOK, Goto

\* What Goto gives the handler that moves.
LEMMA GotoSelf ==
  ASSUME TypeOK, NEW r \in Requests, NEW q, Goto(r, q)
  PROVE  req'[r] = q
  BY DEF TypeOK, Goto

\* A handler's step keeps an account explained that keeps its entries and its
\* mark, unless it is this handler that opens the account.
LEMMA HandlerKeepsOpening ==
  ASSUME TypeOK, NoEmptyAccount, NEW r \in Requests, NEW q, Goto(r, q),
         NEW row \in holding,
         HasEntry(row) => HasEntry(row)',
         row \in stranded => row \in stranded' \/ HasEntry(row)',
         OpeningBy(r, row) => Explained(row)'
  PROVE  Explained(row)'
<1>1. CASE HasEntry(row)
  BY <1>1 DEF Explained
<1>2. CASE row \in stranded
  BY <1>2 DEF Explained
<1>3. ASSUME NEW other \in Requests, other # r, OpeningBy(other, row)
      PROVE  OpeningBy(other, row)'
  BY <1>3, OthersKeep DEF OpeningBy, Opener
<1>4. Explained(row)
  BY NoEmptyAccountDef
<1> QED BY <1>1, <1>2, <1>3, <1>4 DEF Explained

\* A handler that is not opening an account, and writes nothing that matters.
LEMMA OnlookerKeepsOpening ==
  ASSUME TypeOK, NoEmptyAccount, NEW r \in Requests, NEW q, Goto(r, q),
         \A row \in holding : ~ OpeningBy(r, row),
         holding' \subseteq holding, stranded' = stranded,
         \A row \in holding' : HasEntry(row) => HasEntry(row)'
  PROVE  NoEmptyAccount'
  BY HandlerKeepsOpening, NoEmptyAccountDefPrime

\* Deleting an account leaves the others as they are.
LEMMA DeleteKeepsOpening ==
  ASSUME TypeOK, NoEmptyAccount, NEW r \in Requests, NEW q, Goto(r, q),
         DeleteHolding(req[r].h)
  PROVE  NoEmptyAccount'
<1> SUFFICES ASSUME NEW row \in holding' PROVE Explained(row)'
  BY NoEmptyAccountDefPrime
<1>1. row \in holding /\ row.id # req[r].h
  BY DEF DeleteHolding
<1>2. HasEntry(row) => HasEntry(row)'
  BY <1>1 DEF DeleteHolding, HasEntry
<1>3. row \in stranded => row \in stranded'
  BY <1>1 DEF DeleteHolding, WithId
<1>4. ~ OpeningBy(r, row)
  BY <1>1 DEF OpeningBy, Opener
<1> QED BY <1>1, <1>2, <1>3, <1>4, HandlerKeepsOpening

\* A new entry is one of the account it is written for.
LEMMA InsertsFor ==
  ASSUME NEW q, InsertLedger(q)
  PROVE  \E e \in ledger' : e.holding = q.h
<1> DEFINE new == [id |-> NewRowid(ledger), holding |-> q.h,
                   kind |-> IF q.op = "redeem" THEN "redeem" ELSE "buy",
                   day |-> q.day, shares |-> q.shares,
                   voided |-> FALSE, by |-> q.user]
<1>1. new \in ledger' /\ new.holding = q.h
  BY DEF InsertLedger
<1> QED BY <1>1

\* No step leaves an account without an entry, without the request that is
\* about to write or remove it, and without having been given up.
LEMMA StepNoEmptyAccount ==
  ASSUME TypeOK, CreatesAreFirstBuys, NoEmptyAccount, [Next]_vars
  PROVE  NoEmptyAccount'
<1>1. ASSUME NEW r \in Requests,
             \/ BuyStart(r) \/ BuyLookup(r) \/ HoldingLookup(r)
             \/ RedeemCheck(r) \/ VoidCheck(r)
      PROVE  NoEmptyAccount'
  <2>1. (\E q : Goto(r, q)) /\ UNCHANGED <<holding, ledger, stranded>>
    BY <1>1 DEF BuyStart, BuyLookup, HoldingLookup, RedeemCheck, VoidCheck, Reply
  <2>2. \A row \in holding : ~ OpeningBy(r, row)
    BY <1>1 DEF BuyStart, BuyLookup, HoldingLookup, RedeemCheck, VoidCheck,
                OpeningBy, Opener
  <2> QED BY <2>1, <2>2, OnlookerKeepsOpening DEF HasEntry
<1>2. ASSUME NEW r \in Requests, CreateHolding(r) PROVE NoEmptyAccount'
  <2>1. /\ ledger' = ledger /\ stranded' = stranded
        /\ \A row \in holding : ~ OpeningBy(r, row)
    BY <1>2 DEF CreateHolding, OpeningBy, Opener
  <2>2. \E q : Goto(r, q)
    BY <1>2 DEF CreateHolding, Reply
  <2>3. \A row \in holding : Explained(row)'
    BY <2>1, <2>2, HandlerKeepsOpening DEF HasEntry
  <2>4. CASE holding' = holding
    BY <2>3, <2>4, NoEmptyAccountDefPrime
  <2>5. CASE holding' # holding
    <3>0. PICK new : new = [id |-> NewRowid(holding), user |-> req[r].user]
      OBVIOUS
    <3>1. /\ holding' = holding \cup {new}
          /\ Goto(r, [req[r] EXCEPT !.pc = "insert", !.h = NewRowid(holding)])
      BY <1>2, <2>5, <3>0 DEF CreateHolding
    <3>2. req[r] \in Handler /\ req[r].op = "create"
      BY <1>2, NotIdle DEF CreateHolding, Steps, CreatesAreFirstBuys
    <3>3. req'[r] = [req[r] EXCEPT !.pc = "insert", !.h = NewRowid(holding)]
      BY <3>1, GotoSelf
    <3>4. /\ req'[r] # Idle /\ req'[r].op = "create" /\ req'[r].pc = "insert"
          /\ req'[r].h = new.id /\ req'[r].user = new.user
      BY <3>0, <3>2, <3>3 DEF Handler, Idle
    <3>5. OpeningBy(r, new)'
      BY <3>4 DEF OpeningBy, Opener
    <3> QED BY <2>3, <3>1, <3>5, NoEmptyAccountDefPrime DEF Explained
  <2> QED BY <2>4, <2>5
<1>3. ASSUME NEW r \in Requests, Insert(r) PROVE NoEmptyAccount'
  <2>1. holding' = holding /\ ledger \subseteq ledger'
    BY <1>3 DEF Insert, InsertLedger
  <2>2. (\E q : Goto(r, q)) /\ req[r] \in Handler
    BY <1>3, NotIdle DEF Insert, Reply, Steps
  <2>3. CASE InsertLedger(req[r]) /\ stranded' = stranded \ WithId(req[r].h)
    <3>2. \A row \in holding : row.id = req[r].h => HasEntry(row)'
      BY <2>3, InsertsFor DEF HasEntry
    <3>3. \A row \in holding : OpeningBy(r, row) => row.id = req[r].h
      BY DEF OpeningBy, Opener
    <3>4. ASSUME NEW row \in holding PROVE Explained(row)'
      <4>1. row \in stranded => row \in stranded' \/ HasEntry(row)'
        BY <2>3, <3>2 DEF WithId
      <4>2. HasEntry(row) => HasEntry(row)'
        BY <2>1 DEF HasEntry
      <4>3. OpeningBy(r, row) => Explained(row)'
        BY <3>2, <3>3 DEF Explained
      <4> QED BY <2>2, <4>1, <4>2, <4>3, HandlerKeepsOpening
    <3> QED BY <2>1, <3>4, NoEmptyAccountDefPrime
  <2>4. CASE ledger' = ledger /\ stranded' = stranded
    <3>1. ASSUME NEW row \in holding, OpeningBy(r, row)
          PROVE  OpeningBy(r, row)' \/ HasEntry(row)'
      <4>1. CASE Goto(r, [req[r] EXCEPT !.pc = "cleanup"])
        <5>1. req'[r] = [req[r] EXCEPT !.pc = "cleanup"]
          BY <4>1, GotoSelf
        <5> QED BY <2>2, <3>1, <5>1 DEF OpeningBy, Opener, Handler, Idle
      <4>2. CASE InsertLedger(req[r])
        BY <3>1, <4>2, InsertsFor DEF HasEntry, OpeningBy, Opener
      <4> QED BY <1>3, <3>1, <4>1, <4>2 DEF Insert, OpeningBy, Opener
    <3>2. ASSUME NEW row \in holding PROVE Explained(row)'
      <4>1. HasEntry(row) => HasEntry(row)'
        BY <2>4 DEF HasEntry
      <4>2. OpeningBy(r, row) => Explained(row)'
        BY <3>1 DEF Explained
      <4> QED BY <2>2, <2>4, <4>1, <4>2, HandlerKeepsOpening
    <3> QED BY <2>1, <3>2, NoEmptyAccountDefPrime
  <2> QED BY <1>3, <2>3, <2>4 DEF Insert
<1>4. ASSUME NEW r \in Requests, Cleanup(r) PROVE NoEmptyAccount'
  <2>1. \E q : Goto(r, q)
    BY <1>4 DEF Cleanup, Reply
  <2>2. CASE DeleteHolding(req[r].h)
    BY <2>1, <2>2, DeleteKeepsOpening
  <2>3. CASE WriteFails
    <3> DEFINE mine == HoldingByUserCode(req[r].user) \cap WithId(req[r].h)
    <3>1. UNCHANGED <<holding, ledger>>
      BY <2>3 DEF WriteFails
    <3>2. CASE stranded' = stranded \cup {row \in mine : ListLedger(row.id) = {}}
      <4>1. ASSUME NEW row \in holding PROVE Explained(row)'
        <5>1. HasEntry(row) <=> HasEntry(row)'
          BY <3>1 DEF HasEntry
        <5>2. ASSUME OpeningBy(r, row), ~ HasEntry(row) PROVE row \in stranded'
          <6>1. row \in mine
            BY <5>2 DEF OpeningBy, Opener, HoldingByUserCode, WithId
          <6> HIDE DEF mine
          <6>2. ListLedger(row.id) = {}
            BY <5>2 DEF HasEntry, ListLedger
          <6> QED BY <3>2, <6>1, <6>2
        <5>3. row \in stranded => row \in stranded'
          BY <3>2
        <5> HIDE DEF mine
        <5> QED BY <2>1, <5>1, <5>2, <5>3, HandlerKeepsOpening DEF Explained
      <4> QED BY <3>1, <4>1, NoEmptyAccountDefPrime
    <3>3. CASE DeleteHolding(req[r].h)
      BY <2>1, <3>3, DeleteKeepsOpening
    <3> QED BY <1>4, <3>2, <3>3 DEF Cleanup, GiveUp
  <2> QED BY <1>4, <2>2, <2>3 DEF Cleanup
<1>5. ASSUME NEW r \in Requests, DeleteAccount(r) PROVE NoEmptyAccount'
  <2>1. (\E q : Goto(r, q)) /\ \A row \in holding : ~ OpeningBy(r, row)
    BY <1>5 DEF DeleteAccount, Reply, OpeningBy, Opener
  <2>2. CASE DeleteHolding(req[r].h)
    BY <2>1, <2>2, DeleteKeepsOpening
  <2>3. CASE UNCHANGED <<holding, ledger, stranded>>
    BY <2>1, <2>3, OnlookerKeepsOpening DEF HasEntry
  <2> QED BY <1>5, <2>2, <2>3 DEF DeleteAccount, WriteFails
<1>6. ASSUME NEW r \in Requests, VoidLedger(r) PROVE NoEmptyAccount'
  <2> DEFINE marked(e) == IF e.id = req[r].target
                          THEN [e EXCEPT !.voided = TRUE] ELSE e
  <2>1. /\ ledger' = {marked(e) : e \in ledger} \/ ledger' = ledger
        /\ holding' = holding
        /\ stranded' = stranded
        /\ \E q : Goto(r, q)
    BY <1>6 DEF VoidLedger, WriteFails, Reply
  <2>2. \A e \in ledger : marked(e).holding = e.holding
    BY DEF TypeOK, LedgerRow
  <2>3. \A row \in holding : ~ OpeningBy(r, row)
    BY <1>6 DEF VoidLedger, OpeningBy, Opener
  <2> HIDE DEF marked
  <2>4. \A row \in holding' : HasEntry(row) => HasEntry(row)'
    BY <2>1, <2>2 DEF HasEntry
  <2> QED BY <2>1, <2>3, <2>4, OnlookerKeepsOpening
<1>7. CASE Tick \/ SetListed \/ UNCHANGED vars
  BY <1>7 DEF Tick, SetListed, vars, NoEmptyAccount, BeingOpened, Opener,
              ListLedger
<1>8. CASE Crash
  <2>1. ASSUME NEW row \in holding PROVE Explained(row)'
    <3>1. HasEntry(row) <=> HasEntry(row)'
      BY <1>8 DEF Crash, HasEntry
    <3>2. row \in stranded => row \in stranded'
      BY <1>8 DEF Crash, GiveUp
    <3>3. ASSUME NEW r \in Requests, OpeningBy(r, row), ~ HasEntry(row)
          PROVE  row \in stranded'
      BY <1>8, <3>3 DEF Crash, GiveUp, BeingOpened, OpeningBy, Opener, HasEntry, ListLedger
    <3> QED BY <3>1, <3>2, <3>3, NoEmptyAccountDef DEF Explained
  <2> QED BY <1>8, <2>1, NoEmptyAccountDefPrime DEF Crash
<1> QED
  BY <1>1, <1>2, <1>3, <1>4, <1>5, <1>6, <1>7, <1>8 DEF Next, Handle

\* Every step keeps it that only a first buy inserts an account.
LEMMA StepCreatesAreFirstBuys ==
  ASSUME TypeOK, CreatesAreFirstBuys, [Next]_vars
  PROVE  CreatesAreFirstBuys'
<1> SUFFICES ASSUME NEW r \in Requests, req'[r].pc = "create"
             PROVE  req'[r].op = "create"
  BY DEF CreatesAreFirstBuys
<1>1. CASE req'[r] = req[r]
  BY <1>1 DEF CreatesAreFirstBuys
<1>2. CASE req'[r] # req[r]
  <2>1. req'[r] # Idle
    BY DEF Idle
  <2>2. PICK other \in Requests : Handle(other)
    BY <1>2, <2>1 DEF Next, Crash, Tick, SetListed, vars
  <2>3. PICK q : Goto(other, q)
    BY <2>2 DEF Handle, BuyStart, BuyLookup, CreateHolding, Insert, Cleanup,
                HoldingLookup, RedeemCheck, VoidCheck, VoidLedger,
                DeleteAccount, Reply
  <2>4. other = r
    BY <1>2, <2>3, OthersKeep
  <2>5. req[r].pc \in Steps => req[r] \in Handler
    BY NotIdle
  <2>6. CASE BuyLookup(r)
    <3>1. req[r] \in Handler
      BY <2>5, <2>6 DEF BuyLookup, Steps
    <3> QED
      BY <2>1, <2>6, <3>1, GotoSelf
         DEF BuyLookup, Reply, Handler
  <2>7. CASE BuyStart(r)
    BY <2>7, GotoSelf DEF BuyStart
  <2>8. CASE HoldingLookup(r)
    BY <2>8, GotoSelf DEF HoldingLookup
  <2>9. CASE CreateHolding(r) \/ Insert(r) \/ VoidCheck(r)
    <3>1. req[r] \in Handler
      BY <2>5, <2>9 DEF CreateHolding, Insert, VoidCheck, Steps
    <3> QED
      BY <2>1, <2>9, <3>1, GotoSelf
         DEF CreateHolding, Insert, VoidCheck, Reply, Handler
  <2>10. CASE RedeemCheck(r)
    <3>1. req[r] \in Handler
      BY <2>5, <2>10 DEF RedeemCheck, Steps
    <3>2. PICK s : Goto(r, [req[r] EXCEPT !.pc = "insert", !.shares = s])
      BY <2>1, <2>10, GotoSelf, Zenon DEF RedeemCheck, Reply
    <3> QED BY <3>1, <3>2, GotoSelf DEF Handler
  <2>11. CASE Cleanup(r) \/ VoidLedger(r) \/ DeleteAccount(r)
    BY <2>1, <2>11, GotoSelf DEF Cleanup, VoidLedger, DeleteAccount, Reply
  <2> QED BY <2>2, <2>4, <2>6, <2>7, <2>8, <2>9, <2>10, <2>11 DEF Handle
<1> QED BY <1>1, <1>2

\* An account has an entry or is being opened, unless the server stopped on the
\* way or the first buy and the removal of the account both failed: whatever the
\* other requests do, also when they delete it, open it again under the same row
\* id, or void its only entry.
THEOREM NoEmptyAccountAlways == Spec => []NoEmptyAccount
<1> DEFINE Inv == IInv /\ CreatesAreFirstBuys /\ NoEmptyAccount
<1>1. Init => Inv
  <2>1. Init => CreatesAreFirstBuys /\ NoEmptyAccount
    BY DEF Init, CreatesAreFirstBuys, NoEmptyAccount, Idle
  <2> QED BY <2>1, InitIInv
<1>2. Inv /\ [Next]_vars => Inv'
  BY StepTypeOK, StepTables, StepCreatesAreFirstBuys, StepNoEmptyAccount DEF IInv
<1>3. Inv => NoEmptyAccount
  OBVIOUS
<1> QED BY <1>1, <1>2, <1>3, PTL DEF Spec

-----------------------------------------------------------------------------
(* The owner of an entry. *)

NothingDeletes ==
    /\ WriteFaults = FALSE
    /\ \A r \in Requests : "delete" \notin Ops[r]

\* A handler that is going to write to an account knows the id of its user's.
KnowsOwn(r) ==
    /\ req[r].pc \in {"redeem", "insert"} =>
         \E row \in holding : row.id = req[r].h /\ row.user = req[r].user
    /\ req[r].pc \notin {"cleanup", "delete"}

AllKnowOwn == \A r \in Requests : KnowsOwn(r)

\* When nothing deletes, no row of holding goes.
LEMMA StepHoldingGrows ==
  ASSUME TypeOK, AllKnowOwn, [Next]_vars
  PROVE  holding \subseteq holding'
<1>1. \A r \in Requests : ~ Cleanup(r) /\ ~ DeleteAccount(r)
  BY DEF AllKnowOwn, KnowsOwn, Cleanup, DeleteAccount
<1> QED BY <1>1, TableWrites DEF CreateHolding, Insert, VoidLedger, WriteFails

\* When nothing deletes, the row id a handler holds stays that of its user.
LEMMA StepKnowsOwn ==
  ASSUME NothingDeletes, TypeOK, AllKnowOwn, [Next]_vars
  PROVE  AllKnowOwn'
<1> SUFFICES ASSUME NEW r \in Requests PROVE KnowsOwn(r)'
  BY DEF AllKnowOwn
<1>1. holding \subseteq holding'
  BY StepHoldingGrows
<1>2. CASE req'[r] = req[r]
  BY <1>1, <1>2 DEF AllKnowOwn, KnowsOwn
<1>3. CASE req'[r] = Idle
  BY <1>3 DEF KnowsOwn, Idle
<1>4. CASE req'[r] # req[r] /\ req'[r] # Idle
  <2>1. PICK other \in Requests : Handle(other)
    BY <1>4 DEF Next, Crash, Tick, SetListed, vars
  <2>2. PICK q : Goto(other, q)
    BY <2>1 DEF Handle, BuyStart, BuyLookup, CreateHolding, Insert, Cleanup,
                HoldingLookup, RedeemCheck, VoidCheck, VoidLedger,
                DeleteAccount, Reply
  <2>3. other = r /\ q = req'[r]
    BY <1>4, <2>2, OthersKeep, GotoSelf
  <2>4. req[r].pc \in Steps => req[r] \in Handler
    BY NotIdle
  <2>5. CASE BuyStart(r)
    BY <2>5, GotoSelf DEF BuyStart, KnowsOwn
  <2>6. CASE BuyLookup(r)
    <3>1. req[r] \in Handler
      BY <2>4, <2>6 DEF BuyLookup, Steps
    <3>2. CASE Goto(r, [req[r] EXCEPT !.pc = "create"])
      BY <3>1, <3>2, GotoSelf DEF KnowsOwn, Handler
    <3>3. ASSUME NEW row \in HoldingByUserCode(req[r].user),
                 Goto(r, [req[r] EXCEPT !.pc = "insert", !.h = row.id])
          PROVE  KnowsOwn(r)'
      <4>1. req'[r] = [req[r] EXCEPT !.pc = "insert", !.h = row.id]
        BY <3>3, GotoSelf
      <4>2. row \in holding' /\ row.user = req[r].user
        BY <1>1, <3>3 DEF HoldingByUserCode
      <4> QED BY <3>1, <4>1, <4>2 DEF KnowsOwn, Handler
    <3> QED BY <1>4, <2>6, <3>2, <3>3, GotoSelf DEF BuyLookup, Reply
  <2>7. CASE CreateHolding(r)
    <3>1. req[r] \in Handler
      BY <2>4, <2>7 DEF CreateHolding, Steps
    <3> DEFINE new == [id |-> NewRowid(holding), user |-> req[r].user]
    <3>2. /\ new \in holding'
          /\ Goto(r, [req[r] EXCEPT !.pc = "insert", !.h = NewRowid(holding)])
      BY <1>4, <2>7, GotoSelf DEF CreateHolding, Reply
    <3>3. req'[r] = [req[r] EXCEPT !.pc = "insert", !.h = NewRowid(holding)]
      BY <3>2, GotoSelf
    <3>4. /\ req'[r].pc = "insert"
          /\ req'[r].h = new.id
          /\ req'[r].user = new.user
      BY <3>1, <3>3 DEF Handler
    <3> HIDE DEF new
    <3> QED BY <3>2, <3>4 DEF KnowsOwn
  <2>8. CASE Insert(r)
    <3>1. req[r].h \in IdsOf(holding)
      BY <2>8 DEF Insert, AllKnowOwn, KnowsOwn, IdsOf
    <3>2. Reply(r)
      BY <2>8, <3>1 DEF Insert, NothingDeletes
    <3> QED BY <1>4, <3>2, GotoSelf DEF Reply
  <2>9. CASE HoldingLookup(r)
    <3>1. PICK op \in {"redeem", "void", "delete"} \cap Ops[r], u \in Users :
            \E row \in HoldingByUserCode(u),
               d \in IF op = "redeem" THEN OccurDays ELSE {today} :
              Goto(r, [pc |-> op, op |-> op, user |-> u, day |-> d,
                       shares |-> 0, h |-> row.id, target |-> NoRow])
      BY <2>9 DEF HoldingLookup
    <3>2. PICK row \in HoldingByUserCode(u),
              d \in IF op = "redeem" THEN OccurDays ELSE {today} :
            req'[r] = [pc |-> op, op |-> op, user |-> u, day |-> d,
                       shares |-> 0, h |-> row.id, target |-> NoRow]
      BY <3>1, GotoSelf
    <3>3. row \in holding' /\ row.user = u /\ op # "delete"
      BY <1>1, <3>1 DEF HoldingByUserCode, NothingDeletes
    <3> QED BY <3>2, <3>3 DEF KnowsOwn
  <2>10. CASE RedeemCheck(r)
    <3>1. req[r] \in Handler
      BY <2>4, <2>10 DEF RedeemCheck, Steps
    <3>2. PICK s : Goto(r, [req[r] EXCEPT !.pc = "insert", !.shares = s])
      BY <1>4, <2>10, GotoSelf, Zenon DEF RedeemCheck, Reply
    <3>3. PICK row \in holding : row.id = req[r].h /\ row.user = req[r].user
      BY <2>10 DEF RedeemCheck, AllKnowOwn, KnowsOwn
    <3>4. req'[r] = [req[r] EXCEPT !.pc = "insert", !.shares = s]
      BY <3>2, GotoSelf
    <3> QED BY <1>1, <3>1, <3>3, <3>4 DEF KnowsOwn, Handler
  <2>11. CASE VoidCheck(r)
    <3>1. req[r] \in Handler
      BY <2>4, <2>11 DEF VoidCheck, Steps
    <3> QED BY <1>4, <2>11, <3>1, GotoSelf DEF VoidCheck, Reply, KnowsOwn, Handler
  <2>12. CASE Cleanup(r) \/ VoidLedger(r) \/ DeleteAccount(r)
    BY <1>4, <2>12, GotoSelf DEF Cleanup, VoidLedger, DeleteAccount, Reply
  <2> QED
    BY <2>1, <2>3, <2>5, <2>6, <2>7, <2>8, <2>9, <2>10, <2>11, <2>12 DEF Handle
<1> QED BY <1>2, <1>3, <1>4

\* When nothing deletes, a new entry goes to the account of its user.
LEMMA StepOwnEntries ==
  ASSUME IInv, AllKnowOwn, OwnEntries, [Next]_vars, TablesConsistent'
  PROVE  OwnEntries'
<1> SUFFICES ASSUME NEW e \in ledger', NEW row \in holding', e.holding = row.id
             PROVE  row.user = e.by
  BY DEF OwnEntries
<1>1. holding \subseteq holding'
  BY StepHoldingGrows DEF IInv
<1>2. ASSUME NEW f \in ledger, f.holding = e.holding, f.by = e.by
      PROVE  row.user = e.by
  <2>1. PICK old \in holding : old.id = f.holding
    BY DEF IInv, TablesConsistent, IdsOf
  <2>2. old = row
    BY <1>1, <1>2, <2>1 DEF TablesConsistent
  <2> QED BY <1>2, <2>1, <2>2 DEF OwnEntries
<1>3. CASE e \in ledger
  BY <1>2, <1>3
<1>4. ASSUME NEW r \in Requests, VoidLedger(r), ledger' # ledger
      PROVE  row.user = e.by
  <2>1. PICK f \in ledger : e = IF f.id = req[r].target
                                THEN [f EXCEPT !.voided = TRUE] ELSE f
    BY <1>4 DEF VoidLedger, WriteFails
  <2>2. e.holding = f.holding /\ e.by = f.by
    BY <2>1 DEF IInv, TypeOK, LedgerRow
  <2> QED BY <1>2, <2>2
<1>5. ASSUME NEW r \in Requests, Insert(r), e \notin ledger
      PROVE  row.user = e.by
  <2>1. e.holding = req[r].h /\ e.by = req[r].user
    BY <1>5 DEF Insert, InsertLedger
  <2>2. PICK own \in holding : own.id = req[r].h /\ own.user = req[r].user
    BY <1>5 DEF Insert, AllKnowOwn, KnowsOwn
  <2>3. own = row
    BY <1>1, <2>1, <2>2 DEF TablesConsistent
  <2> QED BY <2>1, <2>2, <2>3
<1> QED
  BY <1>3, <1>4, <1>5, TableWrites
     DEF CreateHolding, Cleanup, DeleteAccount, DeleteHolding, WriteFails

\* As long as no account is deleted (by its user, or after a failed first buy),
\* no entry ever lands in the account of another user.
THEOREM OwnEntriesWithoutDeletion ==
  ASSUME NothingDeletes PROVE Spec => []OwnEntries
<1> DEFINE Inv == IInv /\ AllKnowOwn /\ OwnEntries
<1>1. Init => Inv
  <2>1. Init => AllKnowOwn /\ OwnEntries
    BY DEF Init, AllKnowOwn, KnowsOwn, OwnEntries, Idle
  <2> QED BY <2>1, InitIInv
<1>2. Inv /\ [Next]_vars => Inv'
  BY StepTypeOK, StepTables, StepKnowsOwn, StepOwnEntries DEF IInv
<1>3. Inv => OwnEntries
  OBVIOUS
<1> QED BY <1>1, <1>2, <1>3, PTL DEF Spec

-----------------------------------------------------------------------------
(* One request at a time, and no entry dated back. *)

\* The assumption of this part: one request at a time, none dated back.
Serial ==
    /\ \A r, s \in Requests : r = s
    /\ MaxLag = 0

\* Entries are written in the order of their days.
InOrder == \A e, f \in ledger : e.id < f.id => e.day <= f.day

\* The day of a request is none before the days of the entries there are.
DaysPassed ==
    /\ \A e \in ledger : e.day <= today
    /\ \A r \in Requests : req[r] # Idle =>
         /\ req[r].day <= today
         /\ \A e \in ledger : e.day <= req[r].day

\* The entries of an account, in a given state of the ledger.
EntriesOf(h, l) == {e \in l : e.holding = h}

\* What a handler has checked in one statement still holds when it writes: the
\* entry to be voided is the last one, and there are the shares to be redeemed.
Checked(q, l) ==
    /\ q.pc = "mark" =>
         \A e, f \in l :
           e.id = q.target /\ ~ e.voided /\ ~ f.voided
             /\ f.holding = e.holding => f.id <= e.id
    /\ q.pc = "insert" /\ q.op = "redeem" =>
         /\ 0 < Remaining(EntriesOf(q.h, l))
         /\ q.shares <= Remaining(EntriesOf(q.h, l))

\* The inductive invariant of this part.
SInv ==
    /\ IInv
    /\ CreatesAreFirstBuys
    /\ InOrder
    /\ DaysPassed
    /\ \A r \in Requests : Checked(req[r], ledger)

\* The entries are in the order of their ids.
LEMMA OrderIsById ==
  ASSUME IInv, InOrder, NEW e \in ledger, NEW f \in ledger
  PROVE  Precedes(e, f) <=> e.id < f.id
<1>1. /\ e.id \in Nat /\ f.id \in Nat /\ e.day \in Nat /\ f.day \in Nat
  BY DaysAssumption DEF IInv, TypeOK, LedgerRow
<1>2. e.id = f.id => e = f
  BY DEF IInv, TablesConsistent
<1> QED BY <1>1, <1>2 DEF InOrder, Precedes

\* What a handler has when it goes on to another statement.
LEMMA Moves ==
  ASSUME SInv, MaxLag = 0, NEW r \in Requests, Handle(r), req'[r] # Idle
  PROVE  /\ ledger' = ledger /\ today' = today
         /\ \/ req'[r].day = today
            \/ req[r] # Idle /\ req'[r].day = req[r].day
         /\ req'[r].pc = "mark" =>
              \E last \in Active(ListLedger(req[r].h)) :
                /\ \A e \in Active(ListLedger(req[r].h)) : e.id <= last.id
                /\ req'[r].target = last.id
         /\ req'[r].pc = "insert" /\ req'[r].op = "redeem" =>
              /\ 0 < Remaining(EntriesOf(req'[r].h, ledger))
              /\ req'[r].shares <= Remaining(EntriesOf(req'[r].h, ledger))
<1>0. TypeOK /\ (req[r].pc \in Steps => req[r] \in Handler /\ req[r] # Idle)
  BY NotIdle DEF SInv, IInv, Idle, Steps
<1>1. CASE BuyStart(r)
  <2>1. PICK op \in {"create", "append"} \cap Ops[r], u \in Users,
            d \in OccurDays, s \in Shares :
          req'[r] = [pc |-> "lookup", op |-> op, user |-> u, day |-> d,
                     shares |-> s, h |-> NoRow, target |-> NoRow]
    BY <1>0, <1>1, GotoSelf DEF BuyStart
  <2>2. d = today
    BY <1>0 DEF OccurDays, TypeOK
  <2> QED BY <1>1, <2>1, <2>2 DEF BuyStart
<1>2. CASE BuyLookup(r)
  <2>0. req[r].pc = "lookup"
    BY <1>2, Zenon DEF BuyLookup
  <2>1. req[r] \in Handler /\ req[r] # Idle
    BY <1>0, <2>0 DEF Steps
  <2>2. CASE req[r].op = "create" /\ Goto(r, [req[r] EXCEPT !.pc = "create"])
    BY <1>0, <1>2, <2>1, <2>2, GotoSelf DEF BuyLookup, Handler
  <2>3. ASSUME req[r].op = "append", NEW n \in Nat,
               Goto(r, [req[r] EXCEPT !.pc = "insert", !.h = n])
        PROVE  req'[r].day = req[r].day /\ req'[r].pc = "insert" /\ req'[r].op = "append"
    BY <1>0, <2>1, <2>3, GotoSelf DEF Handler
  <2>4. \A row \in holding : row.id \in Nat
    BY <1>0 DEF TypeOK, HoldingRow
  <2>5. ~ Reply(r)
    BY <1>0, GotoSelf DEF Reply
  <2> QED BY <1>2, <2>1, <2>2, <2>3, <2>4, <2>5 DEF BuyLookup, HoldingByUserCode
<1>3. CASE CreateHolding(r)
  <2>1. req[r] \in Handler /\ req[r] # Idle /\ req[r].op = "create"
    BY <1>0, <1>3 DEF CreateHolding, Steps, Idle, SInv, CreatesAreFirstBuys
  <2>2. ~ Reply(r)
    BY <1>0, GotoSelf DEF Reply
  <2>3. req'[r] = [req[r] EXCEPT !.pc = "insert", !.h = NewRowid(holding)]
    BY <1>0, <1>3, <2>2, GotoSelf DEF CreateHolding
  <2> QED BY <1>3, <2>1, <2>3 DEF CreateHolding, Handler
<1>4. CASE Insert(r)
  <2>1. req[r] \in Handler /\ req[r] # Idle
    BY <1>0, <1>4 DEF Insert, Steps, Idle
  <2>2. ~ Reply(r)
    BY <1>0, GotoSelf DEF Reply
  <2>3. req'[r] = [req[r] EXCEPT !.pc = "cleanup"] /\ ledger' = ledger /\ today' = today
    BY <1>0, <1>4, <2>2, GotoSelf DEF Insert
  <2> QED BY <2>1, <2>3 DEF Handler
<1>5. CASE HoldingLookup(r)
  <2>1. PICK op \in {"redeem", "void", "delete"} \cap Ops[r], u \in Users :
          \E row \in HoldingByUserCode(u),
             d \in IF op = "redeem" THEN OccurDays ELSE {today} :
            req'[r] = [pc |-> op, op |-> op, user |-> u, day |-> d,
                       shares |-> 0, h |-> row.id, target |-> NoRow]
    BY <1>0, <1>5, GotoSelf DEF HoldingLookup
  <2>2. OccurDays \subseteq {today}
    BY <1>0 DEF OccurDays, TypeOK
  <2>3. PICK row \in HoldingByUserCode(u) :
            req'[r] = [pc |-> op, op |-> op, user |-> u, day |-> today,
                       shares |-> 0, h |-> row.id, target |-> NoRow]
    BY <2>1, <2>2
  <2> QED BY <1>5, <2>3 DEF HoldingLookup
<1>6. CASE RedeemCheck(r)
  <2>0. req[r].pc = "redeem"
    BY <1>6, Zenon DEF RedeemCheck
  <2>1. req[r] \in Handler /\ req[r] # Idle
    BY <1>0, <2>0 DEF Steps
  <2>2. ~ Reply(r)
    BY <1>0, GotoSelf DEF Reply
  <2> DEFINE remaining == Remaining(EntriesOf(req[r].h, ledger))
  <2>3. PICK s \in 0..remaining :
          /\ remaining > 0
          /\ Goto(r, [req[r] EXCEPT !.pc = "insert", !.shares = s])
    BY <1>6, <2>2, Zenon DEF RedeemCheck, EntriesOf, ListLedger
  <2>4. req'[r] = [req[r] EXCEPT !.pc = "insert", !.shares = s]
    BY <1>0, <2>3, GotoSelf
  <2>5. req'[r].day = req[r].day /\ req'[r].h = req[r].h /\ req'[r].shares = s
        /\ req'[r].pc = "insert"
    BY <2>1, <2>4 DEF Handler
  <2> HIDE DEF remaining
  <2>6. s <= remaining /\ 0 < remaining
    BY <2>3
  <2>7. ledger' = ledger /\ today' = today
    BY <1>6, Zenon DEF RedeemCheck
  <2> QED BY <2>1, <2>5, <2>6, <2>7 DEF remaining
<1>7. CASE VoidCheck(r)
  <2>0. req[r].pc = "void"
    BY <1>7, Zenon DEF VoidCheck
  <2>1. req[r] \in Handler /\ req[r] # Idle
    BY <1>0, <2>0 DEF Steps
  <2>2. ~ Reply(r)
    BY <1>0, GotoSelf DEF Reply
  <2>3. PICK last \in Active(ListLedger(req[r].h)) :
          /\ \A e \in Active(ListLedger(req[r].h)) : e.id <= last.id
          /\ Goto(r, [req[r] EXCEPT !.pc = "mark", !.target = last.id])
    BY <1>7, <2>2 DEF VoidCheck
  <2>4. req'[r] = [req[r] EXCEPT !.pc = "mark", !.target = last.id]
    BY <1>0, <2>3, GotoSelf
  <2>5. req'[r].day = req[r].day /\ req'[r].target = last.id /\ req'[r].pc = "mark"
    BY <2>1, <2>4 DEF Handler
  <2> QED BY <1>7, <2>1, <2>3, <2>5 DEF VoidCheck
<1>8. CASE Cleanup(r) \/ VoidLedger(r) \/ DeleteAccount(r)
  BY <1>0, <1>8, GotoSelf DEF Cleanup, VoidLedger, DeleteAccount, Reply
<1> QED BY <1>1, <1>2, <1>3, <1>4, <1>5, <1>6, <1>7, <1>8 DEF Handle

\* With one handler at most, a step is a step of that handler or of nobody.
LEMMA SerialSteps ==
  ASSUME Serial, TypeOK, [Next]_vars
  PROVE  \/ \E r \in Requests : Handle(r) /\ \A s \in Requests : s = r
         \/ /\ holding' = holding /\ ledger' = ledger
            /\ today' \in {today, today + 1}
            /\ \A r \in Requests : req'[r] \in {req[r], Idle}
  BY DEF Serial, Next, Crash, Tick, SetListed, vars

\* What a handler writes in ledger_entry; it is done with its request then.
LEMMA LedgerWrites ==
  ASSUME TypeOK, NEW r \in Requests, Handle(r), ledger' # ledger
  PROVE  /\ req'[r] = Idle
         /\ today' = today
         /\ \/ Insert(r) /\ InsertLedger(req[r]) /\ req[r] # Idle /\ req[r] \in Handler
            \/ VoidLedger(r)
            \/ ledger' = {e \in ledger : e.holding # req[r].h}
<1>1. Insert(r) \/ VoidLedger(r) \/ Cleanup(r) \/ DeleteAccount(r)
  BY DEF Handle, BuyStart, BuyLookup, CreateHolding, HoldingLookup, RedeemCheck,
         VoidCheck
<1>2. Reply(r) /\ today' = today
  BY <1>1 DEF Insert, VoidLedger, Cleanup, DeleteAccount
<1>3. req'[r] = Idle
  BY <1>2, GotoSelf DEF Reply
<1>4. CASE Insert(r)
  <2>1. req[r].pc = "insert" /\ InsertLedger(req[r])
    BY <1>4 DEF Insert
  <2>2. req[r] \in Handler /\ req[r] # Idle
    BY <2>1, NotIdle DEF Steps, Idle
  <2> QED BY <1>2, <1>3, <1>4, <2>1, <2>2
<1>5. CASE Cleanup(r) \/ DeleteAccount(r)
  BY <1>2, <1>3, <1>5 DEF Cleanup, DeleteAccount, DeleteHolding, WriteFails
<1> QED BY <1>1, <1>2, <1>3, <1>4, <1>5

\* The row that a handler inserts.
NewEntry(q) ==
    [id |-> NewRowid(ledger), holding |-> q.h,
     kind |-> IF q.op = "redeem" THEN "redeem" ELSE "buy",
     day |-> q.day, shares |-> q.shares, voided |-> FALSE, by |-> q.user]

\* Its id is larger than all others.
LEMMA InsertsNewEntry ==
  ASSUME IInv, NEW q, InsertLedger(q)
  PROVE  /\ ledger' = ledger \cup {NewEntry(q)}
         /\ \A e \in ledger : e.id \in Nat /\ e.id < NewEntry(q).id
         /\ NewEntry(q).id \in Nat /\ NewEntry(q).day = q.day
         /\ NewEntry(q).voided = FALSE /\ NewEntry(q).holding = q.h
         /\ NewEntry(q).shares = q.shares
         /\ NewEntry(q).kind = IF q.op = "redeem" THEN "redeem" ELSE "buy"
         /\ NewEntry(q) \notin ledger
<1>1. \A e \in ledger : e.id \in Nat /\ e.id < NewRowid(ledger)
  BY IdsAreNat, NewRowidFresh DEF IInv, TypeOK, LedgerRow
<1>2. NewRowid(ledger) \in Nat
  BY IdsAreNat, NewRowidFresh DEF IInv
<1>3. NewEntry(q).id = NewRowid(ledger)
  BY DEF NewEntry
<1>4. NewEntry(q) \notin ledger
  BY <1>1, <1>2, <1>3
<1>5. ledger' = ledger \cup {NewEntry(q)}
  BY DEF InsertLedger, NewEntry
<1> QED BY <1>1, <1>2, <1>3, <1>4, <1>5 DEF NewEntry

\* The entry e after VoidLedger has marked those with the id of the target.
Marked(e, target) == IF e.id = target THEN [e EXCEPT !.voided = TRUE] ELSE e

\* VoidLedger marks, and changes nothing else of an entry.
LEMMA MarksTarget ==
  ASSUME TypeOK, NEW r \in Requests, VoidLedger(r), ledger' # ledger
  PROVE  /\ ledger' = {Marked(e, req[r].target) : e \in ledger}
         /\ \A t : \A e \in ledger :
              /\ Marked(e, t).id = e.id /\ Marked(e, t).day = e.day
              /\ Marked(e, t).holding = e.holding /\ Marked(e, t).kind = e.kind
              /\ Marked(e, t).shares = e.shares
              /\ Marked(e, t).voided = (e.voided \/ e.id = t)
              /\ e.id # t => Marked(e, t) = e
<1>1. ASSUME NEW e \in LedgerRow
      PROVE  LET m == [e EXCEPT !.voided = TRUE]
             IN /\ m.id = e.id /\ m.day = e.day /\ m.holding = e.holding
                /\ m.kind = e.kind /\ m.shares = e.shares /\ m.voided = TRUE
                /\ e.voided \in BOOLEAN
  BY DEF LedgerRow
<1>2. ledger' = {Marked(e, req[r].target) : e \in ledger}
  BY DEF VoidLedger, WriteFails, Marked
<1>3. ledger \subseteq LedgerRow
  BY DEF TypeOK
<1> QED BY <1>1, <1>2, <1>3 DEF Marked

\* An entry is written with a day that none before it exceeds.
LEMMA StepInOrder ==
  ASSUME Serial, SInv, [Next]_vars
  PROVE  InOrder'
<1>0. TypeOK /\ IInv /\ InOrder /\ DaysPassed
  BY DEF SInv, IInv
<1>1. CASE ledger' = ledger
  BY <1>0, <1>1 DEF InOrder
<1>2. CASE ledger' \subseteq ledger
  BY <1>0, <1>2 DEF InOrder
<1>3. ASSUME NEW r \in Requests, InsertLedger(req[r]), req[r] # Idle, req[r] \in Handler
      PROVE  InOrder'
  <2> DEFINE n == NewEntry(req[r])
  <2>1. /\ ledger' = ledger \cup {n} /\ n.id \in Nat
        /\ \A e \in ledger : e.id \in Nat /\ e.id < n.id /\ e.day <= n.day
    BY <1>0, <1>3, InsertsNewEntry DEF DaysPassed
  <2> HIDE DEF n
  <2>2. \A e, f \in ledger' : e.id < f.id => e.day <= f.day
    BY <1>0, <2>1 DEF InOrder
  <2> QED BY <2>2 DEF InOrder
<1>4. ASSUME NEW r \in Requests, VoidLedger(r), ledger' # ledger
      PROVE  InOrder'
  <2>1. \A e \in ledger' : \E f \in ledger : f.id = e.id /\ f.day = e.day
    BY <1>0, <1>4, MarksTarget
  <2> QED BY <1>0, <2>1 DEF InOrder
<1>5. ledger' = ledger \/ \E r \in Requests : Handle(r)
  BY <1>0, SerialSteps
<1> QED BY <1>0, <1>1, <1>2, <1>3, <1>4, <1>5, LedgerWrites

\* While a request is handled no other one adds an entry.
LEMMA StepDaysPassed ==
  ASSUME Serial, SInv, [Next]_vars
  PROVE  DaysPassed'
<1>0. TypeOK /\ IInv /\ InOrder /\ DaysPassed /\ MaxLag = 0
  BY DEF SInv, IInv, Serial
<1>1. ASSUME \A r \in Requests : req'[r] \in {req[r], Idle},
             ledger' = ledger, today' \in {today, today + 1}
      PROVE  DaysPassed'
  <2>1. today \in Nat /\ \A e \in ledger : e.day \in Nat
    BY <1>0, DaysAssumption DEF TypeOK, LedgerRow
  <2>2. \A r \in Requests : req'[r] # Idle => req'[r] = req[r] /\ req[r].day \in Nat
    BY <1>0, <1>1, DaysAssumption DEF TypeOK, Handler
  <2> QED BY <1>0, <1>1, <2>1, <2>2 DEF DaysPassed
<1>2. ASSUME NEW r \in Requests, Handle(r), \A s \in Requests : s = r
      PROVE  DaysPassed'
  <2>1. CASE ledger' # ledger
    <3>1. req'[r] = Idle /\ today' = today
      BY <1>0, <1>2, <2>1, LedgerWrites
    <3>2. \A e \in ledger' : e.day <= today
      <4>1. CASE InsertLedger(req[r]) /\ req[r] # Idle
        <5>1. ledger' = ledger \cup {NewEntry(req[r])} /\ NewEntry(req[r]).day = req[r].day
          BY <1>0, <4>1, InsertsNewEntry
        <5> QED BY <1>0, <4>1, <5>1 DEF DaysPassed
      <4>2. CASE VoidLedger(r)
        BY <1>0, <2>1, <4>2, MarksTarget DEF DaysPassed
      <4>3. CASE ledger' \subseteq ledger
        BY <1>0, <4>3 DEF DaysPassed
      <4> QED BY <1>0, <1>2, <2>1, <4>1, <4>2, <4>3, LedgerWrites
    <3>3. \A s \in Requests : req'[s] = Idle
      BY <1>2, <3>1
    <3> QED BY <3>1, <3>2, <3>3 DEF DaysPassed
  <2>2. CASE ledger' = ledger /\ req'[r] # Idle
    <3>1. /\ today' = today
          /\ \/ req'[r].day = today
             \/ req[r] # Idle /\ req'[r].day = req[r].day
      BY <1>0, <1>2, <2>2, Moves
    <3>2. today <= today
      BY <1>0 DEF TypeOK
    <3>3. /\ req'[r].day <= today /\ \A e \in ledger : e.day <= req'[r].day
      BY <1>0, <3>1, <3>2 DEF DaysPassed
    <3>4. \A s \in Requests : req'[s].day <= today /\ \A e \in ledger : e.day <= req'[s].day
      BY <1>2, <3>3
    <3> QED BY <1>0, <2>2, <3>1, <3>4 DEF DaysPassed
  <2>3. CASE ledger' = ledger /\ req'[r] = Idle
    <3>1. today' = today
      BY <1>2 DEF Handle, BuyStart, BuyLookup, CreateHolding, Insert, Cleanup,
                  HoldingLookup, RedeemCheck, VoidCheck, VoidLedger, DeleteAccount
    <3>2. \A s \in Requests : req'[s] = Idle
      BY <1>2, <2>3
    <3> QED BY <1>0, <2>3, <3>1, <3>2 DEF DaysPassed
  <2> QED BY <2>1, <2>2, <2>3
<1> QED BY <1>0, <1>1, <1>2, SerialSteps

\* While a request is handled nothing changes what it has checked.
LEMMA StepChecked ==
  ASSUME Serial, SInv, [Next]_vars
  PROVE  \A r \in Requests : Checked(req'[r], ledger')
<1>0. TypeOK /\ IInv /\ InOrder /\ DaysPassed /\ MaxLag = 0
  BY DEF SInv, IInv, Serial
<1>1. Checked(Idle, ledger')
  BY DEF Checked, Idle
<1>2. \A r \in Requests : Checked(req[r], ledger)
  BY DEF SInv
<1>3. ASSUME NEW r \in Requests, Handle(r), req'[r] # Idle
      PROVE  Checked(req'[r], ledger')
  <2>1. ledger' = ledger
    BY <1>0, <1>3, Moves
  <2>2. ASSUME req'[r].pc = "mark", NEW e \in ledger, NEW f \in ledger,
               e.id = req'[r].target, ~ e.voided, ~ f.voided, f.holding = e.holding
        PROVE  f.id <= e.id
    <3>1. PICK last \in Active(ListLedger(req[r].h)) :
            /\ \A g \in Active(ListLedger(req[r].h)) : g.id <= last.id
            /\ req'[r].target = last.id
      BY <1>0, <1>3, <2>2, Moves
    <3>2. last = e
      BY <1>0, <2>2, <3>1 DEF IInv, TablesConsistent, Active, ListLedger
    <3>3. f \in Active(ListLedger(req[r].h))
      BY <2>2, <3>1, <3>2 DEF Active, ListLedger
    <3> QED BY <3>1, <3>2, <3>3
  <2>3. req'[r].pc = "insert" /\ req'[r].op = "redeem" =>
              /\ 0 < Remaining(EntriesOf(req'[r].h, ledger))
              /\ req'[r].shares <= Remaining(EntriesOf(req'[r].h, ledger))
    BY <1>0, <1>3, Moves
  <2> QED BY <2>1, <2>2, <2>3 DEF Checked
<1>4. CASE \E r \in Requests : Handle(r) /\ \A s \in Requests : s = r
  BY <1>1, <1>3, <1>4
<1> QED BY <1>0, <1>1, <1>2, <1>4, SerialSteps

-----------------------------------------------------------------------------
(* Every account can be replayed. *)

\* Every account can be replayed, also one without a row.
AllReplay(l) == \A h \in Nat : Replays(EntriesOf(h, l))

\* An entry after all others, with no more shares than there are.
LEMMA ReplaysAdd ==
  ASSUME NEW A, NEW n, n \notin A, Replays(A),
         \A e \in A : Precedes(e, n) /\ ~ Precedes(n, e),
         ~ Precedes(n, n), n.voided = FALSE,
         n.kind = "redeem" => Remaining(A) # 0 /\ n.shares <= Remaining(A)
  PROVE  Replays(A \cup {n})
<1> DEFINE X == Active(A)
           Y == Active(A \cup {n})
<1>1. Y = X \cup {n} /\ X \subseteq A
  BY DEF Active
<1>2. \A e \in X : {f \in Y : Precedes(f, e)} = {f \in X : Precedes(f, e)}
  BY <1>1
<1>3. {f \in Y : Precedes(f, n)} = X
  BY <1>1
<1>4. SharesBefore(n, Y) = Remaining(A)
  BY <1>3, Zenon DEF SharesBefore, Remaining
<1>5. \A e \in X : SharesBefore(e, Y) = SharesBefore(e, X)
  BY <1>2, Zenon DEF SharesBefore
<1>6. \A e \in X : e.kind = "redeem" =>
            /\ e.shares <= SharesBefore(e, X)
            /\ SharesBefore(e, X) # 0
  BY Zenon DEF Replays
<1> HIDE DEF X, Y
<1>7. \A e \in Y : e.kind = "redeem" =>
            /\ e.shares <= SharesBefore(e, Y)
            /\ SharesBefore(e, Y) # 0
  BY <1>1, <1>4, <1>5, <1>6, Zenon
<1> QED BY <1>7, Zenon DEF Replays, Y

\* Without entries that precede no other one.
LEMMA ReplaysDrop ==
  ASSUME NEW A, NEW B, NEW t, Replays(A),
         Active(B) = {e \in Active(A) : e.id # t},
         \A l, e \in Active(A) : l.id = t => ~ Precedes(l, e)
  PROVE  Replays(B)
<1> DEFINE X == Active(A)
           Y == Active(B)
<1>1. Y \subseteq X
  OBVIOUS
<1>2. \A e \in Y : {f \in Y : Precedes(f, e)} = {f \in X : Precedes(f, e)}
  OBVIOUS
<1>3. \A e \in Y : SharesBefore(e, Y) = SharesBefore(e, X)
  BY <1>2, Zenon DEF SharesBefore
<1>4. \A e \in X : e.kind = "redeem" =>
            /\ e.shares <= SharesBefore(e, X)
            /\ SharesBefore(e, X) # 0
  BY Zenon DEF Replays
<1> HIDE DEF X, Y
<1>5. \A e \in Y : e.kind = "redeem" =>
            /\ e.shares <= SharesBefore(e, Y)
            /\ SharesBefore(e, Y) # 0
  BY <1>1, <1>3, <1>4, Zenon
<1> QED BY <1>5, Zenon DEF Replays, Y

\* Which entries are in force after VoidLedger.
LEMMA VoidedAreGone ==
  ASSUME TypeOK, NEW r \in Requests, VoidLedger(r), ledger' # ledger, NEW h
  PROVE  Active(EntriesOf(h, ledger'))
           = {e \in Active(EntriesOf(h, ledger)) : e.id # req[r].target}
<1> DEFINE t == req[r].target
<1>1. /\ ledger' = {Marked(e, t) : e \in ledger}
      /\ \A e \in ledger :
           /\ Marked(e, t).holding = e.holding
           /\ Marked(e, t).voided = (e.voided \/ e.id = t)
           /\ e.id # t => Marked(e, t) = e
  BY MarksTarget
<1>2. \A e \in ledger : e.voided \in BOOLEAN
  BY DEF TypeOK, LedgerRow
<1> HIDE DEF t
<1>3. ASSUME NEW x \in Active(EntriesOf(h, ledger'))
      PROVE  x \in Active(EntriesOf(h, ledger)) /\ x.id # t
  <2>1. PICK e \in ledger : x = Marked(e, t)
    BY <1>1 DEF Active, EntriesOf
  <2>2. ~ x.voided /\ x.holding = h
    BY DEF Active, EntriesOf
  <2> QED BY <1>1, <1>2, <2>1, <2>2 DEF Active, EntriesOf
<1>4. ASSUME NEW x \in Active(EntriesOf(h, ledger)), x.id # t
      PROVE  x \in Active(EntriesOf(h, ledger'))
  BY <1>1, <1>4 DEF Active, EntriesOf
<1>5. Active(EntriesOf(h, ledger'))
           = {e \in Active(EntriesOf(h, ledger)) : e.id # t}
  BY <1>3, <1>4
<1> QED BY <1>5 DEF t

\* An entry that a handler is about to mark comes before no other one in force.
LEMMA MarksLast ==
  ASSUME SInv, NEW r \in Requests, VoidLedger(r),
         NEW e \in ledger, NEW f \in ledger, e.id = req[r].target,
         ~ e.voided, ~ f.voided, f.holding = e.holding
  PROVE  ~ Precedes(e, f)
<1>1. req[r].pc = "mark"
  BY DEF VoidLedger
<1>2. Checked(req[r], ledger)
  BY DEF SInv
<1>3. f.id <= e.id
  BY <1>1, <1>2 DEF Checked
<1>4. e.id \in Nat /\ f.id \in Nat
  BY DEF SInv, IInv, TypeOK, LedgerRow
<1> QED BY <1>3, <1>4, OrderIsById DEF SInv

\* Each write leaves accounts that can be replayed.
LEMMA StepReplay ==
  ASSUME Serial, SInv, AllReplay(ledger), [Next]_vars
  PROVE  AllReplay(ledger')
<1>0. TypeOK /\ IInv /\ InOrder /\ DaysPassed
  BY DEF SInv, IInv
<1> SUFFICES ASSUME NEW h \in Nat PROVE Replays(EntriesOf(h, ledger'))
  BY Zenon DEF AllReplay
<1>1. Replays(EntriesOf(h, ledger))
  BY Zenon DEF AllReplay
<1>2. CASE ledger' = ledger
  BY <1>1, <1>2, Zenon
<1>3. ASSUME NEW r \in Requests, Insert(r), InsertLedger(req[r]), req[r] # Idle,
             req[r] \in Handler
      PROVE  Replays(EntriesOf(h, ledger'))
  <2> DEFINE q == req[r]
             n == NewEntry(q)
             A == EntriesOf(h, ledger)
  <2>1. /\ ledger' = ledger \cup {n} /\ n \notin ledger
        /\ \A e \in ledger : e.id \in Nat /\ e.id < n.id
        /\ n.id \in Nat /\ n.day = q.day /\ n.voided = FALSE
        /\ n.holding = q.h /\ n.shares = q.shares
        /\ n.kind = IF q.op = "redeem" THEN "redeem" ELSE "buy"
    BY <1>0, <1>3, InsertsNewEntry
  <2>2. \A e \in ledger : e.day <= q.day
    BY <1>0, <1>3 DEF DaysPassed
  <2>3. q.day \in Nat /\ \A e \in ledger : e.day \in Nat
    BY <1>0, <1>3, DaysAssumption DEF TypeOK, LedgerRow, Handler
  <2>4. n.kind = "redeem" =>
          0 < Remaining(EntriesOf(q.h, ledger))
            /\ n.shares <= Remaining(EntriesOf(q.h, ledger))
    <3>1. q.pc = "insert" /\ Checked(q, ledger)
      BY <1>3 DEF Insert, SInv
    <3> HIDE DEF n, q
    <3> QED BY <2>1, <3>1 DEF Checked
  <2> HIDE DEF n, q
  <2>5. CASE q.h # h
    <3>1. EntriesOf(h, ledger') = A
      BY <2>1, <2>5 DEF EntriesOf
    <3> QED BY <1>1, <3>1, Zenon
  <2>6. CASE q.h = h
    <3>1. EntriesOf(h, ledger') = A \cup {n} /\ A \subseteq ledger
      BY <2>1, <2>6 DEF EntriesOf
    <3>2. \A e \in A : Precedes(e, n) /\ ~ Precedes(n, e)
      BY <2>1, <2>2, <2>3, <3>1 DEF Precedes
    <3>3. ~ Precedes(n, n)
      BY <2>1, <2>3 DEF Precedes
    <3>4. n.kind = "redeem" => Remaining(A) # 0 /\ n.shares <= Remaining(A)
      <4>1. n.kind = "redeem" => 0 < Remaining(A) /\ n.shares <= Remaining(A)
        BY <2>4, <2>6, Zenon
      <4> DEFINE x == Remaining(A)
      <4>2. 0 < x => x # 0
        OBVIOUS
      <4> QED BY <4>1, <4>2, Zenon
    <3>5. n \notin A /\ Replays(A)
      BY <1>1, <2>1, <3>1, Zenon
    <3> HIDE DEF A
    <3>6. Replays(A \cup {n})
      BY <2>1, <3>2, <3>3, <3>4, <3>5, ReplaysAdd, Zenon
    <3> QED BY <3>1, <3>6, Zenon
  <2> QED BY <2>5, <2>6
<1>4. ASSUME NEW r \in Requests, VoidLedger(r), ledger' # ledger
      PROVE  Replays(EntriesOf(h, ledger'))
  <2> DEFINE A == EntriesOf(h, ledger)
             B == EntriesOf(h, ledger')
             t == req[r].target
  <2>1. Active(B) = {e \in Active(A) : e.id # t}
    BY <1>0, <1>4, VoidedAreGone
  <2>2. ASSUME NEW l \in Active(A), NEW e \in Active(A), l.id = t
        PROVE  ~ Precedes(l, e)
    <3>1. l \in ledger /\ e \in ledger /\ ~ l.voided /\ ~ e.voided
          /\ e.holding = l.holding
      BY DEF Active, EntriesOf
    <3> QED BY <1>4, <2>2, <3>1, MarksLast
  <2>3. Replays(A)
    BY <1>1
  <2> HIDE DEF A, B, t
  <2>4. Replays(B)
    BY <2>1, <2>2, <2>3, ReplaysDrop, Zenon
  <2> QED BY <2>4 DEF B
<1>5. ASSUME NEW r \in Requests, ledger' = {e \in ledger : e.holding # req[r].h}
      PROVE  Replays(EntriesOf(h, ledger'))
  <2>1. CASE h = req[r].h
    <3>1. EntriesOf(h, ledger') = {}
      BY <1>5, <2>1 DEF EntriesOf
    <3>2. Active({}) = {}
      BY DEF Active
    <3>3. Replays({})
      BY <3>2, Zenon DEF Replays
    <3> QED BY <3>1, <3>3, Zenon
  <2>2. CASE h # req[r].h
    <3>1. EntriesOf(h, ledger') = EntriesOf(h, ledger)
      BY <1>5, <2>2 DEF EntriesOf
    <3> QED BY <1>1, <3>1, Zenon
  <2> QED BY <2>1, <2>2
<1>6. ledger' = ledger \/ \E r \in Requests : Handle(r)
  BY <1>0, SerialSteps
<1> QED BY <1>0, <1>2, <1>3, <1>4, <1>5, <1>6, LedgerWrites

\* The invariant holds at the start and is kept.
LEMMA SerialInit == Init => SInv /\ AllReplay(ledger)
<1> SUFFICES ASSUME Init PROVE SInv /\ AllReplay(ledger)
  OBVIOUS
<1>1. IInv
  BY InitIInv
<1>2. ledger = {} /\ req = [r \in Requests |-> Idle]
  BY DEF Init
<1>3. InOrder /\ DaysPassed /\ CreatesAreFirstBuys
  BY <1>2 DEF InOrder, DaysPassed, CreatesAreFirstBuys, Idle
<1>4. \A r \in Requests : Checked(req[r], ledger)
  BY <1>2 DEF Checked, Idle
<1>5. ASSUME NEW h \in Nat PROVE Replays(EntriesOf(h, ledger))
  <2>1. EntriesOf(h, ledger) = {} /\ Active({}) = {}
    BY <1>2 DEF EntriesOf, Active
  <2>2. Replays({})
    BY <2>1, Zenon DEF Replays
  <2> QED BY <2>1, <2>2, Zenon
<1>6. AllReplay(ledger)
  BY <1>5, Zenon DEF AllReplay
<1> QED BY <1>1, <1>3, <1>4, <1>6 DEF SInv

LEMMA SerialStep ==
  ASSUME Serial, SInv, [Next]_vars
  PROVE  SInv'
<1>1. IInv'
  BY StepTypeOK, StepTables DEF SInv, IInv
<1>2. CreatesAreFirstBuys'
  BY StepCreatesAreFirstBuys DEF SInv, IInv
<1> QED BY <1>1, <1>2, StepInOrder, StepDaysPassed, StepChecked DEF SInv

\* Replayable with one request at a time and no entry dated back: the shares
\* that the handler counted are still there when it writes, and voiding takes
\* away an entry that none in force comes after.
THEOREM ReplayableAlways ==
  ASSUME Serial PROVE Spec => []Replayable
<1> DEFINE Inv == SInv /\ AllReplay(ledger)
<1>1. Init => Inv
  BY SerialInit
<1>2. Inv /\ [Next]_vars => Inv'
  BY SerialStep, StepReplay
<1>3. Inv => Replayable
  <2> SUFFICES ASSUME SInv, AllReplay(ledger), NEW row \in holding
               PROVE  Replays(ListLedger(row.id))
    BY Zenon DEF Replayable
  <2>1. row.id \in Nat
    BY DEF SInv, IInv, TypeOK, HoldingRow
  <2>2. ListLedger(row.id) = EntriesOf(row.id, ledger)
    BY DEF ListLedger, EntriesOf
  <2> QED BY <2>1, <2>2, Zenon DEF AllReplay
<1> QED BY <1>1, <1>2, <1>3, PTL DEF Spec

\* A step voids an entry only if it is the last one in force of its account.
LEMMA StepVoidsLatest ==
  ASSUME Serial, SInv, [Next]_vars,
         NEW e \in ledger, ~ e.voided, [e EXCEPT !.voided = TRUE] \in ledger',
         NEW f \in Active(ListLedger(e.holding))
  PROVE  ~ Precedes(e, f)
<1> DEFINE v == [e EXCEPT !.voided = TRUE]
<1>0. TypeOK /\ IInv
  BY DEF SInv, IInv
<1>1. v.id = e.id /\ v.voided = TRUE /\ v # e /\ e.id \in Nat
  BY <1>0 DEF TypeOK, LedgerRow
<1> HIDE DEF v
<1>2. v \notin ledger
  BY <1>0, <1>1 DEF IInv, TablesConsistent
<1>3. v \in ledger'
  BY DEF v
<1>4. ledger' # ledger
  BY <1>2, <1>3
<1>5. PICK r \in Requests : Handle(r)
  BY <1>0, <1>4, SerialSteps
<1>6. ~ InsertLedger(req[r])
  <2> SUFFICES ASSUME InsertLedger(req[r]) PROVE FALSE
    OBVIOUS
  <2>1. v = NewEntry(req[r]) /\ NewEntry(req[r]).voided = FALSE
    BY <1>0, <1>2, <1>3, InsertsNewEntry
  <2> QED BY <1>1, <2>1
<1>7. VoidLedger(r)
  BY <1>0, <1>2, <1>3, <1>4, <1>5, <1>6, LedgerWrites
<1>8. PICK g \in ledger : v = Marked(g, req[r].target)
  BY <1>0, <1>3, <1>4, <1>7, MarksTarget
<1>9. g = e
  BY <1>0, <1>1, <1>4, <1>7, <1>8, MarksTarget DEF IInv, TablesConsistent
<1>10. e.id = req[r].target
  BY <1>1, <1>8, <1>9 DEF Marked
<1>11. f \in ledger /\ ~ f.voided /\ f.holding = e.holding
  BY DEF Active, ListLedger
<1> QED BY <1>7, <1>10, <1>11, MarksLast

\* VoidsOnlyLatest with one request at a time and no entry dated back: the last
\* id, by which handleVoid tells the last entry, is then the last in time.
THEOREM VoidsOnlyLatestAlways ==
  ASSUME Serial PROVE Spec => VoidsOnlyLatest
<1>1. SInv /\ [Next]_vars =>
        [\A e \in ledger :
           (~e.voided /\ [e EXCEPT !.voided = TRUE] \in ledger')
             => \A f \in Active(ListLedger(e.holding)) : ~Precedes(e, f)]_vars
  BY StepVoidsLatest
<1>2. SInv /\ [Next]_vars => SInv'
  BY SerialStep
<1>3. Init => SInv
  BY SerialInit
<1> QED BY <1>1, <1>2, <1>3, PTL DEF Spec, VoidsOnlyLatest

-----------------------------------------------------------------------------
(* The balances of a finite set of entries that are in the order of ids. *)

\* What an entry adds to the shares.
Signed(e) == IF e.kind = "buy" THEN e.shares ELSE -e.shares

\* A finite set of entries of which the ids give the order.
Chain(E) ==
    /\ IsFiniteSet(E)
    /\ \A e \in E : e.id \in Nat /\ Signed(e) \in Int
    /\ \A e, f \in E : e.id = f.id => e = f
    /\ \A e, f \in E : Precedes(e, f) <=> e.id < f.id

IsLast(n, E) == n \in E /\ \A e \in E : e.id <= n.id

\* The one entry of E that i - 1 others precede.
Ranked(E, i) == CHOOSE e \in E : Cardinality({f \in E : Precedes(f, e)}) = i - 1

\* How Balances computes the list of the first n balances.
FirstRound(g, E, n) ==
    IF n = 0 THEN <<>>
    ELSE Append(g[n - 1], (IF n = 1 THEN 0 ELSE g[n - 1][n - 1]) + Signed(Ranked(E, n)))

\* All these lists, up to the number of entries.
IsFirst(g, E) == g = [n \in 0..Cardinality(E) |-> FirstRound(g, E, n)]

\* Balances in these words.
LEMMA BalancesChosen ==
  ASSUME NEW E
  PROVE  Balances(E) = (CHOOSE g : IsFirst(g, E))[Cardinality(E)]
  BY DEF Balances, IsFirst, FirstRound, Ranked, Signed

\* What each entry adds, as a function: SharesAfter is its sum.
Weight(E) == [e \in E |-> Signed(e)]

\* The sum does not depend on the order in which a fold takes the entries.
LEMMA SharesAfterIsSum ==
  ASSUME NEW E
  PROVE  SharesAfter(E) = SumOf(Weight(E), E)
<1> DEFINE P(g) == g = [s \in SUBSET E |-> IF s = {} THEN 0 ELSE Signed(Some(s)) + g[s \ {Some(s)}]]
<1>1. SharesAfter(E) = (CHOOSE g : P(g))[E]
  BY DEF SharesAfter, MapThenSumSet, MapThenFoldSet, Some, Signed
<1>2. ASSUME NEW g PROVE P(g) <=> IsSum(g, Weight(E), E)
  <2>1. \A s \in SUBSET E : s # {} => Weight(E)[Some(s)] = Signed(Some(s))
    BY DEF Weight, Some
  <2>2. [s \in SUBSET E |-> IF s = {} THEN 0 ELSE Signed(Some(s)) + g[s \ {Some(s)}]]
        = [s \in SUBSET E |-> SumRound(g, Weight(E), s)]
    BY <2>1 DEF SumRound
  <2> QED BY <2>2 DEF IsSum
<1> HIDE DEF P
<1>3. (CHOOSE g : P(g)) = (CHOOSE g : IsSum(g, Weight(E), E))
  BY <1>2
<1> QED BY <1>1, <1>3 DEF SumOf

\* A set of entries that is not empty has a last one.
LEMMA LastExists ==
  ASSUME NEW E, Chain(E), E # {}
  PROVE  \E n : IsLast(n, E)
<1>1. IsFiniteSet(E) /\ \A e \in E : e.id \in Nat
  BY DEF Chain
<1> DEFINE B == {s \in SUBSET E : s # {} /\ ~ \E n : IsLast(n, s)}
<1> SUFFICES ASSUME B # {} PROVE FALSE
  <2>1. E \in SUBSET E
    OBVIOUS
  <2> QED BY <2>1
<1>2. PICK s \in B : \A x \in s : s \ {x} \notin B
  <2>1. B \subseteq SUBSET E
    OBVIOUS
  <2> HIDE DEF B
  <2> QED BY <1>1, <2>1, SmallestSubset
<1>3. PICK x \in s : TRUE
  OBVIOUS
<1>4. CASE s \ {x} = {}
  <2>1. s = {x}
    BY <1>3, <1>4
  <2> QED BY <1>1, <2>1 DEF IsLast
<1>5. CASE s \ {x} # {}
  <2>1. PICK n : IsLast(n, s \ {x})
    BY <1>2, <1>5
  <2>2. n \in E /\ x \in E /\ n.id \in Nat /\ x.id \in Nat /\ \A e \in s : e.id \in Nat
    BY <1>1, <2>1 DEF IsLast
  <2>3. CASE x.id <= n.id
    BY <2>1, <2>3 DEF IsLast
  <2>4. CASE ~ (x.id <= n.id)
    <3>1. \A e \in s : e.id <= x.id
      BY <2>1, <2>2, <2>4 DEF IsLast
    <3> QED BY <3>1 DEF IsLast
  <2> QED BY <2>3, <2>4
<1> QED BY <1>4, <1>5

\* Without its last entry a set of entries is one again, and none of the places
\* of the others changes.
LEMMA ChainWithout ==
  ASSUME NEW E, Chain(E), NEW n, IsLast(n, E)
  PROVE  LET D == E \ {n}
         IN /\ Chain(D) /\ Cardinality(D) \in Nat
            /\ Cardinality(E) = Cardinality(D) + 1
            /\ Ranked(E, Cardinality(E)) = n
            /\ \A i \in 1..Cardinality(D) : Ranked(E, i) = Ranked(D, i)
<1> DEFINE D == E \ {n}
           RankIn(S) == [e \in S |-> Cardinality({f \in S : Precedes(f, e)})]
<1>1. Chain(D)
  <2>1. IsFiniteSet(D)
    BY FS_Subset DEF Chain
  <2> QED BY <2>1 DEF Chain
<1>2. Cardinality(D) \in Nat /\ Cardinality(E) = Cardinality(D) + 1
  <2>1. IsFiniteSet(E) /\ n \in E /\ IsFiniteSet(D)
    BY <1>1 DEF Chain, IsLast
  <2>2. Cardinality(D) = Cardinality(E) - 1
    BY <2>1, FS_RemoveElement
  <2>3. Cardinality(E) \in Nat /\ Cardinality(D) \in Nat
    BY <2>1, FS_CardinalityType
  <2> HIDE DEF D
  <2> QED BY <2>2, <2>3
<1>3. \A e \in D : e.id < n.id /\ ~ Precedes(n, e) /\ Precedes(e, n)
  BY DEF Chain, IsLast
<1>4. ~ Precedes(n, n)
  BY DEF Chain, IsLast
<1>5. {f \in E : Precedes(f, n)} = D
  BY <1>3, <1>4
<1>6. \A e \in D : {f \in E : Precedes(f, e)} = {f \in D : Precedes(f, e)}
  BY <1>3
<1>7. n \in E /\ RankIn(E)[n] = Cardinality(D)
  BY <1>5 DEF IsLast
<1>8. \A e \in D : RankIn(E)[e] = RankIn(D)[e]
  BY <1>6
<1>9. \A e \in D : RankIn(E)[e] \in Nat /\ RankIn(E)[e] < Cardinality(D)
  <2> SUFFICES ASSUME NEW e \in D
               PROVE  LET P == {f \in D : Precedes(f, e)}
                      IN Cardinality(P) \in Nat /\ Cardinality(P) < Cardinality(D)
    BY <1>8
  <2> DEFINE P == {f \in D : Precedes(f, e)}
  <2>1. P \subseteq D /\ P # D
    <3>1. e \notin P
      BY <1>1 DEF Chain
    <3> QED BY <3>1
  <2>2. IsFiniteSet(D)
    BY <1>1 DEF Chain
  <2>3. IsFiniteSet(P) /\ Cardinality(P) \in Nat /\ Cardinality(D) \in Nat
        /\ Cardinality(P) <= Cardinality(D) /\ (Cardinality(P) = Cardinality(D) => P = D)
    BY <2>1, <2>2, FS_Subset, FS_CardinalityType
  <2> QED BY <2>1, <2>3
<1>10. \A S, i : Ranked(S, i) = CHOOSE e \in S : RankIn(S)[e] = i - 1
  BY DEF Ranked
<1>11. Ranked(E, Cardinality(E)) = n
  <2>1. \A e \in E : RankIn(E)[e] = Cardinality(E) - 1 <=> e = n
    <3> HIDE DEF RankIn
    <3>1. \A e \in E : e \in D \/ e = n
      OBVIOUS
    <3> HIDE DEF D
    <3> QED BY <1>2, <1>7, <1>9, <3>1
  <2> HIDE DEF RankIn
  <2> QED BY <1>7, <1>10, <2>1
<1>12. ASSUME NEW i \in 1..Cardinality(D) PROVE Ranked(E, i) = Ranked(D, i)
  <2>0. \A e : e \in E <=> e \in D \/ e = n
    BY <1>7
  <2> HIDE DEF RankIn, D
  <2>1. \A e : (e \in E /\ RankIn(E)[e] = i - 1) <=> (e \in D /\ RankIn(D)[e] = i - 1)
    BY <1>2, <1>7, <1>8, <1>9, <1>12, <2>0
  <2> QED BY <1>10, <2>1
<1> QED BY <1>1, <1>2, <1>11, <1>12
\* A part of a chain is one, too.
LEMMA ChainPart ==
  ASSUME NEW E, Chain(E), NEW s, s \subseteq E
  PROVE  Chain(s)
<1>1. IsFiniteSet(s)
  BY FS_Subset DEF Chain
<1> QED BY <1>1 DEF Chain

\* The lists of the first balances exist.
LEMMA FirstExists ==
  ASSUME NEW E, Chain(E)
  PROVE  \E g : IsFirst(g, E)
<1> DEFINE B == {s \in SUBSET E : ~ \E g : IsFirst(g, s)}
<1> SUFFICES ASSUME B # {} PROVE FALSE
  <2>1. E \in SUBSET E
    OBVIOUS
  <2> QED BY <2>1
<1>1. IsFiniteSet(E)
  BY DEF Chain
<1>2. PICK s \in B : \A x \in s : s \ {x} \notin B
  <2>1. B \subseteq SUBSET E
    OBVIOUS
  <2> HIDE DEF B
  <2> QED BY <1>1, <2>1, SmallestSubset
<1>3. Chain(s)
  BY ChainPart
<1>4. CASE s = {}
  <2> DEFINE g == [k \in 0..0 |-> <<>>]
  <2>1. Cardinality(s) = 0
    BY <1>4, FS_EmptySet
  <2>2. \A k \in 0..0 : FirstRound(g, s, k) = <<>>
    BY DEF FirstRound
  <2>3. IsFirst(g, s)
    BY <2>1, <2>2 DEF IsFirst
  <2> QED BY <2>3
<1>5. CASE s # {}
  <2>1. PICK n : IsLast(n, s)
    BY <1>3, <1>5, LastExists
  <2> DEFINE D == s \ {n}
             m == Cardinality(D)
  <2>2. /\ m \in Nat /\ Cardinality(s) = m + 1
        /\ \A i \in 1..m : Ranked(s, i) = Ranked(D, i)
    BY <1>3, <2>1, ChainWithout
  <2>3. PICK h : IsFirst(h, D)
    BY <1>2, <2>1 DEF IsLast
  <2>4. \A k \in 0..m : h[k] = FirstRound(h, D, k)
    BY <2>3 DEF IsFirst
  <2> DEFINE g == [k \in 0..m + 1 |-> IF k = m + 1 THEN FirstRound(h, s, m + 1) ELSE h[k]]
  <2> HIDE DEF D, m
  <2>5. ASSUME NEW k \in 0..m + 1
        PROVE  g[k] = FirstRound(g, s, k)
    <3>1. CASE k = 0
      BY <2>2, <2>4, <3>1 DEF FirstRound
    <3>2. CASE k \in 1..m + 1
      <4>1. k - 1 \in 0..m + 1 /\ k - 1 # m + 1 /\ g[k - 1] = h[k - 1]
        BY <2>2, <3>2
      <4>2. FirstRound(g, s, k) = FirstRound(h, s, k)
        BY <3>2, <4>1 DEF FirstRound
      <4>3. CASE k = m + 1
        BY <4>2, <4>3
      <4>4. CASE k \in 1..m
        <5>1. k \in 0..m /\ k # m + 1 /\ Ranked(s, k) = Ranked(D, k)
          BY <2>2, <4>4
        <5>2. FirstRound(h, s, k) = FirstRound(h, D, k)
          BY <5>1 DEF FirstRound
        <5> QED BY <2>4, <4>2, <5>1, <5>2
      <4> QED BY <2>2, <3>2, <4>3, <4>4
    <3> QED BY <2>2, <3>1, <3>2
  <2>6. g = [k \in 0..m + 1 |-> FirstRound(g, s, k)]
    BY <2>5
  <2> HIDE DEF g
  <2>7. IsFirst(g, s)
    BY <2>2, <2>6 DEF IsFirst
  <2> QED BY <2>7
<1> QED BY <1>4, <1>5

\* They are the same as long as the last entry is not reached.
LEMMA FirstAgrees ==
  ASSUME NEW E, NEW D, NEW g, NEW h, IsFirst(g, E), IsFirst(h, D),
         Cardinality(D) \in Nat, Cardinality(E) \in Nat,
         Cardinality(D) <= Cardinality(E),
         \A i \in 1..Cardinality(D) : Ranked(E, i) = Ranked(D, i)
  PROVE  \A k \in 0..Cardinality(D) : g[k] = h[k]
<1> DEFINE T == {k \in 0..Cardinality(D) : g[k] # h[k]}
<1> SUFFICES ASSUME T # {} PROVE FALSE
  OBVIOUS
<1>1. PICK k \in T : \A j \in T : k <= j
  <2>1. T \subseteq Nat
    OBVIOUS
  <2> HIDE DEF T
  <2> QED BY <2>1, SmallestIn
<1>2. g[k] = FirstRound(g, E, k) /\ h[k] = FirstRound(h, D, k)
  <2>1. k \in 0..Cardinality(D) /\ k \in 0..Cardinality(E)
    OBVIOUS
  <2> HIDE DEF T
  <2> QED BY <2>1 DEF IsFirst
<1>3. k # 0
  BY <1>2 DEF FirstRound
<1>4. k - 1 \in 0..Cardinality(D) /\ ~ (k <= k - 1)
  BY <1>3
<1>5. g[k - 1] = h[k - 1]
  BY <1>1, <1>4
<1>6. Ranked(E, k) = Ranked(D, k)
  BY <1>3
<1> QED BY <1>2, <1>3, <1>5, <1>6 DEF FirstRound

\* Balances is one of these lists.
LEMMA FirstChosen ==
  ASSUME NEW E, Chain(E)
  PROVE  \E g : IsFirst(g, E) /\ Balances(E) = g[Cardinality(E)]
<1>1. IsFirst(CHOOSE g : IsFirst(g, E), E)
  BY FirstExists
<1> QED BY <1>1, BalancesChosen

\* The last entry adds one balance to those before.
LEMMA BalancesAdd ==
  ASSUME NEW E, Chain(E), NEW n, IsLast(n, E)
  PROVE  LET D == E \ {n}
         IN Balances(E) =
              Append(Balances(D),
                     (IF D = {} THEN 0 ELSE Balances(D)[Cardinality(D)]) + Signed(n))
<1> DEFINE D == E \ {n}
           m == Cardinality(D)
<1>1. /\ Chain(D) /\ m \in Nat /\ Cardinality(E) = m + 1
      /\ Ranked(E, m + 1) = n
      /\ \A i \in 1..m : Ranked(E, i) = Ranked(D, i)
  BY ChainWithout
<1>2. PICK g : IsFirst(g, E) /\ Balances(E) = g[Cardinality(E)]
  BY FirstChosen
<1>3. PICK h : IsFirst(h, D) /\ Balances(D) = h[m]
  BY <1>1, FirstChosen
<1>4. D = {} <=> m = 0
  BY <1>1, FS_EmptySet DEF Chain
<1> HIDE DEF D
<1>5. \A k \in 0..m : g[k] = h[k]
  BY <1>1, <1>2, <1>3, FirstAgrees
<1> HIDE DEF m
<1>6. g[m] = Balances(D)
  BY <1>1, <1>3, <1>5
<1>7. g[m + 1] = FirstRound(g, E, m + 1)
  BY <1>1, <1>2 DEF IsFirst
<1>8. m + 1 # 0 /\ (m + 1) - 1 = m /\ (m + 1 = 1 <=> m = 0)
  BY <1>1
<1>9. g[m + 1] = Append(Balances(D),
                     (IF D = {} THEN 0 ELSE Balances(D)[m]) + Signed(n))
  BY <1>1, <1>4, <1>6, <1>7, <1>8 DEF FirstRound
<1> QED BY <1>1, <1>2, <1>9 DEF D, m

\* No entry, no balance.
LEMMA BalancesNone == Balances({}) = <<>>
<1>1. Chain({}) /\ Cardinality({}) = 0
  BY FS_EmptySet DEF Chain
<1>2. PICK g : IsFirst(g, {}) /\ Balances({}) = g[0]
  BY <1>1, FirstChosen
<1> QED BY <1>1, <1>2 DEF IsFirst, FirstRound

\* One more entry adds its shares.
LEMMA SharesAfterAdd ==
  ASSUME NEW E, Chain(E), NEW n, n \in E
  PROVE  /\ SharesAfter(E) = Signed(n) + SharesAfter(E \ {n})
         /\ SharesAfter(E \ {n}) \in Int
<1> DEFINE D == E \ {n}
<1>1. D \cup {n} = E /\ n \notin D /\ D \subseteq E
  OBVIOUS
<1>2. IsFiniteSet(D) /\ IsFiniteSet(E)
  BY FS_Subset DEF Chain
<1>3. \A e \in E : Weight(E)[e] \in Int
  BY DEF Weight, Chain
<1>4. Weight(E)[n] = Signed(n)
  BY DEF Weight
<1>5. \A e \in D : Weight(E)[e] = Weight(D)[e]
  BY DEF Weight
<1> HIDE DEF D
<1>6. SumOf(Weight(E), D \cup {n}) = Weight(E)[n] + SumOf(Weight(E), D)
  BY <1>1, <1>2, <1>3, SumAdd
<1>7. SumOf(Weight(E), D) = SumOf(Weight(D), D)
  BY <1>2, <1>5, SumSame
<1>8. SumOf(Weight(E), D) \in Int
  BY <1>1, <1>2, <1>3, SumTyped
<1>9. SharesAfter(E) = SumOf(Weight(E), D \cup {n}) /\ SharesAfter(D) = SumOf(Weight(D), D)
  BY <1>1, SharesAfterIsSum
<1> QED BY <1>4, <1>6, <1>7, <1>8, <1>9 DEF D

\* Nothing has been bought or redeemed.
LEMMA SharesAfterNone == SharesAfter({}) = 0
  BY SharesAfterIsSum, SumOfNone

\* One balance for each entry, and the last one is the number of shares.
LEMMA BalancesAreSums ==
  ASSUME NEW E, Chain(E)
  PROVE  /\ Cardinality(E) \in Nat /\ SharesAfter(E) \in Int
         /\ Balances(E) \in Seq(Int) /\ Len(Balances(E)) = Cardinality(E)
         /\ E # {} => Cardinality(E) # 0 /\ Balances(E)[Cardinality(E)] = SharesAfter(E)
<1> DEFINE Good(s) ==
      /\ Cardinality(s) \in Nat /\ SharesAfter(s) \in Int
      /\ Balances(s) \in Seq(Int) /\ Len(Balances(s)) = Cardinality(s)
      /\ s # {} => Cardinality(s) # 0 /\ Balances(s)[Cardinality(s)] = SharesAfter(s)
           B == {s \in SUBSET E : ~ Good(s)}
<1> SUFFICES ASSUME B # {} PROVE FALSE
  <2>1. E \in SUBSET E
    OBVIOUS
  <2> QED BY <2>1
<1>1. IsFiniteSet(E)
  BY DEF Chain
<1>2. PICK s \in B : \A x \in s : s \ {x} \notin B
  <2>1. B \subseteq SUBSET E
    OBVIOUS
  <2> HIDE DEF B
  <2> QED BY <1>1, <2>1, SmallestSubset
<1>3. Chain(s) /\ s \subseteq E /\ ~ Good(s)
  BY ChainPart
<1>4. CASE s = {}
  <2>1. Cardinality({}) = 0
    BY FS_EmptySet
  <2>2. <<>> \in Seq(Int) /\ Len(<<>>) = 0
    OBVIOUS
  <2>4. Cardinality({}) \in Nat /\ SharesAfter({}) \in Int
    BY <2>1, SharesAfterNone
  <2>5. Balances({}) \in Seq(Int) /\ Len(Balances({})) = Cardinality({})
    BY <2>1, <2>2, BalancesNone, Zenon
  <2>3. Good({})
    BY <2>4, <2>5, Zenon
  <2> QED BY <1>3, <1>4, <2>3
<1>5. CASE s # {}
  <2>1. PICK n : IsLast(n, s)
    BY <1>3, <1>5, LastExists
  <2> DEFINE D == s \ {n}
  <2>2. Good(D)
    BY <1>2, <1>3, <2>1 DEF IsLast
  <2>3. Cardinality(s) = Cardinality(D) + 1
    BY <1>3, <2>1, ChainWithout
  <2>4. SharesAfter(s) = Signed(n) + SharesAfter(D) /\ SharesAfter(D) \in Int
    BY <1>3, <2>1, SharesAfterAdd DEF IsLast
  <2>5. Signed(n) \in Int
    BY <1>3, <2>1 DEF Chain, IsLast
  <2>6. Balances(s) = Append(Balances(D),
                     (IF D = {} THEN 0 ELSE Balances(D)[Cardinality(D)]) + Signed(n))
    BY <1>3, <2>1, BalancesAdd
  <2>7. (IF D = {} THEN 0 ELSE Balances(D)[Cardinality(D)]) = SharesAfter(D)
    BY <2>2, SharesAfterNone
  <2> HIDE DEF D
  <2>8. Balances(s) = Append(Balances(D), SharesAfter(s)) /\ SharesAfter(s) \in Int
    BY <2>4, <2>5, <2>6, <2>7
  <2>9. Good(s)
    BY <2>2, <2>3, <2>8
  <2> QED BY <1>3, <2>9
<1> QED BY <1>4, <1>5

\* The ledger is finite, and the entries in force of an account are a chain.
LEMMA EntriesAreChain ==
  ASSUME IInv, InOrder, NEW h
  PROVE  Chain(Active(EntriesOf(h, ledger)))
<1>1. PICK b \in Nat : \A e \in ledger : e.id <= b
  BY DEF IInv, Bounded
<1>2. \A e \in ledger : e.id \in Nat /\ Signed(e) \in Int
  BY DEF IInv, TypeOK, LedgerRow, Signed
<1>3. \A e, f \in ledger : e.id = f.id => e = f
  BY DEF IInv, TablesConsistent
<1>4. IsFiniteSet(ledger)
  <2> DEFINE f == [e \in ledger |-> e.id]
  <2>1. f \in Injection(ledger, 0..b)
    BY <1>1, <1>2, <1>3 DEF Injection, IsInjective
  <2>2. IsFiniteSet(0..b)
    BY FS_Interval
  <2> HIDE DEF f
  <2> QED BY <2>1, <2>2, FS_Injection
<1>5. Active(EntriesOf(h, ledger)) \subseteq ledger
  BY DEF Active, EntriesOf
<1>6. IsFiniteSet(Active(EntriesOf(h, ledger)))
  BY <1>4, <1>5, FS_Subset
<1>7. \A e, f \in ledger : Precedes(e, f) <=> e.id < f.id
  BY OrderIsById
<1> HIDE DEF Active, EntriesOf
<1> QED BY <1>2, <1>3, <1>5, <1>6, <1>7 DEF Chain

-----------------------------------------------------------------------------
(* What a handler knows of the account it is about to write. *)

\* For each step, the operation it belongs to and the entries it will find.
Prepared(q, l) ==
    /\ q # Idle /\ q.op \in {"create", "append"} => q.shares \in Shares
    /\ q.pc = "lookup" => q.op \in {"create", "append"}
    /\ q.pc = "redeem" => q.op = "redeem"
    /\ q.pc = "insert" => q.op \in {"create", "append", "redeem"}
    /\ q.pc = "cleanup" => q.op = "create"
    /\ q.pc \in {"insert", "cleanup"} /\ q.op = "create" => EntriesOf(q.h, l) = {}
    /\ q.pc = "mark" => \E e \in l : e.id = q.target /\ ~ e.voided

\* No step of another handler comes between that could change it.
LEMMA StepPrepared ==
  ASSUME Serial, SInv, \A r \in Requests : Prepared(req[r], ledger), [Next]_vars
  PROVE  \A r \in Requests : Prepared(req'[r], ledger')
<1>0. TypeOK /\ IInv /\ CreatesAreFirstBuys /\ MaxLag = 0
  BY DEF SInv, IInv, Serial
<1>1. Prepared(Idle, ledger')
  BY DEF Prepared, Idle
<1>2. ASSUME NEW r \in Requests, Handle(r), req'[r] # Idle
      PROVE  Prepared(req'[r], ledger')
  <2>0. ledger' = ledger /\ (req[r].pc \in Steps => req[r] \in Handler /\ req[r] # Idle)
    BY <1>0, <1>2, Moves, NotIdle DEF Idle, Steps
  <2>p. Prepared(req[r], ledger)
    OBVIOUS
  <2>1. CASE BuyStart(r)
    <3>1. PICK op \in {"create", "append"} \cap Ops[r], u \in Users,
              d \in OccurDays, s \in Shares :
            req'[r] = [pc |-> "lookup", op |-> op, user |-> u, day |-> d,
                       shares |-> s, h |-> NoRow, target |-> NoRow]
      BY <1>0, <2>1, GotoSelf DEF BuyStart
    <3> QED BY <3>1 DEF Prepared
  <2>2. CASE BuyLookup(r)
    <3>0. req[r].pc = "lookup"
      BY <2>2, Zenon DEF BuyLookup
    <3>1. req[r] \in Handler /\ req[r] # Idle
      BY <2>0, <3>0 DEF Steps
    <3>2. CASE req[r].op = "create" /\ Goto(r, [req[r] EXCEPT !.pc = "create"])
      <4>1. req'[r] = [req[r] EXCEPT !.pc = "create"]
        BY <1>0, <3>2, GotoSelf
      <4> QED BY <2>p, <3>1, <3>2, <4>1 DEF Handler, Prepared
    <3>3. ASSUME req[r].op = "append", NEW n \in Nat,
                 Goto(r, [req[r] EXCEPT !.pc = "insert", !.h = n])
          PROVE  Prepared(req'[r], ledger')
      <4>1. req'[r] = [req[r] EXCEPT !.pc = "insert", !.h = n]
        BY <1>0, <3>3, GotoSelf
      <4>2. req'[r].pc = "insert" /\ req'[r].op = "append" /\ req'[r].shares = req[r].shares
        BY <3>1, <3>3, <4>1 DEF Handler
      <4> QED BY <2>p, <3>1, <3>3, <4>2 DEF Prepared
    <3>4. \A row \in holding : row.id \in Nat
      BY <1>0 DEF TypeOK, HoldingRow
    <3>5. ~ Reply(r)
      BY <1>0, <1>2, GotoSelf DEF Reply
    <3> QED BY <2>2, <3>1, <3>2, <3>3, <3>4, <3>5 DEF BuyLookup, HoldingByUserCode
  <2>3. CASE CreateHolding(r)
    <3>1. req[r] \in Handler /\ req[r] # Idle /\ req[r].op = "create"
      BY <1>0, <2>0, <2>3 DEF CreateHolding, Steps, Idle, CreatesAreFirstBuys
    <3>2. ~ Reply(r)
      BY <1>0, <1>2, GotoSelf DEF Reply
    <3>3. req'[r] = [req[r] EXCEPT !.pc = "insert", !.h = NewRowid(holding)]
      BY <1>0, <2>3, <3>2, GotoSelf DEF CreateHolding
    <3>4. req'[r].pc = "insert" /\ req'[r].op = "create" /\ req'[r].shares = req[r].shares
          /\ req'[r].h = NewRowid(holding)
      BY <3>1, <3>3 DEF Handler
    <3>5. \A row \in holding : row.id < NewRowid(holding)
      BY <1>0, IdsAreNat, NewRowidFresh DEF IInv
    <3>6. NewRowid(holding) \notin IdsOf(holding)
      <4>1. \A row \in holding : row.id \in Nat
        BY <1>0 DEF TypeOK, HoldingRow
      <4> QED BY <3>5, <4>1 DEF IdsOf
    <3>7. EntriesOf(NewRowid(holding), ledger) = {}
      BY <1>0, <3>6 DEF EntriesOf, IInv, TablesConsistent
    <3> QED BY <2>0, <2>p, <3>1, <3>4, <3>7 DEF Prepared
  <2>4. CASE Insert(r)
    <3>1. req[r] \in Handler /\ req[r] # Idle /\ req[r].pc = "insert"
      BY <2>0, <2>4 DEF Insert, Steps, Idle
    <3>2. ~ Reply(r)
      BY <1>0, <1>2, GotoSelf DEF Reply
    <3>3. req'[r] = [req[r] EXCEPT !.pc = "cleanup"] /\ req[r].op = "create"
      BY <1>0, <2>4, <3>2, GotoSelf DEF Insert
    <3>4. req'[r].pc = "cleanup" /\ req'[r].op = "create" /\ req'[r].shares = req[r].shares
          /\ req'[r].h = req[r].h
      BY <3>1, <3>3 DEF Handler
    <3> QED BY <2>0, <2>p, <3>1, <3>3, <3>4 DEF Prepared
  <2>5. CASE HoldingLookup(r)
    <3>1. PICK op \in {"redeem", "void", "delete"}, u \in Users, d \in Int, n \in Int :
            req'[r] = [pc |-> op, op |-> op, user |-> u, day |-> d,
                       shares |-> 0, h |-> n, target |-> NoRow]
      <4>1. PICK op \in {"redeem", "void", "delete"} \cap Ops[r], u \in Users :
              \E row \in HoldingByUserCode(u),
                 d \in IF op = "redeem" THEN OccurDays ELSE {today} :
                req'[r] = [pc |-> op, op |-> op, user |-> u, day |-> d,
                           shares |-> 0, h |-> row.id, target |-> NoRow]
        BY <1>0, <2>5, GotoSelf DEF HoldingLookup
      <4>2. OccurDays \subseteq Int /\ today \in Int /\ \A row \in holding : row.id \in Int
        BY <1>0 DEF OccurDays, TypeOK, HoldingRow
      <4>3. (IF op = "redeem" THEN OccurDays ELSE {today}) \subseteq Int
        BY <4>2
      <4>4. HoldingByUserCode(u) \subseteq holding
        BY DEF HoldingByUserCode
      <4> QED BY <4>1, <4>2, <4>3, <4>4
    <3> QED BY <3>1 DEF Prepared
  <2>6. CASE RedeemCheck(r)
    <3>0. req[r].pc = "redeem"
      BY <2>6, Zenon DEF RedeemCheck
    <3>1. req[r] \in Handler /\ req[r] # Idle /\ req[r].op = "redeem"
      BY <2>0, <2>p, <3>0 DEF Steps, Prepared
    <3>2. ~ Reply(r)
      BY <1>0, <1>2, GotoSelf DEF Reply
    <3>3. PICK s : Goto(r, [req[r] EXCEPT !.pc = "insert", !.shares = s])
      BY <2>6, <3>2, Zenon DEF RedeemCheck
    <3>4. req'[r] = [req[r] EXCEPT !.pc = "insert", !.shares = s]
      BY <1>0, <3>3, GotoSelf
    <3>5. req'[r].pc = "insert" /\ req'[r].op = "redeem"
      BY <3>1, <3>4 DEF Handler
    <3> QED BY <3>5 DEF Prepared
  <2>7. CASE VoidCheck(r)
    <3>0. req[r].pc = "void"
      BY <2>7, Zenon DEF VoidCheck
    <3>1. req[r] \in Handler /\ req[r] # Idle
      BY <2>0, <3>0 DEF Steps
    <3>2. ~ Reply(r)
      BY <1>0, <1>2, GotoSelf DEF Reply
    <3>3. PICK last \in Active(ListLedger(req[r].h)) :
            Goto(r, [req[r] EXCEPT !.pc = "mark", !.target = last.id])
      BY <2>7, <3>2 DEF VoidCheck
    <3>4. req'[r] = [req[r] EXCEPT !.pc = "mark", !.target = last.id]
      BY <1>0, <3>3, GotoSelf
    <3>5. req'[r].pc = "mark" /\ req'[r].op = req[r].op /\ req'[r].shares = req[r].shares
          /\ req'[r].target = last.id
      BY <3>1, <3>4 DEF Handler
    <3>6. last \in ledger /\ ~ last.voided
      BY DEF Active, ListLedger
    <3> QED BY <2>0, <2>p, <3>1, <3>5, <3>6 DEF Prepared
  <2>8. CASE Cleanup(r) \/ VoidLedger(r) \/ DeleteAccount(r)
    BY <1>0, <1>2, <2>8, GotoSelf DEF Cleanup, VoidLedger, DeleteAccount, Reply
  <2> QED BY <1>2, <2>1, <2>2, <2>3, <2>4, <2>5, <2>6, <2>7, <2>8 DEF Handle
<1>3. CASE \E r \in Requests : Handle(r) /\ \A s \in Requests : s = r
  BY <1>1, <1>2, <1>3
<1>4. CASE ledger' = ledger /\ \A r \in Requests : req'[r] \in {req[r], Idle}
  BY <1>1, <1>4
<1> QED BY <1>0, <1>3, <1>4, SerialSteps

-----------------------------------------------------------------------------
(* The account book, from the rows of the tables and the handlers. *)

\* A handler that is writing the first buy of an account.
OpenerIn(q, h) == q # Idle /\ q.op = "create" /\ q.pc \in {"insert", "cleanup"} /\ q.h = h

OpeningIn(row, l, q) ==
    /\ EntriesOf(row.id, l) = {}
    /\ \E r \in Requests : OpenerIn(q[r], row.id)

MineIn(u, hs, l, q) == {row \in hs : row.user = u /\ ~ OpeningIn(row, l, q)}

\* The definitions of LedgerBook for any tables and handlers, so that they can be
\* written of the state after a step as well as of the state before it.
InForce(rows, l) == Active(UNION {EntriesOf(row.id, l) : row \in rows})

AccountIn(u, hs, l, q) ==
    [open |-> MineIn(u, hs, l, q) # {},
     balances |-> Balances(InForce(MineIn(u, hs, l, q), l))]

\* They are the definitions of LedgerBook, in both states of a step.
LEMMA AccountOfIs ==
  ASSUME NEW u
  PROVE  AccountOf(u) = AccountIn(u, holding, ledger, req)
<1>1. {row \in HoldingByUserCode(u) : ~Opening(row)} = MineIn(u, holding, ledger, req)
  BY DEF HoldingByUserCode, Opening, Opener, MineIn, OpeningIn, OpenerIn, ListLedger,
         EntriesOf
<1>2. \A rows : {ListLedger(row.id) : row \in rows} = {EntriesOf(row.id, ledger) : row \in rows}
  BY DEF ListLedger, EntriesOf
<1> QED BY <1>1, <1>2, Zenon DEF AccountOf, AccountIn, InForce

LEMMA AccountOfIsPrime ==
  ASSUME NEW u
  PROVE  AccountOf(u)' = AccountIn(u, holding', ledger', req')
<1>1. {row \in HoldingByUserCode(u)' : ~Opening(row)'} = MineIn(u, holding', ledger', req')
  BY DEF HoldingByUserCode, Opening, Opener, MineIn, OpeningIn, OpenerIn, ListLedger,
         EntriesOf
<1>2. \A rows : {ListLedger(row.id)' : row \in rows} = {EntriesOf(row.id, ledger') : row \in rows}
  BY DEF ListLedger, EntriesOf
<1> QED BY <1>1, <1>2, Zenon DEF AccountOf, AccountIn, InForce

\* An account without a row, or with a row whose first buy is being written.
LEMMA AccountShut ==
  ASSUME NEW u, NEW hs, NEW l, NEW q, MineIn(u, hs, l, q) = {}
  PROVE  AccountIn(u, hs, l, q) = [open |-> FALSE, balances |-> <<>>]
<1>1. InForce({}, l) = {}
  BY DEF InForce, Active
<1>2. AccountIn(u, hs, l, q) = [open |-> {} # {}, balances |-> Balances(InForce({}, l))]
  BY Zenon DEF AccountIn
<1>3. ({} # {}) = FALSE
  OBVIOUS
<1> QED BY <1>1, <1>2, <1>3, BalancesNone, Zenon

\* An account with a row that counts.
LEMMA AccountOpen ==
  ASSUME NEW u, NEW hs, NEW l, NEW q, NEW row, MineIn(u, hs, l, q) = {row}
  PROVE  AccountIn(u, hs, l, q)
           = [open |-> TRUE, balances |-> Balances(Active(EntriesOf(row.id, l)))]
<1>1. UNION {EntriesOf(x.id, l) : x \in {row}} = EntriesOf(row.id, l)
  OBVIOUS
<1>2. InForce({row}, l) = Active(EntriesOf(row.id, l))
  BY <1>1, Zenon DEF InForce
<1>3. AccountIn(u, hs, l, q) = [open |-> {row} # {}, balances |-> Balances(InForce({row}, l))]
  BY Zenon DEF AccountIn
<1>4. ({row} # {}) = TRUE
  OBVIOUS
<1> QED BY <1>2, <1>3, <1>4, Zenon

\* The same rows with the same entries in force: the same account.
LEMMA AccountKept ==
  ASSUME NEW u, NEW hs, NEW l, NEW q, NEW hs1, NEW l1, NEW q1,
         MineIn(u, hs1, l1, q1) = MineIn(u, hs, l, q),
         \A row \in MineIn(u, hs, l, q) :
            Active(EntriesOf(row.id, l1)) = Active(EntriesOf(row.id, l))
  PROVE  AccountIn(u, hs1, l1, q1) = AccountIn(u, hs, l, q)
<1> DEFINE M == MineIn(u, hs, l, q)
<1>1. \A k : InForce(M, k) = UNION {Active(EntriesOf(row.id, k)) : row \in M}
  BY DEF InForce, Active
<1>2. InForce(M, l1) = InForce(M, l)
  BY <1>1
<1> QED BY <1>2, Zenon DEF AccountIn

\* The whole book.
BookOf(hs, l, q) == [u \in Users |-> AccountIn(u, hs, l, q)]

LEMMA BookIs ==
  /\ [u \in Users |-> AccountOf(u)] = BookOf(holding, ledger, req)
  /\ [u \in Users |-> AccountOf(u)]' = BookOf(holding', ledger', req')
<1>1. \A u \in Users : /\ AccountOf(u) = AccountIn(u, holding, ledger, req)
                       /\ AccountOf(u)' = AccountIn(u, holding', ledger', req')
  BY AccountOfIs, AccountOfIsPrime
<1> QED BY <1>1, Zenon DEF BookOf

\* A book in which one account changes.
LEMMA OneAccountChanges ==
  ASSUME NEW hs, NEW l, NEW q, NEW hs1, NEW l1, NEW q1, NEW u \in Users, NEW account,
         AccountIn(u, hs1, l1, q1) = account,
         \A v \in Users : v # u => AccountIn(v, hs1, l1, q1) = AccountIn(v, hs, l, q)
  PROVE  BookOf(hs1, l1, q1) = [BookOf(hs, l, q) EXCEPT ![u] = account]
  BY DEF BookOf

\* A book in which none does.
LEMMA NoAccountChanges ==
  ASSUME NEW hs, NEW l, NEW q, NEW hs1, NEW l1, NEW q1,
         \A v \in Users : AccountIn(v, hs1, l1, q1) = AccountIn(v, hs, l, q)
  PROVE  BookOf(hs1, l1, q1) = BookOf(hs, l, q)
  BY DEF BookOf

\* No handler is opening an account and none starts to: nothing changes that
\* the account book shows.
LEMMA QuietStep ==
  ASSUME holding' = holding, ledger' = ledger,
         \A r \in Requests, row \in holding : OpenerIn(req'[r], row.id) <=> OpenerIn(req[r], row.id)
  PROVE  BookOf(holding', ledger', req') = BookOf(holding, ledger, req)
<1>1. \A u : MineIn(u, holding', ledger', req') = MineIn(u, holding, ledger, req)
  BY DEF MineIn, OpeningIn
<1> QED BY <1>1, AccountKept, NoAccountChanges

\* An account that is open.
OpenAccount(bs) == [open |-> TRUE, balances |-> bs]

\* A user has at most one row.
LEMMA MineOne ==
  ASSUME NEW hs, \A a, b \in hs : a.user = b.user => a = b,
         NEW row \in hs, NEW l, NEW q
  PROVE  MineIn(row.user, hs, l, q) = IF OpeningIn(row, l, q) THEN {} ELSE {row}
  BY DEF MineIn

\* A first buy is written to an account that is being opened.
LEMMA BookOpens ==
  ASSUME NEW u \in Users, NEW s \in Shares,
         AccountIn(u, holding, ledger, req).open = FALSE,
         AccountIn(u, holding', ledger', req') = OpenAccount(<<s>>),
         \A v \in Users : v # u =>
            AccountIn(v, holding', ledger', req') = AccountIn(v, holding, ledger, req)
  PROVE  Book!Next
<1>1. /\ BookOf(holding', ledger', req')
           = [BookOf(holding, ledger, req) EXCEPT ![u] = OpenAccount(<<s>>)]
      /\ ~ BookOf(holding, ledger, req)[u].open
  BY OneAccountChanges DEF BookOf
<1>2. Book!Open(u)
  BY <1>1, BookIs, Zenon DEF Book!Open, OpenAccount
<1> QED BY <1>2 DEF Book!Next

\* A row is left without its first buy.
LEMMA BookOpensEmpty ==
  ASSUME NEW u \in Users, Crashes \/ WriteFaults,
         AccountIn(u, holding, ledger, req).open = FALSE,
         AccountIn(u, holding', ledger', req') = OpenAccount(<<>>),
         \A v \in Users : v # u =>
            AccountIn(v, holding', ledger', req') = AccountIn(v, holding, ledger, req)
  PROVE  Book!Next
<1>1. /\ BookOf(holding', ledger', req')
           = [BookOf(holding, ledger, req) EXCEPT ![u] = OpenAccount(<<>>)]
      /\ ~ BookOf(holding, ledger, req)[u].open
  BY OneAccountChanges DEF BookOf
<1>2. Book!OpenEmpty(u)
  BY <1>1, BookIs, Zenon DEF Book!OpenEmpty, OpenAccount
<1> QED BY <1>2 DEF Book!Next

\* A row that counts is deleted.
LEMMA BookCloses ==
  ASSUME NEW u \in Users,
         AccountIn(u, holding, ledger, req).open = TRUE,
         AccountIn(u, holding', ledger', req') = [open |-> FALSE, balances |-> <<>>],
         \A v \in Users : v # u =>
            AccountIn(v, holding', ledger', req') = AccountIn(v, holding, ledger, req)
  PROVE  Book!Next
<1>1. /\ BookOf(holding', ledger', req')
           = [BookOf(holding, ledger, req) EXCEPT ![u] = Book!NoAccount]
      /\ BookOf(holding, ledger, req)[u].open
  BY OneAccountChanges DEF BookOf, Book!NoAccount
<1>2. Book!Close(u)
  BY <1>1, BookIs, Zenon DEF Book!Close
<1> QED BY <1>2 DEF Book!Next

\* Its fields, and the account with other balances.
LEMMA OpenAccountIs ==
  ASSUME NEW y, NEW z
  PROVE  /\ OpenAccount(y).open /\ OpenAccount(y).balances = y
         /\ [OpenAccount(y) EXCEPT !.balances = z] = OpenAccount(z)
<1>1. ASSUME NEW x
      PROVE  [[open |-> x, balances |-> y] EXCEPT !.balances = z] = [open |-> x, balances |-> z]
  OBVIOUS
<1>2. [[open |-> TRUE, balances |-> y] EXCEPT !.balances = z] = [open |-> TRUE, balances |-> z]
  BY <1>1, Zenon
<1> QED BY <1>2, Zenon DEF OpenAccount

\* A balance is added to the others.
LEMMA BookEnters ==
  ASSUME NEW u \in Users, NEW bs, NEW n,
         AccountIn(u, holding, ledger, req) = OpenAccount(bs),
         AccountIn(u, holding', ledger', req')
           = OpenAccount(Append(bs, n)),
         \A v \in Users : v # u =>
            AccountIn(v, holding', ledger', req') = AccountIn(v, holding, ledger, req)
  PROVE  /\ [w \in Users |-> AccountOf(w)][u].open
         /\ [w \in Users |-> AccountOf(w)][u].balances = bs
         /\ Book!Enter(u, n)
<1> DEFINE b == [w \in Users |-> AccountOf(w)]
           c == Append(bs, n)
<1>1. b = BookOf(holding, ledger, req) /\ b' = BookOf(holding', ledger', req')
  BY BookIs
<1>2. BookOf(holding, ledger, req)[u] = OpenAccount(bs)
  BY DEF BookOf
<1>3. BookOf(holding', ledger', req')
       = [BookOf(holding, ledger, req) EXCEPT ![u] = OpenAccount(c)]
  BY OneAccountChanges
<1> HIDE DEF b, c
<1>4. b[u] = OpenAccount(bs) /\ b' = [b EXCEPT ![u] = OpenAccount(c)]
  BY <1>1, <1>2, <1>3, Zenon
<1>5. b[u].open /\ b[u].balances = bs
  BY <1>4, OpenAccountIs
<1>6. [b EXCEPT ![u].balances = c] = [b EXCEPT ![u] = OpenAccount(c)]
  <2>1. [OpenAccount(bs) EXCEPT !.balances = c] = OpenAccount(c)
    BY OpenAccountIs, Zenon
  <2>2. [b[u] EXCEPT !.balances = c] = OpenAccount(c)
    BY <1>4, <2>1, Zenon
  <2> QED BY <2>2, Zenon
<1>7. b' = [b EXCEPT ![u].balances = Append(b[u].balances, n)]
  BY <1>4, <1>5, <1>6, Zenon DEF c
<1> QED BY <1>5, <1>7, Zenon DEF Book!Enter, b

\* A list without its last element.
Shortened(c, bs) == c # <<>> /\ SubSeq(c, 1, Len(c) - 1) = bs

LEMMA AppendedOff ==
  ASSUME NEW bs \in Seq(Int), NEW n \in Int
  PROVE  Shortened(Append(bs, n), bs)
<1> DEFINE c == Append(bs, n)
           t == SubSeq(c, 1, Len(c) - 1)
<1>1. /\ Len(bs) \in Nat /\ c \in Seq(Int) /\ Len(c) = Len(bs) + 1
      /\ \A i \in 1..Len(bs) : c[i] = bs[i]
  OBVIOUS
<1> HIDE DEF c
<1>2. c # <<>>
  BY <1>1
<1>3. t \in Seq(Int) /\ Len(t) = Len(bs) /\ \A i \in 1..Len(bs) : t[i] = c[i]
  BY <1>1
<1> HIDE DEF t
<1>4. t = bs
  BY <1>1, <1>3, SeqEqual
<1> QED BY <1>2, <1>4 DEF c, t, Shortened

\* The last balance is taken away.
LEMMA BookVoids ==
  ASSUME NEW u \in Users, NEW bs, NEW c,
         Shortened(c, bs),
         AccountIn(u, holding, ledger, req) = OpenAccount(c),
         AccountIn(u, holding', ledger', req') = OpenAccount(bs),
         \A v \in Users : v # u =>
            AccountIn(v, holding', ledger', req') = AccountIn(v, holding, ledger, req)
  PROVE  Book!Next
<1> DEFINE b == [w \in Users |-> AccountOf(w)]
<1>1. b = BookOf(holding, ledger, req) /\ b' = BookOf(holding', ledger', req')
  BY BookIs
<1>2. BookOf(holding, ledger, req)[u] = OpenAccount(c)
  BY DEF BookOf
<1> HIDE DEF b
<1>3. BookOf(holding', ledger', req')
       = [BookOf(holding, ledger, req) EXCEPT ![u] = OpenAccount(bs)]
  BY OneAccountChanges
<1>4. b[u] = OpenAccount(c) /\ b' = [b EXCEPT ![u] = OpenAccount(bs)]
  BY <1>1, <1>2, <1>3, Zenon
<1>5. b[u].open /\ b[u].balances = c
  BY <1>4, OpenAccountIs
<1>6. [b EXCEPT ![u].balances = bs] = [b EXCEPT ![u] = OpenAccount(bs)]
  <2>1. [OpenAccount(c) EXCEPT !.balances = bs] = OpenAccount(bs)
    BY OpenAccountIs, Zenon
  <2>2. [b[u] EXCEPT !.balances = bs] = OpenAccount(bs)
    BY <1>4, <2>1, Zenon
  <2> QED BY <2>2, Zenon
<1>7. b' = [b EXCEPT ![u].balances = SubSeq(b[u].balances, 1, Len(b[u].balances) - 1)]
  BY <1>4, <1>5, <1>6, Zenon DEF Shortened
<1>9. Book!VoidLast(u)
  BY <1>5, <1>7, Zenon DEF Book!VoidLast, b, Shortened
<1> QED BY <1>9 DEF Book!Next

\* The inductive invariant of the refinement.
BInv == SInv /\ \A r \in Requests : Prepared(req[r], ledger)

\* The handlers that only read open no account.
LEMMA ReadersOpenNothing ==
  ASSUME BInv, NEW r \in Requests,
         BuyStart(r) \/ BuyLookup(r) \/ HoldingLookup(r) \/ RedeemCheck(r) \/ VoidCheck(r)
  PROVE  /\ holding' = holding /\ ledger' = ledger
         /\ \A h : ~ OpenerIn(req[r], h) /\ ~ OpenerIn(req'[r], h)
<1>0. TypeOK /\ (req[r].pc \in Steps => req[r] \in Handler /\ req[r] # Idle)
  BY NotIdle DEF BInv, SInv, IInv, Idle, Steps
<1>p. Prepared(req[r], ledger)
  BY DEF BInv
<1>i. \A h : ~ OpenerIn(Idle, h)
  BY DEF OpenerIn
<1>1. CASE BuyStart(r)
  <2>1. PICK op \in {"create", "append"} \cap Ops[r], u \in Users,
            d \in OccurDays, s \in Shares :
          req'[r] = [pc |-> "lookup", op |-> op, user |-> u, day |-> d,
                     shares |-> s, h |-> NoRow, target |-> NoRow]
    BY <1>0, <1>1, GotoSelf DEF BuyStart
  <2> QED BY <1>1, <1>i, <2>1 DEF BuyStart, OpenerIn
<1>2. CASE BuyLookup(r)
  <2>0. req[r].pc = "lookup" /\ holding' = holding /\ ledger' = ledger
    BY <1>2, Zenon DEF BuyLookup
  <2>1. req[r] \in Handler /\ req[r] # Idle
    BY <1>0, <2>0 DEF Steps
  <2>2. CASE Goto(r, [req[r] EXCEPT !.pc = "create"])
    <3>1. req'[r] = [req[r] EXCEPT !.pc = "create"]
      BY <1>0, <2>2, GotoSelf
    <3>2. req'[r].pc = "create"
      BY <2>1, <3>1 DEF Handler
    <3> QED BY <2>0, <3>2 DEF OpenerIn
  <2>3. ASSUME req[r].op = "append", NEW n \in Nat,
               Goto(r, [req[r] EXCEPT !.pc = "insert", !.h = n])
        PROVE  \A h : ~ OpenerIn(req[r], h) /\ ~ OpenerIn(req'[r], h)
    <3>1. req'[r] = [req[r] EXCEPT !.pc = "insert", !.h = n]
      BY <1>0, <2>3, GotoSelf
    <3>2. req'[r].op = "append"
      BY <2>1, <2>3, <3>1 DEF Handler
    <3> QED BY <2>0, <3>2 DEF OpenerIn
  <2>4. \A row \in holding : row.id \in Nat
    BY <1>0 DEF TypeOK, HoldingRow
  <2>5. CASE Reply(r)
    <3>1. req'[r] = Idle
      BY <1>0, <2>5, GotoSelf DEF Reply
    <3> QED BY <1>i, <2>0, <3>1 DEF OpenerIn
  <2> QED BY <1>2, <2>0, <2>2, <2>3, <2>4, <2>5 DEF BuyLookup, HoldingByUserCode
<1>3. CASE HoldingLookup(r)
  <2>0. req[r] = Idle /\ holding' = holding /\ ledger' = ledger
    BY <1>3, Zenon DEF HoldingLookup
  <2>1. PICK op \in {"redeem", "void", "delete"} \cap Ops[r], u \in Users :
          \E row \in HoldingByUserCode(u),
             d \in IF op = "redeem" THEN OccurDays ELSE {today} :
            req'[r] = [pc |-> op, op |-> op, user |-> u, day |-> d,
                       shares |-> 0, h |-> row.id, target |-> NoRow]
    BY <1>0, <1>3, GotoSelf DEF HoldingLookup
  <2>2. req'[r].op = op
    BY <2>1
  <2>3. op # "create"
    OBVIOUS
  <2> QED BY <1>i, <2>0, <2>2, <2>3 DEF OpenerIn
<1>4. CASE RedeemCheck(r)
  <2>0. req[r].pc = "redeem" /\ holding' = holding /\ ledger' = ledger
    BY <1>4, Zenon DEF RedeemCheck
  <2>1. req[r] \in Handler /\ req[r] # Idle /\ req[r].op = "redeem"
    BY <1>0, <1>p, <2>0 DEF Steps, Prepared
  <2>2. Reply(r) \/ \E s : Goto(r, [req[r] EXCEPT !.pc = "insert", !.shares = s])
    BY <1>4, Zenon DEF RedeemCheck
  <2>3. CASE Reply(r)
    <3>1. req'[r] = Idle
      BY <1>0, <2>3, GotoSelf DEF Reply
    <3> QED BY <1>i, <2>0, <3>1 DEF OpenerIn
  <2>4. ASSUME NEW s, Goto(r, [req[r] EXCEPT !.pc = "insert", !.shares = s])
        PROVE  req'[r].op = "redeem"
    <3>1. req'[r] = [req[r] EXCEPT !.pc = "insert", !.shares = s]
      BY <1>0, <2>4, GotoSelf
    <3> QED BY <2>1, <3>1 DEF Handler
  <2> QED BY <2>0, <2>2, <2>3, <2>4 DEF OpenerIn
<1>5. CASE VoidCheck(r)
  <2>0. req[r].pc = "void" /\ holding' = holding /\ ledger' = ledger
    BY <1>5, Zenon DEF VoidCheck
  <2>1. req[r] \in Handler /\ req[r] # Idle
    BY <1>0, <2>0 DEF Steps
  <2>2. Reply(r) \/ \E t : Goto(r, [req[r] EXCEPT !.pc = "mark", !.target = t])
    BY <1>5, Zenon DEF VoidCheck
  <2>3. CASE Reply(r)
    <3>1. req'[r] = Idle
      BY <1>0, <2>3, GotoSelf DEF Reply
    <3> QED BY <1>i, <2>0, <3>1 DEF OpenerIn
  <2>4. ASSUME NEW t, Goto(r, [req[r] EXCEPT !.pc = "mark", !.target = t])
        PROVE  req'[r].pc = "mark"
    <3>1. req'[r] = [req[r] EXCEPT !.pc = "mark", !.target = t]
      BY <1>0, <2>4, GotoSelf
    <3> QED BY <2>1, <3>1 DEF Handler
  <2> QED BY <2>0, <2>2, <2>3, <2>4 DEF OpenerIn
<1> QED BY <1>1, <1>2, <1>3, <1>4, <1>5

\* A book that stays as it is.
LEMMA BookStays ==
  ASSUME BookOf(holding', ledger', req') = BookOf(holding, ledger, req)
  PROVE  [Book!Next]_([u \in Users |-> AccountOf(u)])
<1>1. [u \in Users |-> AccountOf(u)]' = [u \in Users |-> AccountOf(u)]
  BY BookIs, Zenon
<1> QED BY <1>1

\* The rows that count are the same when the account of a first buy is inserted
\* and when it is removed again.
LEMMA CreateIsQuiet ==
  ASSUME BInv, NEW r \in Requests, \A s \in Requests : s = r, CreateHolding(r)
  PROVE  BookOf(holding', ledger', req') = BookOf(holding, ledger, req)
<1>0. TypeOK /\ IInv /\ CreatesAreFirstBuys
  BY DEF BInv, SInv, IInv
<1>1. req[r].pc = "create" /\ ledger' = ledger
  BY DEF CreateHolding
<1>2. req[r] \in Handler /\ req[r] # Idle /\ req[r].op = "create"
  BY <1>0, <1>1, NotIdle DEF Idle, Steps, CreatesAreFirstBuys
<1>3. \A s \in Requests : \A h : ~ OpenerIn(req[s], h)
  BY <1>1 DEF OpenerIn
<1>4. CASE Reply(r) /\ holding' = holding
  <2>1. req'[r] = Idle
    BY <1>0, <1>4, GotoSelf DEF Reply
  <2>2. \A s \in Requests : \A h : ~ OpenerIn(req'[s], h)
    BY <2>1 DEF OpenerIn
  <2> QED BY <1>1, <1>3, <1>4, <2>2, QuietStep
<1>5. CASE /\ holding' = holding \cup {[id |-> NewRowid(holding), user |-> req[r].user]}
           /\ Goto(r, [req[r] EXCEPT !.pc = "insert", !.h = NewRowid(holding)])
  <2> DEFINE new == [id |-> NewRowid(holding), user |-> req[r].user]
  <2>1. req'[r] = [req[r] EXCEPT !.pc = "insert", !.h = NewRowid(holding)]
    BY <1>0, <1>5, GotoSelf
  <2>2. req'[r].pc = "insert" /\ req'[r].op = "create" /\ req'[r].h = NewRowid(holding)
    BY <1>2, <2>1 DEF Handler
  <2>3. req'[r] # Idle
    BY <2>2 DEF Idle
  <2>4. \A row \in holding : row.id \in Nat /\ row.id < NewRowid(holding)
    BY <1>0, IdsAreNat, NewRowidFresh DEF IInv, TypeOK, HoldingRow
  <2>5. \A row \in holding : row.id # NewRowid(holding)
    BY <2>4
  <2>6. EntriesOf(NewRowid(holding), ledger) = {}
    BY <1>0, <2>5 DEF EntriesOf, IInv, TablesConsistent, IdsOf
  <2>7. new.id = NewRowid(holding) /\ holding' = holding \cup {new}
    BY <1>5
  <2> HIDE DEF new
  <2>8. OpeningIn(new, ledger', req')
    BY <1>1, <2>2, <2>3, <2>6, <2>7 DEF OpeningIn, OpenerIn
  <2>9. \A row \in holding : ~ OpeningIn(row, ledger, req) /\ ~ OpeningIn(row, ledger', req')
    BY <1>3, <2>2, <2>5 DEF OpeningIn, OpenerIn
  <2>10. \A u : MineIn(u, holding', ledger', req') = MineIn(u, holding, ledger, req)
    BY <2>7, <2>8, <2>9 DEF MineIn
  <2> QED BY <1>1, <2>10, AccountKept, NoAccountChanges
<1> QED BY <1>4, <1>5 DEF CreateHolding

\* A first buy that failed leaves no account when the clean-up succeeds.
LEMMA CleanupIsQuiet ==
  ASSUME BInv, NEW r \in Requests, \A s \in Requests : s = r, Cleanup(r),
         DeleteHolding(req[r].h)
  PROVE  BookOf(holding', ledger', req') = BookOf(holding, ledger, req)
<1>0. TypeOK /\ IInv /\ Prepared(req[r], ledger)
  BY DEF BInv, SInv, IInv
<1>1. req[r].pc = "cleanup" /\ Reply(r) /\ DeleteHolding(req[r].h)
  BY DEF Cleanup
<1>2. req'[r] = Idle
  BY <1>0, <1>1, GotoSelf DEF Reply
<1>3. \A s \in Requests : \A h : ~ OpenerIn(req'[s], h)
  BY <1>2 DEF OpenerIn
<1>4. req[r] # Idle /\ req[r].op = "create" /\ EntriesOf(req[r].h, ledger) = {}
  BY <1>0, <1>1 DEF Prepared, Idle
<1>5. ledger' = ledger
  BY <1>1, <1>4 DEF DeleteHolding, EntriesOf
<1>6. \A row \in holding : OpeningIn(row, ledger, req) <=> row.id = req[r].h
  BY <1>1, <1>4 DEF OpeningIn, OpenerIn
<1>7. \A row \in holding : ~ OpeningIn(row, ledger', req')
  BY <1>3 DEF OpeningIn
<1>8. \A u : MineIn(u, holding', ledger', req') = MineIn(u, holding, ledger, req)
  BY <1>1, <1>6, <1>7 DEF MineIn, DeleteHolding
<1> QED BY <1>5, <1>8, AccountKept, NoAccountChanges

\* An entry is written, after all others of the account.
LEMMA EntryIsLast ==
  ASSUME BInv, NEW r \in Requests, Insert(r), InsertLedger(req[r]),
         req[r].h \in IdsOf(holding)
  PROVE  LET n == NewEntry(req[r])
             D == Active(EntriesOf(req[r].h, ledger))
         IN /\ Active(EntriesOf(req[r].h, ledger')) = D \cup {n} /\ n \notin D
            /\ Chain(D)
            /\ Chain(D \cup {n}) /\ IsLast(n, D \cup {n})
            /\ \A h : h # req[r].h => EntriesOf(h, ledger') = EntriesOf(h, ledger)
<1>0. TypeOK /\ IInv /\ InOrder /\ DaysPassed
  BY DEF BInv, SInv, IInv
<1> DEFINE q == req[r]
           n == NewEntry(q)
           D == Active(EntriesOf(q.h, ledger))
<1>1. q.pc = "insert"
  BY DEF Insert
<1>2. q \in Handler /\ q # Idle
  BY <1>0, <1>1, NotIdle DEF Steps, Idle
<1>3. /\ ledger' = ledger \cup {n} /\ n \notin ledger
      /\ \A e \in ledger : e.id \in Nat /\ e.id < n.id
      /\ n.id \in Nat /\ n.day = q.day /\ n.voided = FALSE
      /\ n.holding = q.h /\ n.shares = q.shares
      /\ n.kind = IF q.op = "redeem" THEN "redeem" ELSE "buy"
  BY <1>0, InsertsNewEntry
<1>4. q.day \in Nat /\ q.shares \in Nat /\ \A e \in ledger : e.day \in Nat /\ e.day <= q.day
  BY <1>0, <1>2, DaysAssumption DEF TypeOK, LedgerRow, Handler, DaysPassed
<1>5. Chain(D)
  BY <1>0, EntriesAreChain
<1> HIDE DEF n, q
<1>6. D \subseteq ledger
  BY DEF Active, EntriesOf
<1>7. Active(EntriesOf(q.h, ledger')) = D \cup {n}
  BY <1>3 DEF Active, EntriesOf
<1>8. \A h : h # q.h => EntriesOf(h, ledger') = EntriesOf(h, ledger)
  BY <1>3 DEF EntriesOf
<1> HIDE DEF D
<1>9. Signed(n) \in Int
  BY <1>3, <1>4 DEF Signed
<1>10. \A e \in D : /\ e.id \in Nat /\ e.id < n.id
                    /\ Precedes(e, n) /\ ~ Precedes(n, e)
  BY <1>3, <1>4, <1>6 DEF Precedes
<1>11. ~ Precedes(n, n)
  BY <1>3, <1>4 DEF Precedes
<1>12. IsFiniteSet(D \cup {n})
  BY <1>5, FS_AddElement DEF Chain
<1>13. Chain(D \cup {n})
  BY <1>3, <1>5, <1>9, <1>10, <1>11, <1>12 DEF Chain
<1>14. IsLast(n, D \cup {n})
  BY <1>3, <1>10 DEF IsLast
<1> QED BY <1>3, <1>5, <1>6, <1>7, <1>8, <1>13, <1>14 DEF n, q, D

\* The user whose account is at a row, and the accounts of the others.
LEMMA OnlyOwnAccount ==
  ASSUME IInv, holding' = holding, NEW row \in holding,
         \A s \in Requests : \A h : OpenerIn(req'[s], h) => OpenerIn(req[s], h),
         \A s \in Requests : \A h : h # row.id => ~ OpenerIn(req[s], h),
         \A h : h # row.id => EntriesOf(h, ledger') = EntriesOf(h, ledger)
  PROVE  \A v \in Users : v # row.user =>
            AccountIn(v, holding', ledger', req') = AccountIn(v, holding, ledger, req)
<1> SUFFICES ASSUME NEW v \in Users, v # row.user
             PROVE  AccountIn(v, holding', ledger', req') = AccountIn(v, holding, ledger, req)
  OBVIOUS
<1>1. \A other \in holding : other.user = v => other.id # row.id
  BY DEF IInv, TablesConsistent
<1>2. \A other \in holding : other.id # row.id =>
        ~ OpeningIn(other, ledger, req) /\ ~ OpeningIn(other, ledger', req')
  BY DEF OpeningIn
<1>3. MineIn(v, holding', ledger', req') = MineIn(v, holding, ledger, req)
  BY <1>1, <1>2 DEF MineIn
<1>4. \A other \in MineIn(v, holding, ledger, req) :
        Active(EntriesOf(other.id, ledger')) = Active(EntriesOf(other.id, ledger))
  <2>1. \A other \in MineIn(v, holding, ledger, req) : other.id # row.id
    BY <1>1 DEF MineIn
  <2> QED BY <2>1
<1> QED BY <1>3, <1>4, AccountKept

\* InsertLedger opens the account, or adds a balance to it, or fails.
LEMMA InsertImplements ==
  ASSUME BInv, NEW r \in Requests, \A s \in Requests : s = r, Insert(r)
  PROVE  [Book!Next]_([u \in Users |-> AccountOf(u)])
<1>0. TypeOK /\ IInv /\ Prepared(req[r], ledger) /\ Checked(req[r], ledger)
  BY DEF BInv, SInv, IInv
<1>1. req[r].pc = "insert" /\ holding' = holding
  BY DEF Insert
<1>2. req[r] \in Handler /\ req[r] # Idle /\ req[r].op \in {"create", "append", "redeem"}
  BY <1>0, <1>1, NotIdle DEF Idle, Steps, Prepared
<1>3. CASE ledger' = ledger /\ Goto(r, [req[r] EXCEPT !.pc = "cleanup"])
  <2>1. req'[r] = [req[r] EXCEPT !.pc = "cleanup"]
    BY <1>0, <1>3, GotoSelf
  <2>2. req'[r].pc = "cleanup" /\ req'[r].op = req[r].op /\ req'[r].h = req[r].h
    BY <1>2, <2>1 DEF Handler
  <2>3. req'[r] # Idle
    BY <2>2 DEF Idle
  <2>4. \A s \in Requests : \A h : OpenerIn(req'[s], h) <=> OpenerIn(req[s], h)
    BY <1>1, <1>2, <2>2, <2>3 DEF OpenerIn
  <2> QED BY <1>1, <1>3, <2>4, QuietStep, BookStays
<1>4. CASE ledger' = ledger /\ Reply(r) /\ req[r].op # "create"
  <2>1. req'[r] = Idle
    BY <1>0, <1>4, GotoSelf DEF Reply
  <2>2. \A s \in Requests : \A h : OpenerIn(req'[s], h) <=> OpenerIn(req[s], h)
    BY <1>4, <2>1 DEF OpenerIn
  <2> QED BY <1>1, <1>4, <2>2, QuietStep, BookStays
<1>5. CASE req[r].h \in IdsOf(holding) /\ InsertLedger(req[r]) /\ Reply(r)
  <2>1. req'[r] = Idle
    BY <1>0, <1>5, GotoSelf DEF Reply
  <2>2. PICK row \in holding : row.id = req[r].h
    BY <1>5 DEF IdsOf
  <2> DEFINE n == NewEntry(req[r])
             D == Active(EntriesOf(row.id, ledger))
             u == row.user
  <2>3. /\ Active(EntriesOf(row.id, ledger')) = D \cup {n} /\ n \notin D
        /\ Chain(D) /\ Chain(D \cup {n}) /\ IsLast(n, D \cup {n})
        /\ \A h : h # row.id => EntriesOf(h, ledger') = EntriesOf(h, ledger)
    BY <1>5, <2>2, EntryIsLast
  <2>4. /\ n.shares = req[r].shares
        /\ n.kind = IF req[r].op = "redeem" THEN "redeem" ELSE "buy"
    BY <1>0, <1>5, InsertsNewEntry
  <2>5. Signed(n) = IF req[r].op = "redeem" THEN - req[r].shares ELSE req[r].shares
    BY <1>2, <2>4 DEF Signed
  <2>6. u \in Users /\ \A a, b \in holding : a.user = b.user => a = b
    BY <1>0 DEF IInv, TypeOK, HoldingRow, TablesConsistent
  <2> HIDE DEF n, u
  <2>7. \A s \in Requests : \A h : ~ OpenerIn(req'[s], h) /\ (OpenerIn(req[s], h) => h = row.id)
    BY <2>1, <2>2 DEF OpenerIn
  <2>8. \A v \in Users : v # u =>
            AccountIn(v, holding', ledger', req') = AccountIn(v, holding, ledger, req)
    BY <1>0, <1>1, <2>3, <2>7, OnlyOwnAccount DEF u
  <2>9. MineIn(u, holding', ledger', req') = {row}
    <3>1. ~ OpeningIn(row, ledger', req')
      BY <2>7 DEF OpeningIn
    <3>2. row \in holding' /\ \A a, b \in holding' : a.user = b.user => a = b
      BY <1>1, <2>6
    <3>3. MineIn(row.user, holding', ledger', req') = {row}
      BY <3>1, <3>2, MineOne, Zenon
    <3> QED BY <3>3 DEF u
  <2>10. AccountIn(u, holding', ledger', req')
           = OpenAccount(Append(Balances(D), (IF D = {} THEN 0 ELSE Balances(D)[Cardinality(D)]) + Signed(n)))
    <3>1. (D \cup {n}) \ {n} = D
      BY <2>3
    <3> HIDE DEF D
    <3>2. Balances(D \cup {n})
            = Append(Balances(D), (IF D = {} THEN 0 ELSE Balances(D)[Cardinality(D)]) + Signed(n))
      BY <2>3, <3>1, BalancesAdd
    <3>3. AccountIn(u, holding', ledger', req')
            = OpenAccount(Balances(Active(EntriesOf(row.id, ledger'))))
      BY <2>9, AccountOpen DEF OpenAccount
    <3> QED BY <2>3, <3>2, <3>3, Zenon
  <2>11. /\ Cardinality(D) \in Nat /\ SharesAfter(D) \in Int
         /\ Balances(D) \in Seq(Int) /\ Len(Balances(D)) = Cardinality(D)
         /\ D # {} => Cardinality(D) # 0 /\ Balances(D)[Cardinality(D)] = SharesAfter(D)
    <3> HIDE DEF D
    <3> QED BY <2>3, BalancesAreSums
  <2>12. D = {} => Balances(D) = <<>> /\ SharesAfter(D) = 0
    BY BalancesNone, SharesAfterNone
  <2>13. CASE req[r].op = "create"
    <3>1. EntriesOf(row.id, ledger) = {} /\ req[r].shares \in Shares
      BY <1>0, <1>1, <1>2, <2>2, <2>13 DEF Prepared
    <3>2. OpeningIn(row, ledger, req)
      BY <1>1, <1>2, <2>2, <2>13, <3>1 DEF OpeningIn, OpenerIn
    <3>3. MineIn(u, holding, ledger, req) = {}
      BY <2>6, <3>2, MineOne DEF u
    <3>4. AccountIn(u, holding, ledger, req).open = FALSE
      BY <3>3, AccountShut
    <3>5. D = {}
      BY <3>1 DEF Active
    <3>6. Signed(n) = req[r].shares /\ 0 + req[r].shares = req[r].shares
      BY <1>2, <2>5, <2>13 DEF Handler
    <3>7. Append(Balances(D), (IF D = {} THEN 0 ELSE Balances(D)[Cardinality(D)]) + Signed(n))
            = <<req[r].shares>>
      <4>1. Balances(D) = <<>>
        BY <2>12, <3>5
      <4>2. (IF D = {} THEN 0 ELSE Balances(D)[Cardinality(D)]) + Signed(n) = req[r].shares
        BY <3>5, <3>6
      <4>3. \A s : Append(<<>>, s) = <<s>>
        OBVIOUS
      <4> QED BY <4>1, <4>2, <4>3, Zenon
    <3>8. AccountIn(u, holding', ledger', req') = OpenAccount(<<req[r].shares>>)
      BY <2>10, <3>7, Zenon
    <3>9. Book!Next
      BY <2>6, <2>8, <3>1, <3>4, <3>8, BookOpens DEF u
    <3> QED BY <3>9
  <2>14. CASE req[r].op # "create"
    <3>1. ~ OpeningIn(row, ledger, req)
      BY <2>14 DEF OpeningIn, OpenerIn
    <3>2. MineIn(u, holding, ledger, req) = {row}
      BY <2>6, <3>1, MineOne DEF u
    <3> DEFINE bs == Balances(D)
               b == [w \in Users |-> AccountOf(w)]
               x == IF D = {} THEN 0 ELSE Balances(D)[Cardinality(D)]
    <3>3. AccountIn(u, holding, ledger, req) = OpenAccount(bs)
      BY <3>2, AccountOpen DEF OpenAccount
    <3>4. AccountIn(u, holding', ledger', req') = OpenAccount(Append(bs, x + Signed(n)))
      BY <2>10
    <3>5. x = SharesAfter(D) /\ x \in Int
      BY <2>11, <2>12
    <3> HIDE DEF D
    <3>6. x = IF bs = <<>> THEN 0 ELSE bs[Len(bs)]
      BY <2>11, <2>12
    <3> HIDE DEF x, bs
    <3>7. b[u].open /\ b[u].balances = bs /\ Book!Enter(u, x + Signed(n))
      BY <2>6, <2>8, <3>3, <3>4, BookEnters, Zenon
    <3> HIDE DEF b
    <3>8. Book!Balance(b[u]) = x
      BY <3>6, <3>7 DEF Book!Balance
    <3>9. CASE req[r].op = "append"
      <4>1. req[r].shares \in Shares /\ Signed(n) = req[r].shares
        BY <1>0, <1>2, <2>5, <3>9 DEF Prepared
      <4>2. Book!Buy(u)
        BY <3>7, <3>8, <4>1, Zenon DEF Book!Buy, b
      <4> QED BY <2>6, <4>2 DEF Book!Next, u
    <3>10. CASE req[r].op = "redeem"
      <4>1. 0 < Remaining(EntriesOf(row.id, ledger))
            /\ req[r].shares <= Remaining(EntriesOf(row.id, ledger))
        BY <1>0, <1>1, <2>2, <3>10 DEF Checked
      <4>2. Remaining(EntriesOf(row.id, ledger)) = x
        BY <3>5, Zenon DEF Remaining, D
      <4>3. 0 < x /\ req[r].shares <= x
        BY <4>1, <4>2, Zenon
      <4>4. req[r].shares \in 0..x /\ x > 0 /\ Signed(n) = - req[r].shares
            /\ x + Signed(n) = x - req[r].shares
        BY <1>2, <2>5, <3>5, <3>10, <4>3 DEF Handler
      <4>5. Book!Redeem(u)
        BY <3>7, <3>8, <4>4, Zenon DEF Book!Redeem, b
      <4> QED BY <2>6, <4>5 DEF Book!Next, u
    <3> QED BY <1>2, <2>14, <3>9, <3>10
  <2> QED BY <2>13, <2>14
<1> QED BY <1>3, <1>4, <1>5 DEF Insert

\* VoidLedger takes the last balance away.
LEMMA VoidImplements ==
  ASSUME BInv, NEW r \in Requests, \A s \in Requests : s = r, VoidLedger(r),
         ledger' # ledger
  PROVE  [Book!Next]_([u \in Users |-> AccountOf(u)])
<1>0. TypeOK /\ IInv /\ InOrder /\ SInv /\ Prepared(req[r], ledger) /\ Checked(req[r], ledger)
  BY DEF BInv, SInv, IInv
<1>1. req[r].pc = "mark" /\ holding' = holding /\ Reply(r)
  BY DEF VoidLedger, WriteFails
<1>2. req'[r] = Idle
  BY <1>0, <1>1, GotoSelf DEF Reply
<1>3. \A s \in Requests : \A h : ~ OpenerIn(req'[s], h) /\ ~ OpenerIn(req[s], h)
  BY <1>1, <1>2 DEF OpenerIn
<1> DEFINE t == req[r].target
<1>4. PICK e \in ledger : e.id = t /\ ~ e.voided
  BY <1>0, <1>1 DEF Prepared
<1>5. PICK row \in holding : row.id = e.holding
  BY <1>0 DEF IInv, TablesConsistent, IdsOf
<1> DEFINE E == Active(EntriesOf(row.id, ledger))
           D == E \ {e}
           u == row.user
<1>6. e \in E /\ E \subseteq ledger
  BY <1>4, <1>5 DEF Active, EntriesOf
<1>7. \A f \in ledger : f.id = t => f = e
  BY <1>0, <1>4 DEF IInv, TablesConsistent
<1>8. Active(EntriesOf(row.id, ledger')) = D
  <2>1. Active(EntriesOf(row.id, ledger')) = {f \in E : f.id # t}
    BY <1>0, VoidedAreGone
  <2> HIDE DEF t
  <2>2. {f \in E : f.id # t} = D
    BY <1>4, <1>6, <1>7
  <2> QED BY <2>1, <2>2, Zenon
<1>9. IsLast(e, E)
  <2>1. \A f \in E : f \in ledger /\ ~ f.voided /\ f.holding = e.holding
    BY <1>5 DEF Active, EntriesOf
  <2>2. \A f \in E : f.id <= e.id
    BY <1>0, <1>1, <1>4, <2>1 DEF Checked
  <2> QED BY <1>6, <2>2 DEF IsLast
<1>10. Chain(E)
  BY <1>0, EntriesAreChain
<1>11. u \in Users /\ \A a, b \in holding : a.user = b.user => a = b
  BY <1>0 DEF IInv, TypeOK, HoldingRow, TablesConsistent
<1>12. MineIn(u, holding, ledger, req) = {row} /\ MineIn(u, holding', ledger', req') = {row}
  <2>1. ~ OpeningIn(row, ledger, req) /\ ~ OpeningIn(row, ledger', req')
    BY <1>3 DEF OpeningIn
  <2>2. MineIn(u, holding, ledger, req) = {row}
    BY <1>11, <2>1, MineOne
  <2>3. \A a, b \in holding' : a.user = b.user => a = b
    BY <1>1, <1>11
  <2>4. MineIn(u, holding', ledger', req') = {row}
    <3>1. row \in holding' /\ ~ OpeningIn(row, ledger', req')
      BY <1>1, <2>1
    <3> QED BY <2>3, <3>1, MineOne
  <2> QED BY <2>2, <2>4
<1>13. /\ AccountIn(u, holding, ledger, req) = OpenAccount(Balances(E))
       /\ AccountIn(u, holding', ledger', req')
             = OpenAccount(Balances(Active(EntriesOf(row.id, ledger'))))
  <2> HIDE DEF u
  <2> QED BY <1>12, AccountOpen DEF OpenAccount
<1>14. \A h : h # row.id => Active(EntriesOf(h, ledger')) = Active(EntriesOf(h, ledger))
  <2> SUFFICES ASSUME NEW h, h # row.id
               PROVE  Active(EntriesOf(h, ledger')) = Active(EntriesOf(h, ledger))
    OBVIOUS
  <2>1. Active(EntriesOf(h, ledger')) = {f \in Active(EntriesOf(h, ledger)) : f.id # t}
    BY <1>0, VoidedAreGone
  <2>2. \A f \in Active(EntriesOf(h, ledger)) : f \in ledger /\ f.holding = h
    BY DEF Active, EntriesOf
  <2> HIDE DEF t
  <2>3. \A f \in Active(EntriesOf(h, ledger)) : f.id # t
    BY <1>5, <1>7, <2>2
  <2> QED BY <2>1, <2>3
<1>15. \A v \in Users : v # u =>
            AccountIn(v, holding', ledger', req') = AccountIn(v, holding, ledger, req)
  <2> SUFFICES ASSUME NEW v \in Users, v # u
               PROVE  AccountIn(v, holding', ledger', req') = AccountIn(v, holding, ledger, req)
    OBVIOUS
  <2>1. \A other \in holding : ~ OpeningIn(other, ledger, req) /\ ~ OpeningIn(other, ledger', req')
    BY <1>3 DEF OpeningIn
  <2>2. MineIn(v, holding', ledger', req') = MineIn(v, holding, ledger, req)
    BY <1>1, <2>1 DEF MineIn
  <2>3. \A other \in MineIn(v, holding, ledger, req) : other.id # row.id
    BY <1>0 DEF MineIn, IInv, TablesConsistent
  <2>4. \A other \in MineIn(v, holding, ledger, req) :
          Active(EntriesOf(other.id, ledger')) = Active(EntriesOf(other.id, ledger))
    BY <1>14, <2>3
  <2> QED BY <2>2, <2>4, AccountKept
<1> HIDE DEF u, E, D
<1>16. Chain(D)
  BY <1>10, ChainPart DEF D
<1>17. Balances(D) \in Seq(Int) /\ Balances(D) \in Seq(Int)
  BY <1>16, BalancesAreSums
<1>18. Cardinality(D) \in Nat /\ SharesAfter(D) \in Int
        /\ (D # {} => Balances(D)[Cardinality(D)] = SharesAfter(D))
  BY <1>16, BalancesAreSums
<1> DEFINE x == (IF D = {} THEN 0 ELSE Balances(D)[Cardinality(D)]) + Signed(e)
<1>19. Balances(E) = Append(Balances(D), x)
  BY <1>9, <1>10, BalancesAdd DEF D
<1>20. Signed(e) \in Int
  BY <1>6, <1>10 DEF Chain
<1>21. x \in Int
  BY <1>18, <1>20
<1> HIDE DEF x
<1>22. Shortened(Balances(E), Balances(D))
  BY <1>17, <1>19, <1>21, AppendedOff
<1>23. /\ AccountIn(u, holding, ledger, req) = OpenAccount(Balances(E))
       /\ AccountIn(u, holding', ledger', req') = OpenAccount(Balances(D))
  BY <1>8, <1>13, Zenon
<1>24. Book!Next
  BY <1>11, <1>15, <1>22, <1>23, BookVoids
<1> QED BY <1>24

\* DeleteHolding closes the account.
LEMMA DeleteImplements ==
  ASSUME BInv, NEW r \in Requests, \A s \in Requests : s = r, DeleteAccount(r),
         DeleteHolding(req[r].h)
  PROVE  [Book!Next]_([u \in Users |-> AccountOf(u)])
<1>0. TypeOK /\ IInv
  BY DEF BInv, SInv, IInv
<1>1. /\ req[r].pc = "delete" /\ Reply(r)
      /\ holding' = {row \in holding : row.id # req[r].h}
      /\ ledger' = {e \in ledger : e.holding # req[r].h}
  BY DEF DeleteAccount, DeleteHolding
<1>2. req'[r] = Idle
  BY <1>0, <1>1, GotoSelf DEF Reply
<1>3. \A s \in Requests : \A h : ~ OpenerIn(req'[s], h) /\ ~ OpenerIn(req[s], h)
  BY <1>1, <1>2 DEF OpenerIn
<1>4. \A row \in holding : ~ OpeningIn(row, ledger, req) /\ ~ OpeningIn(row, ledger', req')
  BY <1>3 DEF OpeningIn
<1>5. \A h : h # req[r].h => EntriesOf(h, ledger') = EntriesOf(h, ledger)
  BY <1>1 DEF EntriesOf
<1>6. ASSUME NEW v \in Users, \A row \in holding : row.user = v => row.id # req[r].h
      PROVE  AccountIn(v, holding', ledger', req') = AccountIn(v, holding, ledger, req)
  <2>1. MineIn(v, holding', ledger', req') = MineIn(v, holding, ledger, req)
    BY <1>1, <1>4, <1>6 DEF MineIn
  <2>2. \A other \in MineIn(v, holding, ledger, req) : other.id # req[r].h
    BY <1>6 DEF MineIn
  <2>3. \A other \in MineIn(v, holding, ledger, req) :
          Active(EntriesOf(other.id, ledger')) = Active(EntriesOf(other.id, ledger))
    BY <1>5, <2>2
  <2> QED BY <2>1, <2>3, AccountKept
<1>7. CASE \A row \in holding : row.id # req[r].h
  BY <1>6, <1>7, NoAccountChanges, BookStays
<1>8. ASSUME NEW row \in holding, row.id = req[r].h
      PROVE  Book!Next
  <2> DEFINE u == row.user
  <2>1. u \in Users /\ \A a, b \in holding : (a.id = b.id \/ a.user = b.user) => a = b
    BY <1>0 DEF IInv, TypeOK, HoldingRow, TablesConsistent
  <2>2. MineIn(u, holding, ledger, req) = {row}
    BY <1>4, <2>1, MineOne
  <2>3. MineIn(u, holding', ledger', req') = {}
    BY <1>1, <1>8, <2>1 DEF MineIn
  <2>4. \A v \in Users : v # u =>
            AccountIn(v, holding', ledger', req') = AccountIn(v, holding, ledger, req)
    BY <1>6, <1>8, <2>1
  <2> HIDE DEF u
  <2>5. AccountIn(u, holding, ledger, req) = OpenAccount(Balances(Active(EntriesOf(row.id, ledger))))
    BY <2>2, AccountOpen DEF OpenAccount
  <2>6. AccountIn(u, holding, ledger, req).open = TRUE
    BY <2>5, OpenAccountIs DEF OpenAccount
  <2>7. AccountIn(u, holding', ledger', req') = [open |-> FALSE, balances |-> <<>>]
    BY <2>3, AccountShut
  <2> QED BY <2>1, <2>4, <2>6, <2>7, BookCloses
<1> QED BY <1>7, <1>8

\* A crash leaves an account whose first buy was being written without entries,
\* and so does a clean-up that fails.
LEMMA GiveUpImplements ==
  ASSUME BInv, Serial, Crashes \/ WriteFaults, holding' = holding,
         ledger' = ledger, \A s \in Requests : req'[s] = Idle
  PROVE  [Book!Next]_([u \in Users |-> AccountOf(u)])
<1>0. TypeOK /\ IInv
  BY DEF BInv, SInv, IInv
<1>1. holding' = holding /\ ledger' = ledger
  OBVIOUS
<1>2. \A s \in Requests : \A h : ~ OpenerIn(req'[s], h)
  BY DEF OpenerIn
<1>3. \A row \in holding : ~ OpeningIn(row, ledger', req')
  BY <1>2 DEF OpeningIn
<1>4. CASE \A row \in holding : ~ OpeningIn(row, ledger, req)
  <2>1. \A u : MineIn(u, holding', ledger', req') = MineIn(u, holding, ledger, req)
    BY <1>1, <1>3, <1>4 DEF MineIn
  <2> QED BY <1>1, <2>1, AccountKept, NoAccountChanges, BookStays
<1>5. ASSUME NEW row \in holding, OpeningIn(row, ledger, req)
      PROVE  Book!Next
  <2>1. row.user \in Users /\ \A a, b \in holding : a.user = b.user => a = b
    BY <1>0 DEF IInv, TypeOK, HoldingRow, TablesConsistent
  <2>2. PICK r \in Requests : OpenerIn(req[r], row.id)
    BY <1>5 DEF OpeningIn
  <2>3. \A s \in Requests : \A h : h # row.id => ~ OpenerIn(req[s], h)
    BY <2>2 DEF Serial, OpenerIn
  <2>4. \A v \in Users : v # row.user =>
            AccountIn(v, holding', ledger', req') = AccountIn(v, holding, ledger, req)
    BY <1>0, <1>1, <1>2, <2>3, OnlyOwnAccount
  <2>5. MineIn(row.user, holding, ledger, req) = {}
    BY <1>5, <2>1, MineOne
  <2>6. MineIn(row.user, holding', ledger', req') = {row}
    <3>1. \A a, b \in holding' : a.user = b.user => a = b
      BY <1>1, <2>1
    <3>2. row \in holding' /\ ~ OpeningIn(row, ledger', req')
      BY <1>1, <1>3
    <3> QED BY <1>3, <3>1, <3>2 DEF MineIn
  <2>7. EntriesOf(row.id, ledger') = {}
    <3>1. EntriesOf(row.id, ledger) = {}
      BY <1>5 DEF OpeningIn
    <3> QED BY <1>1, <3>1, Zenon
  <2>8. Balances(Active(EntriesOf(row.id, ledger'))) = <<>>
    <3>1. Active({}) = {}
      BY DEF Active
    <3> QED BY <2>7, <3>1, BalancesNone, Zenon
  <2> DEFINE u == row.user
  <2> HIDE DEF u
  <2>9. AccountIn(u, holding', ledger', req') = OpenAccount(<<>>)
    <3>1. AccountIn(u, holding', ledger', req')
            = OpenAccount(Balances(Active(EntriesOf(row.id, ledger'))))
      <4>1. MineIn(u, holding', ledger', req') = {row}
        BY <2>6 DEF u
      <4> QED BY <4>1, AccountOpen DEF OpenAccount
    <3> QED BY <2>8, <3>1, Zenon
  <2>10. AccountIn(u, holding, ledger, req).open = FALSE
    BY <2>5, AccountShut DEF u
  <2>11. u \in Users /\ \A v \in Users : v # u =>
            AccountIn(v, holding', ledger', req') = AccountIn(v, holding, ledger, req)
    BY <2>1, <2>4 DEF u
  <2> QED BY <2>9, <2>10, <2>11, BookOpensEmpty
<1> QED BY <1>4, <1>5

\* Every step is a step of the account book or changes nothing that it shows.
LEMMA StepImplements ==
  ASSUME Serial, BInv, [Next]_vars
  PROVE  [Book!Next]_([u \in Users |-> AccountOf(u)])
<1>0. TypeOK
  BY DEF BInv, SInv, IInv
<1>1. ASSUME NEW r \in Requests, Handle(r)
      PROVE  [Book!Next]_([u \in Users |-> AccountOf(u)])
  <2>0. \A s \in Requests : s = r
    BY DEF Serial
  <2>1. CASE BuyStart(r) \/ BuyLookup(r) \/ HoldingLookup(r) \/ RedeemCheck(r) \/ VoidCheck(r)
    <3>1. /\ holding' = holding /\ ledger' = ledger
          /\ \A h : ~ OpenerIn(req[r], h) /\ ~ OpenerIn(req'[r], h)
      BY <2>1, ReadersOpenNothing
    <3>2. \A s \in Requests, row \in holding : OpenerIn(req'[s], row.id) <=> OpenerIn(req[s], row.id)
      BY <2>0, <3>1
    <3> QED BY <3>1, <3>2, QuietStep, BookStays
  <2>2. CASE CreateHolding(r)
    BY <2>0, <2>2, CreateIsQuiet, BookStays
  <2>3. CASE Cleanup(r) /\ DeleteHolding(req[r].h)
    BY <2>0, <2>3, CleanupIsQuiet, BookStays
  <2>4. CASE Cleanup(r) /\ WriteFails
    <3>1. \A s \in Requests : req'[s] = Idle
      BY <1>0, <2>0, <2>4, GotoSelf DEF Cleanup, Reply
    <3> QED BY <2>4, <3>1, GiveUpImplements DEF WriteFails
  <2>5. CASE WriteFails /\ (VoidLedger(r) \/ DeleteAccount(r))
    <3>1. req'[r] = Idle /\ holding' = holding /\ ledger' = ledger
      BY <1>0, <2>5, GotoSelf DEF VoidLedger, DeleteAccount, Reply, WriteFails
    <3>2. \A h : ~ OpenerIn(req[r], h) /\ ~ OpenerIn(req'[r], h)
      BY <2>5, <3>1 DEF VoidLedger, DeleteAccount, OpenerIn
    <3>3. \A s \in Requests, row \in holding :
             OpenerIn(req'[s], row.id) <=> OpenerIn(req[s], row.id)
      BY <2>0, <3>2
    <3> QED BY <3>1, <3>3, QuietStep, BookStays
  <2>6. CASE VoidLedger(r) /\ ~ WriteFails
    <3>1. CASE ledger' # ledger
      BY <2>0, <2>6, <3>1, VoidImplements
    <3>2. CASE ledger' = ledger
      <4>1. req'[r] = Idle /\ holding' = holding
        BY <1>0, <2>6, GotoSelf DEF VoidLedger, Reply
      <4>2. \A h : ~ OpenerIn(req[r], h) /\ ~ OpenerIn(req'[r], h)
        BY <2>6, <4>1 DEF VoidLedger, OpenerIn
      <4>3. \A s \in Requests, row \in holding :
               OpenerIn(req'[s], row.id) <=> OpenerIn(req[s], row.id)
        BY <2>0, <4>2
      <4> QED BY <3>2, <4>1, <4>3, QuietStep, BookStays
    <3> QED BY <3>1, <3>2
  <2>7. CASE DeleteAccount(r) /\ DeleteHolding(req[r].h)
    BY <2>0, <2>7, DeleteImplements
  <2>8. CASE Insert(r)
    BY <2>0, <2>8, InsertImplements
  <2>9. Cleanup(r) => DeleteHolding(req[r].h) \/ WriteFails
    BY DEF Cleanup
  <2>10. DeleteAccount(r) => DeleteHolding(req[r].h) \/ WriteFails
    BY DEF DeleteAccount
  <2> QED
    BY <1>1, <2>1, <2>2, <2>3, <2>4, <2>5, <2>6, <2>7, <2>8, <2>9, <2>10
       DEF Handle
<1>2. CASE holding' = holding /\ ledger' = ledger /\ req' = req
  <2>1. \A s \in Requests, row \in holding : OpenerIn(req'[s], row.id) <=> OpenerIn(req[s], row.id)
    BY <1>2
  <2> QED BY <1>2, <2>1, QuietStep, BookStays
<1>3. CASE Crash
  <2>1. \A s \in Requests : req'[s] = Idle
    BY <1>3 DEF Crash
  <2> QED BY <1>3, <2>1, GiveUpImplements DEF Crash
<1> QED BY <1>1, <1>2, <1>3 DEF Next, Tick, SetListed, vars

\* ImplementsBook with one request at a time and no entry dated back, whatever
\* fails or stops in between: a handler writes the ledger in one statement, and
\* an account between its insertion and its first buy does not count.
THEOREM ImplementsBookAlways ==
  ASSUME Serial PROVE Spec => ImplementsBook
<1>1. Init => BInv
  <2>1. Init => \A r \in Requests : Prepared(req[r], ledger)
    BY DEF Init, Prepared, Idle
  <2> QED BY <2>1, SerialInit DEF BInv
<1>2. BInv /\ [Next]_vars => BInv'
  BY SerialStep, StepPrepared DEF BInv
<1>3. BInv /\ [Next]_vars => [Book!Next]_([u \in Users |-> AccountOf(u)])
  BY StepImplements
<1>4. Init => Book!Init
  <2> SUFFICES ASSUME Init PROVE Book!Init
    OBVIOUS
  <2>1. holding = {}
    BY DEF Init
  <2>2. \A u : MineIn(u, holding, ledger, req) = {}
    BY <2>1 DEF MineIn
  <2>3. \A u : AccountIn(u, holding, ledger, req) = [open |-> FALSE, balances |-> <<>>]
    BY <2>2, AccountShut
  <2>4. \A u : AccountOf(u) = [open |-> FALSE, balances |-> <<>>]
    BY <2>3, AccountOfIs
  <2> QED BY <2>4, Zenon DEF Book!Init, Book!NoAccount
<1> QED BY <1>1, <1>2, <1>3, <1>4, PTL DEF Spec, ImplementsBook, Book!Spec

-----------------------------------------------------------------------------
(* The account book never records a negative number of shares. *)

\* The type of a book.
Booked(b) == b \in [Users -> Book!Account]

\* Its accounts.
LEMMA BookedAccount ==
  ASSUME NEW b, Booked(b), NEW u \in Users
  PROVE  /\ b[u].open \in BOOLEAN /\ b[u].balances \in Seq(Nat)
         /\ Len(b[u].balances) \in Nat
         /\ Book!Balance(b[u]) \in Nat
<1>1. b[u] \in Book!Account
  BY DEF Booked
<1>2. b[u].open \in BOOLEAN /\ b[u].balances \in Seq(Nat)
  BY <1>1 DEF Book!Account
<1>3. ASSUME NEW s \in Seq(Nat), s # <<>> PROVE s[Len(s)] \in Nat
  <2>1. Len(s) \in 1..Len(s)
    BY <1>3
  <2> QED BY <2>1
<1> QED BY <1>2, <1>3 DEF Book!Balance

\* With another account for a user it is a book again.
LEMMA BookedSet ==
  ASSUME NEW b, Booked(b), NEW u \in Users, NEW x \in BOOLEAN, NEW s \in Seq(Nat)
  PROVE  Booked([b EXCEPT ![u] = [open |-> x, balances |-> s]])
<1>1. [open |-> x, balances |-> s] \in Book!Account
  BY DEF Book!Account
<1> QED BY <1>1 DEF Booked

\* New balances for an account.
LEMMA BookedBalances ==
  ASSUME NEW b, Booked(b), NEW u \in Users, NEW s \in Seq(Nat)
  PROVE  Booked([b EXCEPT ![u].balances = s])
<1>1. b[u] \in Book!Account
  BY DEF Booked
<1>2. [b[u] EXCEPT !.balances = s] \in Book!Account
  BY <1>1 DEF Book!Account
<1> QED BY <1>2 DEF Booked

\* Every step of the account book keeps balances natural numbers.
LEMMA BookStep ==
  ASSUME Booked([u \in Users |-> AccountOf(u)]),
         [Book!Next]_([u \in Users |-> AccountOf(u)])
  PROVE  Booked([u \in Users |-> AccountOf(u)]')
<1> DEFINE b == [u \in Users |-> AccountOf(u)]
<1>0. \A s \in Shares : s \in Nat
  BY SharesAssumption
<1>1. ASSUME NEW u \in Users, Book!Open(u) PROVE Booked(b')
  <2>1. PICK s \in Shares : b' = [b EXCEPT ![u] = [open |-> TRUE, balances |-> <<s>>]]
    BY <1>1, Zenon DEF Book!Open
  <2>2. <<s>> \in Seq(Nat)
    BY <1>0
  <2>3. Booked(b)
    OBVIOUS
  <2> HIDE DEF b
  <2>4. Booked([b EXCEPT ![u] = [open |-> TRUE, balances |-> <<s>>]])
    BY <2>2, <2>3, BookedSet
  <2> QED BY <2>1, <2>4, Zenon
<1>2. ASSUME NEW u \in Users, Book!OpenEmpty(u) \/ Book!Close(u) PROVE Booked(b')
  <2>1. PICK x \in BOOLEAN : b' = [b EXCEPT ![u] = [open |-> x, balances |-> <<>>]]
    BY <1>2, Zenon DEF Book!OpenEmpty, Book!Close, Book!NoAccount
  <2>2. <<>> \in Seq(Nat) /\ Booked(b)
    OBVIOUS
  <2> HIDE DEF b
  <2>3. Booked([b EXCEPT ![u] = [open |-> x, balances |-> <<>>]])
    BY <2>2, BookedSet
  <2> QED BY <2>1, <2>3, Zenon
<1>3. ASSUME NEW u \in Users, NEW n \in Nat, Book!Enter(u, n) PROVE Booked(b')
  <2>1. b' = [b EXCEPT ![u].balances = Append(b[u].balances, n)] /\ Booked(b)
    BY <1>3, Zenon DEF Book!Enter
  <2> HIDE DEF b
  <2> DEFINE s == Append(b[u].balances, n)
  <2>2. s \in Seq(Nat)
    BY <2>1, BookedAccount
  <2> HIDE DEF s
  <2>3. Booked([b EXCEPT ![u].balances = s])
    BY <2>1, <2>2, BookedBalances
  <2>4. b' = [b EXCEPT ![u].balances = s]
    BY <2>1, Zenon DEF s
  <2> QED BY <2>3, <2>4, Zenon
<1>4. ASSUME NEW u \in Users, Book!Buy(u) PROVE Booked(b')
  <2>1. PICK s \in Shares : Book!Enter(u, Book!Balance(b[u]) + s)
    BY <1>4, Zenon DEF Book!Buy
  <2>2. Booked(b)
    OBVIOUS
  <2>3. Book!Balance(b[u]) \in Nat
    <3> HIDE DEF b
    <3> QED BY <2>2, BookedAccount
  <2>4. Book!Balance(b[u]) + s \in Nat
    <3> HIDE DEF b
    <3> QED BY <1>0, <2>3
  <2> QED BY <1>3, <2>1, <2>4, Zenon
<1>5. ASSUME NEW u \in Users, Book!Redeem(u) PROVE Booked(b')
  <2>1. PICK s \in 0..Book!Balance(b[u]) : Book!Enter(u, Book!Balance(b[u]) - s)
    BY <1>5, Zenon DEF Book!Redeem
  <2>2. Booked(b)
    OBVIOUS
  <2>3. Book!Balance(b[u]) \in Nat
    <3> HIDE DEF b
    <3> QED BY <2>2, BookedAccount
  <2>4. Book!Balance(b[u]) - s \in Nat
    <3> HIDE DEF b
    <3> QED BY <2>3
  <2> QED BY <1>3, <2>1, <2>4, Zenon
<1>6. ASSUME NEW u \in Users, Book!VoidLast(u) PROVE Booked(b')
  <2>1. /\ b' = [b EXCEPT ![u].balances = SubSeq(b[u].balances, 1, Len(b[u].balances) - 1)]
        /\ Booked(b)
    BY <1>6, Zenon DEF Book!VoidLast
  <2> HIDE DEF b
  <2> DEFINE c == b[u].balances
             s == SubSeq(c, 1, Len(c) - 1)
  <2>2. c \in Seq(Nat) /\ Len(c) \in Nat
    BY <2>1, BookedAccount
  <2> HIDE DEF c
  <2>3. s \in Seq(Nat)
    BY <2>2, SubSeqProperties
  <2> HIDE DEF s
  <2>4. Booked([b EXCEPT ![u].balances = s])
    BY <2>1, <2>3, BookedBalances
  <2>5. b' = [b EXCEPT ![u].balances = s]
    BY <2>1, Zenon DEF s, c
  <2> QED BY <2>4, <2>5, Zenon
<1>7. CASE b' = b
  BY <1>7, Zenon
<1> QED BY <1>1, <1>2, <1>4, <1>5, <1>6, <1>7 DEF Book!Next

LEMMA BookInit == Book!Init => Booked([u \in Users |-> AccountOf(u)])
<1>1. [open |-> FALSE, balances |-> <<>>] \in Book!Account
  BY DEF Book!Account
<1> QED BY <1>1 DEF Book!Init, Book!NoAccount, Booked

\* What no request ever does to an account, with one request at a time and no
\* entry dated back: no entry in force leaves a negative number of shares, also
\* after entries that followed it have been voided.
THEOREM NeverOverdrawnAlways ==
  ASSUME Serial PROVE Spec => []Book!NeverOverdrawn
<1>1. Booked([u \in Users |-> AccountOf(u)]) => Book!NeverOverdrawn
  <2> DEFINE b == [u \in Users |-> AccountOf(u)]
  <2> SUFFICES ASSUME Booked(b), NEW u \in Users, NEW i \in 1..Len(b[u].balances)
               PROVE  b[u].balances[i] >= 0
    BY DEF Book!NeverOverdrawn
  <2> HIDE DEF b
  <2>1. b[u].balances \in Seq(Nat)
    BY BookedAccount
  <2>2. b[u].balances[i] \in Nat
    BY <2>1
  <2> QED BY <2>2
<1>2. Spec => ImplementsBook
  BY ImplementsBookAlways
<1>3. /\ Booked([u \in Users |-> AccountOf(u)])
      /\ [Book!Next]_([u \in Users |-> AccountOf(u)])
      => Booked([u \in Users |-> AccountOf(u)])'
  BY BookStep DEF Booked
<1>4. Book!Init => Booked([u \in Users |-> AccountOf(u)])
  BY BookInit
<1> QED BY <1>1, <1>2, <1>3, <1>4, PTL DEF ImplementsBook, Book!Spec
=============================================================================
