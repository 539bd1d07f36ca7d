----------------------------- MODULE LedgerBook -----------------------------
(***************************************************************************)
(* The ledger implements the account book when one request is handled at a *)
(* time and no entry is dated back: the mapping from the rows of holding   *)
(* and ledger_entry to a user's list of balances.                          *)
(***************************************************************************)
EXTENDS Ledger, Sequences

\* An account whose first buy is being written is not open yet.
Opening(row) ==
    ListLedger(row.id) = {} /\ \E r \in Requests : Opener(r, row.id)

\* The balance after each active entry, in the order of replay.
Balances(entries) ==
    LET entry(i) == CHOOSE e \in entries :
                      Cardinality({f \in entries : Precedes(f, e)}) = i - 1
        signed(e) == IF e.kind = "buy" THEN e.shares ELSE -e.shares
        first[n \in 0..Cardinality(entries)] ==
          IF n = 0 THEN <<>>
          ELSE LET before == first[n - 1]
                   balance == IF n = 1 THEN 0 ELSE before[n - 1]
               IN Append(before, balance + signed(entry(n)))
    IN first[Cardinality(entries)]

AccountOf(u) ==
    LET mine == {row \in HoldingByUserCode(u) : ~Opening(row)}
    IN [open |-> mine # {},
        balances |->
          Balances(Active(UNION {ListLedger(row.id) : row \in mine}))]

Book == INSTANCE AccountBook WITH book <- [u \in Users |-> AccountOf(u)]

\* Handled one at a time, the requests do to a user's account what the account
\* book allows, in one step each, whatever fails or stops in between.
ImplementsBook == Book!Spec
=============================================================================
