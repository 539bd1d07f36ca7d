------------------------- MODULE MCLedgerConcurrent -------------------------
(* Two requests at a time, every operation and every fault. *)
EXTENDS Ledger, TLC

CONSTANTS u1, u2, r1, r2

MCUsers == {u1, u2}
MCRequests == {r1, r2}
MCOps == [r \in MCRequests |-> OpNames]
MCSymmetry == Permutations(MCUsers) \cup Permutations(MCRequests)
=============================================================================
