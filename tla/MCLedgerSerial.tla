--------------------------- MODULE MCLedgerSerial ---------------------------
(* One request at a time, entries dated on the day they are made. *)
EXTENDS LedgerBook

CONSTANT r1

MCRequests == {r1}
MCOps == [r \in MCRequests |-> OpNames]
=============================================================================
