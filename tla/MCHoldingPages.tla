--------------------------- MODULE MCHoldingPages ---------------------------
(***************************************************************************)
(* Instances of HoldingPages: two products, one of them known from the     *)
(* start, and two runs of async functions at a time.                       *)
(***************************************************************************)
EXTENDS HoldingPages

CONSTANTS A, B, Blank

\* Blank is the code A with a space after it.
MCTyped == {A, B, Blank, Empty}
MCNorm == [t \in MCTyped |-> IF t = Blank THEN A ELSE t]
MCFirst == [k \in {A, B} |-> IF k = A THEN {"absent", "fit"} ELSE {"unfit"}]
MCUpper == [t \in MCTyped |-> t]
=============================================================================
