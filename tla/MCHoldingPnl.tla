---------------------------- MODULE MCHoldingPnl ----------------------------
(* A NAV that moves by a half, and a loss to declare. *)
EXTENDS HoldingPnl

MCDeclared == {-101}
=============================================================================
