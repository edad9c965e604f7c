---------------------------- MODULE MCExOutgoing ----------------------------
(* A small instance of ExOutgoing: two callees, which may be swapped. *)
EXTENDS ExOutgoing, TLC

CONSTANTS a, b
Two == {a, b}
=============================================================================
