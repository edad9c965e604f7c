---------------------------- MODULE MCExIncoming ----------------------------
(* A small instance of ExIncoming. *)
EXTENDS ExIncoming, TLC

AtMost == [INVITE |-> 2, REINVITE |-> 1, CANCEL |-> 1, RECANCEL |-> 0, NAK |-> 1, RENAK |-> 0,
           ACK |-> 1, REACK |-> 1, BYE |-> 1, BYE200 |-> 1]
=============================================================================
