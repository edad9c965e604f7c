----------------------------- MODULE MCSipPair -----------------------------
(* Small instances of SipPair: one INVITE or one BYE. *)
EXTENDS SipPair, TLC

Req(method, branch) == [kind |-> "request", method |-> method, branch |-> branch]

Invite == Req("INVITE", 1)
Bye == Req("BYE", 2)

PairRequests == {Invite, Bye}
PairMessages == {Invite, Req("ACK", 1), Bye}
ByeReliable == {Bye}
AnyResult == {"sent", "error"}
AllResults == {"sent", "progress", "error"}
=============================================================================
