------------------------------ MODULE MCSipUas ------------------------------
(* Small instances of SipUas. *)
EXTENDS SipUas, TLC

Msg(kind, method, branch, peer, port) ==
    [kind |-> kind, method |-> method, branch |-> branch, peer |-> peer, port |-> port]

Invite == Msg("request", "INVITE", 1, "alice", 40000)
Ack == Msg("request", "ACK", 2, "alice", 40000)
Bye == Msg("request", "BYE", 3, "alice", 40000)
Options == Msg("request", "OPTIONS", 4, "bob", 7076)
Reply == Msg("response", "OPTIONS", 5, "bob", 7076)

\* A call of alice; bob asks for options and sends a stray response.
SignallingMessages == {Invite, Ack, Bye, Options, Reply}
NoneReliable == {}
McPeers == {"alice", "bob"}
McPorts == {7076, 40000}
=============================================================================
