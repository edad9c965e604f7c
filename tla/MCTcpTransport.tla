--------------------------- MODULE MCTcpTransport ---------------------------
(* A small instance of TcpTransport, whose peers are alike. *)
EXTENDS TcpTransport, TLC

PeersAlike == Permutations(Peers)
=============================================================================
