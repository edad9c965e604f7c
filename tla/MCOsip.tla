------------------------------- MODULE MCOsip -------------------------------
(***************************************************************************)
(* The server transactions and the client transactions of oSIP2, each by   *)
(* itself, against whatever may arrive: Init picks one, the other idles.   *)
(***************************************************************************)
EXTENDS OsipServer, OsipClient, TLC

VARIABLE part          \* the one that runs

Req(method, branch) == [kind |-> "request", method |-> method, branch |-> branch]

Invite == Req("INVITE", 1)
Ack == Req("ACK", 1)
Bye == Req("BYE", 2)

\* Either kind of server transaction, whichever message arrives first.
LiveMessages == {Invite, Ack, Bye}
NoneReliable == {}

TwoRequests == {Invite, Bye}
ByeReliable == {Bye}
AllResults == {"sent", "progress", "error"}

AloneInit == part \in {"server", "client"} /\ Init /\ ClientInit
AloneNext == \/ part = "server" /\ Next /\ UNCHANGED <<part, clientVars>>
             \/ part = "client" /\ ClientNext /\ UNCHANGED <<part, osipVars>>

AloneSpec == /\ AloneInit /\ [][AloneNext]_<<part, osipVars, clientVars>>
             /\ ServerFairness /\ ClientFairness
=============================================================================
