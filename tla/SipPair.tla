------------------------------- MODULE SipPair -------------------------------
(***************************************************************************)
(* A client transaction layer (OsipClient) and a server transaction layer  *)
(* (OsipServer) over a network that delays, reorders and loses what is not *)
(* sent over a reliable transport.  Retransmission is what makes copies:   *)
(* the network makes none.                                                 *)
(***************************************************************************)
EXTENDS OsipServer, OsipClient

ASSUME PairAssumption ==
    /\ Requests \subseteq Messages
    /\ \A x \in Requests : {"method", "branch"} \subseteq DOMAIN x /\ x.method # "ACK"
    /\ \A x, y \in Requests : x.method = y.method /\ x.branch = y.branch => x = y
    /\ {AckOf(x) : x \in {y \in Requests : IsIct(y)}} \subseteq Messages
    /\ ReliableRequests \subseteq Requests
    /\ SendResults \subseteq {"sent", "progress", "error"}
    /\ MaxFlight \in Nat /\ MaxEvents \in Nat /\ MaxHeard \in Nat /\ MaxStarted \in Nat

VARIABLE back          \* how many copies of each response are on their way

pairVars == <<osipVars, clientVars, back>>

\* The event with which the client hears what the server sent.
HeardAs == [SND_STATUS_1XX |-> "RCV_STATUS_1XX",
            SND_STATUS_2XX |-> "RCV_STATUS_2XX",
            SND_STATUS_3456XX |-> "RCV_STATUS_3456XX"]

PairInit == /\ Init
            /\ ClientInit
            /\ back = [x \in Requests |-> [r \in RcvStatus |-> 0]]

\* The client's user sends a request.
UserSends(x) == xict_init(x) /\ UNCHANGED <<osipVars, back>>

ClientRuns == /\ \E x \in Requests :
                    \/ osip_xict_execute(x)
                    \/ \E e \in ClientTimeouts : osip_timers_xict_execute(x, e)
              /\ UNCHANGED <<osipVars, back>>

\* A copy of a request reaches the server's receiver.
ServerReceives == \E m \in Outgoing :
    /\ ch[m] > 0
    /\ Arrive(m)
    /\ osip_find_transaction_and_add_event(m) \/ osip_create_transaction(m)
    /\ ch' = [ch EXCEPT ![m] = @ - 1]
    /\ UNCHANGED <<ct, back>>

\* The responses a step of the server has sent are on their way.
Carried(x, r) ==
    \E t \in Ids : /\ tr[t].req = x
                   /\ Len(tr'[t].wire) > Len(tr[t].wire)
                   /\ HeardAs[tr'[t].wire[Len(tr'[t].wire)]] = r

ServerRuns ==
    /\ \/ AddFirstEvent
       \/ \E k \in Kinds : Execute(k)
       \/ \E t \in Ids, e \in Timeouts : FireTimer(t, e)
       \/ \E t \in Ids, r \in Responses : osip_transaction_add_event(t, r)
    /\ back' = [x \in Requests |-> [r \in RcvStatus |->
                  IF Carried(x, r) /\ back[x][r] < MaxFlight THEN back[x][r] + 1
                                                             ELSE back[x][r]]]
    /\ UNCHANGED clientVars

\* A response reaches the client; one that matches no transaction is dropped
\* here, and is the user's.
ClientReceives == \E x \in Requests, r \in RcvStatus :
    /\ back[x][r] > 0
    /\ RcvResponse(x, r) \/ (~InList(x) /\ UNCHANGED ct)
    /\ back' = [back EXCEPT ![x][r] = @ - 1]
    /\ UNCHANGED <<ch, osipVars>>

Lose == /\ \/ \E m \in Outgoing : /\ m \notin ReliableRequests /\ ch[m] > 0
                                  /\ ch' = [ch EXCEPT ![m] = @ - 1]
                                  /\ UNCHANGED back
           \/ \E x \in Requests \ ReliableRequests, r \in RcvStatus :
                 /\ back[x][r] > 0
                 /\ back' = [back EXCEPT ![x][r] = @ - 1]
                 /\ UNCHANGED ch
        /\ UNCHANGED <<ct, osipVars>>

PairNext == \/ \E x \in Requests : UserSends(x)
            \/ ClientRuns
            \/ ServerReceives
            \/ ServerRuns
            \/ ClientReceives
            \/ Lose

PairSpec == PairInit /\ [][PairNext]_pairVars

-----------------------------------------------------------------------------
(* Properties *)

\* An ACK is only ever on its way, or received, when the client's user was told
\* of the refusal: what the server sees as confirmed, the client has heard.
RefusalWasHeard ==
    \A x \in Requests : IsIct(x) /\ ch[AckOf(x)] + arrived[AckOf(x)] > 0 =>
        \E i \in DOMAIN ct[x].told : ct[x].told[i] = "RCV_STATUS_3456XX"

\* The two users agree on the outcome: when the server made one transaction of a
\* request, the final response the client's user heard is the only one it sent,
\* whatever was lost, repeated or overtaken.
OneOutcome ==
    \A x \in Requests : \A t \in Ids :
        tr[t].req = x /\ (\A u \in Ids \ {t} : tr[u].req # x) =>
            \A i \in DOMAIN ct[x].told : ct[x].told[i] \in RcvFinal =>
                \E j \in DOMAIN tr[t].wire :
                    /\ HeardAs[tr[t].wire[j]] = ct[x].told[i]
                    /\ \A k \in DOMAIN tr[t].wire :
                          tr[t].wire[k] \in Final => tr[t].wire[k] = tr[t].wire[j]

=============================================================================
