-------------------------- MODULE ClientTransaction --------------------------
(***************************************************************************)
(* What a client transaction of oSIP2 promises to its user, without FIFOs, *)
(* timers, transports and retransmissions.  While it calls it may report   *)
(* any number of provisional responses, then one end: a final response, a  *)
(* timeout, or an error of the transport.  After a final response only an  *)
(* error may still be reported (an ACK that could not be sent); after that *)
(* nothing is.                                                             *)
(***************************************************************************)
EXTENDS Sequences

CONSTANTS Requests,     \* one transaction for each
          Provisional,  \* provisional responses
          Final         \* final responses

VARIABLES phase,        \* "idle", "calling", "final" or "over"
          told          \* what the user was told, in order

vars == <<phase, told>>

Init == /\ phase = [x \in Requests |-> "idle"]
        /\ told = [x \in Requests |-> <<>>]

Start(x) == /\ phase[x] = "idle"
            /\ phase' = [phase EXCEPT ![x] = "calling"]
            /\ UNCHANGED told

Report(x, what, next) == /\ told' = [told EXCEPT ![x] = Append(@, what)]
                         /\ phase' = [phase EXCEPT ![x] = next]

Ring(x) == /\ phase[x] = "calling"
           /\ \E r \in Provisional : Report(x, r, "calling")

\* A 2xx to an INVITE ends the transaction, any other one starts a wait.
Conclude(x) == /\ phase[x] = "calling"
               /\ \E r \in Final, next \in {"final", "over"} : Report(x, r, next)

GiveUp(x) == phase[x] = "calling" /\ Report(x, "TIMEOUT", "over")

\* The request, or the ACK of its refusal, could not be sent.
Fail(x) == phase[x] \in {"idle", "calling", "final"} /\ Report(x, "ERROR", "over")

Leave(x) == /\ phase[x] = "final"
            /\ phase' = [phase EXCEPT ![x] = "over"]
            /\ UNCHANGED told

Next == \E x \in Requests :
           Start(x) \/ Ring(x) \/ Conclude(x) \/ GiveUp(x) \/ Fail(x) \/ Leave(x)

Spec == Init /\ [][Next]_vars
=============================================================================
