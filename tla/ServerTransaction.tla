-------------------------- MODULE ServerTransaction --------------------------
(***************************************************************************)
(* What a server transaction of oSIP2 promises, without FIFOs, lists,      *)
(* timers and threads.  A request is announced once.  While the            *)
(* transaction is open any number of provisional responses go out, then    *)
(* one final response.  What went out last may be repeated.  Once it is    *)
(* over, nothing is sent.                                                  *)
(***************************************************************************)
EXTENDS Integers, Sequences

CONSTANTS Ids,          \* transactions
          Provisional,  \* provisional responses
          Final         \* final responses

VARIABLES phase,        \* "idle", "open", "final" or "over"
          wire          \* the responses sent, in order

vars == <<phase, wire>>

Init == /\ phase = [t \in Ids |-> "idle"]
        /\ wire = [t \in Ids |-> <<>>]

Last(s) == s[Len(s)]

Announce(t) == /\ phase[t] = "idle"
               /\ phase' = [phase EXCEPT ![t] = "open"]
               /\ UNCHANGED wire

SendProvisional(t, r) == /\ phase[t] = "open"
                         /\ wire' = [wire EXCEPT ![t] = Append(@, r)]
                         /\ UNCHANGED phase

\* A 2xx to an INVITE ends the transaction at once; others may be repeated.
SendFinal(t, r, next) == /\ phase[t] = "open"
                         /\ wire' = [wire EXCEPT ![t] = Append(@, r)]
                         /\ phase' = [phase EXCEPT ![t] = next]

Repeat(t) == /\ phase[t] \in {"open", "final"}
             /\ wire[t] # <<>>
             /\ wire' = [wire EXCEPT ![t] = Append(@, Last(@))]
             /\ UNCHANGED phase

\* A timeout, or a response that could not be sent.
End(t) == /\ phase[t] \in {"open", "final"}
          /\ phase' = [phase EXCEPT ![t] = "over"]
          /\ UNCHANGED wire

Next == \E t \in Ids :
           \/ Announce(t)
           \/ \E r \in Provisional : SendProvisional(t, r)
           \/ \E r \in Final, next \in {"final", "over"} : SendFinal(t, r, next)
           \/ Repeat(t)
           \/ End(t)

Spec == Init /\ [][Next]_vars
=============================================================================
