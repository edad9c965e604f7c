----------------------------- MODULE OsipClient -----------------------------
(***************************************************************************)
(* The client side of the oSIP2 transaction layer, lib/osip/src/osip2:     *)
(* INVITE client transactions (ICT) and non-INVITE ones (NICT).  There is  *)
(* one transaction per request; it is named by its request.                *)
(*                                                                         *)
(* cb_send_message returns "sent" (0), "progress" (1: a stream that is not *)
(* connected yet, nothing was sent) or "error" (negative).  What goes out  *)
(* is put on ch, the channel to the peer, which holds at most MaxFlight    *)
(* copies of a message and loses the rest.                                 *)
(*                                                                         *)
(* The kill callback takes the transaction out of its list, as that of     *)
(* libeXosip2 does.  The executor's copy of the list is not modelled here: *)
(* a transaction that was killed has no transition left, so it does not    *)
(* matter whether the events still in its FIFO are executed.               *)
(* Lengths of timers are not counted: one that was started may fire.       *)
(***************************************************************************)
EXTENDS Integers, Sequences, FiniteSets

CONSTANTS Requests,          \* what the user sends: [kind, method, branch]
          ReliableRequests,  \* those whose top Via names TCP, TLS or SCTP
          SendResults,       \* what cb_send_message may return
          MaxFlight,         \* bound: copies of one message on its way
          MaxEvents,         \* bound: events one FIFO holds
          MaxHeard,          \* bound: responses that arrive for one request
          MaxStarted         \* bound: transactions started

ASSUME ClientAssumption == MaxHeard \in Nat

VARIABLES ct,                \* the client transactions
          ch                 \* how many copies of each message are on their way

clientVars == <<ct, ch>>

Rcv1xx == "RCV_STATUS_1XX"
RcvFinal == {"RCV_STATUS_2XX", "RCV_STATUS_3456XX"}
RcvStatus == {Rcv1xx} \cup RcvFinal
ClientTimeouts == {"TIMEOUT_A", "TIMEOUT_B", "TIMEOUT_D", "TIMEOUT_E", "TIMEOUT_F", "TIMEOUT_K"}
ClientEvents == {"SND_REQINVITE", "SND_REQUEST"} \cup RcvStatus \cup ClientTimeouts
ClientOver == {"ICT_TERMINATED", "NICT_TERMINATED"}
ClientStates == ClientOver \cup
    {"none", "ICT_PRE_CALLING", "ICT_CALLING", "ICT_PROCEEDING", "ICT_COMPLETED",
     "NICT_PRE_TRYING", "NICT_TRYING", "NICT_PROCEEDING", "NICT_COMPLETED"}

IsIct(x) == x.method = "INVITE"
OverOf(x) == IF IsIct(x) THEN "ICT_TERMINATED" ELSE "NICT_TERMINATED"

\* ict_create_ack: from the INVITE's request URI, top Via and routes.
AckOf(x) == [x EXCEPT !.method = "ACK"]

Outgoing == Requests \cup {AckOf(x) : x \in {y \in Requests : IsIct(y)}}

NoClient == [state |-> "none", fifo |-> <<>>, timers |-> {}, last_response |-> "none",
             told |-> <<>>, heard |-> 0]

ClientInit == /\ ct = [x \in Requests |-> NoClient]
              /\ ch = [m \in Outgoing |-> 0]

\* The transactions in osip_ict_transactions and osip_nict_transactions.
InList(x) == ct[x].state \notin ClientOver \cup {"none"}

Put(m) == ch' = [ch EXCEPT ![m] = IF @ < MaxFlight THEN @ + 1 ELSE @]

-----------------------------------------------------------------------------
(* osip_transaction_init with __osip_ict_init or __osip_nict_init, and the  *)
(* user's first event                                                       *)

xict_init(x) ==
    /\ ct[x].state = "none"
    /\ Cardinality({y \in Requests : ct[y].state # "none"}) < MaxStarted
    /\ ct' = [ct EXCEPT ![x] =
                [NoClient EXCEPT
                    !.state = IF IsIct(x) THEN "ICT_PRE_CALLING" ELSE "NICT_PRE_TRYING",
                    !.fifo = <<IF IsIct(x) THEN "SND_REQINVITE" ELSE "SND_REQUEST">>,
                    !.timers = IF IsIct(x) THEN {"TIMEOUT_A", "TIMEOUT_B"} ELSE {"TIMEOUT_F"}]]
    /\ UNCHANGED ch

\* __osip_transaction_matching_response_osip_to_xict_17_1_3 found the
\* transaction in its list; the event is queued before the list is unlocked.
RcvResponse(x, r) ==
    /\ InList(x)
    /\ Len(ct[x].fifo) < MaxEvents
    /\ ct[x].heard < MaxHeard
    /\ ct' = [ct EXCEPT ![x].fifo = Append(@, r), ![x].heard = @ + 1]

-----------------------------------------------------------------------------
(* The handlers, for the event at the head of the FIFO *)

At(x, states, events) == /\ ct[x].fifo # <<>>
                         /\ ct[x].state \in states
                         /\ Head(ct[x].fifo) \in events

\* ict_handle_transport_error, nict_handle_transport_error.
xict_transport_error(x) ==
    ct' = [ct EXCEPT ![x].fifo = Tail(@),
                     ![x].state = OverOf(x),
                     ![x].told = Append(@, "ERROR")]

\* The message of x goes out: its retry timer is stopped when it was really
\* sent over a reliable transport, and runs (again) when it was not.
SendRequest(x, retry, next) ==
    \/ /\ "sent" \in SendResults
       /\ ct' = [ct EXCEPT ![x].fifo = Tail(@), ![x].state = next,
                           ![x].timers = IF x \in ReliableRequests THEN @ \ {retry}
                                                                   ELSE @ \cup {retry}]
       /\ Put(x)
    \/ /\ "progress" \in SendResults
       /\ ct' = [ct EXCEPT ![x].fifo = Tail(@), ![x].state = next,
                           ![x].timers = @ \cup {retry}]
       /\ UNCHANGED ch
    \/ /\ "error" \in SendResults
       /\ xict_transport_error(x)
       /\ UNCHANGED ch

ict_snd_invite(x) ==
    /\ At(x, {"ICT_PRE_CALLING"}, {"SND_REQINVITE"})
    /\ SendRequest(x, "TIMEOUT_A", "ICT_CALLING")

osip_ict_timeout_a_event(x) ==
    /\ At(x, {"ICT_CALLING"}, {"TIMEOUT_A"})
    /\ SendRequest(x, "TIMEOUT_A", "ICT_CALLING")

nict_snd_request(x) ==
    /\ At(x, {"NICT_PRE_TRYING"}, {"SND_REQUEST"})
    /\ SendRequest(x, "TIMEOUT_E", "NICT_TRYING")

osip_nict_timeout_e_event(x) ==
    /\ At(x, {"NICT_TRYING", "NICT_PROCEEDING"}, {"TIMEOUT_E"})
    /\ SendRequest(x, "TIMEOUT_E", ct[x].state)

\* The user is told what the event at the head of the FIFO says.
Tell(x, what, next, timers) ==
    ct' = [ct EXCEPT ![x].fifo = Tail(@), ![x].state = next,
                     ![x].timers = timers, ![x].told = Append(@, what)]

\* Timers B and F: nobody has answered.
xict_timeout(x) ==
    /\ \/ At(x, {"ICT_CALLING"}, {"TIMEOUT_B"})
       \/ At(x, {"NICT_TRYING", "NICT_PROCEEDING"}, {"TIMEOUT_F"})
    /\ Tell(x, "TIMEOUT", OverOf(x), ct[x].timers \ {Head(ct[x].fifo)})
    /\ UNCHANGED ch

\* Timers D and K: no more copies of the final response are expected.
xict_wait_over(x) ==
    /\ \/ At(x, {"ICT_COMPLETED"}, {"TIMEOUT_D"})
       \/ At(x, {"NICT_COMPLETED"}, {"TIMEOUT_K"})
    /\ ct' = [ct EXCEPT ![x].fifo = Tail(@), ![x].state = OverOf(x),
                        ![x].timers = @ \ {Head(ct[x].fifo)}]
    /\ UNCHANGED ch

\* What is kept and told of a response: last_response is replaced.
Heard(x, next, timers) ==
    ct' = [ct EXCEPT ![x].fifo = Tail(@), ![x].state = next, ![x].timers = timers,
                     ![x].last_response = Head(ct[x].fifo),
                     ![x].told = Append(@, Head(ct[x].fifo))]

ict_rcv_1xx(x) ==
    /\ At(x, {"ICT_CALLING", "ICT_PROCEEDING"}, {Rcv1xx})
    /\ Heard(x, "ICT_PROCEEDING", ct[x].timers)
    /\ UNCHANGED ch

\* Mutant of ict_rcv_2xx: the transaction acknowledges a 2xx, which is the user's.
Rcv2xxAcks(x) ==
    /\ At(x, {"ICT_CALLING", "ICT_PROCEEDING"}, {"RCV_STATUS_2XX"})
    /\ Heard(x, "ICT_TERMINATED", ct[x].timers)
    /\ Put(AckOf(x))

ict_rcv_2xx(x) ==
    /\ At(x, {"ICT_CALLING", "ICT_PROCEEDING"}, {"RCV_STATUS_2XX"})
    /\ Heard(x, "ICT_TERMINATED", ct[x].timers)
    /\ UNCHANGED ch

\* Mutant of ict_rcv_3456xx: timer D is not started.
Rcv3456xxNoTimer(x) ==
    /\ At(x, {"ICT_CALLING", "ICT_PROCEEDING"}, {"RCV_STATUS_3456XX"})
    /\ Heard(x, "ICT_COMPLETED", ct[x].timers)
    /\ Put(AckOf(x))

\* The ACK goes first: a send that is only in progress is an error here.
ict_rcv_3456xx(x) ==
    /\ At(x, {"ICT_CALLING", "ICT_PROCEEDING"}, {"RCV_STATUS_3456XX"})
    /\ \/ /\ "sent" \in SendResults
          /\ Heard(x, "ICT_COMPLETED", ct[x].timers \cup {"TIMEOUT_D"})
          /\ Put(AckOf(x))
       \/ /\ SendResults # {"sent"}
          /\ ct' = [ct EXCEPT ![x].fifo = Tail(@), ![x].state = "ICT_TERMINATED",
                              ![x].last_response = Head(ct[x].fifo),
                              ![x].told = Append(@, "ERROR")]
          /\ UNCHANGED ch

\* The response is not kept, and the user is told of no new response.
ict_retransmit_ack(x) ==
    /\ At(x, {"ICT_COMPLETED"}, {"RCV_STATUS_3456XX"})
    /\ \/ /\ "sent" \in SendResults
          /\ ct' = [ct EXCEPT ![x].fifo = Tail(@)]
          /\ Put(AckOf(x))
       \/ /\ SendResults # {"sent"}
          /\ xict_transport_error(x)
          /\ UNCHANGED ch

nict_rcv_1xx(x) ==
    /\ At(x, {"NICT_TRYING", "NICT_PROCEEDING"}, {Rcv1xx})
    /\ Heard(x, "NICT_PROCEEDING", ct[x].timers)
    /\ UNCHANGED ch

\* Mutant of nict_rcv_23456xx: a copy of the response is reported again.
Rcv23456xxAgain(x) ==
    /\ At(x, {"NICT_TRYING", "NICT_PROCEEDING", "NICT_COMPLETED"}, RcvFinal)
    /\ Heard(x, "NICT_COMPLETED", ct[x].timers \cup {"TIMEOUT_K"})
    /\ UNCHANGED ch

nict_rcv_23456xx(x) ==
    /\ At(x, {"NICT_TRYING", "NICT_PROCEEDING"}, RcvFinal)
    /\ Heard(x, "NICT_COMPLETED", ct[x].timers \cup {"TIMEOUT_K"})
    /\ UNCHANGED ch

\* What ict_transition and nict_transition list; any other event is useless.
ClientTransitions ==
    {<<"ICT_PRE_CALLING", "SND_REQINVITE">>, <<"NICT_PRE_TRYING", "SND_REQUEST">>,
     <<"ICT_COMPLETED", "RCV_STATUS_3456XX">>, <<"ICT_COMPLETED", "TIMEOUT_D">>,
     <<"NICT_COMPLETED", "TIMEOUT_K">>}
    \cup {"ICT_CALLING"} \X ({"TIMEOUT_A", "TIMEOUT_B"} \cup RcvStatus)
    \cup {"ICT_PROCEEDING"} \X RcvStatus
    \cup {"NICT_TRYING", "NICT_PROCEEDING"} \X ({"TIMEOUT_E", "TIMEOUT_F"} \cup RcvStatus)

UselessClientEvent(x) ==
    /\ ct[x].fifo # <<>>
    /\ <<ct[x].state, Head(ct[x].fifo)>> \notin ClientTransitions
    /\ ct' = [ct EXCEPT ![x].fifo = Tail(@)]
    /\ UNCHANGED ch

osip_xict_execute(x) ==
    \/ ict_snd_invite(x)
    \/ osip_ict_timeout_a_event(x)
    \/ ict_rcv_1xx(x)
    \/ ict_rcv_2xx(x)
    \/ ict_rcv_3456xx(x)
    \/ ict_retransmit_ack(x)
    \/ nict_snd_request(x)
    \/ osip_nict_timeout_e_event(x)
    \/ nict_rcv_1xx(x)
    \/ nict_rcv_23456xx(x)
    \/ xict_timeout(x)
    \/ xict_wait_over(x)
    \/ UselessClientEvent(x)

-----------------------------------------------------------------------------
(* osip_timers_ict_execute and osip_timers_nict_execute *)

\* Mutant of ClientTimerStates: a provisional response stops timer F.
ClientTimerStatesNoF ==
    [TIMEOUT_A |-> {"ICT_CALLING"}, TIMEOUT_B |-> {"ICT_CALLING"},
     TIMEOUT_D |-> {"ICT_COMPLETED"},
     TIMEOUT_E |-> {"NICT_TRYING", "NICT_PROCEEDING"},
     TIMEOUT_F |-> {"NICT_TRYING"},
     TIMEOUT_K |-> {"NICT_COMPLETED"}]

\* The states in which each timer counts.
ClientTimerStates ==
    [TIMEOUT_A |-> {"ICT_CALLING"}, TIMEOUT_B |-> {"ICT_CALLING"},
     TIMEOUT_D |-> {"ICT_COMPLETED"},
     TIMEOUT_E |-> {"NICT_TRYING", "NICT_PROCEEDING"},
     TIMEOUT_F |-> {"NICT_TRYING", "NICT_PROCEEDING"},
     TIMEOUT_K |-> {"NICT_COMPLETED"}]

ClientMayFire(x, e) == e \in ct[x].timers /\ ct[x].state \in ClientTimerStates[e]

\* An ICT with an event pending is passed over, a NICT is not.
osip_timers_xict_execute(x, e) ==
    /\ InList(x)
    /\ ClientMayFire(x, e)
    /\ Len(ct[x].fifo) < MaxEvents
    /\ IsIct(x) => ct[x].fifo = <<>>
    /\ ct' = [ct EXCEPT ![x].fifo = Append(@, e)]
    /\ UNCHANGED ch

ClientStep ==
    \E x \in Requests :
        \/ xict_init(x)
        \/ osip_xict_execute(x)
        \/ \E e \in ClientTimeouts : osip_timers_xict_execute(x, e)

\* On its own, the client may hear any response at any time.
ClientNext == \/ ClientStep
              \/ \E x \in Requests, r \in RcvStatus : RcvResponse(x, r) /\ UNCHANGED ch

ClientSpec == ClientInit /\ [][ClientNext]_clientVars

\* The timers that end a wait; A and E only repeat the request.
Ending(x) == IF IsIct(x) THEN {"TIMEOUT_B", "TIMEOUT_D"} ELSE {"TIMEOUT_F", "TIMEOUT_K"}

\* The executor keeps running.  A timer that is due again and again is found to
\* be: another event may be in the way for one pass.
ClientFairness ==
    \A x \in Requests :
        /\ WF_clientVars(osip_xict_execute(x))
        /\ \A e \in Ending(x) : SF_clientVars(osip_timers_xict_execute(x, e))

-----------------------------------------------------------------------------
(* Properties *)

Reports == RcvStatus \cup {"TIMEOUT", "ERROR"}

ClientRecord == [state : ClientStates, fifo : Seq(ClientEvents),
                 timers : SUBSET ClientTimeouts, last_response : RcvStatus \cup {"none"},
                 told : Seq(Reports), heard : 0 .. MaxHeard]

\* The variables have their types.
ClientTypeOK == ct \in [Requests -> ClientRecord] /\ ch \in [Outgoing -> Nat]

\* Whatever state waits for the peer, the timer that ends the wait was started,
\* and the request is repeated until it was really sent over a transport that
\* does not lose it.  (ICT_PROCEEDING waits for the peer without a timer.)
ClientWaitsOnTimer ==
    \A x \in Requests :
        /\ ct[x].state = "ICT_CALLING" =>
              /\ "TIMEOUT_B" \in ct[x].timers
              /\ x \in ReliableRequests \/ "TIMEOUT_A" \in ct[x].timers
        /\ ct[x].state = "ICT_COMPLETED" => "TIMEOUT_D" \in ct[x].timers
        /\ ct[x].state \in {"NICT_TRYING", "NICT_PROCEEDING"} =>
              /\ "TIMEOUT_F" \in ct[x].timers
              /\ x \in ReliableRequests \/ "TIMEOUT_E" \in ct[x].timers
        /\ ct[x].state = "NICT_COMPLETED" => "TIMEOUT_K" \in ct[x].timers

\* The client side implements ClientTransaction: the user hears of one end.
ClientPhase(x) ==
    CASE ct[x].state \in {"none", "ICT_PRE_CALLING", "NICT_PRE_TRYING"} -> "idle"
      [] ct[x].state \in {"ICT_CALLING", "ICT_PROCEEDING",
                          "NICT_TRYING", "NICT_PROCEEDING"} -> "calling"
      [] ct[x].state \in {"ICT_COMPLETED", "NICT_COMPLETED"} -> "final"
      [] ct[x].state \in ClientOver -> "over"

ClientPromise == INSTANCE ClientTransaction
                   WITH Provisional <- {Rcv1xx}, Final <- RcvFinal,
                        phase <- [x \in Requests |-> ClientPhase(x)],
                        told <- [x \in Requests |-> ct[x].told]

ClientKeepsPromise == ClientPromise!Spec

\* No client transaction stays for ever in a state that waits for the peer and
\* has a timer: it hears, gives up, or fails.
ClientEnds ==
    \A x \in Requests :
        /\ ct[x].state = "ICT_CALLING" ~> ct[x].state # "ICT_CALLING"
        /\ ct[x].state = "ICT_COMPLETED" ~> ct[x].state = "ICT_TERMINATED"
        /\ ct[x].state \in {"NICT_TRYING", "NICT_PROCEEDING"} ~> ct[x].state = "NICT_TERMINATED"
=============================================================================
