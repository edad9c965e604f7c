---------------------------- MODULE SipPairProofs ----------------------------
(***************************************************************************)
(* Theorems about OsipClient, for every set of requests and every bound,   *)
(* and about SipPair, for every way to lose, delay and reorder.            *)
(*                                                                         *)
(* Of the client alone, as on the server side, what matters concerns one   *)
(* transaction at a time.  TimersRun is the inductive part of the          *)
(* invariant: beside ClientWaitsOnTimer it says that a transaction which   *)
(* has not sent its request yet already has the timers it will wait on.    *)
(* Allowed says how state and reports may change, in the terms of          *)
(* ClientTransaction.  Every handler takes the first event and sets the    *)
(* same fields, which lemma HandledStep treats once; the lemmas of the     *)
(* handlers only give the values.                                          *)
(*                                                                         *)
(* The steps of the pair are steps of the server, and moves of the client, *)
(* so both keep their invariants and their promises over the network.      *)
(* What the two agree on needs more: whatever the client has heard, is     *)
(* about to hear, or has coming, was sent by a transaction of that request *)
(* (Answered), and an ACK, or the wish to send one, means that the refusal *)
(* was heard (Acked).                                                      *)
(***************************************************************************)
EXTENDS SipPair, OsipServerProofs

-----------------------------------------------------------------------------
(* OsipClient *)

IdleStates == {"none", "ICT_PRE_CALLING", "NICT_PRE_TRYING"}
CallingStates == {"ICT_CALLING", "ICT_PROCEEDING", "NICT_TRYING", "NICT_PROCEEDING"}
FinalStates == {"ICT_COMPLETED", "NICT_COMPLETED"}

TimersRun(x, state, timers) ==
    /\ state = "ICT_PRE_CALLING" => {"TIMEOUT_A", "TIMEOUT_B"} \subseteq timers
    /\ state = "NICT_PRE_TRYING" => "TIMEOUT_F" \in timers
    /\ state = "ICT_CALLING" =>
          /\ "TIMEOUT_B" \in timers
          /\ x \in ReliableRequests \/ "TIMEOUT_A" \in timers
    /\ state = "ICT_COMPLETED" => "TIMEOUT_D" \in timers
    /\ state \in {"NICT_TRYING", "NICT_PROCEEDING"} =>
          /\ "TIMEOUT_F" \in timers
          /\ x \in ReliableRequests \/ "TIMEOUT_E" \in timers
    /\ state = "NICT_COMPLETED" => "TIMEOUT_K" \in timers

ClientInv == /\ ct \in [Requests -> ClientRecord]
             /\ ch \in [Outgoing -> Nat]
             /\ \A x \in Requests :
                   /\ TimersRun(x, ct[x].state, ct[x].timers)
                   /\ ct[x].state = "none" => ct[x].told = <<>>

\* Two states in which ClientTransaction sees no difference.
SameStage(p, q) == /\ p \in IdleStates <=> q \in IdleStates
                   /\ p \in CallingStates <=> q \in CallingStates
                   /\ p \in FinalStates <=> q \in FinalStates
                   /\ p \in ClientOver <=> q \in ClientOver

\* From state p with reports v to state q with reports w, as ClientTransaction may.
Allowed(p, v, q, w) ==
    \/ SameStage(p, q) /\ w = v
    \/ p \in IdleStates /\ q \in CallingStates /\ w = v
    \/ p \in CallingStates /\ q \in CallingStates /\ w = Append(v, Rcv1xx)
    \/ /\ p \in CallingStates /\ q \in FinalStates \cup ClientOver
       /\ \E r \in RcvFinal : w = Append(v, r)
    \/ p \in CallingStates /\ q \in ClientOver /\ w = Append(v, "TIMEOUT")
    \/ p \notin ClientOver /\ q \in ClientOver /\ w = Append(v, "ERROR")
    \/ p \in FinalStates /\ q \in ClientOver /\ w = v

\* A step that changes the record of x only, and as it may.
Moves(x) == /\ ct' \in [Requests -> ClientRecord]
            /\ TimersRun(x, ct'[x].state, ct'[x].timers)
            /\ ct'[x].state = "none" => ct'[x].told = <<>>
            /\ Allowed(ct[x].state, ct[x].told, ct'[x].state, ct'[x].told)
            /\ \A y \in Requests \ {x} : ct'[y] = ct[y]

\* A record that is allowed takes the place of the old one.
LEMMA ReplaceRecord ==
  ASSUME ClientInv, NEW x \in Requests, NEW s \in ClientRecord,
         TimersRun(x, s.state, s.timers), s.state = "none" => s.told = <<>>,
         Allowed(ct[x].state, ct[x].told, s.state, s.told), ct' = [ct EXCEPT ![x] = s]
  PROVE  Moves(x)
  BY DEF Moves, ClientInv

\* The FIFO without its first event, and that event.
LEMMA FifoRest ==
  ASSUME ClientInv, NEW x \in Requests, ct[x].fifo # <<>>
  PROVE  /\ Tail(ct[x].fifo) \in Seq(ClientEvents)
         /\ Head(ct[x].fifo) \in ClientEvents
<1>1. ct[x].fifo \in Seq(ClientEvents)
  BY DEF ClientInv, ClientRecord
<1> QED
  BY <1>1, HeadTailProperties

\* An event is queued, or dropped as useless.
LEMMA FifoChanges ==
  ASSUME ClientInv, NEW x \in Requests, NEW f \in Seq(ClientEvents), NEW h \in 0 .. MaxHeard,
         ct' = [ct EXCEPT ![x].fifo = f, ![x].heard = h]
  PROVE  Moves(x)
<1> DEFINE s == [ct[x] EXCEPT !.fifo = f, !.heard = h]
<1>1. ct' = [ct EXCEPT ![x] = s] /\ ct[x] \in ClientRecord
  BY DEF ClientInv
<1>2. /\ s \in ClientRecord /\ s.state = ct[x].state /\ s.timers = ct[x].timers
      /\ s.told = ct[x].told
  BY <1>1 DEF ClientRecord
<1> HIDE DEF s
<1>3. TimersRun(x, s.state, s.timers) /\ (s.state = "none" => s.told = <<>>)
  BY <1>2 DEF ClientInv
<1>4. Allowed(ct[x].state, ct[x].told, s.state, s.told)
  BY <1>2 DEF Allowed, SameStage
<1> QED
  BY <1>1, <1>2, <1>3, <1>4, ReplaceRecord

\* A handler takes the first event: the record gets a state, timers, a last response and
\* perhaps a report.
Handled(x, next, timers, last, told) ==
    ct' = [ct EXCEPT ![x].fifo = Tail(ct[x].fifo), ![x].state = next, ![x].timers = timers,
                     ![x].last_response = last, ![x].told = told]

LEMMA HandledStep ==
  ASSUME ClientInv, NEW x \in Requests, ct[x].fifo # <<>>,
         NEW next \in ClientStates \ {"none"}, NEW timers \in SUBSET ClientTimeouts,
         NEW last \in RcvStatus \cup {"none"}, NEW told \in Seq(Reports),
         TimersRun(x, next, timers),
         Allowed(ct[x].state, ct[x].told, next, told),
         Handled(x, next, timers, last, told)
  PROVE  Moves(x)
<1> DEFINE s == [ct[x] EXCEPT !.fifo = Tail(ct[x].fifo), !.state = next, !.timers = timers,
                              !.last_response = last, !.told = told]
<1>1. ct' = [ct EXCEPT ![x] = s] /\ ct[x] \in ClientRecord
  BY DEF Handled, ClientInv
<1>2. s \in ClientRecord /\ s.state = next /\ s.timers = timers /\ s.told = told
  BY <1>1, FifoRest DEF ClientRecord
<1> HIDE DEF s
<1> QED
  BY <1>1, <1>2, ReplaceRecord

\* The fields of a record, and what the user is told appended to the reports.
LEMMA FieldTypes ==
  ASSUME ClientInv, NEW x \in Requests
  PROVE  /\ ct[x] \in ClientRecord
         /\ ct[x].state \in ClientStates /\ ct[x].timers \in SUBSET ClientTimeouts
         /\ ct[x].last_response \in RcvStatus \cup {"none"}
         /\ ct[x].told \in Seq(Reports)
         /\ \A r \in Reports : Append(ct[x].told, r) \in Seq(Reports)
<1>1. ct[x] \in ClientRecord
  BY DEF ClientInv
<1> QED
  BY <1>1, AppendProperties DEF ClientRecord

\* The states of the two ends, and the sets of states.
LEMMA StatesApart ==
  /\ ClientStates = IdleStates \cup CallingStates \cup FinalStates \cup ClientOver
  /\ IdleStates \cap (CallingStates \cup FinalStates \cup ClientOver) = {}
  /\ CallingStates \cap (FinalStates \cup ClientOver) = {}
  /\ FinalStates \cap ClientOver = {}
  /\ \A x \in Requests : OverOf(x) \in ClientOver
  BY DEF ClientStates, IdleStates, CallingStates, FinalStates, ClientOver, OverOf

-----------------------------------------------------------------------------
(* The handlers *)

\* What ends with an error reported: the request or the ACK could not be sent.
LEMMA ClientErrorStep ==
  ASSUME ClientInv, NEW x \in Requests, ct[x].fifo # <<>>, ct[x].state \notin ClientOver,
         NEW over \in ClientOver, NEW last \in RcvStatus \cup {"none"},
         Handled(x, over, ct[x].timers, last, Append(ct[x].told, "ERROR"))
  PROVE  Moves(x)
<1>1. TimersRun(x, over, ct[x].timers)
  BY DEF TimersRun, ClientOver
<1>2. Allowed(ct[x].state, ct[x].told, over, Append(ct[x].told, "ERROR"))
  BY DEF Allowed
<1>3. /\ over \in ClientStates \ {"none"} /\ ct[x].timers \in SUBSET ClientTimeouts
      /\ Append(ct[x].told, "ERROR") \in Seq(Reports)
  BY FieldTypes, StatesApart DEF Reports, ClientOver
<1> QED
  BY <1>1, <1>2, <1>3, HandledStep

LEMMA TransportErrorStep ==
  ASSUME ClientInv, NEW x \in Requests, ct[x].fifo # <<>>, ct[x].state \notin ClientOver,
         xict_transport_error(x)
  PROVE  Moves(x)
<1>1. Handled(x, OverOf(x), ct[x].timers, ct[x].last_response, Append(ct[x].told, "ERROR"))
  BY FieldTypes DEF xict_transport_error, Handled, ClientInv, ClientRecord
<1> QED
  BY <1>1, ClientErrorStep, FieldTypes, StatesApart

\* The request goes out, for the first time or again.
LEMMA SendStep ==
  ASSUME ClientInv, NEW x \in Requests, ct[x].fifo # <<>>,
         ct[x].state \in IdleStates \cup CallingStates,
         NEW retry \in ClientTimeouts, NEW next \in CallingStates,
         \A timers : \/ timers = ct[x].timers \cup {retry}
                     \/ timers = ct[x].timers \ {retry} /\ x \in ReliableRequests
                     => TimersRun(x, next, timers),
         SendRequest(x, retry, next)
  PROVE  Moves(x)
<1>1. Allowed(ct[x].state, ct[x].told, next, ct[x].told)
  BY StatesApart DEF Allowed, SameStage
<1>2. ASSUME NEW timers \in SUBSET ClientTimeouts, TimersRun(x, next, timers),
             ct' = [ct EXCEPT ![x].fifo = Tail(@), ![x].state = next, ![x].timers = timers]
      PROVE  Moves(x)
  <2>1. Handled(x, next, timers, ct[x].last_response, ct[x].told)
    BY <1>2, FieldTypes DEF Handled, ClientInv, ClientRecord
  <2> QED
    <3>1. next \in ClientStates \ {"none"}
      BY StatesApart DEF CallingStates
    <3> QED
      BY <1>1, <1>2, <2>1, <3>1, HandledStep, FieldTypes
<1>3. CASE ct' = [ct EXCEPT ![x].fifo = Tail(@), ![x].state = next,
                            ![x].timers = IF x \in ReliableRequests THEN @ \ {retry}
                                                                    ELSE @ \cup {retry}]
  <2> DEFINE timers == IF x \in ReliableRequests THEN ct[x].timers \ {retry}
                                                 ELSE ct[x].timers \cup {retry}
  <2>1. timers \in SUBSET ClientTimeouts /\ TimersRun(x, next, timers)
    BY FieldTypes
  <2>2. ct' = [ct EXCEPT ![x].fifo = Tail(@), ![x].state = next, ![x].timers = timers]
    BY <1>3
  <2> HIDE DEF timers
  <2> QED
    BY <1>2, <2>1, <2>2
<1>4. CASE ct' = [ct EXCEPT ![x].fifo = Tail(@), ![x].state = next,
                            ![x].timers = @ \cup {retry}]
  <2> DEFINE timers == ct[x].timers \cup {retry}
  <2>1. timers \in SUBSET ClientTimeouts /\ TimersRun(x, next, timers)
    BY FieldTypes
  <2>2. ct' = [ct EXCEPT ![x].fifo = Tail(@), ![x].state = next, ![x].timers = timers]
    BY <1>4
  <2> HIDE DEF timers
  <2> QED
    BY <1>2, <2>1, <2>2
<1>5. CASE xict_transport_error(x)
  BY <1>5, TransportErrorStep, StatesApart
<1> QED
  BY <1>3, <1>4, <1>5 DEF SendRequest

\* A response is kept and reported.
LEMMA HeardStep ==
  ASSUME ClientInv, NEW x \in Requests, ct[x].fifo # <<>>, ct[x].state \in CallingStates,
         NEW next \in ClientStates \ {"none"}, NEW timers \in SUBSET ClientTimeouts,
         TimersRun(x, next, timers),
         \/ Head(ct[x].fifo) = Rcv1xx /\ next \in CallingStates
         \/ Head(ct[x].fifo) \in RcvFinal /\ next \in FinalStates \cup ClientOver,
         Heard(x, next, timers)
  PROVE  Moves(x)
<1> DEFINE told == Append(ct[x].told, Head(ct[x].fifo))
<1>1. Allowed(ct[x].state, ct[x].told, next, told)
  BY DEF Allowed
<1>2. Head(ct[x].fifo) \in RcvStatus /\ told \in Seq(Reports)
  BY FieldTypes DEF RcvStatus, Reports
<1>3. Handled(x, next, timers, Head(ct[x].fifo), told)
  BY DEF Heard, Handled
<1> HIDE DEF told
<1> QED
  BY <1>1, <1>2, <1>3, HandledStep

LEMMA TimeoutStep ==
  ASSUME ClientInv, NEW x \in Requests, xict_timeout(x)
  PROVE  Moves(x)
<1> DEFINE told == Append(ct[x].told, "TIMEOUT")
           timers == ct[x].timers \ {Head(ct[x].fifo)}
<1>1. ct[x].fifo # <<>> /\ ct[x].state \in CallingStates
  BY DEF xict_timeout, At, CallingStates
<1>2. Allowed(ct[x].state, ct[x].told, OverOf(x), told)
  BY <1>1, StatesApart DEF Allowed
<1>3. told \in Seq(Reports) /\ timers \in SUBSET ClientTimeouts /\ OverOf(x) \in ClientStates \ {"none"}
  BY FieldTypes, StatesApart DEF Reports, OverOf
<1>4. TimersRun(x, OverOf(x), timers)
  BY DEF TimersRun, OverOf
<1>5. Handled(x, OverOf(x), timers, ct[x].last_response, told)
  BY FieldTypes DEF xict_timeout, Tell, Handled, ClientInv, ClientRecord
<1> HIDE DEF told, timers
<1> QED
  BY <1>1, <1>2, <1>3, <1>4, <1>5, HandledStep, FieldTypes

LEMMA WaitOverStep ==
  ASSUME ClientInv, NEW x \in Requests, xict_wait_over(x)
  PROVE  Moves(x)
<1> DEFINE timers == ct[x].timers \ {Head(ct[x].fifo)}
<1>1. ct[x].fifo # <<>> /\ ct[x].state \in FinalStates
  BY DEF xict_wait_over, At, FinalStates
<1>2. Allowed(ct[x].state, ct[x].told, OverOf(x), ct[x].told)
  BY <1>1, StatesApart DEF Allowed
<1>3. timers \in SUBSET ClientTimeouts /\ OverOf(x) \in ClientStates \ {"none"}
  BY FieldTypes, StatesApart DEF OverOf
<1>4. TimersRun(x, OverOf(x), timers)
  BY DEF TimersRun, OverOf
<1>5. Handled(x, OverOf(x), timers, ct[x].last_response, ct[x].told)
  BY FieldTypes DEF xict_wait_over, Handled, ClientInv, ClientRecord
<1> HIDE DEF timers
<1> QED
  BY <1>1, <1>2, <1>3, <1>4, <1>5, HandledStep, FieldTypes

\* The request is sent or sent again.
LEMMA RequestSent ==
  ASSUME ClientInv, NEW x \in Requests,
         \/ ict_snd_invite(x) \/ osip_ict_timeout_a_event(x)
         \/ nict_snd_request(x) \/ osip_nict_timeout_e_event(x)
  PROVE  Moves(x)
<1>1. TimersRun(x, ct[x].state, ct[x].timers)
  BY DEF ClientInv
<1>2. CASE ict_snd_invite(x) \/ osip_ict_timeout_a_event(x)
  <2>1. /\ ct[x].fifo # <<>> /\ ct[x].state \in {"ICT_PRE_CALLING", "ICT_CALLING"}
        /\ SendRequest(x, "TIMEOUT_A", "ICT_CALLING")
    BY <1>2 DEF ict_snd_invite, osip_ict_timeout_a_event, At
  <2>2. \A timers : \/ timers = ct[x].timers \cup {"TIMEOUT_A"}
                    \/ timers = ct[x].timers \ {"TIMEOUT_A"} /\ x \in ReliableRequests
                    => TimersRun(x, "ICT_CALLING", timers)
    BY <1>1, <2>1 DEF TimersRun
  <2>3. "TIMEOUT_A" \in ClientTimeouts /\ "ICT_CALLING" \in CallingStates
        /\ ct[x].state \in IdleStates \cup CallingStates
    BY <2>1 DEF ClientTimeouts, CallingStates, IdleStates
  <2> QED
    BY <2>1, <2>2, <2>3, SendStep
<1>3. CASE nict_snd_request(x) \/ osip_nict_timeout_e_event(x)
  <2>1. PICK next \in {"NICT_TRYING", "NICT_PROCEEDING"} :
           /\ ct[x].fifo # <<>>
           /\ ct[x].state \in {"NICT_PRE_TRYING", "NICT_TRYING", "NICT_PROCEEDING"}
           /\ SendRequest(x, "TIMEOUT_E", next)
    BY <1>3 DEF nict_snd_request, osip_nict_timeout_e_event, At
  <2>2. \A timers : \/ timers = ct[x].timers \cup {"TIMEOUT_E"}
                    \/ timers = ct[x].timers \ {"TIMEOUT_E"} /\ x \in ReliableRequests
                    => TimersRun(x, next, timers)
    BY <1>1, <2>1 DEF TimersRun
  <2>3. "TIMEOUT_E" \in ClientTimeouts /\ next \in CallingStates
        /\ ct[x].state \in IdleStates \cup CallingStates
    BY <2>1 DEF ClientTimeouts, CallingStates, IdleStates
  <2> QED
    BY <2>1, <2>2, <2>3, SendStep
<1> QED
  BY <1>2, <1>3

\* A response is taken that is not a refusal of an INVITE.
LEMMA ResponseTaken ==
  ASSUME ClientInv, NEW x \in Requests,
         ict_rcv_1xx(x) \/ ict_rcv_2xx(x) \/ nict_rcv_1xx(x) \/ nict_rcv_23456xx(x)
  PROVE  Moves(x)
<1>1. TimersRun(x, ct[x].state, ct[x].timers) /\ ct[x].timers \in SUBSET ClientTimeouts
  BY FieldTypes DEF ClientInv
<1>2. CASE ict_rcv_1xx(x) \/ nict_rcv_1xx(x)
  <2>1. PICK next \in {"ICT_PROCEEDING", "NICT_PROCEEDING"} :
           /\ ct[x].fifo # <<>> /\ Head(ct[x].fifo) = Rcv1xx
           /\ ct[x].state \in CallingStates
           /\ next = "NICT_PROCEEDING" => ct[x].state \in {"NICT_TRYING", "NICT_PROCEEDING"}
           /\ Heard(x, next, ct[x].timers)
    BY <1>2 DEF ict_rcv_1xx, nict_rcv_1xx, At, CallingStates
  <2>2. TimersRun(x, next, ct[x].timers)
    BY <1>1, <2>1 DEF TimersRun
  <2>3. next \in CallingStates /\ next \in ClientStates \ {"none"}
    BY DEF CallingStates, ClientStates
  <2> QED
    BY <1>1, <2>1, <2>2, <2>3, HeardStep
<1>3. CASE ict_rcv_2xx(x)
  <2>1. /\ ct[x].fifo # <<>> /\ Head(ct[x].fifo) \in RcvFinal
        /\ ct[x].state \in CallingStates /\ Heard(x, "ICT_TERMINATED", ct[x].timers)
    BY <1>3 DEF ict_rcv_2xx, At, CallingStates, RcvFinal
  <2>2. TimersRun(x, "ICT_TERMINATED", ct[x].timers)
    BY DEF TimersRun
  <2>3. "ICT_TERMINATED" \in ClientOver /\ "ICT_TERMINATED" \in ClientStates \ {"none"}
    BY DEF ClientOver, ClientStates
  <2> QED
    BY <1>1, <2>1, <2>2, <2>3, HeardStep
<1>4. CASE nict_rcv_23456xx(x)
  <2>1. /\ ct[x].fifo # <<>> /\ Head(ct[x].fifo) \in RcvFinal
        /\ ct[x].state \in CallingStates
        /\ Heard(x, "NICT_COMPLETED", ct[x].timers \cup {"TIMEOUT_K"})
    BY <1>4 DEF nict_rcv_23456xx, At, CallingStates
  <2>2. TimersRun(x, "NICT_COMPLETED", ct[x].timers \cup {"TIMEOUT_K"})
    BY DEF TimersRun
  <2>3. /\ "NICT_COMPLETED" \in FinalStates /\ "NICT_COMPLETED" \in ClientStates \ {"none"}
        /\ ct[x].timers \cup {"TIMEOUT_K"} \in SUBSET ClientTimeouts
    BY <1>1 DEF FinalStates, ClientStates, ClientTimeouts
  <2> QED
    BY <2>1, <2>2, <2>3, HeardStep
<1> QED
  BY <1>2, <1>3, <1>4

\* A refusal of an INVITE, or a copy of it: an ACK goes out.
LEMMA RefusalTaken ==
  ASSUME ClientInv, NEW x \in Requests, ict_rcv_3456xx(x) \/ ict_retransmit_ack(x)
  PROVE  Moves(x)
<1>1. CASE ict_rcv_3456xx(x)
  <2>1. /\ ct[x].fifo # <<>> /\ Head(ct[x].fifo) \in RcvFinal
        /\ ct[x].state \in CallingStates
    BY <1>1 DEF ict_rcv_3456xx, At, CallingStates, RcvFinal
  <2>2. CASE Heard(x, "ICT_COMPLETED", ct[x].timers \cup {"TIMEOUT_D"})
    <3>1. TimersRun(x, "ICT_COMPLETED", ct[x].timers \cup {"TIMEOUT_D"})
      BY DEF TimersRun
    <3>2. /\ "ICT_COMPLETED" \in FinalStates /\ "ICT_COMPLETED" \in ClientStates \ {"none"}
          /\ ct[x].timers \cup {"TIMEOUT_D"} \in SUBSET ClientTimeouts
      BY FieldTypes DEF FinalStates, ClientStates, ClientTimeouts
    <3> QED
      BY <2>1, <2>2, <3>1, <3>2, HeardStep
  <2>3. CASE ct' = [ct EXCEPT ![x].fifo = Tail(@), ![x].state = "ICT_TERMINATED",
                              ![x].last_response = Head(ct[x].fifo),
                              ![x].told = Append(@, "ERROR")]
    <3>1. Handled(x, "ICT_TERMINATED", ct[x].timers, Head(ct[x].fifo),
                  Append(ct[x].told, "ERROR"))
      BY <2>3, FieldTypes DEF Handled, ClientInv, ClientRecord
    <3>2. "ICT_TERMINATED" \in ClientOver /\ Head(ct[x].fifo) \in RcvStatus
          /\ ct[x].state \notin ClientOver
      BY <2>1, StatesApart DEF ClientOver, RcvStatus
    <3> QED
      BY <2>1, <3>1, <3>2, ClientErrorStep
  <2> QED
    BY <1>1, <2>2, <2>3 DEF ict_rcv_3456xx
<1>2. CASE ict_retransmit_ack(x)
  <2>1. ct[x].fifo # <<>> /\ ct[x].state \notin ClientOver
    BY <1>2 DEF ict_retransmit_ack, At, ClientOver
  <2>2. CASE ct' = [ct EXCEPT ![x].fifo = Tail(@)]
    <3>1. ct' = [ct EXCEPT ![x].fifo = Tail(ct[x].fifo), ![x].heard = ct[x].heard]
          /\ ct[x].heard \in 0 .. MaxHeard
      BY <2>2, FieldTypes DEF ClientInv, ClientRecord
    <3> QED
      BY <2>1, <3>1, FifoRest, FifoChanges
  <2>3. CASE xict_transport_error(x)
    BY <2>1, <2>3, TransportErrorStep
  <2> QED
    BY <1>2, <2>2, <2>3 DEF ict_retransmit_ack
<1> QED
  BY <1>1, <1>2

\* Whatever the executor does with an event moves one transaction.
LEMMA ExecuteMoves ==
  ASSUME ClientInv, NEW x \in Requests, osip_xict_execute(x)
  PROVE  Moves(x)
<1>1. CASE UselessClientEvent(x)
  <2>1. ct' = [ct EXCEPT ![x].fifo = Tail(ct[x].fifo), ![x].heard = ct[x].heard]
        /\ ct[x].heard \in 0 .. MaxHeard /\ ct[x].fifo # <<>>
    BY <1>1, FieldTypes DEF UselessClientEvent, ClientInv, ClientRecord
  <2> QED
    BY <2>1, FifoRest, FifoChanges
<1> QED
  BY <1>1, RequestSent, ResponseTaken, RefusalTaken, TimeoutStep, WaitOverStep
     DEF osip_xict_execute

LEMMA NoClientTyped ==
  NoClient \in ClientRecord /\ NoClient.state = "none" /\ NoClient.told = <<>>
  BY ClientAssumption DEF NoClient, ClientRecord, ClientStates

\* A transaction starts with the timers it will wait on.
LEMMA InitMoves ==
  ASSUME ClientInv, NEW x \in Requests, xict_init(x)
  PROVE  Moves(x)
<1> DEFINE first == IF IsIct(x) THEN "ICT_PRE_CALLING" ELSE "NICT_PRE_TRYING"
           event == IF IsIct(x) THEN "SND_REQINVITE" ELSE "SND_REQUEST"
           timers == IF IsIct(x) THEN {"TIMEOUT_A", "TIMEOUT_B"} ELSE {"TIMEOUT_F"}
           s == [NoClient EXCEPT !.state = first, !.fifo = <<event>>, !.timers = timers]
<1>1. ct[x].state = "none" /\ ct[x].told = <<>> /\ ct' = [ct EXCEPT ![x] = s]
  BY DEF xict_init, ClientInv
<1>2. /\ first \in {"ICT_PRE_CALLING", "NICT_PRE_TRYING"} /\ event \in ClientEvents
      /\ timers \in SUBSET ClientTimeouts /\ TimersRun(x, first, timers)
  BY DEF ClientEvents, ClientTimeouts, TimersRun
<1> HIDE DEF first, event, timers
<1>3. <<event>> \in Seq(ClientEvents) /\ <<>> \in Seq(Reports)
  BY <1>2
<1>4. /\ s \in ClientRecord /\ s.state = first /\ s.timers = timers /\ s.told = <<>>
  BY <1>2, <1>3, NoClientTyped DEF ClientRecord, ClientStates
<1> HIDE DEF s
<1>5. Allowed(ct[x].state, ct[x].told, s.state, s.told)
  BY <1>1, <1>2, <1>4 DEF Allowed, SameStage, IdleStates, CallingStates, FinalStates, ClientOver
<1> QED
  BY <1>1, <1>2, <1>4, <1>5, ReplaceRecord

\* Timers and responses only queue an event.
LEMMA TimerMoves ==
  ASSUME ClientInv, NEW x \in Requests, NEW e \in ClientTimeouts, osip_timers_xict_execute(x, e)
  PROVE  Moves(x)
<1>1. /\ ct' = [ct EXCEPT ![x].fifo = Append(ct[x].fifo, e), ![x].heard = ct[x].heard]
      /\ ct[x].heard \in 0 .. MaxHeard /\ ct[x].fifo \in Seq(ClientEvents)
  BY FieldTypes DEF osip_timers_xict_execute, ClientInv, ClientRecord
<1>2. Append(ct[x].fifo, e) \in Seq(ClientEvents)
  BY <1>1, AppendProperties DEF ClientEvents
<1> QED
  BY <1>1, <1>2, FifoChanges

LEMMA ResponseMoves ==
  ASSUME ClientInv, NEW x \in Requests, NEW r \in RcvStatus, RcvResponse(x, r)
  PROVE  Moves(x)
<1>1. /\ ct' = [ct EXCEPT ![x].fifo = Append(ct[x].fifo, r), ![x].heard = ct[x].heard + 1]
      /\ ct[x].heard \in 0 .. MaxHeard /\ ct[x].fifo \in Seq(ClientEvents)
      /\ ct[x].heard < MaxHeard
  BY FieldTypes DEF RcvResponse, ClientInv, ClientRecord
<1>2. Append(ct[x].fifo, r) \in Seq(ClientEvents) /\ ct[x].heard + 1 \in 0 .. MaxHeard
  BY <1>1, AppendProperties, ClientAssumption DEF ClientEvents
<1> QED
  BY <1>1, <1>2, FifoChanges

-----------------------------------------------------------------------------
(* The specification *)

\* Every step leaves the records alone or moves one of them.
LEMMA StepMoves ==
  ASSUME ClientInv, [ClientNext]_clientVars
  PROVE  ct' = ct \/ \E x \in Requests : Moves(x)
  BY ExecuteMoves, InitMoves, TimerMoves, ResponseMoves DEF ClientNext, ClientStep, clientVars

\* The channel: a handler puts a message on it, or leaves it alone.
LEMMA ChannelTyped ==
  ASSUME ch \in [Outgoing -> Nat], [ClientNext]_clientVars
  PROVE  ch' \in [Outgoing -> Nat]
<1>1. ASSUME NEW m, Put(m) PROVE ch' \in [Outgoing -> Nat]
  <2>1. PICK n : ch' = [ch EXCEPT ![m] = n] /\ (n = ch[m] + 1 \/ n = ch[m])
    BY <1>1 DEF Put
  <2>2. CASE m \in Outgoing
    BY <2>1, <2>2
  <2>3. CASE m \notin Outgoing
    BY <2>1, <2>3
  <2> QED
    BY <2>2, <2>3
<1>2. \/ ch' = ch
      \/ \E m : Put(m)
  BY DEF ClientNext, ClientStep, clientVars, osip_xict_execute, xict_init, ict_snd_invite,
     osip_ict_timeout_a_event, nict_snd_request, osip_nict_timeout_e_event, SendRequest,
     ict_rcv_1xx, ict_rcv_2xx, ict_rcv_3456xx, ict_retransmit_ack, nict_rcv_1xx,
     nict_rcv_23456xx, xict_timeout, xict_wait_over, UselessClientEvent,
     osip_timers_xict_execute
<1> QED
  BY <1>1, <1>2

LEMMA ClientInvInductive ==
  ASSUME ClientInv, [ClientNext]_clientVars
  PROVE  ClientInv'
<1>1. ch' \in [Outgoing -> Nat]
  BY ChannelTyped DEF ClientInv
<1>2. CASE ct' = ct
  BY <1>1, <1>2 DEF ClientInv
<1>3. ASSUME NEW x \in Requests, Moves(x) PROVE ClientInv'
  <2>1. ct' \in [Requests -> ClientRecord]
    BY <1>3 DEF Moves
  <2>2. ASSUME NEW y \in Requests
        PROVE  /\ TimersRun(y, ct'[y].state, ct'[y].timers)
               /\ ct'[y].state = "none" => ct'[y].told = <<>>
    BY <1>3 DEF Moves, ClientInv
  <2> QED
    BY <1>1, <2>1, <2>2 DEF ClientInv, TimersRun
<1> QED
  BY <1>2, <1>3, StepMoves

LEMMA ClientInitInv == ClientInit => ClientInv
<1> SUFFICES ASSUME ClientInit PROVE ClientInv
  OBVIOUS
<1> QED
  BY NoClientTyped DEF ClientInit, ClientInv, TimersRun

\* The strengthened invariant of the client side.
THEOREM ClientSpecInv == ClientSpec => []ClientInv
  BY ClientInitInv, ClientInvInductive, PTL DEF ClientSpec

\* The variables of the client side have their types.
THEOREM ClientSpecTypeOK == ClientSpec => []ClientTypeOK
<1>1. ClientInv => ClientTypeOK
  BY DEF ClientInv, ClientTypeOK
<1> QED
  BY <1>1, ClientSpecInv, PTL

\* Whatever state waits for the peer, the timer that ends the wait was started
\* (ict_init, nict_init, ict_rcv_3456xx, nict_rcv_23456xx), and the request is
\* repeated until it was really sent over a reliable transport.
THEOREM ClientSpecWaitsOnTimer == ClientSpec => []ClientWaitsOnTimer
<1>1. ClientInv => ClientWaitsOnTimer
  BY DEF ClientInv, TimersRun, ClientWaitsOnTimer
<1> QED
  BY <1>1, ClientSpecInv, PTL

-----------------------------------------------------------------------------
(* The client side keeps the promise of ClientTransaction *)

LEMMA PhaseOfState ==
  ASSUME NEW x \in Requests, ct[x].state \in ClientStates
  PROVE  /\ ct[x].state \in IdleStates <=> ClientPhase(x) = "idle"
         /\ ct[x].state \in CallingStates <=> ClientPhase(x) = "calling"
         /\ ct[x].state \in FinalStates <=> ClientPhase(x) = "final"
         /\ ct[x].state \in ClientOver <=> ClientPhase(x) = "over"
         /\ ClientPhase(x) \in {"idle", "calling", "final", "over"}
  BY DEF ClientPhase, ClientStates, IdleStates, CallingStates, FinalStates, ClientOver

LEMMA PhaseOfNextState ==
  ASSUME NEW x \in Requests, ct'[x].state \in ClientStates
  PROVE  /\ ct'[x].state \in IdleStates <=> ClientPhase(x)' = "idle"
         /\ ct'[x].state \in CallingStates <=> ClientPhase(x)' = "calling"
         /\ ct'[x].state \in FinalStates <=> ClientPhase(x)' = "final"
         /\ ct'[x].state \in ClientOver <=> ClientPhase(x)' = "over"
         /\ ClientPhase(x)' \in {"idle", "calling", "final", "over"}
  BY DEF ClientPhase, ClientStates, IdleStates, CallingStates, FinalStates, ClientOver

\* What Allowed allows is a step of ClientTransaction, or a stutter.
LEMMA PromisedMove ==
  ASSUME ClientInv, NEW x \in Requests, Moves(x)
  PROVE  [ClientPromise!Next]_(ClientPromise!vars)
<1> DEFINE ph == [y \in Requests |-> ClientPhase(y)]
           to == [y \in Requests |-> ct[y].told]
           p == ct[x].state
           q == ct'[x].state
<1>1. /\ ct \in [Requests -> ClientRecord] /\ ct' \in [Requests -> ClientRecord]
      /\ Allowed(p, ct[x].told, q, ct'[x].told)
      /\ \A y \in Requests \ {x} : ct'[y] = ct[y]
  BY DEF Moves, ClientInv
<1>2. ph' = [ph EXCEPT ![x] = ClientPhase(x)'] /\ to' = [to EXCEPT ![x] = ct'[x].told]
  <2>1. \A y \in Requests \ {x} : ClientPhase(y)' = ClientPhase(y)
    BY <1>1, Zenon DEF ClientPhase
  <2> QED
    BY <1>1, <2>1
<1>3. ph[x] = ClientPhase(x) /\ to[x] = ct[x].told
  OBVIOUS
<1>4. p \in ClientStates /\ q \in ClientStates
  BY <1>1 DEF ClientRecord
<1>5. /\ p \in IdleStates <=> ph[x] = "idle"
      /\ p \in CallingStates <=> ph[x] = "calling"
      /\ p \in FinalStates <=> ph[x] = "final"
      /\ p \in ClientOver <=> ph[x] = "over"
      /\ ph[x] \in {"idle", "calling", "final", "over"}
  BY <1>3, <1>4, PhaseOfState
<1>6. /\ q \in IdleStates <=> ClientPhase(x)' = "idle"
      /\ q \in CallingStates <=> ClientPhase(x)' = "calling"
      /\ q \in FinalStates <=> ClientPhase(x)' = "final"
      /\ q \in ClientOver <=> ClientPhase(x)' = "over"
      /\ ClientPhase(x)' \in {"idle", "calling", "final", "over"}
  BY <1>4, PhaseOfNextState
<1>7. SameStage(p, q) => ph' = ph
  BY <1>2, <1>5, <1>6 DEF SameStage
<1>8. ct'[x].told = ct[x].told => to' = to
  BY <1>2
<1> HIDE DEF ph, to, p, q
<1>9. CASE SameStage(p, q) /\ ct'[x].told = ct[x].told
  BY <1>7, <1>8, <1>9 DEF ClientPromise!vars, ph, to
<1>10. CASE p \in IdleStates /\ q \in CallingStates /\ ct'[x].told = ct[x].told
  <2>1. ClientPromise!Start(x)
    BY <1>2, <1>5, <1>6, <1>8, <1>10 DEF ClientPromise!Start, ph, to
  <2> QED
    BY <2>1 DEF ClientPromise!Next
<1>11. CASE /\ p \in CallingStates /\ q \in CallingStates
            /\ ct'[x].told = Append(ct[x].told, Rcv1xx)
  <2>1. ClientPromise!Ring(x)
    BY <1>2, <1>3, <1>5, <1>6, <1>11
       DEF ClientPromise!Ring, ClientPromise!Report, ph, to
  <2> QED
    BY <2>1 DEF ClientPromise!Next
<1>12. CASE /\ p \in CallingStates /\ q \in FinalStates \cup ClientOver
            /\ \E r \in RcvFinal : ct'[x].told = Append(ct[x].told, r)
  <2>1. PICK r \in RcvFinal : ct'[x].told = Append(ct[x].told, r)
    BY <1>12
  <2>2. PICK next \in {"final", "over"} : ClientPhase(x)' = next
    BY <1>6, <1>12
  <2>3. ClientPromise!Report(x, r, next) /\ ph[x] = "calling"
    BY <1>2, <1>3, <1>5, <1>12, <2>1, <2>2 DEF ClientPromise!Report, ph, to
  <2>4. ClientPromise!Conclude(x)
    BY <2>3 DEF ClientPromise!Conclude, ph, to
  <2> QED
    BY <2>4 DEF ClientPromise!Next
<1>13. CASE /\ p \in CallingStates /\ q \in ClientOver
            /\ ct'[x].told = Append(ct[x].told, "TIMEOUT")
  <2>1. ClientPromise!GiveUp(x)
    BY <1>2, <1>3, <1>5, <1>6, <1>13
       DEF ClientPromise!GiveUp, ClientPromise!Report, ph, to
  <2> QED
    BY <2>1 DEF ClientPromise!Next
<1>14. CASE /\ p \notin ClientOver /\ q \in ClientOver
            /\ ct'[x].told = Append(ct[x].told, "ERROR")
  <2>1. ClientPromise!Fail(x)
    BY <1>2, <1>3, <1>5, <1>6, <1>14
       DEF ClientPromise!Fail, ClientPromise!Report, ph, to
  <2> QED
    BY <2>1 DEF ClientPromise!Next
<1>15. CASE p \in FinalStates /\ q \in ClientOver /\ ct'[x].told = ct[x].told
  <2>1. ClientPromise!Leave(x)
    BY <1>2, <1>5, <1>6, <1>8, <1>15 DEF ClientPromise!Leave, ph, to
  <2> QED
    BY <2>1 DEF ClientPromise!Next
<1> QED
  BY <1>1, <1>9, <1>10, <1>11, <1>12, <1>13, <1>14, <1>15 DEF Allowed

LEMMA ClientInitPromised == ClientInit => ClientPromise!Init
<1> SUFFICES ASSUME ClientInit PROVE ClientPromise!Init
  OBVIOUS
<1>1. \A x \in Requests : ClientPhase(x) = "idle" /\ ct[x].told = <<>>
  <2> SUFFICES ASSUME NEW x \in Requests PROVE ClientPhase(x) = "idle" /\ ct[x].told = <<>>
    OBVIOUS
  <2>1. ct[x].state = "none" /\ ct[x].told = <<>>
    BY NoClientTyped DEF ClientInit
  <2> QED
    BY <2>1, PhaseOfState DEF ClientStates, IdleStates
<1> QED
  BY <1>1 DEF ClientPromise!Init

\* The client side, with its FIFOs, timers and transports, keeps the promise of
\* ClientTransaction: provisional responses, then one end, and after a final
\* response at most one error of the transport.
THEOREM ClientSpecKeepsPromise == ClientSpec => ClientKeepsPromise
<1>1. ClientInit => ClientPromise!Init
  BY ClientInitPromised
<1>2. ClientInv /\ [ClientNext]_clientVars => [ClientPromise!Next]_(ClientPromise!vars)
  <2> SUFFICES ASSUME ClientInv, [ClientNext]_clientVars
               PROVE  [ClientPromise!Next]_(ClientPromise!vars)
    OBVIOUS
  <2>1. CASE ct' = ct
    BY <2>1 DEF ClientPromise!vars, ClientPhase
  <2> QED
    BY <2>1, StepMoves, PromisedMove
<1> QED
  BY <1>1, <1>2, ClientSpecInv, PTL DEF ClientSpec, ClientKeepsPromise, ClientPromise!Spec

-----------------------------------------------------------------------------
(* SipPair *)

Has(s, r) == \E i \in DOMAIN s : s[i] = r

\* A transaction of x has sent what the client hears as r.
SentAs(x, r) == \E t \in Ids : /\ tr[t].req = x
                               /\ \E j \in DOMAIN tr[t].wire : HeardAs[tr[t].wire[j]] = r

\* The client has heard r, will, or may.
Reaches(x, r) == back[x][r] > 0 \/ Has(ct[x].fifo, r) \/ Has(ct[x].told, r)

Answered == \A x \in Requests, r \in RcvStatus : Reaches(x, r) => SentAs(x, r)

Refused(x) == Has(ct[x].told, "RCV_STATUS_3456XX")

Acked == \A x \in Requests :
            /\ IsIct(x)
            /\ ch[AckOf(x)] > 0 \/ arrived[AckOf(x)] > 0 \/ ct[x].state = "ICT_COMPLETED"
            => Refused(x)

\* Only an INVITE is in a state of the INVITE client transactions.
IctStates == {"ICT_PRE_CALLING", "ICT_CALLING", "ICT_PROCEEDING", "ICT_COMPLETED"}
OfKind == \A x \in Requests : ct[x].state \in IctStates => IsIct(x)

PairInv == /\ IInv
           /\ ClientInv
           /\ back \in [Requests -> [RcvStatus -> Nat]]
           /\ OfKind
           /\ Answered
           /\ Acked

-----------------------------------------------------------------------------
(* Sequences and messages *)

\* What a sequence has after an element is appended, and without the first.
LEMMA HasAppend ==
  ASSUME NEW S, NEW s \in Seq(S), NEW e \in S, NEW r
  PROVE  Has(Append(s, e), r) <=> Has(s, r) \/ e = r
<1>1. /\ DOMAIN s = 1 .. Len(s) /\ Len(s) \in Nat
      /\ DOMAIN Append(s, e) = 1 .. Len(s) + 1
      /\ Append(s, e)[Len(s) + 1] = e
      /\ \A i \in 1 .. Len(s) : Append(s, e)[i] = s[i]
  BY LenProperties, AppendProperties
<1>2. \A i \in 1 .. Len(s) + 1 : i \in 1 .. Len(s) \/ i = Len(s) + 1
  BY <1>1
<1>3. Len(s) + 1 \in 1 .. Len(s) + 1 /\ 1 .. Len(s) \subseteq 1 .. Len(s) + 1
  BY <1>1
<1> QED
  BY <1>1, <1>2, <1>3 DEF Has

LEMMA HasTail ==
  ASSUME NEW S, NEW s \in Seq(S), s # <<>>, NEW r
  PROVE  /\ Has(Tail(s), r) => Has(s, r)
         /\ Has(s, Head(s))
<1>1. /\ Tail(s) \in Seq(S) /\ Len(Tail(s)) = Len(s) - 1
      /\ \A i \in 1 .. Len(Tail(s)) : Tail(s)[i] = s[i + 1]
  BY HeadTailProperties
<1>2. /\ DOMAIN s = 1 .. Len(s) /\ Len(s) \in Nat \ {0}
      /\ DOMAIN Tail(s) = 1 .. Len(s) - 1
  BY <1>1, LenProperties, EmptySeq
<1>3. Head(s) = s[1]
  OBVIOUS
<1>4. \A i \in 1 .. Len(s) - 1 : i + 1 \in 1 .. Len(s)
  BY <1>2
<1> QED
  BY <1>1, <1>2, <1>3, <1>4 DEF Has

\* Nothing is in the empty sequence, and one thing in a sequence of one.
LEMMA HasFew ==
  ASSUME NEW e, NEW r
  PROVE  ~Has(<<>>, r) /\ (Has(<<e>>, r) => e = r)
  BY DEF Has

\* The ACKs of two requests differ, and are no request.
LEMMA AcksApart ==
  ASSUME NEW x \in Requests, IsIct(x)
  PROVE  /\ AckOf(x) \in Outgoing /\ AckOf(x) \in Messages
         /\ \A y \in Requests : y \in Outgoing /\ y # AckOf(x)
         /\ \A y \in Requests : IsIct(y) /\ AckOf(y) = AckOf(x) => y = x
<1>1. AckOf(x) \in Outgoing /\ AckOf(x) \in Messages
  BY PairAssumption DEF Outgoing
<1>2. \A y \in Requests : AckOf(y).method = "ACK" /\ AckOf(y).branch = y.branch
  BY PairAssumption DEF AckOf
<1>3. \A y \in Requests : y.method # "ACK"
  BY PairAssumption
<1>4. \A y \in Requests : y \in Outgoing
  BY DEF Outgoing
<1>5. \A y \in Requests : IsIct(y) /\ AckOf(y) = AckOf(x) => y = x
  BY <1>2, PairAssumption DEF IsIct
<1> QED
  BY <1>1, <1>2, <1>3, <1>4, <1>5

-----------------------------------------------------------------------------
(* What the steps of the server do *)

\* What a transaction has sent stays sent, and belongs to the same request.
LEMMA SentStays ==
  ASSUME IInv, [Next]_osipVars, NEW t \in Ids
  PROVE  /\ tr[t].wire # <<>> => tr'[t].req = tr[t].req
         /\ \A j \in DOMAIN tr[t].wire :
               j \in DOMAIN tr'[t].wire /\ tr'[t].wire[j] = tr[t].wire[j]
         /\ Len(tr'[t].wire) > Len(tr[t].wire) =>
               /\ tr'[t].req = tr[t].req
               /\ Len(tr'[t].wire) \in DOMAIN tr'[t].wire
               /\ tr'[t].wire[Len(tr'[t].wire)] \in Responses
<1>1. tr[t].wire \in Seq(Responses)
  BY DEF IInv, Typed, Transaction
<1>2. DOMAIN tr[t].wire = 1 .. Len(tr[t].wire) /\ Len(tr[t].wire) \in Nat
  BY <1>1, LenProperties
<1>3. CASE tr'[t] = tr[t]
  BY <1>2, <1>3
<1>4. CASE PromisedOne(t)
  <2> DEFINE v == tr[t].wire
             w == tr'[t].wire
  <2>1. w = v \/ \E e \in Responses : w = Append(v, e)
    <3>1. Final \subseteq Responses /\ "SND_STATUS_1XX" \in Responses
      BY Distinct
    <3>2. v # <<>> => v[Len(v)] \in Responses
      BY <1>1, <1>2, EmptySeq, ElementOfSeq
    <3> QED
      BY <1>4, <3>1, <3>2 DEF PromisedOne, Promised
  <2>2. tr'[t].req = tr[t].req \/ w = <<>>
    BY <1>4 DEF PromisedOne
  <2> HIDE DEF v, w
  <2>3. CASE w = v
    BY <1>2, <2>2, <2>3 DEF v, w
  <2>4. ASSUME NEW e \in Responses, w = Append(v, e)
        PROVE  /\ w # <<>> /\ Len(w) \in DOMAIN w /\ w[Len(w)] = e
               /\ \A j \in DOMAIN v : j \in DOMAIN w /\ w[j] = v[j]
    BY <1>1, <1>2, <2>4, AppendProperties DEF v
  <2> QED
    BY <2>1, <2>2, <2>3, <2>4 DEF v, w
<1> QED
  BY <1>3, <1>4, StepShape DEF PromisedOne

LEMMA SentAsStays ==
  ASSUME IInv, [Next]_osipVars, NEW x, NEW r, SentAs(x, r)
  PROVE  SentAs(x, r)'
<1>1. PICK t \in Ids : tr[t].req = x /\ \E j \in DOMAIN tr[t].wire : HeardAs[tr[t].wire[j]] = r
  BY DEF SentAs
<1>2. PICK j \in DOMAIN tr[t].wire : HeardAs[tr[t].wire[j]] = r
  BY <1>1
<1>3. tr[t].wire # <<>>
  BY <1>2
<1>4. /\ tr'[t].req = x /\ j \in DOMAIN tr'[t].wire
      /\ HeardAs[tr'[t].wire[j]] = r
  BY <1>1, <1>2, <1>3, SentStays
<1> QED
  BY <1>4 DEF SentAs

\* A step of the pair is one of the server's, or leaves the server alone.
LEMMA PairStepsServer ==
  ASSUME [PairNext]_pairVars
  PROVE  [Next]_osipVars
<1>1. Outgoing \subseteq Messages
  BY PairAssumption DEF Outgoing
<1>2. CASE ServerReceives
  <2>1. PICK m \in Messages : /\ Arrive(m)
                             /\ \/ osip_find_transaction_and_add_event(m)
                                \/ osip_create_transaction(m)
    BY <1>1, <1>2 DEF ServerReceives
  <2> QED
    BY <2>1 DEF Next, Receive
<1>3. CASE ServerRuns
  BY <1>3 DEF ServerRuns, Next
<1> QED
  BY <1>2, <1>3 DEF PairNext, UserSends, ClientRuns, ClientReceives, Lose, pairVars

\* The responses on their way were sent.
LEMMA CarriedWasSent ==
  ASSUME IInv, [Next]_osipVars, NEW x \in Requests, NEW r \in RcvStatus, Carried(x, r)
  PROVE  SentAs(x, r)'
<1>1. PICK t \in Ids : /\ tr[t].req = x
                      /\ Len(tr'[t].wire) > Len(tr[t].wire)
                      /\ HeardAs[tr'[t].wire[Len(tr'[t].wire)]] = r
  BY DEF Carried
<1>2. tr'[t].req = x /\ Len(tr'[t].wire) \in DOMAIN tr'[t].wire
  BY <1>1, SentStays
<1> QED
  BY <1>1, <1>2 DEF SentAs

-----------------------------------------------------------------------------
(* What the steps of the client do *)

\* The executor takes the first event; what the user is told is that event, or an end that
\* nobody sent.  An ACK is put on the channel with a refusal, or after one.
Executes(x) ==
    /\ ct[x].fifo # <<>> /\ ct'[x].fifo = Tail(ct[x].fifo)
    /\ \A y \in Requests \ {x} : ct'[y] = ct[y]
    /\ \/ ct'[x].told = ct[x].told
       \/ \E a \in {Head(ct[x].fifo), "TIMEOUT", "ERROR"} : ct'[x].told = Append(ct[x].told, a)
    /\ ct'[x].state \in IctStates => ct[x].state \in IctStates
    /\ ct'[x].state = "ICT_COMPLETED" =>
          \/ ct[x].state = "ICT_COMPLETED"
          \/ ct'[x].told = Append(ct[x].told, "RCV_STATUS_3456XX")
    /\ \/ ch' = ch
       \/ Put(x)
       \/ /\ Put(AckOf(x)) /\ ct[x].state \in IctStates
          /\ ct'[x].state = "ICT_COMPLETED"

LEMMA ErrorExecutes ==
  ASSUME ClientInv, NEW x \in Requests, ct[x].fifo # <<>>, xict_transport_error(x),
         UNCHANGED ch
  PROVE  Executes(x)
<1>1. OverOf(x) \notin IctStates
  BY DEF OverOf, IctStates
<1>2. /\ ct'[x].fifo = Tail(ct[x].fifo) /\ ct'[x].state = OverOf(x)
      /\ ct'[x].told = Append(ct[x].told, "ERROR")
      /\ \A y \in Requests \ {x} : ct'[y] = ct[y]
  BY DEF xict_transport_error, ClientInv, ClientRecord
<1> QED
  BY <1>1, <1>2 DEF Executes, IctStates

LEMMA SendExecutes ==
  ASSUME ClientInv, NEW x \in Requests, ct[x].fifo # <<>>, NEW retry, NEW next,
         next # "ICT_COMPLETED", next \in IctStates => ct[x].state \in IctStates,
         SendRequest(x, retry, next)
  PROVE  Executes(x)
<1>1. CASE xict_transport_error(x) /\ UNCHANGED ch
  BY <1>1, ErrorExecutes
<1>2. ASSUME NEW timers, Put(x) \/ UNCHANGED ch,
             ct' = [ct EXCEPT ![x].fifo = Tail(@), ![x].state = next, ![x].timers = timers]
      PROVE  Executes(x)
  <2>1. /\ ct'[x].fifo = Tail(ct[x].fifo) /\ ct'[x].state = next
        /\ ct'[x].told = ct[x].told
        /\ \A y \in Requests \ {x} : ct'[y] = ct[y]
    BY <1>2 DEF ClientInv, ClientRecord
  <2> QED
    BY <1>2, <2>1 DEF Executes
<1>3. CASE Put(x) /\ ct' = [ct EXCEPT ![x].fifo = Tail(@), ![x].state = next,
                                      ![x].timers = IF x \in ReliableRequests
                                                    THEN @ \ {retry} ELSE @ \cup {retry}]
  BY <1>2, <1>3
<1>4. CASE UNCHANGED ch /\ ct' = [ct EXCEPT ![x].fifo = Tail(@), ![x].state = next,
                                            ![x].timers = @ \cup {retry}]
  BY <1>2, <1>4
<1> QED
  BY <1>1, <1>3, <1>4 DEF SendRequest

LEMMA ExecutorExecutes ==
  ASSUME ClientInv, NEW x \in Requests, osip_xict_execute(x)
  PROVE  Executes(x)
<1> USE DEF ClientInv, ClientRecord
<1>1. CASE ict_snd_invite(x) \/ osip_ict_timeout_a_event(x)
  BY <1>1, SendExecutes DEF ict_snd_invite, osip_ict_timeout_a_event, At, IctStates
<1>2. CASE nict_snd_request(x)
  BY <1>2, SendExecutes DEF nict_snd_request, At, IctStates
<1>3. CASE osip_nict_timeout_e_event(x)
  BY <1>3, SendExecutes DEF osip_nict_timeout_e_event, At, IctStates
<1>4. CASE ict_rcv_1xx(x)
  BY <1>4 DEF ict_rcv_1xx, At, Heard, Executes, IctStates
<1>5. CASE ict_rcv_2xx(x)
  BY <1>5 DEF ict_rcv_2xx, At, Heard, Executes, IctStates
<1>6. CASE ict_rcv_3456xx(x)
  BY <1>6 DEF ict_rcv_3456xx, At, Heard, Executes, IctStates
<1>7. CASE ict_retransmit_ack(x)
  <2>1. CASE xict_transport_error(x) /\ UNCHANGED ch
    BY <1>7, <2>1, ErrorExecutes DEF ict_retransmit_ack, At
  <2>2. CASE Put(AckOf(x)) /\ ct' = [ct EXCEPT ![x].fifo = Tail(@)]
    BY <1>7, <2>2 DEF ict_retransmit_ack, At, Executes, IctStates
  <2> QED
    BY <1>7, <2>1, <2>2 DEF ict_retransmit_ack
<1>8. CASE nict_rcv_1xx(x)
  BY <1>8 DEF nict_rcv_1xx, At, Heard, Executes, IctStates
<1>9. CASE nict_rcv_23456xx(x)
  BY <1>9 DEF nict_rcv_23456xx, At, Heard, Executes, IctStates
<1>10. CASE xict_timeout(x)
  BY <1>10 DEF xict_timeout, At, Tell, OverOf, Executes, IctStates
<1>11. CASE xict_wait_over(x)
  BY <1>11 DEF xict_wait_over, At, OverOf, Executes, IctStates
<1>12. CASE UselessClientEvent(x)
  BY <1>12 DEF UselessClientEvent, Executes
<1> QED
  BY <1>1, <1>2, <1>3, <1>4, <1>5, <1>6, <1>7, <1>8, <1>9, <1>10, <1>11, <1>12
     DEF osip_xict_execute

-----------------------------------------------------------------------------
(* Every step of the pair preserves the invariant *)

\* The records of the client, in the terms of the sequences they hold.
LEMMA RecordTypes ==
  ASSUME ClientInv, NEW x \in Requests
  PROVE  /\ ct[x].fifo \in Seq(ClientEvents) /\ ct[x].told \in Seq(Reports)
         /\ RcvStatus \subseteq ClientEvents /\ RcvStatus \subseteq Reports
         /\ RcvStatus \cap (ClientTimeouts \cup {"TIMEOUT", "ERROR", "SND_REQINVITE", "SND_REQUEST"}) = {}
         /\ "RCV_STATUS_3456XX" \in RcvStatus
  BY DEF ClientInv, ClientRecord, ClientEvents, Reports, RcvStatus, Rcv1xx, RcvFinal, ClientTimeouts

\* When nothing reaches a request that did not before, and the server moves as it may, what
\* reaches it was sent.
LEMMA AnsweredStays ==
  ASSUME PairInv, [Next]_osipVars,
         \A x \in Requests, r \in RcvStatus : Reaches(x, r)' => Reaches(x, r) \/ SentAs(x, r)'
  PROVE  Answered'
  BY SentAsStays DEF PairInv, Answered

\* When the executor runs nothing new reaches a request, and what was told stays told.
LEMMA ExecutorReaches ==
  ASSUME ClientInv, NEW x \in Requests, Executes(x), UNCHANGED back, NEW y \in Requests
  PROVE  /\ \A r \in RcvStatus : Reaches(y, r)' => Reaches(y, r)
         /\ Refused(y) => Refused(y)'
         /\ y = x /\ ct'[x].told = Append(ct[x].told, "RCV_STATUS_3456XX") => Refused(y)'
<1>1. CASE y # x
  BY <1>1 DEF Executes, Reaches, Refused
<1>2. CASE y = x
  <2> DEFINE f == ct[x].fifo
             v == ct[x].told
             w == ct'[x].told
  <2>1. f \in Seq(ClientEvents) /\ f # <<>> /\ ct'[x].fifo = Tail(f) /\ v \in Seq(Reports)
    BY RecordTypes DEF Executes
  <2>2. \A r : (Has(Tail(f), r) => Has(f, r)) /\ Has(f, Head(f))
    BY <2>1, HasTail
  <2>3. w = v \/ \E a \in {Head(f), "TIMEOUT", "ERROR"} : w = Append(v, a)
    BY DEF Executes
  <2> HIDE DEF f, v, w
  <2>4. ASSUME NEW a, w = Append(v, a), NEW r
        PROVE  Has(w, r) <=> Has(v, r) \/ a = r
    <3>1. v \in Seq(Reports \cup {a})
      BY <2>1, SeqMonotonic
    <3> QED
      BY <2>4, <3>1, HasAppend
  <2>5. ASSUME NEW r \in RcvStatus, Has(w, r) PROVE Has(v, r) \/ Has(f, r)
    BY <2>2, <2>3, <2>4, <2>5, RecordTypes
  <2>6. \A r : Has(v, r) => Has(w, r)
    BY <2>3, <2>4
  <2>7. w = Append(v, "RCV_STATUS_3456XX") => Has(w, "RCV_STATUS_3456XX")
    BY <2>4
  <2> QED
    BY <1>2, <2>1, <2>2, <2>5, <2>6, <2>7 DEF Reaches, Refused, f, v, w
<1> QED
  BY <1>1, <1>2

\* Nothing but the ACK of x is added to the channel of an ACK.
LEMMA AckPut ==
  ASSUME ch \in [Outgoing -> Nat], NEW m, Put(m), NEW y \in Requests, IsIct(y), AckOf(y) # m
  PROVE  ch'[AckOf(y)] = ch[AckOf(y)]
  BY AcksApart DEF Put

LEMMA ExecutePair ==
  ASSUME PairInv, NEW x \in Requests, osip_xict_execute(x), UNCHANGED <<osipVars, back>>
  PROVE  PairInv'
<1>1. Executes(x) /\ ClientInv
  BY ExecutorExecutes DEF PairInv
<1>2. ClientInv'
  BY ClientInvInductive DEF PairInv, ClientNext, ClientStep
<1>3. IInv' /\ [Next]_osipVars
  BY NextInv DEF PairInv
<1>4. OfKind'
  BY <1>1 DEF PairInv, OfKind, Executes
<1>5. Answered'
  BY <1>1, <1>3, ExecutorReaches, AnsweredStays
<1>6. Acked'
  <2> SUFFICES ASSUME NEW y \in Requests, IsIct(y),
                      ch'[AckOf(y)] > 0 \/ arrived'[AckOf(y)] > 0 \/ ct'[y].state = "ICT_COMPLETED"
               PROVE  Refused(y)'
    BY DEF Acked
  <2>1. Refused(y) => Refused(y)'
    BY <1>1, ExecutorReaches
  <2>2. ct'[y].state = "ICT_COMPLETED" => Refused(y)'
    BY <1>1, <2>1, ExecutorReaches DEF Executes, PairInv, Acked
  <2>3. ch'[AckOf(y)] > 0 /\ ch'[AckOf(y)] # ch[AckOf(y)] => Refused(y)'
    <3> SUFFICES ASSUME ch'[AckOf(y)] # ch[AckOf(y)] PROVE Refused(y)'
      OBVIOUS
    <3>1. ch \in [Outgoing -> Nat] /\ x # AckOf(y)
      BY <1>1, AcksApart DEF ClientInv
    <3>2. /\ Put(AckOf(x)) /\ AckOf(x) = AckOf(y)
          /\ ct[x].state \in IctStates /\ ct'[x].state = "ICT_COMPLETED"
      BY <1>1, <3>1, AckPut DEF Executes
    <3>3. IsIct(x)
      BY <3>2 DEF PairInv, OfKind
    <3>4. x = y
      BY <3>2, <3>3, AcksApart
    <3> QED
      BY <2>2, <3>2, <3>4
  <2>4. UNCHANGED arrived
    BY DEF osipVars
  <2> QED
    BY <2>1, <2>2, <2>3, <2>4 DEF PairInv, Acked
<1> QED
  BY <1>2, <1>3, <1>4, <1>5, <1>6 DEF PairInv

\* Where the server and what is on its way back rest, and the records of the client only get
\* an event that is no response, or start, the promises about both ends stay.
LEMMA ClientQuiet ==
  ASSUME PairInv, UNCHANGED <<ch, osipVars, back>>, ClientInv',
         NEW x \in Requests, \A y \in Requests \ {x} : ct'[y] = ct[y],
         \A r \in RcvStatus : Has(ct'[x].fifo, r) => Has(ct[x].fifo, r),
         ct'[x].told = ct[x].told,
         \/ ct'[x].state = ct[x].state
         \/ ct'[x].state = IF IsIct(x) THEN "ICT_PRE_CALLING" ELSE "NICT_PRE_TRYING"
  PROVE  PairInv'
<1>1. IInv' /\ [Next]_osipVars
  BY NextInv DEF PairInv
<1>2. \A y \in Requests : ct'[y].told = ct[y].told
  OBVIOUS
<1>3. OfKind'
  <2>1. ct'[x].state \in IctStates => ct[x].state \in IctStates \/ IsIct(x)
    BY DEF IctStates
  <2> QED
    BY <2>1 DEF PairInv, OfKind
<1>4. Answered'
  BY <1>1, <1>2, AnsweredStays DEF Reaches
<1>5. \A y \in Requests : ct'[y].state = "ICT_COMPLETED" => ct[y].state = "ICT_COMPLETED"
  BY DEF IctStates
<1>6. Acked'
  BY <1>2, <1>5 DEF PairInv, Acked, Refused, osipVars
<1> QED
  BY <1>1, <1>3, <1>4, <1>6 DEF PairInv

LEMMA StartPair ==
  ASSUME PairInv, NEW x \in Requests, UserSends(x)
  PROVE  PairInv'
<1>1. xict_init(x) /\ UNCHANGED <<ch, osipVars, back>>
  BY DEF UserSends, xict_init
<1>2. ClientInv'
  BY <1>1, ClientInvInductive DEF PairInv, ClientNext, ClientStep
<1>3. /\ ct'[x].told = <<>>
      /\ ct'[x].state = IF IsIct(x) THEN "ICT_PRE_CALLING" ELSE "NICT_PRE_TRYING"
      /\ ct'[x].fifo = <<IF IsIct(x) THEN "SND_REQINVITE" ELSE "SND_REQUEST">>
      /\ \A y \in Requests \ {x} : ct'[y] = ct[y]
      /\ ct[x].told = <<>>
  BY <1>1 DEF xict_init, NoClient, PairInv, ClientInv, ClientRecord
<1>4. \A r \in RcvStatus : ~Has(ct'[x].fifo, r)
  BY <1>3, HasFew, RecordTypes DEF PairInv
<1> QED
  BY <1>1, <1>2, <1>3, <1>4, ClientQuiet DEF IctStates

LEMMA TimerPair ==
  ASSUME PairInv, NEW x \in Requests, NEW e \in ClientTimeouts,
         osip_timers_xict_execute(x, e), UNCHANGED <<osipVars, back>>
  PROVE  PairInv'
<1>1. UNCHANGED ch /\ ClientInv
  BY DEF osip_timers_xict_execute, PairInv
<1>2. ClientInv'
  BY <1>1, ClientInvInductive DEF ClientNext, ClientStep
<1>3. /\ ct'[x].told = ct[x].told /\ ct'[x].state = ct[x].state
      /\ ct'[x].fifo = Append(ct[x].fifo, e)
      /\ \A y \in Requests \ {x} : ct'[y] = ct[y]
  BY <1>1 DEF osip_timers_xict_execute, ClientInv, ClientRecord
<1>4. \A r \in RcvStatus : Has(ct'[x].fifo, r) => Has(ct[x].fifo, r)
  BY <1>1, <1>3, RecordTypes, HasAppend DEF ClientEvents
<1>5. UNCHANGED <<ch, osipVars, back>>
  BY <1>1
<1> QED
  BY <1>2, <1>3, <1>4, <1>5, ClientQuiet

\* A response that arrives was on its way.
LEMMA ClientReceivesPair ==
  ASSUME PairInv, ClientReceives
  PROVE  PairInv'
<1>1. PICK x \in Requests, r \in RcvStatus :
        /\ back[x][r] > 0
        /\ RcvResponse(x, r) \/ (~InList(x) /\ UNCHANGED ct)
        /\ back' = [back EXCEPT ![x][r] = @ - 1]
        /\ UNCHANGED <<ch, osipVars>>
  BY DEF ClientReceives
<1>2. ClientInv /\ back \in [Requests -> [RcvStatus -> Nat]]
  BY DEF PairInv
<1>3. /\ back' \in [Requests -> [RcvStatus -> Nat]]
      /\ \A y \in Requests, q \in RcvStatus : back'[y][q] > 0 => back[y][q] > 0
  BY <1>1, <1>2
<1>4. ClientInv'
  BY <1>1, <1>2, ClientInvInductive DEF ClientNext, clientVars
<1>5. IInv' /\ [Next]_osipVars
  BY <1>1, NextInv DEF PairInv
<1>6. \A y \in Requests : ct'[y].state = ct[y].state /\ ct'[y].told = ct[y].told
  BY <1>1, <1>2 DEF RcvResponse, ClientInv, ClientRecord
<1>7. \A y \in Requests, q \in RcvStatus :
        Has(ct'[y].fifo, q) => Has(ct[y].fifo, q) \/ (y = x /\ q = r)
  <2>1. CASE RcvResponse(x, r)
    <3>1. ct'[x].fifo = Append(ct[x].fifo, r) /\ \A y \in Requests \ {x} : ct'[y] = ct[y]
      BY <1>2, <2>1 DEF RcvResponse, ClientInv, ClientRecord
    <3>2. \A q : Has(ct'[x].fifo, q) <=> Has(ct[x].fifo, q) \/ r = q
      <4>1. ct[x].fifo \in Seq(ClientEvents) /\ r \in ClientEvents
        BY <1>2, RecordTypes
      <4> QED
        BY <3>1, <4>1, HasAppend
    <3> QED
      BY <3>1, <3>2
  <2> QED
    BY <1>1, <2>1
<1>8. Answered'
  BY <1>1, <1>3, <1>5, <1>6, <1>7, AnsweredStays DEF Reaches
<1>9. OfKind' /\ Acked'
  BY <1>1, <1>6 DEF PairInv, OfKind, Acked, Refused, osipVars
<1> QED
  BY <1>3, <1>4, <1>5, <1>8, <1>9 DEF PairInv

\* While the client rests only the channels and what is on its way back may grow; what grows
\* back was sent, and no ACK is made.
LEMMA ServerPair ==
  ASSUME PairInv, [Next]_osipVars, UNCHANGED ct,
         ch' \in [Outgoing -> Nat], back' \in [Requests -> [RcvStatus -> Nat]],
         \A x \in Requests, r \in RcvStatus :
            back'[x][r] > 0 => back[x][r] > 0 \/ SentAs(x, r)',
         \A m \in Outgoing : ch'[m] > 0 \/ arrived'[m] > 0 => ch[m] > 0 \/ arrived[m] > 0
  PROVE  PairInv'
<1>1. IInv' /\ ClientInv'
  BY NextInv DEF PairInv, ClientInv
<1>2. OfKind'
  BY DEF PairInv, OfKind
<1>3. Answered'
  BY AnsweredStays DEF Reaches
<1>4. Acked'
  BY AcksApart DEF PairInv, Acked, Refused
<1> QED
  BY <1>1, <1>2, <1>3, <1>4 DEF PairInv

LEMMA ServerReceivesPair ==
  ASSUME PairInv, ServerReceives
  PROVE  PairInv'
<1>1. PICK m \in Outgoing : /\ ch[m] > 0 /\ Arrive(m)
                            /\ ch' = [ch EXCEPT ![m] = @ - 1]
                            /\ UNCHANGED <<ct, back>>
  BY DEF ServerReceives
<1>2. [Next]_osipVars
  BY PairStepsServer DEF PairNext
<1>3. Outgoing \subseteq Messages
  BY PairAssumption DEF Outgoing
<1>4. ch \in [Outgoing -> Nat] /\ arrived \in [Messages -> Nat]
  BY OsipAssumption DEF PairInv, ClientInv, IInv, Typed
<1>5. /\ ch' \in [Outgoing -> Nat]
      /\ \A o \in Outgoing : ch'[o] > 0 \/ arrived'[o] > 0 => ch[o] > 0 \/ arrived[o] > 0
  BY <1>1, <1>3, <1>4 DEF Arrive
<1>6. back' \in [Requests -> [RcvStatus -> Nat]]
  BY <1>1 DEF PairInv
<1> QED
  BY <1>1, <1>2, <1>5, <1>6, ServerPair

LEMMA ServerRunsPair ==
  ASSUME PairInv, ServerRuns
  PROVE  PairInv'
<1>1. [Next]_osipVars
  BY PairStepsServer DEF PairNext
<1>2. /\ UNCHANGED <<ct, ch>> /\ ch \in [Outgoing -> Nat]
      /\ back \in [Requests -> [RcvStatus -> Nat]]
  BY DEF ServerRuns, clientVars, PairInv, ClientInv
<1>3. arrived' = arrived
  BY DEF ServerRuns, AddFirstEvent, Execute, ExecuteBegin, ExecuteEvent, ExecuteNext,
         FireTimer, osip_timers_execute, osip_transaction_add_event
<1>4. \A x \in Requests, r \in RcvStatus :
        /\ back'[x][r] \in Nat
        /\ back'[x][r] > 0 => back[x][r] > 0 \/ Carried(x, r)
  BY <1>2 DEF ServerRuns
<1>5. back' \in [Requests -> [RcvStatus -> Nat]]
  <2> DEFINE grown(x) == [r \in RcvStatus |->
                            IF Carried(x, r) /\ back[x][r] < MaxFlight THEN back[x][r] + 1
                                                                       ELSE back[x][r]]
  <2>1. back' = [x \in Requests |-> grown(x)]
    BY DEF ServerRuns
  <2>2. \A x \in Requests : grown(x) \in [RcvStatus -> Nat]
    BY <1>2
  <2> HIDE DEF grown
  <2> QED
    BY <2>1, <2>2
<1>6. \A x \in Requests, r \in RcvStatus : back'[x][r] > 0 => back[x][r] > 0 \/ SentAs(x, r)'
  BY <1>1, <1>4, CarriedWasSent DEF PairInv
<1> QED
  BY <1>1, <1>2, <1>3, <1>5, <1>6, ServerPair

LEMMA LosePair ==
  ASSUME PairInv, Lose
  PROVE  PairInv'
<1>1. /\ UNCHANGED ct /\ [Next]_osipVars /\ arrived' = arrived
      /\ ch \in [Outgoing -> Nat] /\ back \in [Requests -> [RcvStatus -> Nat]]
  BY DEF Lose, PairInv, ClientInv, osipVars
<1>2. /\ ch' \in [Outgoing -> Nat] /\ back' \in [Requests -> [RcvStatus -> Nat]]
      /\ \A m \in Outgoing : ch'[m] > 0 => ch[m] > 0
      /\ \A x \in Requests, r \in RcvStatus : back'[x][r] > 0 => back[x][r] > 0
  <2>1. CASE UNCHANGED back /\ \E m \in Outgoing : ch[m] > 0 /\ ch' = [ch EXCEPT ![m] = @ - 1]
    BY <1>1, <2>1
  <2>2. CASE /\ UNCHANGED ch
             /\ \E x \in Requests, r \in RcvStatus :
                   back[x][r] > 0 /\ back' = [back EXCEPT ![x][r] = @ - 1]
    BY <1>1, <2>2
  <2> QED
    BY <2>1, <2>2 DEF Lose
<1> QED
  BY <1>1, <1>2, ServerPair

-----------------------------------------------------------------------------
(* The theorems *)

\* What holds initially: nothing was sent.
LEMMA PairInitInv == PairInit => PairInv
<1> SUFFICES ASSUME PairInit PROVE PairInv
  OBVIOUS
<1>1. IInv /\ ClientInv
  BY InitInv, ClientInitInv DEF PairInit
<1>2. back \in [Requests -> [RcvStatus -> Nat]]
  BY DEF PairInit
<1>3. \A x \in Requests : ct[x].state = "none" /\ ct[x].fifo = <<>> /\ ct[x].told = <<>>
  BY DEF PairInit, ClientInit, NoClient
<1>4. OfKind /\ Answered
  <2>1. \A x \in Requests, r \in RcvStatus : back[x][r] = 0
    BY DEF PairInit
  <2>2. \A r : ~Has(<<>>, r)
    BY HasFew
  <2>3. Answered
    BY <1>3, <2>1, <2>2 DEF Answered, Reaches
  <2> QED
    BY <1>3, <2>3 DEF OfKind, IctStates
<1>5. Acked
  BY <1>3, AcksApart DEF Acked, PairInit, Init, ClientInit
<1> QED
  BY <1>1, <1>2, <1>4, <1>5 DEF PairInv

LEMMA PairNextInv == PairInv /\ [PairNext]_pairVars => PairInv'
<1> SUFFICES ASSUME PairInv, [PairNext]_pairVars PROVE PairInv'
  OBVIOUS
<1>1. CASE ClientRuns
  BY <1>1, ExecutePair, TimerPair DEF ClientRuns
<1>2. CASE UNCHANGED pairVars
  BY <1>2, ServerPair DEF pairVars, clientVars, osipVars, PairInv, ClientInv
<1> QED
  BY <1>1, <1>2, StartPair, ServerReceivesPair, ServerRunsPair, ClientReceivesPair, LosePair
     DEF PairNext

\* The invariant of the pair, which holds both ends' own invariants.
THEOREM PairSpecInv == PairSpec => []PairInv
  BY PairInitInv, PairNextInv, PTL DEF PairSpec

\* An ACK that the server sees was sent by a client whose user was told of the refusal
\* (ict_rcv_3456xx, ict_retransmit_ack), however the network delays and repeats.
THEOREM PairSpecRefusalWasHeard == PairSpec => []RefusalWasHeard
<1>1. PairInv => RefusalWasHeard
  <2> SUFFICES ASSUME PairInv, NEW x \in Requests, IsIct(x),
                      ch[AckOf(x)] + arrived[AckOf(x)] > 0
               PROVE  Refused(x)
    BY DEF RefusalWasHeard, Refused, Has
  <2>1. AckOf(x) \in Outgoing /\ AckOf(x) \in Messages
    BY AcksApart
  <2>2. ch[AckOf(x)] \in Nat /\ arrived[AckOf(x)] \in Nat
    BY <2>1, OsipAssumption DEF PairInv, ClientInv, IInv, Typed
  <2>3. ch[AckOf(x)] > 0 \/ arrived[AckOf(x)] > 0
    BY <2>2
  <2> QED
    BY <2>3 DEF PairInv, Acked
<1> QED
  BY <1>1, PairSpecInv, PTL

\* Both users know of the same outcome, when the request made one transaction: the final
\* response the client's user heard is the only one the server's transaction has sent.
THEOREM PairSpecOneOutcome == PairSpec => []OneOutcome
<1>1. PairInv => OneOutcome
  <2> SUFFICES ASSUME PairInv, NEW x \in Requests, NEW t \in Ids, tr[t].req = x,
                      \A u \in Ids \ {t} : tr[u].req # x,
                      NEW i \in DOMAIN ct[x].told, ct[x].told[i] \in RcvFinal
               PROVE  \E j \in DOMAIN tr[t].wire :
                         /\ HeardAs[tr[t].wire[j]] = ct[x].told[i]
                         /\ \A k \in DOMAIN tr[t].wire :
                               tr[t].wire[k] \in Final => tr[t].wire[k] = tr[t].wire[j]
    BY DEF OneOutcome
  <2> DEFINE w == tr[t].wire
  <2>1. SentAs(x, ct[x].told[i])
    BY DEF PairInv, Answered, Reaches, Has, RcvStatus
  <2>2. PICK j \in DOMAIN w : HeardAs[w[j]] = ct[x].told[i]
    BY <2>1 DEF SentAs
  <2>3. w \in Seq(Responses) /\ FinalStays(tr[t])
    BY DEF PairInv, IInv, Typed, Local, Transaction
  <2>4. DOMAIN w \subseteq Nat /\ w[j] \in Responses
    BY <2>3, LenProperties, ElementOfSeq
  <2>5. w[j] \in Final
    BY <2>2, <2>4 DEF HeardAs, Responses, Final, RcvFinal
  <2>6. ASSUME NEW k \in DOMAIN w, w[k] \in Final PROVE w[k] = w[j]
    <3>1. k < j \/ j < k \/ k = j
      BY <2>4
    <3> QED
      BY <2>3, <2>5, <2>6, <3>1 DEF FinalStays
  <2> QED
    BY <2>2, <2>6
<1> QED
  BY <1>1, PairSpecInv, PTL

\* Seen from the server, the pair is a server that receives: all that was proved of it holds
\* over the network.
THEOREM PairSpecServer == PairSpec => Spec
<1>1. PairInit => Init
  BY DEF PairInit
<1>2. [PairNext]_pairVars => [Next]_osipVars
  BY PairStepsServer
<1> QED
  BY <1>1, <1>2, PTL DEF PairSpec, Spec

\* The client keeps its promise when what it hears is what the server sent.
THEOREM PairSpecClientKeepsPromise == PairSpec => ClientKeepsPromise
<1>1. PairInit => ClientPromise!Init
  BY ClientInitPromised DEF PairInit
<1>2. PairInv /\ [PairNext]_pairVars => [ClientPromise!Next]_(ClientPromise!vars)
  <2> SUFFICES ASSUME PairInv, [PairNext]_pairVars
               PROVE  [ClientPromise!Next]_(ClientPromise!vars)
    OBVIOUS
  <2>1. ct' = ct \/ \E x \in Requests : Moves(x)
    BY InitMoves, ExecuteMoves, TimerMoves, ResponseMoves
       DEF PairInv, PairNext, UserSends, ClientRuns, ServerReceives, ServerRuns,
           ClientReceives, Lose, pairVars, clientVars
  <2>2. CASE ct' = ct
    BY <2>2 DEF ClientPromise!vars, ClientPhase
  <2> QED
    BY <2>1, <2>2, PromisedMove DEF PairInv
<1> QED
  BY <1>1, <1>2, PairSpecInv, PTL DEF PairSpec, ClientKeepsPromise, ClientPromise!Spec

=============================================================================
