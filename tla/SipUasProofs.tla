---------------------------- MODULE SipUasProofs ----------------------------
(***************************************************************************)
(* Theorems about SipUas, for every set of messages that differ in branch  *)
(* or method, and any number of transactions, copies and RTP datagrams: a  *)
(* turn of the main loop is complete.                                      *)
(*                                                                         *)
(* A transaction goes through few shapes, which depend on what its request *)
(* calls for: an INVITE gets 180 and 200, a BYE or CANCEL 200, another     *)
(* request nothing, and what is no request stays in the stack (Shaped).    *)
(* Where the main thread is says which of them have nothing left to do     *)
(* (Phases).  And what has arrived is counted: it was answered, is owed an *)
(* answer, or came while timer J ended its transaction (Counted).          *)
(***************************************************************************)
EXTENDS SipUas, OsipServerProofs

One == "SND_STATUS_1XX"
Two == "SND_STATUS_2XX"

\* What a message calls for.
Answerable(m) == EventType(m) = "RCV_REQUEST" /\ m.method \in {"BYE", "CANCEL"}
Mute(m) == EventType(m) = "RCV_REQUEST" /\ m.method \notin {"BYE", "CANCEL"}
Stray(m) == EventType(m) \in {"RCV_REQACK", "RCV_STATUS"}

InviteShape(r) ==
    \/ r.state = "IST_PRE_PROCEEDING" /\ r.fifo \in {<<>>, <<"RCV_REQINVITE">>} /\ r.wire = <<>>
    \/ r.state = "IST_PROCEEDING" /\ r.fifo = <<One, Two>> /\ r.wire = <<>>
    \/ r.state = "IST_PROCEEDING" /\ r.fifo = <<Two>> /\ r.wire = <<One>>
    \/ r.state = "IST_TERMINATED" /\ r.fifo = <<>> /\ r.wire = <<One, Two>>

AnswerShape(r) ==
    \/ r.state = "NIST_PRE_TRYING" /\ r.fifo \in {<<>>, <<"RCV_REQUEST">>}
    \/ r.state = "NIST_TRYING" /\ r.fifo = <<Two>>
    \/ /\ r.state = "NIST_COMPLETED" /\ r.last_response # None
       /\ r.fifo \in {<<>>, <<"TIMEOUT_J">>, <<"RCV_REQUEST">>, <<"TIMEOUT_J", "RCV_REQUEST">>}
    \/ r.state = "NIST_TERMINATED" /\ r.fifo \in {<<>>, <<"RCV_REQUEST">>}

MuteShape(r) ==
    r.state \in {"NIST_PRE_TRYING", "NIST_TRYING"} /\ r.fifo \in {<<>>, <<"RCV_REQUEST">>}

StrayShape(r) == r.state = "NIST_PRE_TRYING" /\ r.fifo \in {<<>>, <<EventType(r.req)>>}

Shaped(r) ==
    /\ r.ctx_type = IF EventType(r.req) = "RCV_REQINVITE" THEN "IST" ELSE "NIST"
    /\ EventType(r.req) = "RCV_REQINVITE" => InviteShape(r)
    /\ Answerable(r.req) => AnswerShape(r)
    /\ Mute(r.req) => MuteShape(r)
    /\ Stray(r.req) => StrayShape(r)

\* Nothing is left to do but timer J, or nothing at all.
Rest(r) == /\ r.fifo \in {<<>>, <<"TIMEOUT_J">>}
           /\ r.state \in PreStates => Stray(r.req)
Done(r) == Rest(r) /\ r.fifo = <<>>

Kept == /\ tr \in [Ids -> Transaction]
        /\ transactionid \in 1 .. MaxTransactions + 1
        /\ arrived \in [Messages -> Nat]
        /\ lists = {t \in Made : tr[t].state \notin Terminated}
        /\ \A t \in Made : tr[t].req \in Messages /\ Shaped(tr[t])
        /\ \A t \in Ids \ Made : tr[t] = NoTransaction
        /\ array \in [Kinds -> SUBSET Ids]
        /\ \A k \in Kinds : array[k] \subseteq {t \in Made : tr[t].ctx_type = k}

\* Where the main thread is, and what is done by then.
Phases ==
    /\ pc \in {"recv", "sip", "add_event", "ist_begin", "ist", "nist_begin", "nist",
               "timers_ist", "timers_nist"}
    /\ pc \in {"recv", "sip"} => \A t \in Made : Rest(tr[t])
    /\ pc = "sip" => rx \in Messages
    /\ IF pc = "add_event"
       THEN /\ incoming \in Made /\ tr[incoming].fifo = <<>> /\ tr[incoming].state \in PreStates
            /\ \A t \in Made \ {incoming} : Rest(tr[t])
       ELSE incoming = 0
    /\ \A k \in Kinds : pc # ExecPc[k] => array[k] = {}
    /\ pc = "ist" => \A t \in Made : tr[t].ctx_type = "IST" => Done(tr[t]) \/ t \in array["IST"]
    /\ pc \in {"nist_begin", "nist", "timers_ist", "timers_nist"} =>
          \A t \in Made : tr[t].ctx_type = "IST" => Done(tr[t])
    /\ pc = "nist" => \A t \in Made : tr[t].ctx_type = "NIST" => Done(tr[t]) \/ t \in array["NIST"]
    /\ pc \in {"timers_ist", "timers_nist"} => \A t \in Made : Done(tr[t])
    /\ pc # "nist" => \A t \in Made : tr[t].state = "NIST_TERMINATED" => tr[t].fifo = <<>>
    /\ \A t \in Made \ {incoming} : tr[t].state \in PreStates /\ tr[t].fifo = <<>> => Stray(tr[t].req)

\* What has arrived of m and is no longer with SipProcess.
Handled(m) == arrived[m] - (IF pc = "sip" /\ rx = m THEN 1 ELSE 0)
Ended(m) == Of(m) \ lists
Owed(m) == {t \in Of(m) \cap lists : ~Rest(tr[t])}
Total(m) == Cardinality(Answers(m)) + Cardinality(Ended(m)) + Cardinality(Owed(m))

Counted ==
    \A m \in Messages :
        /\ Answerable(m) => IsFiniteSet(Answers(m)) /\ Total(m) >= Handled(m)
        /\ Mute(m) => Cardinality(Of(m)) = Min2(Handled(m), 1)
        /\ Stray(m) => Cardinality(Of(m)) = Handled(m)

UasInv == Kept /\ Phases /\ Counted

\* What the record thread may still send.
FrameInv == ~gRtpSessionActive => /\ sinceBye \in {0, 1}
                                  /\ recPc # "check" => sinceBye = 0

-----------------------------------------------------------------------------
(* Short queues *)

LEMMA AppendEvent ==
  ASSUME NEW s \in Seq(Events), NEW e \in Events
  PROVE  /\ Append(s, e) \in Seq(Events) /\ Len(Append(s, e)) = Len(s) + 1
         /\ Append(s, e)[Len(s) + 1] = e
         /\ \A i \in 1 .. Len(s) : Append(s, e)[i] = s[i]
  OBVIOUS

LEMMA ShortQueues ==
  ASSUME NEW a \in Events, NEW b \in Events
  PROVE  /\ Head(<<a>>) = a /\ Tail(<<a>>) = <<>> /\ <<a>> # <<>>
         /\ Head(<<a, b>>) = a /\ Tail(<<a, b>>) = <<b>> /\ <<a, b>> # <<>>
         /\ Append(<<>>, a) = <<a>> /\ Append(<<a>>, b) = <<a, b>>
         /\ <<a>> # <<a, b>>
<1>1. Tail(<<a>>) = <<>>
  OBVIOUS
<1>2. Tail(<<a, b>>) = <<b>>
  OBVIOUS
<1>3. Append(<<>>, a) = <<a>>
  OBVIOUS
<1>4. Append(<<a>>, b) = <<a, b>>
  <2> DEFINE s == <<a>>
             q == <<a, b>>
  <2>1. /\ s \in Seq(Events) /\ Len(s) = 1 /\ s[1] = a
        /\ q \in Seq(Events) /\ Len(q) = 2 /\ q[1] = a /\ q[2] = b
    OBVIOUS
  <2> HIDE DEF s, q
  <2>2. /\ Append(s, b) \in Seq(Events) /\ Len(Append(s, b)) = Len(s) + 1
        /\ Append(s, b)[Len(s) + 1] = b
        /\ \A i \in 1 .. Len(s) : Append(s, b)[i] = s[i]
    BY <2>1, AppendEvent
  <2>3. \A i \in 1 .. Len(q) : Append(s, b)[i] = q[i]
    BY <2>1, <2>2
  <2>4. Append(s, b) = q
    BY <2>1, <2>2, <2>3, SeqEqual
  <2> QED
    BY <2>4 DEF s, q
<1>5. Head(<<a>>) = a /\ Head(<<a, b>>) = a /\ <<a>> # <<>> /\ <<a, b>> # <<>> /\ <<a>> # <<a, b>>
  OBVIOUS
<1> QED
  BY <1>1, <1>2, <1>3, <1>4, <1>5

LEMMA NothingBefore ==
  ASSUME NEW s \in Seq(Events)
  PROVE  <<>> \o s = s
  OBVIOUS

LEMMA Kinds3 ==
  ASSUME NEW m \in Messages
  PROVE  /\ EventType(m) \in Received
         /\ (EventType(m) = "RCV_REQINVITE") <=> (m.kind = "request" /\ m.method = "INVITE")
         /\ (EventType(m) = "RCV_REQUEST") <=> (m.kind = "request" /\ m.method \notin {"INVITE", "ACK"})
         /\ EventType(m) = "RCV_REQINVITE" \/ Answerable(m) \/ Mute(m) \/ Stray(m)
<1>1. m.kind \in {"request", "response"}
  BY OsipAssumption
<1>2. CASE m.kind = "response"
  BY <1>2 DEF EventType, Received, Stray
<1>3. CASE m.kind = "request" /\ m.method = "INVITE"
  BY <1>3 DEF EventType, Received
<1>4. CASE m.kind = "request" /\ m.method = "ACK"
  BY <1>4 DEF EventType, Received, Stray
<1>5. CASE m.kind = "request" /\ m.method \notin {"INVITE", "ACK"}
  BY <1>5 DEF EventType, Received, Answerable, Mute
<1>6. \/ m.kind = "response"
      \/ m.kind = "request" /\ m.method = "INVITE"
      \/ m.kind = "request" /\ m.method = "ACK"
      \/ m.kind = "request" /\ m.method \notin {"INVITE", "ACK"}
  BY <1>1
<1> QED
  BY <1>2, <1>3, <1>4, <1>5, <1>6

-----------------------------------------------------------------------------
(* What a handler makes of the record of its transaction *)

Turned(t, state, fifo, wire) ==
    /\ tr' \in [Ids -> Transaction]
    /\ \A u \in Ids \ {t} : tr'[u] = tr[u]
    /\ tr'[t].req = tr[t].req /\ tr'[t].ctx_type = tr[t].ctx_type
    /\ tr'[t].state = state /\ tr'[t].fifo = fifo /\ tr'[t].wire = wire

LEMMA QueueTypes ==
  ASSUME tr \in [Ids -> Transaction], NEW t \in Ids, tr[t].fifo # <<>>
  PROVE  /\ Tail(tr[t].fifo) \in Seq(Events) /\ Head(tr[t].fifo) \in Events
         /\ tr[t] \in Transaction /\ tr[t].fifo \in Seq(Events)
  BY DEF Transaction

LEMMA AnnounceTurns ==
  ASSUME tr \in [Ids -> Transaction], NEW t \in Ids, tr[t].fifo # <<>>,
         NEW answers \in Seq(Responses), NEW next \in States, Announce(t, next, answers)
  PROVE  /\ Turned(t, next, Tail(tr[t].fifo) \o answers, tr[t].wire)
         /\ lists' = lists
<1> DEFINE f == Tail(tr[t].fifo) \o answers
           r == [tr[t] EXCEPT !.fifo = f, !.state = next]
<1>1. f \in Seq(Events)
  <2>1. Tail(tr[t].fifo) \in Seq(Events) /\ answers \in Seq(Events)
    BY QueueTypes, Distinct
  <2> QED
    BY <2>1
<1>2. tr' = [tr EXCEPT ![t] = r] /\ lists' = lists
  BY DEF Announce
<1> HIDE DEF f
<1>3. r \in Transaction /\ r.req = tr[t].req /\ r.ctx_type = tr[t].ctx_type
      /\ r.state = next /\ r.fifo = f /\ r.wire = tr[t].wire
  BY <1>1 DEF Transaction
<1> HIDE DEF r
<1> QED
  BY <1>2, <1>3 DEF Turned, f

LEMMA AnswerTurns ==
  ASSUME tr \in [Ids -> Transaction], NEW t \in Ids, tr[t].fifo # <<>>,
         Head(tr[t].fifo) \in Responses, NEW next \in States,
         NEW started \in SUBSET Timeouts, Answer(t, next, started)
  PROVE  /\ Turned(t, next, Tail(tr[t].fifo), Append(tr[t].wire, Head(tr[t].fifo)))
         /\ tr'[t].last_response = Head(tr[t].fifo)
         /\ lists' = IF next \in Terminated THEN lists \ {t} ELSE lists
<1> DEFINE f == Tail(tr[t].fifo)
           h == Head(tr[t].fifo)
           w == Append(tr[t].wire, h)
           r == [tr[t] EXCEPT !.fifo = f, !.last_response = h, !.wire = w, !.state = next,
                              !.timers = @ \cup started]
<1>1. f \in Seq(Events) /\ h \in Responses /\ w \in Seq(Responses)
  <2>1. tr[t].wire \in Seq(Responses)
    BY DEF Transaction
  <2> QED
    BY <2>1, QueueTypes
<1>2. /\ tr' = [tr EXCEPT ![t] = r]
      /\ lists' = IF next \in Terminated THEN lists \ {t} ELSE lists
  BY UasAssumption DEF Answer, transport_error
<1> HIDE DEF f, h, w
<1>3. r \in Transaction /\ r.req = tr[t].req /\ r.ctx_type = tr[t].ctx_type
      /\ r.state = next /\ r.fifo = f /\ r.wire = w /\ r.last_response = h
  BY <1>1 DEF Transaction
<1> HIDE DEF r
<1> QED
  BY <1>2, <1>3 DEF Turned, f, h, w

LEMMA ResendTurns ==
  ASSUME tr \in [Ids -> Transaction], NEW t \in Ids, tr[t].fifo # <<>>,
         tr[t].last_response # None, Resend(t, tr[t].g_length)
  PROVE  /\ Turned(t, tr[t].state, Tail(tr[t].fifo), Append(tr[t].wire, tr[t].last_response))
         /\ tr'[t].last_response = tr[t].last_response
         /\ lists' = lists
<1> DEFINE f == Tail(tr[t].fifo)
           h == tr[t].last_response
           w == Append(tr[t].wire, h)
           r == [tr[t] EXCEPT !.fifo = f, !.wire = w, !.g_length = tr[t].g_length]
<1>1. f \in Seq(Events) /\ h \in Responses /\ w \in Seq(Responses)
  <2>1. tr[t].wire \in Seq(Responses) /\ h \in Responses
    BY DEF Transaction
  <2> QED
    BY <2>1, QueueTypes
<1>2. /\ tr' = [tr EXCEPT ![t] = r]
      /\ lists' = lists
  BY UasAssumption DEF Resend, transport_error
<1> HIDE DEF f, w
<1>3. r \in Transaction /\ r.req = tr[t].req /\ r.ctx_type = tr[t].ctx_type
      /\ r.state = tr[t].state /\ r.fifo = f /\ r.wire = w /\ r.last_response = h
  BY <1>1 DEF Transaction
<1> HIDE DEF r, h
<1> QED
  BY <1>2, <1>3 DEF Turned, f, h, w

LEMMA ExpireTurns ==
  ASSUME tr \in [Ids -> Transaction], NEW t \in Ids, tr[t].fifo # <<>>,
         NEW e, NEW next \in States, Expire(t, e, next)
  PROVE  /\ Turned(t, next, Tail(tr[t].fifo), tr[t].wire)
         /\ lists' = lists \ {t}
<1> DEFINE f == Tail(tr[t].fifo)
           r == [tr[t] EXCEPT !.fifo = f, !.state = next, !.timers = @ \ {e}]
<1>1. f \in Seq(Events)
  BY QueueTypes
<1>2. tr' = [tr EXCEPT ![t] = r] /\ lists' = lists \ {t}
  BY DEF Expire
<1> HIDE DEF f
<1>3. r \in Transaction /\ r.req = tr[t].req /\ r.ctx_type = tr[t].ctx_type
      /\ r.state = next /\ r.fifo = f /\ r.wire = tr[t].wire
  BY <1>1 DEF Transaction
<1> HIDE DEF r
<1> QED
  BY <1>2, <1>3 DEF Turned, f

LEMMA UselessTurns ==
  ASSUME tr \in [Ids -> Transaction], NEW t \in Ids, UselessEvent(t)
  PROVE  /\ Turned(t, tr[t].state, Tail(tr[t].fifo), tr[t].wire)
         /\ tr'[t].last_response = tr[t].last_response
         /\ lists' = lists
<1> DEFINE f == Tail(tr[t].fifo)
           r == [tr[t] EXCEPT !.fifo = f]
<1>1. f \in Seq(Events)
  BY QueueTypes DEF UselessEvent
<1>2. tr' = [tr EXCEPT ![t] = r] /\ lists' = lists
  BY DEF UselessEvent
<1> HIDE DEF f
<1>3. r \in Transaction /\ r.req = tr[t].req /\ r.ctx_type = tr[t].ctx_type
      /\ r.state = tr[t].state /\ r.fifo = f /\ r.wire = tr[t].wire
      /\ r.last_response = tr[t].last_response
  BY <1>1 DEF Transaction
<1> HIDE DEF r
<1> QED
  BY <1>2, <1>3 DEF Turned, f

\* The handler of an event, for the states and events that are met here.
LEMMA OneHandler ==
  ASSUME NEW t, NEW answers, osip_transaction_execute(t, answers),
         NEW s, s = tr[t].state, NEW h, h = Head(tr[t].fifo)
  PROVE  /\ s = "IST_PRE_PROCEEDING" /\ h = "RCV_REQINVITE" => Announce(t, "IST_PROCEEDING", answers)
         /\ s = "IST_PROCEEDING" /\ h = One => Answer(t, "IST_PROCEEDING", {})
         /\ s = "IST_PROCEEDING" /\ h = Two => Answer(t, "IST_TERMINATED", {})
         /\ s = "NIST_PRE_TRYING" /\ h = "RCV_REQUEST" => Announce(t, "NIST_TRYING", answers)
         /\ s = "NIST_TRYING" /\ h = Two => Answer(t, "NIST_COMPLETED", {"TIMEOUT_J"})
         /\ s = "NIST_COMPLETED" /\ h = "RCV_REQUEST" => Resend(t, tr[t].g_length)
         /\ s = "NIST_COMPLETED" /\ h = "TIMEOUT_J" => Expire(t, "TIMEOUT_J", "NIST_TERMINATED")
         /\ s = "NIST_TRYING" /\ h = "RCV_REQUEST" => UselessEvent(t)
         /\ s = "NIST_TERMINATED" => UselessEvent(t)
         /\ s = "NIST_PRE_TRYING" /\ h \in {"RCV_REQACK", "RCV_STATUS"} => UselessEvent(t)
<1> DEFINE Handled1 == \/ ist_rcv_invite(t, answers) \/ ist_snd_1xx(t) \/ ist_snd_2xx(t)
                       \/ ist_snd_3456xx(t) \/ ist_rcv_ack(t, answers)
                       \/ osip_ist_timeout_g_event(t) \/ osip_ist_timeout_h_event(t)
                       \/ osip_ist_timeout_i_event(t) \/ nist_rcv_request(t, answers)
                       \/ nist_snd_1xx(t) \/ nist_snd_23456xx(t) \/ osip_nist_timeout_j_event(t)
<1>1. Handled1 \/ UselessEvent(t)
  BY DEF osip_transaction_execute
<1>2. UselessEvent(t) => <<s, h>> \notin transitions
  BY DEF UselessEvent
<1>3. s = "IST_PRE_PROCEEDING" /\ h = "RCV_REQINVITE" => Announce(t, "IST_PROCEEDING", answers)
  BY <1>1, <1>2 DEF transitions, ist_rcv_invite, ist_snd_1xx, ist_snd_2xx, ist_snd_3456xx,
     ist_rcv_ack, osip_ist_timeout_g_event, osip_ist_timeout_h_event, osip_ist_timeout_i_event,
     nist_rcv_request, nist_snd_1xx, nist_snd_23456xx, osip_nist_timeout_j_event, On, Final
<1>4. s = "IST_PROCEEDING" /\ h = One => Answer(t, "IST_PROCEEDING", {})
  BY <1>1, <1>2 DEF transitions, ist_rcv_invite, ist_snd_1xx, ist_snd_2xx, ist_snd_3456xx,
     ist_rcv_ack, osip_ist_timeout_g_event, osip_ist_timeout_h_event, osip_ist_timeout_i_event,
     nist_rcv_request, nist_snd_1xx, nist_snd_23456xx, osip_nist_timeout_j_event, On, Final,
     One, Responses
<1>5. s = "IST_PROCEEDING" /\ h = Two => Answer(t, "IST_TERMINATED", {})
  BY <1>1, <1>2 DEF transitions, ist_rcv_invite, ist_snd_1xx, ist_snd_2xx, ist_snd_3456xx,
     ist_rcv_ack, osip_ist_timeout_g_event, osip_ist_timeout_h_event, osip_ist_timeout_i_event,
     nist_rcv_request, nist_snd_1xx, nist_snd_23456xx, osip_nist_timeout_j_event, On, Final,
     Two, Responses
<1>6. s = "NIST_PRE_TRYING" /\ h = "RCV_REQUEST" => Announce(t, "NIST_TRYING", answers)
  BY <1>1, <1>2 DEF transitions, ist_rcv_invite, ist_snd_1xx, ist_snd_2xx, ist_snd_3456xx,
     ist_rcv_ack, osip_ist_timeout_g_event, osip_ist_timeout_h_event, osip_ist_timeout_i_event,
     nist_rcv_request, nist_snd_1xx, nist_snd_23456xx, osip_nist_timeout_j_event, On, Final
<1>7. s = "NIST_TRYING" /\ h = Two => Answer(t, "NIST_COMPLETED", {"TIMEOUT_J"})
  BY <1>1, <1>2 DEF transitions, ist_rcv_invite, ist_snd_1xx, ist_snd_2xx, ist_snd_3456xx,
     ist_rcv_ack, osip_ist_timeout_g_event, osip_ist_timeout_h_event, osip_ist_timeout_i_event,
     nist_rcv_request, nist_snd_1xx, nist_snd_23456xx, osip_nist_timeout_j_event, On, Final,
     Two, Responses
<1>8. s = "NIST_COMPLETED" /\ h = "RCV_REQUEST" => Resend(t, tr[t].g_length)
  BY <1>1, <1>2 DEF transitions, ist_rcv_invite, ist_snd_1xx, ist_snd_2xx, ist_snd_3456xx,
     ist_rcv_ack, osip_ist_timeout_g_event, osip_ist_timeout_h_event, osip_ist_timeout_i_event,
     nist_rcv_request, nist_snd_1xx, nist_snd_23456xx, osip_nist_timeout_j_event, On, Final
<1>9. s = "NIST_COMPLETED" /\ h = "TIMEOUT_J" => Expire(t, "TIMEOUT_J", "NIST_TERMINATED")
  BY <1>1, <1>2 DEF transitions, ist_rcv_invite, ist_snd_1xx, ist_snd_2xx, ist_snd_3456xx,
     ist_rcv_ack, osip_ist_timeout_g_event, osip_ist_timeout_h_event, osip_ist_timeout_i_event,
     nist_rcv_request, nist_snd_1xx, nist_snd_23456xx, osip_nist_timeout_j_event, On, Final
<1>10. /\ s = "NIST_TRYING" /\ h = "RCV_REQUEST" => UselessEvent(t)
       /\ s = "NIST_TERMINATED" => UselessEvent(t)
       /\ s = "NIST_PRE_TRYING" /\ h \in {"RCV_REQACK", "RCV_STATUS"} => UselessEvent(t)
  BY <1>1 DEF ist_rcv_invite, ist_snd_1xx, ist_snd_2xx, ist_snd_3456xx,
     ist_rcv_ack, osip_ist_timeout_g_event, osip_ist_timeout_h_event, osip_ist_timeout_i_event,
     nist_rcv_request, nist_snd_1xx, nist_snd_23456xx, osip_nist_timeout_j_event, On, Final
<1> QED
  BY <1>3, <1>4, <1>5, <1>6, <1>7, <1>8, <1>9, <1>10

\* What an event does to a transaction that calls for an answer.
AnswerEffect(t) ==
    \/ /\ \E r \in Responses : tr'[t].wire = Append(tr[t].wire, r)
       /\ tr'[t].state \notin Terminated
    \/ tr'[t].wire = tr[t].wire /\ tr'[t].state \notin Terminated /\ ~Rest(tr'[t])
    \/ tr'[t].wire = tr[t].wire /\ tr'[t].state \in Terminated

Effect(t) ==
    /\ tr' \in [Ids -> Transaction]
    /\ \A u \in Ids \ {t} : tr'[u] = tr[u]
    /\ tr'[t].req = tr[t].req /\ tr'[t].ctx_type = tr[t].ctx_type
    /\ Shaped(tr'[t])
    /\ lists' = IF tr'[t].state \in Terminated THEN lists \ {t} ELSE lists
    /\ tr'[t].state \in PreStates => Stray(tr[t].req)
    /\ Answerable(tr[t].req) => AnswerEffect(t)

LEMMA EventSorts == /\ One \in Responses /\ Two \in Responses /\ One \in Events /\ Two \in Events
                    /\ Responses \subseteq Events /\ Received \subseteq Events
                    /\ "TIMEOUT_J" \in Events /\ "RCV_REQUEST" \in Events
                    /\ "RCV_REQINVITE" \in Events /\ "RCV_REQACK" \in Events
                    /\ "RCV_STATUS" \in Events /\ Two # None
                    /\ <<One, Two>> \in Seq(Responses) /\ <<Two>> \in Seq(Responses)
                    /\ <<>> \in Seq(Responses)
<1>1. One \in Responses /\ Two \in Responses
  BY DEF One, Two, Responses, Final
<1>2. <<One, Two>> \in Seq(Responses) /\ <<Two>> \in Seq(Responses) /\ <<>> \in Seq(Responses)
  BY <1>1
<1>3. Responses \subseteq Events /\ Received \subseteq Events /\ "TIMEOUT_J" \in Events
  BY Distinct DEF Events, Timeouts
<1>4. /\ "RCV_REQUEST" \in Received /\ "RCV_REQINVITE" \in Received /\ "RCV_REQACK" \in Received
      /\ "RCV_STATUS" \in Received
  BY DEF Received
<1>5. Two # None
  BY <1>1, UasAssumption
<1> QED
  BY <1>1, <1>2, <1>3, <1>4, <1>5

LEMMA InviteEffect ==
  ASSUME tr \in [Ids -> Transaction], NEW t \in Ids, tr[t].req \in Messages,
         EventType(tr[t].req) = "RCV_REQINVITE", Shaped(tr[t]), tr[t].fifo # <<>>,
         osip_transaction_execute(t, CbAnswers(t))
  PROVE  Effect(t)
<1> DEFINE s == tr[t].state
           f == tr[t].fifo
           h == Head(f)
           a == CbAnswers(t)
<1>1. InviteShape(tr[t]) /\ tr[t].ctx_type = "IST"
  BY DEF Shaped
<1>2. ~Answerable(tr[t].req) /\ ~Mute(tr[t].req) /\ ~Stray(tr[t].req)
  BY DEF Answerable, Mute, Stray
<1>3. SUFFICES /\ tr' \in [Ids -> Transaction]
               /\ \A u \in Ids \ {t} : tr'[u] = tr[u]
               /\ tr'[t].req = tr[t].req /\ tr'[t].ctx_type = tr[t].ctx_type
               /\ InviteShape(tr'[t]) /\ tr'[t].state \notin PreStates
               /\ lists' = IF tr'[t].state \in Terminated THEN lists \ {t} ELSE lists
  BY <1>1, <1>2 DEF Effect, Shaped
<1>4. CASE s = "IST_PRE_PROCEEDING" /\ f = <<"RCV_REQINVITE">> /\ tr[t].wire = <<>>
  <2>1. h = "RCV_REQINVITE" /\ Tail(f) = <<>>
    BY <1>4, ShortQueues, EventSorts
  <2>2. a = <<One, Two>>
    <3>1. tr[t].req.method = "INVITE"
      BY Kinds3
    <3> QED
      BY <2>1, <3>1 DEF CbAnswers, One, Two
  <2>3. Announce(t, "IST_PROCEEDING", a)
    BY <1>4, <2>1, OneHandler
  <2>4. "IST_PROCEEDING" \in States /\ a \in Seq(Responses)
    BY <2>2, EventSorts DEF States
  <2>5. Turned(t, "IST_PROCEEDING", Tail(f) \o a, tr[t].wire) /\ lists' = lists
    BY <2>3, <2>4, AnnounceTurns
  <2>6. Tail(f) \o a = <<One, Two>>
    <3>1. <<One, Two>> \in Seq(Events)
      BY EventSorts
    <3> QED
      BY <2>1, <2>2, <3>1, NothingBefore
  <2> QED
    BY <1>4, <2>5, <2>6 DEF Turned, InviteShape, PreStates, Terminated
<1>5. CASE s = "IST_PROCEEDING" /\ f = <<One, Two>> /\ tr[t].wire = <<>>
  <2>1. h = One /\ Tail(f) = <<Two>>
    BY <1>5, ShortQueues, EventSorts
  <2>2. Answer(t, "IST_PROCEEDING", {})
    BY <1>5, <2>1, OneHandler
  <2>3. "IST_PROCEEDING" \in States \ Terminated /\ {} \in SUBSET Timeouts /\ h \in Responses
    BY <2>1, EventSorts DEF States, Terminated
  <2>4. Turned(t, "IST_PROCEEDING", Tail(f), Append(tr[t].wire, h)) /\ lists' = lists
    BY <2>2, <2>3, AnswerTurns
  <2>5. Append(tr[t].wire, h) = <<One>>
    BY <1>5, <2>1, ShortQueues, EventSorts
  <2> QED
    BY <2>1, <2>4, <2>5 DEF Turned, InviteShape, PreStates, Terminated
<1>6. CASE s = "IST_PROCEEDING" /\ f = <<Two>> /\ tr[t].wire = <<One>>
  <2>1. h = Two /\ Tail(f) = <<>>
    BY <1>6, ShortQueues, EventSorts
  <2>2. Answer(t, "IST_TERMINATED", {})
    BY <1>6, <2>1, OneHandler
  <2>3. "IST_TERMINATED" \in States \cap Terminated /\ {} \in SUBSET Timeouts /\ h \in Responses
    BY <2>1, EventSorts DEF States, Terminated
  <2>4. Turned(t, "IST_TERMINATED", Tail(f), Append(tr[t].wire, h)) /\ lists' = lists \ {t}
    BY <2>2, <2>3, AnswerTurns
  <2>5. Append(tr[t].wire, h) = <<One, Two>>
    BY <1>6, <2>1, ShortQueues, EventSorts
  <2> QED
    BY <2>1, <2>4, <2>5 DEF Turned, InviteShape, PreStates, Terminated
<1> QED
  BY <1>1, <1>4, <1>5, <1>6 DEF InviteShape

LEMMA AnswerableEffect ==
  ASSUME tr \in [Ids -> Transaction], NEW t \in Ids, tr[t].req \in Messages,
         Answerable(tr[t].req), Shaped(tr[t]), tr[t].fifo # <<>>,
         tr[t].state \in Terminated => t \notin lists,
         osip_transaction_execute(t, CbAnswers(t))
  PROVE  Effect(t)
<1> DEFINE s == tr[t].state
           f == tr[t].fifo
           h == Head(f)
           a == CbAnswers(t)
<1>1. AnswerShape(tr[t]) /\ tr[t].ctx_type = "NIST"
  BY DEF Shaped, Answerable
<1>2. EventType(tr[t].req) = "RCV_REQUEST" /\ ~Mute(tr[t].req) /\ ~Stray(tr[t].req)
  BY DEF Answerable, Mute, Stray
<1>3. SUFFICES /\ tr' \in [Ids -> Transaction]
               /\ \A u \in Ids \ {t} : tr'[u] = tr[u]
               /\ tr'[t].req = tr[t].req /\ tr'[t].ctx_type = tr[t].ctx_type
               /\ AnswerShape(tr'[t]) /\ tr'[t].state \notin PreStates
               /\ lists' = IF tr'[t].state \in Terminated THEN lists \ {t} ELSE lists
               /\ AnswerEffect(t)
  BY <1>1, <1>2 DEF Effect, Shaped
<1>4. CASE s = "NIST_PRE_TRYING" /\ f = <<"RCV_REQUEST">>
  <2>1. h = "RCV_REQUEST" /\ Tail(f) = <<>>
    BY <1>4, ShortQueues, EventSorts
  <2>2. a = <<Two>>
    <3>1. tr[t].req.method \in {"BYE", "CANCEL"}
      BY DEF Answerable
    <3> QED
      BY <2>1, <3>1 DEF CbAnswers, Two
  <2>3. Announce(t, "NIST_TRYING", a)
    BY <1>4, <2>1, OneHandler
  <2>4. "NIST_TRYING" \in States /\ a \in Seq(Responses)
    BY <2>2, EventSorts DEF States
  <2>5. Turned(t, "NIST_TRYING", Tail(f) \o a, tr[t].wire) /\ lists' = lists
    BY <2>3, <2>4, AnnounceTurns
  <2>6. Tail(f) \o a = <<Two>>
    <3>1. <<Two>> \in Seq(Events)
      BY EventSorts
    <3> QED
      BY <2>1, <2>2, <3>1, NothingBefore
  <2>7. ~Rest(tr'[t])
    <3>1. <<Two>> # <<>> /\ <<Two>> # <<"TIMEOUT_J">>
      BY DEF Two
    <3> QED
      BY <2>5, <2>6, <3>1 DEF Turned, Rest
  <2> QED
    BY <2>5, <2>6, <2>7 DEF Turned, AnswerShape, AnswerEffect, PreStates, Terminated
<1>5. CASE s = "NIST_TRYING" /\ f = <<Two>>
  <2>1. h = Two /\ Tail(f) = <<>>
    BY <1>5, ShortQueues, EventSorts
  <2>2. Answer(t, "NIST_COMPLETED", {"TIMEOUT_J"})
    BY <1>5, <2>1, OneHandler
  <2>3. /\ "NIST_COMPLETED" \in States \ Terminated /\ {"TIMEOUT_J"} \in SUBSET Timeouts
        /\ h \in Responses /\ h # None
    BY <2>1, EventSorts DEF States, Terminated, Timeouts
  <2>4. /\ Turned(t, "NIST_COMPLETED", Tail(f), Append(tr[t].wire, h)) /\ lists' = lists
        /\ tr'[t].last_response = h
    BY <2>2, <2>3, AnswerTurns
  <2> QED
    BY <2>1, <2>3, <2>4 DEF Turned, AnswerShape, AnswerEffect, PreStates, Terminated
<1>6. CASE s = "NIST_COMPLETED" /\ tr[t].last_response # None /\ f = <<"RCV_REQUEST">>
  <2>1. h = "RCV_REQUEST" /\ Tail(f) = <<>> /\ tr[t].last_response \in Responses
    BY <1>6, ShortQueues, EventSorts DEF Transaction
  <2>2. Resend(t, tr[t].g_length)
    BY <1>6, <2>1, OneHandler
  <2>3. /\ Turned(t, s, Tail(f), Append(tr[t].wire, tr[t].last_response)) /\ lists' = lists
        /\ tr'[t].last_response = tr[t].last_response
    BY <1>6, <2>2, ResendTurns
  <2> QED
    BY <1>6, <2>1, <2>3 DEF Turned, AnswerShape, AnswerEffect, PreStates, Terminated
<1>7. CASE s = "NIST_COMPLETED" /\ f \in {<<"TIMEOUT_J">>, <<"TIMEOUT_J", "RCV_REQUEST">>}
  <2>1. h = "TIMEOUT_J" /\ Tail(f) \in {<<>>, <<"RCV_REQUEST">>}
    <3>1. CASE f = <<"TIMEOUT_J">>
      BY <3>1, ShortQueues, EventSorts
    <3>2. CASE f = <<"TIMEOUT_J", "RCV_REQUEST">>
      BY <3>2, ShortQueues, EventSorts
    <3> QED
      BY <1>7, <3>1, <3>2
  <2>2. Expire(t, "TIMEOUT_J", "NIST_TERMINATED")
    BY <1>7, <2>1, OneHandler
  <2>3. "NIST_TERMINATED" \in States \cap Terminated
    BY DEF States, Terminated
  <2>4. Turned(t, "NIST_TERMINATED", Tail(f), tr[t].wire) /\ lists' = lists \ {t}
    BY <2>2, <2>3, ExpireTurns
  <2> QED
    BY <2>1, <2>3, <2>4 DEF Turned, AnswerShape, AnswerEffect, PreStates, Terminated
<1>8. CASE s = "NIST_TERMINATED" /\ f = <<"RCV_REQUEST">>
  <2>1. h = "RCV_REQUEST" /\ Tail(f) = <<>>
    BY <1>8, ShortQueues, EventSorts
  <2>2. UselessEvent(t)
    BY <1>8, <2>1, OneHandler
  <2>3. Turned(t, s, Tail(f), tr[t].wire) /\ lists' = lists
    BY <2>2, UselessTurns
  <2>4. s \in Terminated /\ s \notin PreStates /\ lists' = lists \ {t}
    BY <1>8, <2>3 DEF Terminated, PreStates
  <2> QED
    BY <1>8, <2>1, <2>3, <2>4 DEF Turned, AnswerShape, AnswerEffect
<1> QED
  BY <1>1, <1>4, <1>5, <1>6, <1>7, <1>8 DEF AnswerShape

LEMMA SilentEffect ==
  ASSUME tr \in [Ids -> Transaction], NEW t \in Ids, tr[t].req \in Messages,
         Mute(tr[t].req) \/ Stray(tr[t].req), Shaped(tr[t]), tr[t].fifo # <<>>,
         osip_transaction_execute(t, CbAnswers(t))
  PROVE  Effect(t)
<1> DEFINE s == tr[t].state
           f == tr[t].fifo
           h == Head(f)
           a == CbAnswers(t)
<1>1. tr[t].ctx_type = "NIST" /\ EventType(tr[t].req) # "RCV_REQINVITE" /\ ~Answerable(tr[t].req)
  BY DEF Shaped, Answerable, Mute, Stray
<1>2. CASE Mute(tr[t].req)
  <2>1. MuteShape(tr[t]) /\ ~Stray(tr[t].req)
    BY <1>2 DEF Shaped, Mute, Stray
  <2>2. SUFFICES /\ tr' \in [Ids -> Transaction]
                 /\ \A u \in Ids \ {t} : tr'[u] = tr[u]
                 /\ tr'[t].req = tr[t].req /\ tr'[t].ctx_type = tr[t].ctx_type
                 /\ tr'[t].state = "NIST_TRYING" /\ tr'[t].fifo = <<>>
                 /\ lists' = lists
    BY <1>1, <2>1 DEF Effect, Shaped, MuteShape, PreStates, Terminated
  <2>3. h = "RCV_REQUEST" /\ Tail(f) = <<>> /\ s \in {"NIST_PRE_TRYING", "NIST_TRYING"}
    BY <2>1, ShortQueues, EventSorts DEF MuteShape
  <2>4. CASE s = "NIST_PRE_TRYING"
    <3>1. a = <<>>
      BY <1>2, <2>3 DEF CbAnswers, Mute
    <3>2. Announce(t, "NIST_TRYING", a)
      BY <2>3, <2>4, OneHandler
    <3>3. "NIST_TRYING" \in States /\ a \in Seq(Responses)
      BY <3>1, EventSorts DEF States
    <3>4. Turned(t, "NIST_TRYING", Tail(f) \o a, tr[t].wire) /\ lists' = lists
      BY <3>2, <3>3, AnnounceTurns
    <3>5. Tail(f) \o a = <<>>
      BY <2>3, <3>1
    <3> QED
      BY <3>4, <3>5 DEF Turned
  <2>5. CASE s = "NIST_TRYING"
    <3>1. UselessEvent(t)
      BY <2>3, <2>5, OneHandler
    <3>2. Turned(t, s, Tail(f), tr[t].wire) /\ lists' = lists
      BY <3>1, UselessTurns
    <3> QED
      BY <2>3, <2>5, <3>2 DEF Turned
  <2> QED
    BY <2>3, <2>4, <2>5
<1>3. CASE Stray(tr[t].req)
  <2>1. StrayShape(tr[t]) /\ ~Mute(tr[t].req)
    BY <1>3 DEF Shaped, Mute, Stray
  <2>2. /\ s = "NIST_PRE_TRYING" /\ h \in {"RCV_REQACK", "RCV_STATUS"} /\ Tail(f) = <<>>
    <3>1. f = <<EventType(tr[t].req)>> /\ EventType(tr[t].req) \in Events
      BY <1>3, <2>1, EventSorts DEF StrayShape, Stray
    <3> QED
      BY <1>3, <2>1, <3>1, ShortQueues DEF StrayShape, Stray
  <2>3. UselessEvent(t)
    BY <2>2, OneHandler
  <2>4. Turned(t, s, Tail(f), tr[t].wire) /\ lists' = lists
    BY <2>3, UselessTurns
  <2> QED
    BY <1>1, <1>3, <2>1, <2>2, <2>4 DEF Turned, Effect, Shaped, StrayShape, PreStates, Terminated
<1> QED
  BY <1>2, <1>3

LEMMA ExecuteEffect ==
  ASSUME tr \in [Ids -> Transaction], NEW t \in Ids, tr[t].req \in Messages,
         Shaped(tr[t]), tr[t].fifo # <<>>, tr[t].state \in Terminated => t \notin lists,
         osip_transaction_execute(t, CbAnswers(t))
  PROVE  Effect(t)
<1>1. \/ EventType(tr[t].req) = "RCV_REQINVITE" \/ Answerable(tr[t].req)
      \/ Mute(tr[t].req) \/ Stray(tr[t].req)
  BY Kinds3
<1> QED
  BY <1>1, InviteEffect, AnswerableEffect, SilentEffect

-----------------------------------------------------------------------------
(* Counting *)

LEMMA KeptFacts ==
  ASSUME Kept
  PROVE  /\ transactionid \in Nat /\ Made \subseteq Ids /\ lists \subseteq Made
         /\ transactionid \notin Made /\ IsFiniteSet(Ids) /\ MaxTransactions \in Nat
         /\ \A m \in Messages : /\ Of(m) \subseteq Made
                                /\ IsFiniteSet(Of(m)) /\ Cardinality(Of(m)) \in Nat
<1>1. transactionid \in Nat /\ Made \subseteq Ids /\ lists \subseteq Made /\ transactionid \notin Made
  BY OsipAssumption DEF Kept, Made, Ids
<1>2. MaxTransactions \in Nat /\ IsFiniteSet(Ids)
  BY OsipAssumption, FS_Interval DEF Ids
<1>3. ASSUME NEW m \in Messages
      PROVE  Of(m) \subseteq Made /\ IsFiniteSet(Of(m)) /\ Cardinality(Of(m)) \in Nat
  <2>1. Of(m) \subseteq Made
    BY OsipAssumption DEF Kept, Of, NoTransaction
  <2>2. Of(m) \in SUBSET Ids
    BY DEF Of
  <2> QED
    BY <1>2, <2>1, <2>2, FS_Subset, FS_CardinalityType
<1> QED
  BY <1>1, <1>2, <1>3

\* A set that loses no more than one member.
LEMMA LosesOne ==
  ASSUME NEW S, IsFiniteSet(S), NEW T, IsFiniteSet(T), NEW x, S \ {x} \subseteq T
  PROVE  /\ Cardinality(S) \in Nat /\ Cardinality(T) \in Nat
         /\ Cardinality(S) <= Cardinality(T) + 1
         /\ x \notin S \/ x \in T => Cardinality(S) <= Cardinality(T)
<1>1. Cardinality(S) \in Nat /\ Cardinality(T) \in Nat
  BY FS_CardinalityType
<1>2. IsFiniteSet(S \ {x}) /\ Cardinality(S \ {x}) >= Cardinality(S) - 1
  <2>1. /\ IsFiniteSet(S \ {x})
        /\ Cardinality(S \ {x}) = IF x \in S THEN Cardinality(S) - 1 ELSE Cardinality(S)
    BY FS_RemoveElement
  <2> QED
    BY <1>1, <2>1
<1>3. Cardinality(S \ {x}) <= Cardinality(T)
  BY FS_Subset
<1>4. ASSUME x \notin S \/ x \in T PROVE Cardinality(S) <= Cardinality(T)
  <2>1. S \in SUBSET T
    BY <1>4
  <2> QED
    BY <2>1, FS_Subset
<1>5. Cardinality(S \ {x}) \in Nat
  BY <1>2, FS_CardinalityType
<1> QED
  BY <1>1, <1>2, <1>3, <1>4, <1>5

\* The answers to m in a table of transactions.
AnswersIn(table, m) ==
    UNION {{<<t, i>> : i \in DOMAIN table[t].wire} : t \in {u \in Ids : table[u].req = m}}

LEMMA AnswersAre ==
  ASSUME NEW table, NEW m, NEW p
  PROVE  p \in AnswersIn(table, m) <=>
           \E u \in Ids : table[u].req = m /\ \E i \in DOMAIN table[u].wire : p = <<u, i>>
  BY DEF AnswersIn

LEMMA AnswersNow == \A m : /\ Answers(m) = AnswersIn(tr, m)
                           /\ Answers(m)' = AnswersIn(tr', m)
  BY DEF Answers, AnswersIn, Of

\* An answer that is sent counts.
LEMMA AnswerCounts ==
  ASSUME NEW m, NEW t \in Ids, tr[t].req = m, tr'[t].req = m,
         tr[t].wire \in Seq(Responses), NEW r \in Responses, tr'[t].wire = Append(tr[t].wire, r),
         \A u \in Ids \ {t} : tr'[u] = tr[u], IsFiniteSet(Answers(m))
  PROVE  /\ IsFiniteSet(Answers(m)')
         /\ Cardinality(Answers(m)') = Cardinality(Answers(m)) + 1
<1> DEFINE n == Len(tr[t].wire)
           new == <<t, n + 1>>
<1>1. /\ n \in Nat /\ DOMAIN tr[t].wire = 1 .. n /\ DOMAIN tr'[t].wire = 1 .. n + 1
      /\ DOMAIN tr'[t].wire = DOMAIN tr[t].wire \cup {n + 1}
  <2>1. n \in Nat /\ DOMAIN tr[t].wire = 1 .. n
    OBVIOUS
  <2>2. tr'[t].wire \in Seq(Responses) /\ Len(tr'[t].wire) = n + 1
    BY AppendWire
  <2>3. DOMAIN tr'[t].wire = 1 .. n + 1
    BY <2>2
  <2> QED
    BY <2>1, <2>3
<1> HIDE DEF n
<1>2. new \notin AnswersIn(tr, m)
  <2>1. n + 1 \notin DOMAIN tr[t].wire
    BY <1>1
  <2> QED
    BY <2>1, AnswersAre
<1>3. AnswersIn(tr', m) = AnswersIn(tr, m) \cup {new}
  <2>1. ASSUME NEW p \in AnswersIn(tr', m) PROVE p \in AnswersIn(tr, m) \cup {new}
    <3>1. PICK u \in Ids : tr'[u].req = m /\ \E i \in DOMAIN tr'[u].wire : p = <<u, i>>
      BY <2>1, AnswersAre
    <3>2. PICK i \in DOMAIN tr'[u].wire : p = <<u, i>>
      BY <3>1
    <3>3. CASE u = t
      BY <1>1, <3>2, <3>3, AnswersAre
    <3>4. CASE u # t
      <4>1. tr[u].req = m /\ i \in DOMAIN tr[u].wire
        BY <3>1, <3>2, <3>4
      <4> QED
        BY <3>2, <4>1, AnswersAre
    <3> QED
      BY <3>3, <3>4
  <2>2. ASSUME NEW p \in AnswersIn(tr, m) PROVE p \in AnswersIn(tr', m)
    <3>1. PICK u \in Ids : tr[u].req = m /\ \E i \in DOMAIN tr[u].wire : p = <<u, i>>
      BY <2>2, AnswersAre
    <3>2. PICK i \in DOMAIN tr[u].wire : p = <<u, i>>
      BY <3>1
    <3>3. tr'[u].req = m /\ i \in DOMAIN tr'[u].wire
      BY <1>1, <3>1, <3>2
    <3> QED
      BY <3>2, <3>3, AnswersAre
  <2>3. new \in AnswersIn(tr', m)
    <3>1. n + 1 \in DOMAIN tr'[t].wire
      BY <1>1
    <3> QED
      BY <3>1, AnswersAre
  <2> QED
    BY <2>1, <2>2, <2>3
<1>4. IsFiniteSet(AnswersIn(tr, m))
  BY AnswersNow
<1> HIDE DEF new
<1>5. IsFiniteSet(AnswersIn(tr', m)) /\ Cardinality(AnswersIn(tr', m)) = Cardinality(AnswersIn(tr, m)) + 1
  BY <1>2, <1>3, <1>4, FS_AddElement
<1> QED
  BY <1>5, AnswersNow

\* Otherwise the answers are the same.
LEMMA AnswersSame ==
  ASSUME NEW m, \A u \in Ids : tr'[u].req = tr[u].req,
         \A u \in Ids : tr[u].req = m => tr'[u].wire = tr[u].wire
  PROVE  Answers(m)' = Answers(m)
<1>1. ASSUME NEW p PROVE p \in AnswersIn(tr, m) <=> p \in AnswersIn(tr', m)
  BY AnswersAre
<1> QED
  BY <1>1, AnswersNow

\* An event of a transaction takes nothing away from what was counted.
LEMMA EffectCounts ==
  ASSUME Kept, NEW t \in Ids, Effect(t), NEW m \in Messages, Answerable(m), IsFiniteSet(Answers(m))
  PROVE  IsFiniteSet(Answers(m)') /\ Total(m)' >= Total(m) /\ Total(m) \in Nat /\ Total(m)' \in Nat
<1>1. \A u \in Ids : tr'[u].req = tr[u].req
  BY DEF Effect
<1>2. Of(m)' = Of(m)
  BY <1>1 DEF Of
<1>3. /\ IsFiniteSet(Of(m)) /\ Of(m) \subseteq Ids
  BY KeptFacts DEF Of
<1>4. /\ IsFiniteSet(Ended(m)) /\ IsFiniteSet(Owed(m))
      /\ IsFiniteSet(Ended(m)') /\ IsFiniteSet(Owed(m)')
  <2>1. /\ Ended(m) \in SUBSET Of(m) /\ Owed(m) \in SUBSET Of(m)
        /\ Ended(m)' \in SUBSET Of(m) /\ Owed(m)' \in SUBSET Of(m)
    BY <1>2 DEF Ended, Owed
  <2> QED
    BY <1>3, <2>1, FS_Subset
<1>5. /\ Cardinality(Answers(m)) \in Nat /\ Cardinality(Ended(m)) \in Nat
      /\ Cardinality(Owed(m)) \in Nat /\ Cardinality(Ended(m)') \in Nat
      /\ Cardinality(Owed(m)') \in Nat /\ Total(m) \in Nat
  BY <1>4, FS_CardinalityType DEF Total
<1>6. CASE tr[t].req # m
  <2>1. Answers(m)' = Answers(m)
    BY <1>1, <1>6, AnswersSame DEF Effect
  <2>2. Ended(m)' = Ended(m)
    BY <1>2, <1>6 DEF Ended, Of, Effect
  <2>3. Owed(m)' = Owed(m)
    <3>1. \A u \in Of(m) : tr'[u] = tr[u] /\ (u \in lists' <=> u \in lists)
      BY <1>6 DEF Of, Effect
    <3> QED
      BY <1>2, <3>1 DEF Owed
  <2> QED
    BY <1>2, <1>5, <2>1, <2>2, <2>3 DEF Total
<1>7. CASE tr[t].req = m
  <2>1. AnswerEffect(t) /\ tr'[t].req = m /\ tr[t].wire \in Seq(Responses)
    BY <1>7 DEF Effect, Kept, Transaction
  <2>2. \A u \in Ids \ {t} : tr'[u] = tr[u]
    BY DEF Effect
  <2>3. t \in Of(m)
    BY <1>7 DEF Of
  <2>4. Owed(m) \ {t} \subseteq Owed(m)'
    <3>1. \A u \in lists \ {t} : u \in lists'
      BY DEF Effect
    <3> QED
      BY <1>2, <1>3, <2>2, <3>1 DEF Owed
  <2>5. CASE /\ \E r \in Responses : tr'[t].wire = Append(tr[t].wire, r)
             /\ tr'[t].state \notin Terminated
    <3>1. IsFiniteSet(Answers(m)') /\ Cardinality(Answers(m)') = Cardinality(Answers(m)) + 1
      BY <1>7, <2>1, <2>2, <2>5, AnswerCounts
    <3>2. Ended(m)' = Ended(m)
      BY <1>2, <2>5 DEF Ended, Effect
    <3>3. Cardinality(Owed(m)) <= Cardinality(Owed(m)') + 1
      BY <1>4, <2>4, LosesOne
    <3> QED
      BY <1>2, <1>5, <3>1, <3>2, <3>3 DEF Total
  <2>6. CASE tr'[t].wire = tr[t].wire /\ tr'[t].state \notin Terminated /\ ~Rest(tr'[t])
    <3>1. Answers(m)' = Answers(m)
      BY <1>1, <2>2, <2>6, AnswersSame
    <3>2. lists' = lists
      BY <2>6 DEF Effect
    <3>3. Ended(m)' = Ended(m)
      BY <1>2, <3>2 DEF Ended
    <3>4. t \notin Owed(m) \/ t \in Owed(m)'
      BY <1>2, <2>6, <3>2 DEF Owed
    <3>5. Cardinality(Owed(m)) <= Cardinality(Owed(m)')
      BY <1>4, <2>4, <3>4, LosesOne
    <3> QED
      BY <1>2, <1>5, <3>1, <3>3, <3>5 DEF Total
  <2>7. CASE tr'[t].wire = tr[t].wire /\ tr'[t].state \in Terminated
    <3>1. Answers(m)' = Answers(m)
      BY <1>1, <2>2, <2>7, AnswersSame
    <3>2. lists' = lists \ {t}
      BY <2>7 DEF Effect
    <3>3. Ended(m)' = Ended(m) \cup {t}
      BY <1>2, <2>3, <3>2 DEF Ended
    <3>4. CASE t \in lists
      <4>1. t \notin Ended(m)
        BY <3>4 DEF Ended
      <4>2. Cardinality(Ended(m)') = Cardinality(Ended(m)) + 1
        BY <1>4, <3>3, <4>1, FS_AddElement
      <4>3. Cardinality(Owed(m)) <= Cardinality(Owed(m)') + 1
        BY <1>4, <2>4, LosesOne
      <4> QED
        BY <1>2, <1>5, <3>1, <4>2, <4>3 DEF Total
    <3>5. CASE t \notin lists
      <4>1. Ended(m)' = Ended(m) /\ t \notin Owed(m)
        BY <2>3, <3>3, <3>5 DEF Ended, Owed
      <4>2. Cardinality(Owed(m)) <= Cardinality(Owed(m)')
        BY <1>4, <2>4, <4>1, LosesOne
      <4> QED
        BY <1>2, <1>5, <3>1, <4>1, <4>2 DEF Total
    <3> QED
      BY <3>4, <3>5
  <2> QED
    BY <2>1, <2>5, <2>6, <2>7 DEF AnswerEffect
<1> QED
  BY <1>6, <1>7

-----------------------------------------------------------------------------
(* The invariant, action by action *)

LEMMA QueuesDiffer ==
  /\ <<One, Two>> \notin {<<>>, <<"TIMEOUT_J">>} /\ <<Two>> \notin {<<>>, <<"TIMEOUT_J">>}
  /\ \A e \in Received : <<e>> \notin {<<>>, <<"TIMEOUT_J">>}
  /\ <<"TIMEOUT_J", "RCV_REQUEST">> \notin {<<>>, <<"TIMEOUT_J">>}
  /\ <<"TIMEOUT_J">> # <<>>
  BY DEF One, Two, Received

\* What is left of a transaction that has nothing to do but timer J.
LEMMA RestFacts ==
  ASSUME Kept, NEW t \in Made, Rest(tr[t])
  PROVE  /\ tr[t].ctx_type = "IST" =>
              /\ tr[t].state = "IST_TERMINATED" /\ tr[t].fifo = <<>>
              /\ tr[t].wire = <<One, Two>> /\ t \notin lists
         /\ Answerable(tr[t].req) =>
              \/ tr[t].state = "NIST_COMPLETED" /\ tr[t].last_response # None /\ t \in lists
              \/ tr[t].state = "NIST_TERMINATED" /\ tr[t].fifo = <<>> /\ t \notin lists
         /\ Mute(tr[t].req) => tr[t].state = "NIST_TRYING" /\ tr[t].fifo = <<>> /\ t \in lists
         /\ Stray(tr[t].req) => tr[t].state = "NIST_PRE_TRYING" /\ tr[t].fifo = <<>> /\ t \in lists
<1> DEFINE r == tr[t]
<1>1. Shaped(r) /\ r.req \in Messages /\ (t \in lists <=> r.state \notin Terminated)
  BY DEF Kept
<1>2. r.fifo \in {<<>>, <<"TIMEOUT_J">>} /\ (r.state \in PreStates => Stray(r.req))
  BY DEF Rest
<1>3. EventType(r.req) \in Received /\ "RCV_REQINVITE" \in Received /\ "RCV_REQUEST" \in Received
  BY <1>1, Kinds3 DEF Received
<1> HIDE DEF r
<1>4. ASSUME r.ctx_type = "IST"
      PROVE  /\ r.state = "IST_TERMINATED" /\ r.fifo = <<>>
             /\ r.wire = <<One, Two>> /\ t \notin lists
  <2>1. InviteShape(r) /\ ~Stray(r.req)
    BY <1>1, <1>4 DEF Shaped, Stray
  <2> QED
    BY <1>1, <1>2, <2>1, QueuesDiffer DEF InviteShape, PreStates, Terminated
<1>5. ASSUME Answerable(r.req)
      PROVE  \/ r.state = "NIST_COMPLETED" /\ r.last_response # None /\ t \in lists
             \/ r.state = "NIST_TERMINATED" /\ r.fifo = <<>> /\ t \notin lists
  <2>1. AnswerShape(r) /\ ~Stray(r.req)
    BY <1>1, <1>5 DEF Shaped, Answerable, Stray
  <2> QED
    BY <1>1, <1>2, <1>3, <2>1, QueuesDiffer DEF AnswerShape, PreStates, Terminated
<1>6. ASSUME Mute(r.req)
      PROVE  r.state = "NIST_TRYING" /\ r.fifo = <<>> /\ t \in lists
  <2>1. MuteShape(r) /\ ~Stray(r.req)
    BY <1>1, <1>6 DEF Shaped, Mute, Stray
  <2> QED
    BY <1>1, <1>2, <1>3, <2>1, QueuesDiffer DEF MuteShape, PreStates, Terminated
<1>7. ASSUME Stray(r.req)
      PROVE  r.state = "NIST_PRE_TRYING" /\ r.fifo = <<>> /\ t \in lists
  <2>1. StrayShape(r)
    BY <1>1, <1>7 DEF Shaped
  <2> QED
    BY <1>1, <1>2, <1>3, <2>1, QueuesDiffer DEF StrayShape, Terminated
<1> QED
  BY <1>4, <1>5, <1>6, <1>7 DEF r

\* While the main thread is not with SipProcess, what concerns the stack depends on
\* the stack only.
LEMMA StackStays ==
  ASSUME Kept, Counted, UNCHANGED osipVars,
         UNCHANGED <<pc, rx>> \/ (pc # "sip" /\ pc' # "sip")
  PROVE  Kept' /\ Counted' /\ Made' = Made
<1>1. /\ tr' = tr /\ transactionid' = transactionid /\ lists' = lists /\ array' = array
      /\ incoming' = incoming /\ arrived' = arrived
  BY DEF osipVars
<1>2. Made' = Made /\ Kept'
  BY <1>1 DEF Kept, Made
<1>3. \A m : Handled(m)' = Handled(m)
  BY <1>1 DEF Handled
<1>4. \A m : Of(m)' = Of(m) /\ Answers(m)' = Answers(m) /\ Ended(m)' = Ended(m) /\ Owed(m)' = Owed(m)
  BY <1>1 DEF Of, Answers, Ended, Owed
<1>5. \A m : Total(m)' = Total(m)
  BY <1>4 DEF Total
<1>6. Counted'
  BY <1>3, <1>4, <1>5 DEF Counted
<1> QED
  BY <1>2, <1>6

LEMMA OthersInv ==
  ASSUME UasInv, UNCHANGED <<osipVars, pc, rx>>
  PROVE  UasInv'
<1>1. Kept' /\ Counted' /\ Made' = Made
  BY StackStays DEF UasInv
<1>2. Phases'
  BY <1>1 DEF UasInv, Phases, osipVars
<1> QED
  BY <1>1, <1>2 DEF UasInv

LEMMA RecvSipInv ==
  ASSUME UasInv, NEW m \in Messages, RecvSip(m)
  PROVE  UasInv'
<1>1. /\ pc = "recv" /\ pc' = "sip" /\ rx' = m /\ arrived' = [arrived EXCEPT ![m] = @ + 1]
      /\ tr' = tr /\ transactionid' = transactionid /\ lists' = lists /\ array' = array
      /\ incoming' = incoming
  BY DEF RecvSip, Arrive
<1>2. Made' = Made /\ Kept'
  BY <1>1 DEF UasInv, Kept, Made
<1>3. Phases'
  BY <1>1, <1>2 DEF UasInv, Phases, ExecPc, Kinds
<1>4. Counted'
  <2>1. \A n \in Messages : Handled(n)' = Handled(n)
    BY <1>1 DEF UasInv, Kept, Handled
  <2>2. \A n : Of(n)' = Of(n) /\ Answers(n)' = Answers(n) /\ Ended(n)' = Ended(n) /\ Owed(n)' = Owed(n)
    BY <1>1 DEF Of, Answers, Ended, Owed
  <2>3. \A n : Total(n)' = Total(n)
    BY <2>2 DEF Total
  <2> QED
    BY <2>1, <2>2, <2>3 DEF UasInv, Counted
<1> QED
  BY <1>2, <1>3, <1>4 DEF UasInv

LEMMA NoMessageInv ==
  ASSUME UasInv, RecvNothing \/ \E p \in Peers : RecvUnparsed(p)
  PROVE  UasInv'
<1>1. pc = "recv" /\ pc' = "ist_begin" /\ rx' = rx /\ UNCHANGED osipVars
  BY DEF RecvNothing, RecvUnparsed
<1>2. Kept' /\ Counted' /\ Made' = Made
  BY <1>1, StackStays DEF UasInv
<1>3. Phases'
  BY <1>1, <1>2 DEF UasInv, Phases, ExecPc, Kinds, osipVars
<1> QED
  BY <1>2, <1>3 DEF UasInv

\* A message that is queued changes the FIFO of its transaction, and no answer.
LEMMA QueuedChanges ==
  ASSUME Kept, NEW t \in Made, NEW e \in Events,
         tr' = [tr EXCEPT ![t].fifo = Append(@, e)], lists' = lists
  PROVE  /\ tr' \in [Ids -> Transaction] /\ \A u \in Ids \ {t} : tr'[u] = tr[u]
         /\ tr'[t].req = tr[t].req /\ tr'[t].ctx_type = tr[t].ctx_type
         /\ tr'[t].state = tr[t].state /\ tr'[t].wire = tr[t].wire
         /\ tr'[t].last_response = tr[t].last_response
         /\ tr'[t].fifo = Append(tr[t].fifo, e)
         /\ \A m : Of(m)' = Of(m) /\ Answers(m)' = Answers(m) /\ Ended(m)' = Ended(m)
<1> DEFINE f == Append(tr[t].fifo, e)
           r == [tr[t] EXCEPT !.fifo = f]
<1>1. t \in Ids /\ tr[t] \in Transaction
  BY KeptFacts DEF Kept
<1>2. f \in Seq(Events)
  BY <1>1, AppendEvent DEF Transaction
<1>3. tr' = [tr EXCEPT ![t] = r]
  OBVIOUS
<1> HIDE DEF f
<1>4. r \in Transaction /\ r.req = tr[t].req /\ r.ctx_type = tr[t].ctx_type
      /\ r.state = tr[t].state /\ r.fifo = f /\ r.wire = tr[t].wire
      /\ r.last_response = tr[t].last_response
  BY <1>1, <1>2 DEF Transaction
<1> HIDE DEF r
<1>5. /\ tr' \in [Ids -> Transaction] /\ \A u \in Ids \ {t} : tr'[u] = tr[u] /\ tr'[t] = r
  BY <1>1, <1>3, <1>4 DEF Kept
<1>6. \A u \in Ids : tr'[u].req = tr[u].req /\ tr'[u].wire = tr[u].wire
  BY <1>4, <1>5
<1>7. \A m : Of(m)' = Of(m)
  BY <1>6 DEF Of
<1>8. \A m : Answers(m)' = Answers(m)
  BY <1>6, AnswersSame
<1> QED
  BY <1>1, <1>4, <1>5, <1>7, <1>8 DEF f, Ended

\* What SipProcess finds is the transaction of that very message.
LEMMA MatchedIs ==
  ASSUME UasInv, pc = "sip", NEW t \in Found(rx)
  PROVE  /\ t \in Made /\ t \in lists /\ rx \in Messages /\ tr[t].req = rx
         /\ EventType(rx) = "RCV_REQUEST"
<1>1. t \in lists /\ t \in Made /\ Matches(t, rx) /\ rx \in Messages /\ Rest(tr[t])
      /\ tr[t].req \in Messages
  BY KeptFacts DEF Found, UasInv, Phases, Kept
<1>2. tr[t].ctx_type # "IST"
  BY <1>1, RestFacts DEF UasInv
<1>3. rx.kind = "request" /\ rx.method \notin {"INVITE", "ACK"}
  BY <1>1, <1>2 DEF Matches, ListOf
<1>4. tr[t].req = rx
  BY <1>1, <1>3, BranchAssumption DEF Matches
<1> QED
  BY <1>1, <1>3, <1>4, Kinds3

LEMMA MatchedInv ==
  ASSUME UasInv, SipProcess, NEW q \in Messages, q = rx,
         osip_find_transaction_and_add_event(q), pc' = "ist_begin"
  PROVE  UasInv'
<1> DEFINE t == First(Found(q))
<1>1. /\ pc = "sip" /\ incoming = 0
      /\ UNCHANGED <<transactionid, lists, array, incoming, arrived>>
      /\ tr' = [tr EXCEPT ![t].fifo = Append(@, EventType(q))]
  BY DEF SipProcess, osip_find_transaction_and_add_event, UasInv, Phases
<1>2. t \in Found(q)
  <2>1. Found(q) \in SUBSET (1 .. MaxTransactions) /\ Found(q) # {}
    BY KeptFacts DEF Found, UasInv, Ids, osip_find_transaction_and_add_event
  <2> QED
    BY <2>1, FirstIn, OsipAssumption
<1> HIDE DEF t
<1>3. /\ t \in Made /\ t \in lists /\ q \in Messages /\ tr[t].req = q /\ t \in Ids
      /\ EventType(q) = "RCV_REQUEST" /\ EventType(q) \in Events /\ Rest(tr[t])
  <2>1. t \in Found(rx)
    BY <1>2
  <2>2. t \in Made /\ t \in lists /\ tr[t].req = q /\ EventType(q) = "RCV_REQUEST"
    BY <1>1, <2>1, MatchedIs
  <2> QED
    BY <1>1, <2>2, KeptFacts, EventSorts DEF UasInv, Phases
<1>4. /\ tr' \in [Ids -> Transaction] /\ \A u \in Ids \ {t} : tr'[u] = tr[u]
      /\ tr'[t].req = q /\ tr'[t].ctx_type = tr[t].ctx_type
      /\ tr'[t].state = tr[t].state /\ tr'[t].last_response = tr[t].last_response
      /\ tr'[t].fifo = Append(tr[t].fifo, "RCV_REQUEST")
      /\ \A m : Of(m)' = Of(m) /\ Answers(m)' = Answers(m) /\ Ended(m)' = Ended(m)
  BY <1>1, <1>3, QueuedChanges DEF UasInv
<1>5. Made' = Made /\ Made \subseteq Ids /\ Ids' = Ids
  BY <1>1, KeptFacts DEF Made, UasInv, Ids
<1>6. Answerable(q) \/ Mute(q)
  BY <1>3 DEF Answerable, Mute
<1>7. /\ tr[t].fifo \in {<<>>, <<"TIMEOUT_J">>}
      /\ Answerable(q) => tr[t].state = "NIST_COMPLETED" /\ tr[t].last_response # None
      /\ Mute(q) => tr[t].state = "NIST_TRYING" /\ tr[t].fifo = <<>>
  BY <1>3, RestFacts DEF UasInv, Rest
<1>8. tr'[t].fifo = IF tr[t].fifo = <<>> THEN <<"RCV_REQUEST">> ELSE <<"TIMEOUT_J", "RCV_REQUEST">>
  <2>1. Append(<<>>, "RCV_REQUEST") = <<"RCV_REQUEST">>
    BY ShortQueues, EventSorts
  <2>2. Append(<<"TIMEOUT_J">>, "RCV_REQUEST") = <<"TIMEOUT_J", "RCV_REQUEST">>
    BY ShortQueues, EventSorts
  <2> QED
    BY <1>4, <1>7, <2>1, <2>2, QueuesDiffer
<1>9. tr[t].state \notin PreStates \cup Terminated
  BY <1>6, <1>7 DEF PreStates, Terminated
<1>10. Kept'
  <2>1. Shaped(tr'[t])
    <3>1. tr'[t].ctx_type = "NIST" /\ ~Stray(q)
      BY <1>3, <1>4 DEF UasInv, Kept, Shaped, Stray
    <3>2. CASE Answerable(q)
      <4>1. AnswerShape(tr'[t]) /\ ~Mute(q)
        BY <1>4, <1>7, <1>8, <3>2 DEF AnswerShape, Answerable, Mute
      <4> QED
        BY <1>3, <1>4, <3>1, <4>1 DEF Shaped
    <3>3. CASE Mute(q)
      <4>1. MuteShape(tr'[t]) /\ ~Answerable(q)
        BY <1>4, <1>7, <1>8, <3>3 DEF MuteShape, Answerable, Mute
      <4> QED
        BY <1>3, <1>4, <3>1, <4>1 DEF Shaped
    <3> QED
      BY <1>6, <3>2, <3>3
  <2>2. \A u \in Made : tr'[u].req \in Messages /\ Shaped(tr'[u])
    BY <1>3, <1>4, <1>5, <2>1 DEF UasInv, Kept
  <2>3. lists' = {u \in Made' : tr'[u].state \notin Terminated}
    BY <1>1, <1>4, <1>5 DEF UasInv, Kept
  <2>4. \A k \in Kinds : array'[k] \subseteq {u \in Made' : tr'[u].ctx_type = k}
    BY <1>1, <1>4, <1>5 DEF UasInv, Kept
  <2> QED
    BY <1>1, <1>3, <1>4, <1>5, <2>2, <2>3, <2>4 DEF UasInv, Kept
<1>11. Phases'
  BY <1>1, <1>3, <1>4, <1>5, <1>9 DEF UasInv, Phases, ExecPc, Kinds, SipProcess, Terminated
<1>12. Counted'
  <2>1. \A m \in Messages : arrived[m] \in Nat
    BY DEF UasInv, Kept
  <2>2. \A m \in Messages : Handled(m)' = IF m = q THEN Handled(m) + 1 ELSE Handled(m)
    BY <1>1, <2>1 DEF Handled
  <2>3. ASSUME NEW m \in Messages, m # q PROVE Owed(m)' = Owed(m)
    BY <1>1, <1>3, <1>4, <2>3 DEF Owed, Of
  <2>4. ~Stray(q)
    BY <1>3 DEF Stray
  <2>5. ASSUME Answerable(q) PROVE IsFiniteSet(Answers(q)) /\ Total(q)' = Total(q) + 1 /\ Total(q) \in Nat
    <3>1. ~Rest(tr'[t])
      BY <1>8, QueuesDiffer, EventSorts DEF Rest, Received
    <3>2. t \notin Owed(q) /\ t \in Of(q)
      BY <1>3 DEF Owed, Of
    <3>3. Owed(q)' = Owed(q) \cup {t}
      BY <1>1, <1>3, <1>4, <3>1, <3>2 DEF Owed, Of
    <3>4. IsFiniteSet(Owed(q)) /\ IsFiniteSet(Ended(q)) /\ IsFiniteSet(Answers(q))
      <4>1. IsFiniteSet(Of(q)) /\ Owed(q) \in SUBSET Of(q) /\ Ended(q) \in SUBSET Of(q)
        BY <1>3, KeptFacts DEF UasInv, Owed, Ended
      <4> QED
        BY <1>3, <2>5, <4>1, FS_Subset DEF UasInv, Counted
    <3>5. Cardinality(Owed(q)') = Cardinality(Owed(q)) + 1
      BY <3>2, <3>3, <3>4, FS_AddElement
    <3>6. /\ Cardinality(Owed(q)) \in Nat /\ Cardinality(Ended(q)) \in Nat
          /\ Cardinality(Answers(q)) \in Nat
      BY <3>4, FS_CardinalityType
    <3>7. Answers(q)' = Answers(q) /\ Ended(q)' = Ended(q)
      BY <1>4
    <3> QED
      BY <3>4, <3>5, <3>6, <3>7 DEF Total
  <2>6. ASSUME Mute(q) PROVE Cardinality(Of(q)) = 1
    <3>1. Cardinality(Of(q)) = Min2(Handled(q), 1) /\ Handled(q) \in Int
      BY <1>3, <2>1, <2>6 DEF UasInv, Counted, Handled
    <3>2. Of(q) # {} /\ IsFiniteSet(Of(q))
      BY <1>3, KeptFacts DEF Of, UasInv
    <3>3. Cardinality(Of(q)) # 0
      BY <3>2, FS_EmptySet
    <3>4. Cardinality(Of(q)) \in Nat
      BY <3>2, FS_CardinalityType
    <3> QED
      BY <3>1, <3>3, <3>4 DEF Min2
  <2>7. \A m \in Messages : Handled(m) \in Int
    BY <2>1 DEF Handled
  <2>8. ASSUME NEW m \in Messages, m = q
        PROVE  /\ (Answerable(m) => IsFiniteSet(Answers(m)) /\ Total(m) >= Handled(m))'
               /\ (Mute(m) => Cardinality(Of(m)) = Min2(Handled(m), 1))'
               /\ (Stray(m) => Cardinality(Of(m)) = Handled(m))'
    <3>1. ASSUME Answerable(m) PROVE IsFiniteSet(Answers(m)') /\ Total(m)' >= Handled(m)'
      <4>1. Total(m) >= Handled(m)
        BY <3>1 DEF UasInv, Counted
      <4> QED
        BY <1>4, <2>2, <2>5, <2>7, <2>8, <3>1, <4>1
    <3>2. ASSUME Mute(m) PROVE Cardinality(Of(m)') = Min2(Handled(m)', 1)
      <4>1. Cardinality(Of(m)) = 1 /\ Cardinality(Of(m)) = Min2(Handled(m), 1)
        BY <2>6, <2>8, <3>2 DEF UasInv, Counted
      <4> QED
        BY <1>4, <2>2, <2>7, <2>8, <4>1 DEF Min2
    <3> QED
      BY <2>4, <2>8, <3>1, <3>2 DEF Answerable, Mute, Stray, Min2
  <2>9. ASSUME NEW m \in Messages, m # q
        PROVE  /\ (Answerable(m) => IsFiniteSet(Answers(m)) /\ Total(m) >= Handled(m))'
               /\ (Mute(m) => Cardinality(Of(m)) = Min2(Handled(m), 1))'
               /\ (Stray(m) => Cardinality(Of(m)) = Handled(m))'
    <3>1. Total(m)' = Total(m) /\ Handled(m)' = Handled(m) /\ Of(m)' = Of(m) /\ Answers(m)' = Answers(m)
      BY <1>4, <2>2, <2>3, <2>9 DEF Total
    <3> QED
      BY <3>1 DEF UasInv, Counted, Answerable, Mute, Stray, Min2
  <2> QED
    BY <2>8, <2>9 DEF Counted
<1> QED
  BY <1>10, <1>11, <1>12 DEF UasInv

\* A new transaction has no answer yet.
LEMMA CreatedChanges ==
  ASSUME Kept, NEW k \in Kinds, NEW q \in Messages, osip_transaction_init(k, q)
  PROVE  LET n == transactionid
         IN  /\ n \in Ids \ Made /\ Made' = Made \cup {n} /\ lists' = lists \cup {n}
             /\ transactionid' = n + 1 /\ incoming' = n /\ array' = array
             /\ tr' \in [Ids -> Transaction] /\ \A u \in Ids \ {n} : tr'[u] = tr[u]
             /\ tr'[n].req = q /\ tr'[n].ctx_type = k /\ tr'[n].fifo = <<>> /\ tr'[n].wire = <<>>
             /\ tr'[n].state = IF k = "IST" THEN "IST_PRE_PROCEEDING" ELSE "NIST_PRE_TRYING"
             /\ \A m \in Messages : /\ Answers(m)' = Answers(m) /\ Ended(m)' = Ended(m)
                                    /\ Of(m)' = IF m = q THEN Of(m) \cup {n} ELSE Of(m)
             /\ \A m \in Messages : n \notin Of(m)
<1> DEFINE n == transactionid
           s == IF k = "IST" THEN "IST_PRE_PROCEEDING" ELSE "NIST_PRE_TRYING"
           r == [NoTransaction EXCEPT !.ctx_type = k, !.req = q, !.state = s]
<1>1. /\ n \in Ids \ Made /\ lists' = lists \cup {n}
      /\ transactionid' = n + 1 /\ incoming' = n /\ array' = array
      /\ tr' = [tr EXCEPT ![n] = r]
  BY KeptFacts DEF osip_transaction_init
<1>2. /\ r \in Transaction /\ r.req = q /\ r.ctx_type = k
      /\ r.fifo = <<>> /\ r.wire = <<>>
  BY NewRecord DEF Local
<1>3. r.state = s
  BY DEF NoTransaction
<1> HIDE DEF r, s
<1>4. Made' = Made \cup {n}
  <2>1. n \in Nat /\ n >= 1
    BY OsipAssumption DEF Kept
  <2>2. 1 .. (n + 1) - 1 = (1 .. n - 1) \cup {n}
    BY <2>1
  <2> QED
    BY <1>1, <2>2 DEF Made
<1>5. tr' \in [Ids -> Transaction] /\ (\A u \in Ids \ {n} : tr'[u] = tr[u]) /\ tr'[n] = r
  BY <1>1, <1>2 DEF Kept
<1>6. tr[n].req = None /\ tr[n].wire = <<>>
  BY <1>1 DEF Kept, NoTransaction
<1>7. ASSUME NEW m \in Messages
      PROVE  Of(m)' = (IF m = q THEN Of(m) \cup {n} ELSE Of(m)) /\ n \notin Of(m)
  <2>1. m # None
    BY OsipAssumption
  <2> QED
    BY <1>1, <1>2, <1>5, <1>6, <2>1 DEF Of
<1>8. ASSUME NEW m \in Messages PROVE Answers(m)' = Answers(m)
  <2>1. DOMAIN tr[n].wire = {} /\ DOMAIN tr'[n].wire = {}
    BY <1>2, <1>5, <1>6
  <2>2. ASSUME NEW p PROVE p \in AnswersIn(tr, m) <=> p \in AnswersIn(tr', m)
    <3>1. \A u \in Ids : \A i :
             (tr[u].req = m /\ i \in DOMAIN tr[u].wire)
               <=> (tr'[u].req = m /\ i \in DOMAIN tr'[u].wire)
      BY <1>5, <2>1
    <3> QED
      BY <3>1, AnswersAre
  <2> QED
    BY <2>2, AnswersNow
<1>9. ASSUME NEW m \in Messages PROVE Ended(m)' = Ended(m)
  <2>1. Ended(m)' = Of(m)' \ lists'
    BY DEF Ended
  <2> QED
    BY <1>1, <1>7, <2>1 DEF Ended
<1> QED
  BY <1>1, <1>2, <1>3, <1>4, <1>5, <1>7, <1>8, <1>9 DEF s

\* A request that calls for no answer is found again.
LEMMA NotMatched ==
  ASSUME UasInv, pc = "sip", Found(rx) = {}, Mute(rx)
  PROVE  Of(rx) = {}
<1> SUFFICES ASSUME NEW u \in Of(rx) PROVE FALSE
  OBVIOUS
<1>1. rx \in Messages /\ u \in Made /\ tr[u].req = rx /\ Rest(tr[u])
  BY KeptFacts DEF UasInv, Phases, Of
<1>2. u \in lists /\ tr[u].ctx_type = "NIST"
  <2>1. Shaped(tr[u]) /\ EventType(rx) # "RCV_REQINVITE"
    BY <1>1 DEF UasInv, Kept, Mute
  <2> QED
    BY <1>1, <2>1, RestFacts DEF UasInv, Shaped
<1>3. rx.kind = "request" /\ ListOf(rx) = "NIST"
  <2>1. EventType(rx) = "RCV_REQUEST"
    BY DEF Mute
  <2> QED
    BY <1>1, <2>1, Kinds3 DEF ListOf
<1> QED
  BY <1>1, <1>2, <1>3 DEF Found, Matches

LEMMA CreatedInv ==
  ASSUME UasInv, SipProcess, NEW q \in Messages, q = rx, ProcessNewReq
  PROVE  UasInv'
<1> DEFINE n == transactionid
           k == IF EventType(q) = "RCV_REQINVITE" THEN "IST" ELSE "NIST"
<1>1. /\ pc = "sip" /\ pc' = "add_event" /\ arrived' = arrived /\ Found(rx) = {}
      /\ osip_transaction_init(k, q) /\ k \in Kinds
  BY DEF SipProcess, ProcessNewReq, Kinds
<1>2. /\ n \in Ids \ Made /\ Made' = Made \cup {n} /\ lists' = lists \cup {n}
      /\ transactionid' = n + 1 /\ incoming' = n /\ array' = array
      /\ tr' \in [Ids -> Transaction] /\ \A u \in Ids \ {n} : tr'[u] = tr[u]
      /\ tr'[n].req = q /\ tr'[n].ctx_type = k /\ tr'[n].fifo = <<>> /\ tr'[n].wire = <<>>
      /\ tr'[n].state = IF k = "IST" THEN "IST_PRE_PROCEEDING" ELSE "NIST_PRE_TRYING"
      /\ \A m \in Messages : /\ Answers(m)' = Answers(m) /\ Ended(m)' = Ended(m)
                             /\ Of(m)' = IF m = q THEN Of(m) \cup {n} ELSE Of(m)
      /\ \A m \in Messages : n \notin Of(m)
  BY <1>1, CreatedChanges DEF UasInv
<1> HIDE DEF n
<1>3. Made \subseteq Ids /\ Ids' = Ids
  BY KeptFacts DEF UasInv, Ids
<1>4. tr'[n].state \in PreStates /\ tr'[n].state \notin Terminated
  BY <1>2 DEF PreStates, Terminated
<1>5. Kept'
  <2>1. Shaped(tr'[n])
    BY <1>2, Kinds3 DEF Shaped, InviteShape, AnswerShape, MuteShape, StrayShape, Answerable, Mute, Stray
  <2>2. \A u \in Made' : tr'[u].req \in Messages /\ Shaped(tr'[u])
    BY <1>2, <1>3, <2>1 DEF UasInv, Kept
  <2>3. lists' = {u \in Made' : tr'[u].state \notin Terminated}
    BY <1>2, <1>3, <1>4 DEF UasInv, Kept
  <2>4. \A u \in Ids' \ Made' : tr'[u] = NoTransaction
    BY <1>2, <1>3 DEF UasInv, Kept
  <2>5. transactionid' \in 1 .. MaxTransactions + 1
    BY <1>2, OsipAssumption DEF Ids, n
  <2>6. \A j \in Kinds : array'[j] \subseteq {u \in Made' : tr'[u].ctx_type = j}
    <3>1. array = [j \in Kinds |-> {}] \/ \A j \in Kinds : array[j] = {}
      BY <1>1 DEF UasInv, Phases, ExecPc, Kinds
    <3> QED
      BY <1>2, <3>1
  <2> QED
    BY <1>1, <1>2, <1>3, <2>2, <2>3, <2>4, <2>5, <2>6 DEF UasInv, Kept
<1>6. Phases'
  BY <1>1, <1>2, <1>3, <1>4 DEF UasInv, Phases, ExecPc, Kinds, Terminated, PreStates
<1>7. Counted'
  <2>1. \A m \in Messages : arrived[m] \in Nat /\ Handled(m) \in Int
    BY DEF UasInv, Kept, Handled
  <2>2. \A m \in Messages : Handled(m)' = IF m = q THEN Handled(m) + 1 ELSE Handled(m)
    BY <1>1, <2>1 DEF Handled
  <2>3. ASSUME NEW m \in Messages, m # q PROVE Owed(m)' = Owed(m)
    <3>1. Of(m)' = Of(m) /\ n \notin Of(m) /\ Of(m) \subseteq Ids
      BY <1>2, <2>3 DEF Of
    <3>2. \A u \in Of(m) : tr'[u] = tr[u] /\ (u \in lists' <=> u \in lists)
      BY <1>2, <3>1
    <3>3. Owed(m)' = {u \in Of(m)' \cap lists' : ~Rest(tr'[u])}
      BY DEF Owed
    <3> QED
      BY <3>1, <3>2, <3>3 DEF Owed
  <2>4. IsFiniteSet(Of(q)) /\ Cardinality(Of(q)) \in Nat /\ n \notin Of(q) /\ Of(q) \subseteq Ids
    BY <1>2, KeptFacts DEF UasInv, Of
  <2>5. Of(q)' = Of(q) \cup {n} /\ Cardinality(Of(q)') = Cardinality(Of(q)) + 1
    <3>1. Of(q)' = Of(q) \cup {n}
      BY <1>2
    <3> QED
      BY <2>4, <3>1, FS_AddElement
  <2>6. ASSUME Answerable(q) PROVE IsFiniteSet(Answers(q)) /\ Total(q)' = Total(q) + 1 /\ Total(q) \in Nat
    <3>1. ~Rest(tr'[n])
      BY <1>2, <1>4, <2>6 DEF Rest, Answerable, Stray
    <3>2. n \notin Owed(q)
      BY <2>4 DEF Owed
    <3>3. Owed(q)' = Owed(q) \cup {n}
      <4>1. \A u \in Of(q) : tr'[u] = tr[u] /\ (u \in lists' <=> u \in lists)
        BY <1>2, <2>4
      <4>2. Owed(q)' = {u \in Of(q)' \cap lists' : ~Rest(tr'[u])}
        BY DEF Owed
      <4> QED
        BY <1>2, <2>5, <3>1, <4>1, <4>2 DEF Owed
    <3>4. IsFiniteSet(Owed(q)) /\ IsFiniteSet(Ended(q)) /\ IsFiniteSet(Answers(q))
      <4>1. Owed(q) \in SUBSET Of(q) /\ Ended(q) \in SUBSET Of(q)
        BY DEF Owed, Ended
      <4> QED
        BY <2>4, <2>6, <4>1, FS_Subset DEF UasInv, Counted
    <3>5. Cardinality(Owed(q)') = Cardinality(Owed(q)) + 1
      BY <3>2, <3>3, <3>4, FS_AddElement
    <3>6. /\ Cardinality(Owed(q)) \in Nat /\ Cardinality(Ended(q)) \in Nat
          /\ Cardinality(Answers(q)) \in Nat
      BY <3>4, FS_CardinalityType
    <3>7. Answers(q)' = Answers(q) /\ Ended(q)' = Ended(q)
      BY <1>2
    <3> QED
      BY <3>4, <3>5, <3>6, <3>7 DEF Total
  <2>7. ASSUME Mute(q) PROVE Cardinality(Of(q)) = 0
    BY <1>1, <2>7, NotMatched, FS_EmptySet
  <2>8. ASSUME NEW m \in Messages, m = q
        PROVE  /\ (Answerable(m) => IsFiniteSet(Answers(m)) /\ Total(m) >= Handled(m))'
               /\ (Mute(m) => Cardinality(Of(m)) = Min2(Handled(m), 1))'
               /\ (Stray(m) => Cardinality(Of(m)) = Handled(m))'
    <3>1. ASSUME Answerable(m) PROVE IsFiniteSet(Answers(m)') /\ Total(m)' >= Handled(m)'
      <4>1. Total(m) >= Handled(m)
        BY <3>1 DEF UasInv, Counted
      <4> QED
        BY <1>2, <2>1, <2>2, <2>6, <2>8, <3>1, <4>1
    <3>2. ASSUME Mute(m) PROVE Cardinality(Of(m)') = Min2(Handled(m)', 1)
      <4>1. Cardinality(Of(m)) = 0 /\ Cardinality(Of(m)) = Min2(Handled(m), 1)
        BY <2>7, <2>8, <3>2 DEF UasInv, Counted
      <4>2. Handled(m) = 0
        BY <2>1, <4>1 DEF Min2
      <4>3. Handled(m)' = 1 /\ Cardinality(Of(m)') = 1
        BY <2>2, <2>5, <2>8, <4>1, <4>2
      <4> QED
        BY <4>3 DEF Min2
    <3>3. ASSUME Stray(m) PROVE Cardinality(Of(m)') = Handled(m)'
      BY <2>2, <2>5, <2>8, <3>3 DEF UasInv, Counted
    <3> QED
      BY <3>1, <3>2, <3>3 DEF Answerable, Mute, Stray, Min2
  <2>9. ASSUME NEW m \in Messages, m # q
        PROVE  /\ (Answerable(m) => IsFiniteSet(Answers(m)) /\ Total(m) >= Handled(m))'
               /\ (Mute(m) => Cardinality(Of(m)) = Min2(Handled(m), 1))'
               /\ (Stray(m) => Cardinality(Of(m)) = Handled(m))'
    <3>1. /\ Answers(m)' = Answers(m) /\ Ended(m)' = Ended(m) /\ Of(m)' = Of(m)
          /\ Handled(m)' = Handled(m)
      BY <1>2, <2>2, <2>9
    <3>2. Total(m)' = Total(m)
      BY <2>3, <2>9, <3>1 DEF Total
    <3> QED
      BY <3>1, <3>2 DEF UasInv, Counted, Answerable, Mute, Stray, Min2
  <2> QED
    BY <2>8, <2>9 DEF Counted
<1> QED
  BY <1>5, <1>6, <1>7 DEF UasInv

LEMMA FirstEventInv ==
  ASSUME UasInv, ProcessNewReqAddEvent
  PROVE  UasInv'
<1> DEFINE t == incoming
           e == EventType(tr[t].req)
<1>1. /\ pc = "add_event" /\ pc' = "ist_begin" /\ incoming' = 0
      /\ tr' = [tr EXCEPT ![t].fifo = Append(@, e)]
      /\ UNCHANGED <<transactionid, lists, array, arrived>>
  BY DEF ProcessNewReqAddEvent, AddFirstEvent
<1>2. /\ t \in Made /\ t \in Ids /\ tr[t].fifo = <<>> /\ tr[t].state \in PreStates
      /\ tr[t].req \in Messages /\ Shaped(tr[t]) /\ \A u \in Made \ {t} : Rest(tr[u])
      /\ t \in lists
  BY <1>1, KeptFacts DEF UasInv, Phases, Kept, PreStates, Terminated
<1>3. e \in Received /\ e \in Events
  BY <1>2, Kinds3, EventSorts
<1> HIDE DEF t
<1>4. /\ tr' \in [Ids -> Transaction] /\ \A u \in Ids \ {t} : tr'[u] = tr[u]
      /\ tr'[t].req = tr[t].req /\ tr'[t].ctx_type = tr[t].ctx_type
      /\ tr'[t].state = tr[t].state /\ tr'[t].wire = tr[t].wire
      /\ tr'[t].fifo = <<e>>
      /\ \A m : Of(m)' = Of(m) /\ Answers(m)' = Answers(m) /\ Ended(m)' = Ended(m)
  <2>1. Append(<<>>, e) = <<e>>
    BY <1>3, ShortQueues
  <2> QED
    BY <1>1, <1>2, <1>3, <2>1, QueuedChanges DEF UasInv
<1>5. Made' = Made /\ Made \subseteq Ids /\ Ids' = Ids /\ 0 \notin Made
  BY <1>1, KeptFacts DEF Made, UasInv, Ids
<1>6. <<e>> # <<>> /\ <<e>> \notin {<<>>, <<"TIMEOUT_J">>}
  BY <1>3, QueuesDiffer
<1> HIDE DEF e
<1>7. Kept'
  <2>1. Shaped(tr'[t])
    BY <1>2, <1>4 DEF Shaped, InviteShape, AnswerShape, MuteShape, StrayShape, PreStates,
                      Answerable, Mute, Stray, e
  <2>2. \A u \in Made : tr'[u].req \in Messages /\ Shaped(tr'[u])
    BY <1>2, <1>4, <1>5, <2>1 DEF UasInv, Kept
  <2>3. lists' = {u \in Made' : tr'[u].state \notin Terminated}
    BY <1>1, <1>4, <1>5 DEF UasInv, Kept
  <2>4. \A k \in Kinds : array'[k] \subseteq {u \in Made' : tr'[u].ctx_type = k}
    BY <1>1, <1>4, <1>5 DEF UasInv, Kept
  <2> QED
    BY <1>1, <1>2, <1>4, <1>5, <2>2, <2>3, <2>4 DEF UasInv, Kept
<1>8. Phases'
  <2>1. \A u \in Made : tr'[u].state = "NIST_TERMINATED" => tr'[u].fifo = <<>>
    BY <1>1, <1>2, <1>4, <1>5 DEF UasInv, Phases, PreStates
  <2>2. \A u \in Made : tr'[u].state \in PreStates /\ tr'[u].fifo = <<>> => Stray(tr'[u].req)
    BY <1>2, <1>4, <1>5, <1>6 DEF Rest
  <2> QED
    BY <1>1, <1>5, <2>1, <2>2 DEF UasInv, Phases, ExecPc, Kinds
<1>9. Counted'
  <2>1. \A m : Handled(m)' = Handled(m)
    BY <1>1 DEF Handled
  <2>2. ASSUME NEW m \in Messages, Answerable(m) PROVE Owed(m)' = Owed(m)
    <3>1. Owed(m)' = {u \in Of(m)' \cap lists' : ~Rest(tr'[u])}
      BY DEF Owed
    <3>2. \A u \in Of(m) \ {t} : tr'[u] = tr[u]
      BY <1>4 DEF Of
    <3>3. t \in Of(m) => ~Rest(tr[t]) /\ ~Rest(tr'[t])
      BY <1>2, <1>4, <1>6, <2>2 DEF Rest, Of, Answerable, Stray
    <3>4. Of(m)' = Of(m)
      BY <1>4
    <3> QED
      BY <1>1, <3>1, <3>2, <3>3, <3>4 DEF Owed
  <2>3. \A m \in Messages : Answerable(m) => Total(m)' = Total(m)
    <3> SUFFICES ASSUME NEW m \in Messages, Answerable(m) PROVE Total(m)' = Total(m)
      OBVIOUS
    <3>1. Answers(m)' = Answers(m) /\ Ended(m)' = Ended(m) /\ Owed(m)' = Owed(m)
      BY <1>4, <2>2
    <3> QED
      BY <3>1 DEF Total
  <2>4. \A m : Of(m)' = Of(m) /\ Answers(m)' = Answers(m)
    BY <1>4
  <2> QED
    BY <2>1, <2>3, <2>4 DEF UasInv, Counted, Answerable, Mute, Stray, Min2
<1> QED
  BY <1>7, <1>8, <1>9 DEF UasInv

-----------------------------------------------------------------------------
(* Executing *)

\* Only the executor's copy changes.
LEMMA CopyChanges ==
  ASSUME Kept, Counted, UNCHANGED <<tr, transactionid, lists, arrived>>,
         pc # "sip", pc' # "sip", array' \in [Kinds -> SUBSET Ids],
         \A k \in Kinds : array'[k] \subseteq array[k] \cup Live(k)
  PROVE  Kept' /\ Counted' /\ Made' = Made
<1>1. Made' = Made
  BY DEF Made
<1>2. \A k \in Kinds : Live(k) \subseteq {t \in Made : tr[t].ctx_type = k}
  BY KeptFacts DEF Live
<1>3. \A k \in Kinds : array'[k] \subseteq {t \in Made' : tr'[t].ctx_type = k}
  BY <1>1, <1>2 DEF Kept
<1>4. Kept'
  BY <1>1, <1>3 DEF Kept
<1>5. \A m : Handled(m)' = Handled(m)
  BY DEF Handled
<1>6. \A m : Of(m)' = Of(m) /\ Answers(m)' = Answers(m) /\ Ended(m)' = Ended(m) /\ Owed(m)' = Owed(m)
  BY DEF Of, Answers, Ended, Owed
<1>7. \A m : Total(m)' = Total(m)
  BY <1>6 DEF Total
<1> QED
  BY <1>1, <1>4, <1>5, <1>6, <1>7 DEF Counted

LEMMA CopyListInv ==
  ASSUME UasInv, NEW k \in Kinds, MainCopyList(k)
  PROVE  UasInv'
<1>1. /\ pc = BeginPc[k] /\ pc' = ExecPc[k] /\ array' = [array EXCEPT ![k] = Live(k)]
      /\ UNCHANGED <<tr, transactionid, lists, incoming, arrived>>
  BY DEF MainCopyList, CopyList
<1>2. array' \in [Kinds -> SUBSET Ids] /\ array'[k] = Live(k)
      /\ \A j \in Kinds \ {k} : array'[j] = array[j]
  <2>1. Live(k) \subseteq Ids
    BY KeptFacts DEF UasInv, Live
  <2> QED
    BY <1>1, <2>1 DEF UasInv, Kept
<1>3. pc \notin {"sip", "ist", "nist", "recv", "add_event"} /\ pc' \in {"ist", "nist"}
  BY <1>1 DEF BeginPc, ExecPc, Kinds
<1>4. Kept' /\ Counted' /\ Made' = Made
  BY <1>1, <1>2, <1>3, CopyChanges DEF UasInv
<1>5. \A t \in Made : tr[t].ctx_type = k => Done(tr[t]) \/ t \in Live(k)
  <2> SUFFICES ASSUME NEW t \in Made, tr[t].ctx_type = k, t \notin lists PROVE Done(tr[t])
    BY DEF Live
  <2>1. tr[t].state \in Terminated /\ Shaped(tr[t]) /\ tr[t].req \in Messages
    BY DEF UasInv, Kept
  <2>2. tr[t].fifo = <<>>
    <3>1. CASE tr[t].state = "NIST_TERMINATED"
      BY <1>3, <3>1 DEF UasInv, Phases
    <3>2. CASE tr[t].state = "IST_TERMINATED"
      BY <2>1, <3>2, Kinds3 DEF Shaped, InviteShape, AnswerShape, MuteShape, StrayShape
    <3> QED
      BY <2>1, <3>1, <3>2 DEF Terminated
  <2> QED
    BY <2>1, <2>2 DEF Done, Rest, Terminated, PreStates
<1>6. Phases'
  <2>1. CASE k = "IST"
    BY <1>1, <1>2, <1>3, <1>4, <1>5, <2>1 DEF UasInv, Phases, ExecPc, BeginPc, Kinds
  <2>2. CASE k = "NIST"
    BY <1>1, <1>2, <1>3, <1>4, <1>5, <2>2 DEF UasInv, Phases, ExecPc, BeginPc, Kinds
  <2> QED
    BY <2>1, <2>2 DEF Kinds
<1> QED
  BY <1>4, <1>6 DEF UasInv

LEMMA FirstOfArray ==
  ASSUME Kept, NEW k \in Kinds, array[k] # {}
  PROVE  First(array[k]) \in array[k] /\ First(array[k]) \in Made /\ First(array[k]) \in Ids
         /\ tr[First(array[k])].ctx_type = k
<1>1. array[k] \in SUBSET (1 .. MaxTransactions) /\ MaxTransactions \in Nat
  BY OsipAssumption DEF Kept, Ids
<1>2. First(array[k]) \in array[k]
  BY <1>1, FirstIn
<1> QED
  BY <1>2, KeptFacts DEF Kept

LEMMA ExecuteNextUasInv ==
  ASSUME UasInv, NEW k \in Kinds, MainExecuteNext(k)
  PROVE  UasInv'
<1> DEFINE t == First(array[k])
<1>1. /\ pc = ExecPc[k] /\ pc' = pc /\ array[k] # {} /\ tr[t].fifo = <<>>
      /\ array' = [array EXCEPT ![k] = @ \ {t}]
      /\ UNCHANGED <<tr, transactionid, lists, incoming, arrived>>
  BY DEF MainExecuteNext, ExecuteNext
<1>2. t \in array[k] /\ t \in Made /\ t \in Ids /\ tr[t].ctx_type = k
  BY <1>1, FirstOfArray DEF UasInv
<1> HIDE DEF t
<1>3. array' \in [Kinds -> SUBSET Ids] /\ array'[k] = array[k] \ {t}
      /\ \A j \in Kinds \ {k} : array'[j] = array[j]
  BY <1>1 DEF UasInv, Kept
<1>4. pc \in {"ist", "nist"}
  BY <1>1 DEF ExecPc, Kinds
<1>5. Kept' /\ Counted' /\ Made' = Made
  BY <1>1, <1>3, <1>4, CopyChanges DEF UasInv
<1>6. Done(tr[t])
  <2>1. incoming = 0 /\ 0 \notin Made
    BY <1>4, KeptFacts DEF UasInv, Phases, Made
  <2> QED
    BY <1>1, <1>2, <2>1 DEF UasInv, Phases, Done, Rest
<1>7. Phases'
  BY <1>1, <1>3, <1>4, <1>5, <1>6 DEF UasInv, Phases, ExecPc, Kinds
<1> QED
  BY <1>5, <1>7 DEF UasInv

LEMMA ExecuteEndInv ==
  ASSUME UasInv, NEW k \in Kinds, MainExecuteEnd(k)
  PROVE  UasInv'
<1>1. pc = ExecPc[k] /\ pc' = AfterPc[k] /\ array[k] = {} /\ UNCHANGED osipVars
  BY DEF MainExecuteEnd
<1>2. pc # "sip" /\ pc' # "sip"
  BY <1>1 DEF ExecPc, AfterPc, Kinds
<1>3. Kept' /\ Counted' /\ Made' = Made
  BY <1>1, <1>2, StackStays DEF UasInv
<1>4. \A t \in Made : tr[t].ctx_type \in Kinds
  BY DEF UasInv, Kept, Shaped, Kinds
<1>5. \A t \in Made : tr[t].ctx_type = k => Done(tr[t])
  BY <1>1 DEF UasInv, Phases, ExecPc, Kinds
<1>6. /\ tr' = tr /\ array' = array /\ incoming' = incoming
  BY <1>1 DEF osipVars
<1>7. CASE k = "IST"
  <2>1. pc = "ist" /\ pc' = "nist_begin"
    BY <1>1, <1>7 DEF ExecPc, AfterPc
  <2> QED
    BY <1>1, <1>3, <1>5, <1>6, <1>7, <2>1 DEF UasInv, Phases, ExecPc, Kinds
<1>8. CASE k = "NIST"
  <2>1. pc = "nist" /\ pc' = "timers_ist"
    BY <1>1, <1>8 DEF ExecPc, AfterPc
  <2>2. \A t \in Made : Done(tr[t])
    BY <1>4, <1>5, <1>8, <2>1 DEF UasInv, Phases, Kinds
  <2> QED
    BY <1>1, <1>3, <1>6, <1>8, <2>1, <2>2 DEF UasInv, Phases, ExecPc, Kinds, Done
<1> QED
  BY <1>3, <1>7, <1>8 DEF UasInv, Kinds

LEMMA ExecuteEventUasInv ==
  ASSUME UasInv, NEW k \in Kinds, MainExecuteEvent(k)
  PROVE  UasInv'
<1> DEFINE t == First(array[k])
<1>1. /\ pc = ExecPc[k] /\ pc' = pc /\ rx' = rx /\ array[k] # {} /\ tr[t].fifo # <<>>
      /\ osip_transaction_execute(t, CbAnswers(t))
      /\ UNCHANGED <<transactionid, array, incoming, arrived>>
  BY DEF MainExecuteEvent, ExecuteEvent
<1>2. /\ t \in array[k] /\ t \in Made /\ t \in Ids /\ tr[t].ctx_type = k
      /\ tr[t].req \in Messages /\ Shaped(tr[t]) /\ tr \in [Ids -> Transaction]
      /\ tr[t].state \in Terminated => t \notin lists
  BY <1>1, FirstOfArray DEF UasInv, Kept
<1> HIDE DEF t
<1>3. Effect(t)
  BY <1>1, <1>2, ExecuteEffect
<1>4. pc \in {"ist", "nist"} /\ incoming = 0 /\ 0 \notin Made
  BY <1>1, KeptFacts DEF ExecPc, Kinds, UasInv, Phases, Made
<1>5. Made' = Made /\ Made \subseteq Ids /\ Ids' = Ids
  BY <1>1, KeptFacts DEF Made, UasInv, Ids
<1>6. /\ tr' \in [Ids -> Transaction] /\ \A u \in Ids \ {t} : tr'[u] = tr[u]
      /\ tr'[t].req = tr[t].req /\ tr'[t].ctx_type = k /\ Shaped(tr'[t])
      /\ tr'[t].state \in PreStates => Stray(tr[t].req)
      /\ lists' = IF tr'[t].state \in Terminated THEN lists \ {t} ELSE lists
  BY <1>2, <1>3 DEF Effect
<1>7. Kept'
  <2>1. \A u \in Made : tr'[u].req \in Messages /\ Shaped(tr'[u])
    BY <1>2, <1>5, <1>6 DEF UasInv, Kept
  <2>2. lists' = {u \in Made' : tr'[u].state \notin Terminated}
    <3>1. t \in lists => tr[t].state \notin Terminated
      BY <1>2
    <3>2. tr'[t].state \notin Terminated => tr[t].state \notin Terminated
      <4>1. SUFFICES ASSUME tr[t].state \in Terminated PROVE tr'[t].state \in Terminated
        OBVIOUS
      <4>2. UselessEvent(t)
        <5>1. tr[t].state = "NIST_TERMINATED"
          <6>1. tr[t].state # "IST_TERMINATED"
            BY <1>1, <1>2, Kinds3 DEF Shaped, InviteShape, AnswerShape, MuteShape, StrayShape
          <6> QED
            BY <4>1, <6>1 DEF Terminated
        <5> QED
          BY <1>1, <5>1, OneHandler
      <4> QED
        BY <1>2, <4>1, <4>2, UselessTurns DEF Turned
    <3> QED
      BY <1>2, <1>5, <1>6, <3>2 DEF UasInv, Kept
  <2>3. \A j \in Kinds : array'[j] \subseteq {u \in Made' : tr'[u].ctx_type = j}
    BY <1>1, <1>2, <1>5, <1>6 DEF UasInv, Kept
  <2> QED
    BY <1>1, <1>2, <1>5, <1>6, <2>1, <2>2, <2>3 DEF UasInv, Kept
<1>8. Phases'
  <2>1. k = "IST" => tr'[t].state # "NIST_TERMINATED"
    <3>1. k = "IST" => InviteShape(tr'[t])
      BY <1>6 DEF Shaped
    <3> QED
      BY <3>1 DEF InviteShape
  <2>2. \A u \in Made : tr'[u].state \in PreStates /\ tr'[u].fifo = <<>> => Stray(tr'[u].req)
    BY <1>4, <1>5, <1>6 DEF UasInv, Phases
  <2>3. CASE k = "IST"
    BY <1>1, <1>2, <1>4, <1>5, <1>6, <2>1, <2>2, <2>3 DEF UasInv, Phases, ExecPc, Kinds
  <2>4. CASE k = "NIST"
    BY <1>1, <1>2, <1>4, <1>5, <1>6, <2>2, <2>4 DEF UasInv, Phases, ExecPc, Kinds
  <2> QED
    BY <2>3, <2>4 DEF Kinds
<1>9. Counted'
  <2>1. ASSUME NEW m \in Messages PROVE Handled(m)' = Handled(m) /\ Handled(m) \in Int
    BY <1>1, <1>4 DEF Handled, UasInv, Kept
  <2>2. ASSUME NEW m \in Messages PROVE Of(m)' = Of(m)
    BY <1>2, <1>6 DEF Of
  <2>3. ASSUME NEW m \in Messages, Answerable(m)
        PROVE  IsFiniteSet(Answers(m)') /\ Total(m)' >= Handled(m)'
    <3>1. IsFiniteSet(Answers(m)) /\ Total(m) >= Handled(m)
      BY <2>3 DEF UasInv, Counted
    <3>2. /\ IsFiniteSet(Answers(m)') /\ Total(m)' >= Total(m)
          /\ Total(m) \in Nat /\ Total(m)' \in Nat
      BY <1>2, <1>3, <2>3, <3>1, EffectCounts DEF UasInv
    <3> QED
      BY <2>1, <3>1, <3>2
  <2> QED
    BY <2>1, <2>2, <2>3 DEF UasInv, Counted, Answerable, Mute, Stray, Min2
<1> QED
  BY <1>7, <1>8, <1>9 DEF UasInv

-----------------------------------------------------------------------------
(* Timers *)

\* Of the transactions with nothing left to do, a timer can run out for those only
\* that were answered, and it is timer J.
LEMMA OnlyTimerJ ==
  ASSUME Kept, NEW t \in lists, Done(tr[t]), NEW e \in Timeouts, MayFire(t, e)
  PROVE  e = "TIMEOUT_J" /\ Answerable(tr[t].req) /\ tr[t].state = "NIST_COMPLETED"
         /\ tr[t].last_response # None
<1>1. t \in Made /\ Rest(tr[t]) /\ tr[t].req \in Messages
      /\ (EventType(tr[t].req) = "RCV_REQINVITE" => tr[t].ctx_type = "IST")
  BY KeptFacts DEF Kept, Done, Shaped
<1>2. tr[t].state \notin {"IST_COMPLETED", "IST_CONFIRMED"}
      /\ (tr[t].state = "NIST_COMPLETED" => Answerable(tr[t].req) /\ tr[t].last_response # None)
  BY <1>1, RestFacts, Kinds3
<1> QED
  BY <1>2 DEF MayFire, TimerState, Timeouts

LEMMA TimersIstInv ==
  ASSUME UasInv, MainTimers("IST", "timers_ist", "timers_nist")
  PROVE  UasInv'
<1>1. /\ pc = "timers_ist" /\ pc' = "timers_nist" /\ rx' = rx
      /\ UNCHANGED <<transactionid, lists, array, incoming, arrived>>
  BY DEF MainTimers, osip_timers_execute
<1>2. Live("IST") = {}
  <2> SUFFICES ASSUME NEW t \in Live("IST") PROVE FALSE
    OBVIOUS
  <2>1. t \in Made /\ t \in lists /\ tr[t].ctx_type = "IST" /\ Rest(tr[t])
    BY <1>1, KeptFacts DEF Live, UasInv, Phases, Done
  <2> QED
    BY <2>1, RestFacts DEF UasInv
<1>3. tr' = tr
  <2>1. tr' = [t \in Ids |-> tr[t]]
    BY <1>2 DEF MainTimers, osip_timers_execute
  <2> QED
    BY <2>1 DEF UasInv, Kept
<1>4. UNCHANGED osipVars
  BY <1>1, <1>3 DEF osipVars
<1>5. Kept' /\ Counted' /\ Made' = Made
  BY <1>1, <1>4, StackStays DEF UasInv
<1>6. Phases'
  BY <1>1, <1>3, <1>5 DEF UasInv, Phases, ExecPc, Kinds
<1> QED
  BY <1>5, <1>6 DEF UasInv

LEMMA TimersNistInv ==
  ASSUME UasInv, MainTimers("NIST", "timers_nist", "recv")
  PROVE  UasInv'
<1>1. /\ pc = "timers_nist" /\ pc' = "recv" /\ rx' = rx /\ incoming = 0
      /\ UNCHANGED <<transactionid, lists, array, incoming, arrived>>
  BY DEF MainTimers, osip_timers_execute, UasInv, Phases
<1>2. PICK due \in [Live("NIST") -> Timeouts \cup {"none"}] : osip_timers_execute("NIST", due)
  BY DEF MainTimers
<1> DEFINE Fires(t) == t \in Live("NIST") /\ due[t] # "none"
<1>3. Made' = Made /\ Made \subseteq Ids /\ lists \subseteq Made /\ Ids' = Ids
  BY <1>1, KeptFacts DEF Made, UasInv, Ids
<1>4. \A t \in Made : Done(tr[t])
  BY <1>1 DEF UasInv, Phases
<1>5. ASSUME NEW t \in Ids
      PROVE  IF Fires(t)
             THEN /\ Answerable(tr[t].req) /\ tr[t].state = "NIST_COMPLETED" /\ t \in Made
                  /\ tr'[t] = [tr[t] EXCEPT !.fifo = <<"TIMEOUT_J">>] /\ tr[t].last_response # None
             ELSE tr'[t] = tr[t]
  <2>1. tr'[t] = IF Fires(t) THEN [tr[t] EXCEPT !.fifo = Append(@, due[t])] ELSE tr[t]
    BY <1>2 DEF osip_timers_execute
  <2>2. CASE Fires(t)
    <3>1. t \in lists /\ t \in Made /\ due[t] \in Timeouts /\ MayFire(t, due[t])
      BY <1>2, <1>3, <2>2 DEF Live, osip_timers_execute
    <3>2. /\ due[t] = "TIMEOUT_J" /\ Answerable(tr[t].req) /\ tr[t].state = "NIST_COMPLETED"
          /\ tr[t].last_response # None
      BY <1>4, <3>1, OnlyTimerJ DEF UasInv
    <3>3. tr[t].fifo = <<>> /\ Append(<<>>, "TIMEOUT_J") = <<"TIMEOUT_J">>
      BY <1>4, <3>1, ShortQueues, EventSorts DEF Done
    <3> QED
      BY <2>1, <2>2, <3>1, <3>2, <3>3
  <2>3. CASE ~Fires(t)
    BY <2>1, <2>3
  <2> QED
    BY <2>2, <2>3
<1> HIDE DEF Fires
<1>6. ASSUME NEW t \in Ids
      PROVE  /\ tr'[t] \in Transaction /\ tr'[t].req = tr[t].req /\ tr'[t].ctx_type = tr[t].ctx_type
             /\ tr'[t].state = tr[t].state /\ tr'[t].wire = tr[t].wire
             /\ IF Fires(t) THEN /\ tr'[t].fifo = <<"TIMEOUT_J">> /\ t \in Made
                                 /\ Answerable(tr[t].req) /\ tr[t].state = "NIST_COMPLETED"
                                 /\ tr'[t].last_response # None
                ELSE tr'[t] = tr[t]
  <2>1. tr[t] \in Transaction
    BY DEF UasInv, Kept
  <2>2. CASE Fires(t)
    <3> DEFINE q == <<"TIMEOUT_J">>
               r == [tr[t] EXCEPT !.fifo = q]
    <3>1. q \in Seq(Events)
      BY EventSorts
    <3> HIDE DEF q
    <3>2. /\ r \in Transaction /\ r.req = tr[t].req /\ r.ctx_type = tr[t].ctx_type
          /\ r.state = tr[t].state /\ r.wire = tr[t].wire /\ r.fifo = q
          /\ r.last_response = tr[t].last_response
      BY <2>1, <3>1 DEF Transaction
    <3>3. tr'[t] = r
      BY <1>5, <2>2 DEF q
    <3> HIDE DEF r
    <3> QED
      BY <1>5, <2>2, <3>2, <3>3 DEF q
  <2>3. CASE ~Fires(t)
    BY <1>5, <2>1, <2>3
  <2> QED
    BY <2>2, <2>3
<1>7. tr' \in [Ids -> Transaction]
  <2>1. tr' = [t \in Ids |-> tr'[t]]
    BY <1>2 DEF osip_timers_execute
  <2> QED
    BY <1>6, <2>1
<1>8. Kept'
  <2>1. ASSUME NEW t \in Made PROVE tr'[t].req \in Messages /\ Shaped(tr'[t])
    <3>1. t \in Ids /\ tr[t].req \in Messages /\ Shaped(tr[t])
      BY <1>3 DEF UasInv, Kept
    <3>2. CASE Fires(t)
      <4>1. /\ AnswerShape(tr'[t]) /\ Answerable(tr'[t].req) /\ tr'[t].req = tr[t].req
            /\ tr'[t].ctx_type = tr[t].ctx_type
        BY <1>6, <3>1, <3>2 DEF AnswerShape
      <4> QED
        BY <3>1, <4>1 DEF Shaped, Answerable, Mute, Stray
    <3>3. CASE ~Fires(t)
      BY <1>6, <3>1, <3>3
    <3> QED
      BY <3>2, <3>3
  <2>2. lists' = {t \in Made' : tr'[t].state \notin Terminated}
    BY <1>1, <1>3, <1>6 DEF UasInv, Kept
  <2>3. \A k \in Kinds : array'[k] \subseteq {t \in Made' : tr'[t].ctx_type = k}
    BY <1>1, <1>3, <1>6 DEF UasInv, Kept
  <2>4. \A t \in Ids \ Made : tr'[t] = NoTransaction
    BY <1>6 DEF UasInv, Kept
  <2> QED
    BY <1>1, <1>3, <1>7, <2>1, <2>2, <2>3, <2>4 DEF UasInv, Kept
<1>9. \A t \in Made : Rest(tr'[t])
  BY <1>3, <1>4, <1>6 DEF Done, Rest, PreStates
<1>10. Phases'
  <2>1. \A t \in Made : tr'[t].state = "NIST_TERMINATED" => tr'[t].fifo = <<>>
    BY <1>1, <1>3, <1>6 DEF UasInv, Phases
  <2>2. \A t \in Made : tr'[t].state \in PreStates /\ tr'[t].fifo = <<>> => Stray(tr'[t].req)
    BY <1>9 DEF Rest
  <2>3. 0 \notin Made
    BY KeptFacts DEF Made
  <2> QED
    BY <1>1, <1>3, <1>9, <2>1, <2>2, <2>3 DEF UasInv, Phases, ExecPc, Kinds
<1>11. Counted'
  <2>1. \A m : Handled(m)' = Handled(m)
    BY <1>1 DEF Handled
  <2>2. \A m : Of(m)' = Of(m)
    BY <1>6 DEF Of
  <2>3. \A m : Answers(m)' = Answers(m)
    BY <1>6, AnswersSame
  <2>4. ASSUME NEW m \in Messages PROVE Total(m)' = Total(m)
    <3>1. Ended(m)' = Ended(m)
      BY <1>1, <2>2 DEF Ended
    <3>2. Of(m) \subseteq Made
      BY KeptFacts DEF UasInv
    <3>3. Owed(m) = {} /\ Owed(m)' = {}
      BY <1>4, <1>9, <2>2, <3>2 DEF Owed, Done
    <3> QED
      BY <2>3, <3>1, <3>3 DEF Total
  <2> QED
    BY <2>1, <2>2, <2>3, <2>4 DEF UasInv, Counted, Answerable, Mute, Stray, Min2
<1> QED
  BY <1>8, <1>10, <1>11 DEF UasInv

-----------------------------------------------------------------------------
(* The theorems *)

LEMMA UasInitInv ==
  ASSUME UasInit PROVE UasInv
<1>1. Init /\ pc = "recv" /\ rx = None
  BY DEF UasInit
<1>2. /\ Made = {} /\ transactionid \in 1 .. MaxTransactions + 1 /\ tr = [t \in Ids |-> NoTransaction]
      /\ lists = {} /\ array = [k \in Kinds |-> {}] /\ incoming = 0
      /\ arrived = [m \in Messages |-> 0]
  BY <1>1, OsipAssumption DEF Init, Made
<1>3. tr \in [Ids -> Transaction]
  BY <1>1, InitInv DEF IInv, Typed
<1>4. Kept
  BY <1>2, <1>3 DEF Kept
<1>5. Phases
  BY <1>1, <1>2 DEF Phases
<1>6. ASSUME NEW m \in Messages
      PROVE  /\ Handled(m) = 0 /\ Of(m) = {} /\ Answers(m) = {}
             /\ Ended(m) = {} /\ Owed(m) = {}
  <2>1. Of(m) = {}
    BY <1>2, OsipAssumption DEF Of, NoTransaction
  <2> QED
    BY <1>1, <1>2, <2>1 DEF Handled, Answers, Ended, Owed
<1>7. Counted
  <2>1. IsFiniteSet({}) /\ Cardinality({}) = 0
    BY FS_EmptySet
  <2> SUFFICES ASSUME NEW m \in Messages
               PROVE  /\ IsFiniteSet(Answers(m)) /\ Total(m) >= Handled(m)
                      /\ Cardinality(Of(m)) = 0 /\ Handled(m) = 0
    <3>1. Min2(0, 1) = 0
      BY DEF Min2
    <3> QED
      BY <3>1 DEF Counted
  <2>2. /\ Cardinality(Answers(m)) = 0 /\ Cardinality(Ended(m)) = 0
        /\ Cardinality(Owed(m)) = 0 /\ Cardinality(Of(m)) = 0
    BY <1>6, <2>1
  <2>3. Total(m) = 0
    BY <2>2 DEF Total
  <2> QED
    BY <1>6, <2>1, <2>2, <2>3
<1> QED
  BY <1>4, <1>5, <1>7 DEF UasInv

LEMMA UasNextInv ==
  ASSUME UasInv, [UasNext]_vars PROVE UasInv'
<1>1. ASSUME NEW m \in Messages, RecvSip(m) PROVE UasInv'
  BY <1>1, RecvSipInv
<1>2. CASE RecvNothing \/ \E p \in Peers : RecvUnparsed(p)
  BY <1>2, NoMessageInv
<1>3. CASE SipProcess
  <2>1. rx \in Messages
    BY <1>3 DEF SipProcess, UasInv, Phases
  <2> QED
    BY <1>3, <2>1, MatchedInv, CreatedInv DEF SipProcess
<1>4. CASE ProcessNewReqAddEvent
  BY <1>4, FirstEventInv
<1>5. ASSUME NEW k \in Kinds,
             MainCopyList(k) \/ MainExecuteNext(k) \/ MainExecuteEnd(k) \/ MainExecuteEvent(k)
      PROVE  UasInv'
  BY <1>5, CopyListInv, ExecuteNextUasInv, ExecuteEndInv, ExecuteEventUasInv
<1>6. CASE MainTimers("IST", "timers_ist", "timers_nist")
  BY <1>6, TimersIstInv
<1>7. CASE MainTimers("NIST", "timers_nist", "recv")
  BY <1>7, TimersNistInv
<1>8. CASE StartCopy \/ RtpStep \/ RecStep \/ UNCHANGED vars
  <2>1. UNCHANGED <<osipVars, pc, rx>>
    BY <1>8 DEF StartCopy, RtpStep, RtpProcess, RtpRecv, RecStep, RecStart, RecReadPort, RecSend, vars
  <2> QED
    BY <2>1, OthersInv
<1> QED
  BY <1>1, <1>2, <1>3, <1>4, <1>5, <1>6, <1>7, <1>8 DEF UasNext, MainStep

\* The transactions have the shapes their requests call for, are in the lists as long as
\* they have not ended, and everything that arrived is accounted for (osip_ist_execute,
\* osip_nist_execute and the callbacks of callbacks.c, turn after turn of main.c).
THEOREM UasSpecInv == UasSpec => []UasInv
<1>1. UasInit => UasInv
  BY UasInitInv
<1>2. UasInv /\ [UasNext]_vars => UasInv'
  BY UasNextInv
<1> QED
  BY <1>1, <1>2, PTL DEF UasSpec

LEMMA InvIsComplete ==
  ASSUME UasInv PROVE TurnIsComplete
<1> SUFFICES ASSUME pc = "recv" PROVE AllExecuted /\ ByeCopiesAnswered /\ OnlyUnansweredStay
  BY DEF TurnIsComplete
<1>1. \A t \in Made : Rest(tr[t]) /\ tr[t].req \in Messages /\ Shaped(tr[t])
  BY DEF UasInv, Phases, Kept
<1>2. AllExecuted
  <2> SUFFICES ASSUME NEW t \in Ids
               PROVE  /\ tr[t].fifo \in {<<>>, <<"TIMEOUT_J">>}
                      /\ tr[t].fifo # <<>> => t \in lists /\ tr[t].state = "NIST_COMPLETED"
                      /\ tr[t].ctx_type = "IST" => tr[t].wire = <<"SND_STATUS_1XX", "SND_STATUS_2XX">>
    BY DEF AllExecuted
  <2>1. CASE t \in Made
    <3>1. EventType(tr[t].req) = "RCV_REQINVITE" => tr[t].ctx_type = "IST"
      BY <1>1, <2>1 DEF Shaped
    <3>2. tr[t].fifo \in {<<>>, <<"TIMEOUT_J">>}
      BY <1>1, <2>1 DEF Rest
    <3>3. \/ tr[t].ctx_type = "IST" \/ Answerable(tr[t].req) \/ Mute(tr[t].req) \/ Stray(tr[t].req)
      BY <1>1, <2>1, <3>1, Kinds3
    <3> QED
      BY <1>1, <2>1, <3>2, <3>3, RestFacts DEF UasInv, One, Two
  <2>2. CASE t \notin Made
    BY <2>2 DEF UasInv, Kept, NoTransaction
  <2> QED
    BY <2>1, <2>2
<1>3. ASSUME NEW m \in Messages
      PROVE  /\ Handled(m) = arrived[m] /\ arrived[m] \in Nat
             /\ Of(m) \subseteq Made /\ IsFiniteSet(Of(m)) /\ Owed(m) = {}
             /\ \A t \in Of(m) : tr[t].req = m
  <2>1. arrived[m] \in Nat /\ Handled(m) = arrived[m]
    BY DEF UasInv, Kept, Handled
  <2>2. Of(m) \subseteq Made /\ IsFiniteSet(Of(m))
    BY KeptFacts DEF UasInv
  <2> QED
    BY <1>1, <2>1, <2>2 DEF Owed, Of
<1>4. ByeCopiesAnswered
  <2> SUFFICES ASSUME NEW m \in Messages, m.kind = "request" /\ m.method = "BYE"
               PROVE  Cardinality(Answers(m)) + Cardinality({t \in Of(m) : t \notin lists}) >= arrived[m]
    BY DEF ByeCopiesAnswered
  <2>1. EventType(m) = "RCV_REQUEST"
    BY Kinds3
  <2>2. IsFiniteSet(Answers(m)) /\ Total(m) >= Handled(m)
    BY <2>1 DEF UasInv, Counted, Answerable
  <2>3. Cardinality(Owed(m)) = 0
    BY <1>3, FS_EmptySet
  <2>4. Cardinality({t \in Of(m) : t \notin lists}) = Cardinality(Ended(m))
    <3>1. {t \in Of(m) : t \notin lists} = Ended(m)
      BY DEF Ended
    <3> QED
      BY <3>1
  <2>5. Cardinality(Answers(m)) \in Nat /\ Cardinality(Ended(m)) \in Nat
    <3>1. IsFiniteSet(Ended(m))
      <4>1. Ended(m) \in SUBSET Of(m)
        BY DEF Ended
      <4> QED
        BY <1>3, <4>1, FS_Subset
    <3> QED
      BY <2>2, <3>1, FS_CardinalityType
  <2> QED
    BY <1>3, <2>2, <2>3, <2>4, <2>5 DEF Total
<1>5. OnlyUnansweredStay
  <2> SUFFICES ASSUME NEW m \in Messages
               PROVE  Cardinality({t \in Of(m) \cap lists : tr[t].state # "NIST_COMPLETED"}) =
                        CASE EventType(m) \in {"RCV_REQACK", "RCV_STATUS"} -> arrived[m]
                          [] EventType(m) = "RCV_REQUEST" /\ m.method \notin {"BYE", "CANCEL"}
                               -> Min2(arrived[m], 1)
                          [] OTHER -> 0
    BY DEF OnlyUnansweredStay
  <2> DEFINE staying == {t \in Of(m) \cap lists : tr[t].state # "NIST_COMPLETED"}
  <2>1. CASE Stray(m)
    <3>1. staying = Of(m)
      BY <1>1, <1>3, <2>1, RestFacts DEF UasInv
    <3>2. Cardinality(Of(m)) = arrived[m] /\ ~Mute(m)
      BY <1>3, <2>1 DEF UasInv, Counted, Stray, Mute
    <3> QED
      BY <2>1, <3>1, <3>2 DEF Stray, Mute
  <2>2. CASE Mute(m)
    <3>1. staying = Of(m)
      BY <1>1, <1>3, <2>2, RestFacts DEF UasInv
    <3>2. Cardinality(Of(m)) = Min2(arrived[m], 1) /\ ~Stray(m)
      BY <1>3, <2>2 DEF UasInv, Counted, Stray, Mute
    <3> QED
      BY <2>2, <3>1, <3>2 DEF Stray, Mute
  <2>3. CASE ~Stray(m) /\ ~Mute(m)
    <3>1. staying = {}
      <4> SUFFICES ASSUME NEW t \in Of(m), t \in lists, tr[t].state # "NIST_COMPLETED" PROVE FALSE
        OBVIOUS
      <4>1. t \in Made /\ Rest(tr[t]) /\ tr[t].req = m /\ Shaped(tr[t])
        BY <1>1, <1>3
      <4>2. tr[t].ctx_type = "IST" \/ Answerable(tr[t].req)
        BY <2>3, <4>1, Kinds3 DEF Shaped
      <4> QED
        BY <4>1, <4>2, RestFacts DEF UasInv
    <3>2. Cardinality(staying) = 0
      BY <3>1, FS_EmptySet
    <3> QED
      BY <2>3, <3>2 DEF Stray, Mute
  <2> QED
    BY <2>1, <2>2, <2>3
<1> QED
  BY <1>2, <1>4, <1>5

\* After every turn of the main loop what it took in was answered completely, and nothing
\* stays in the stack but what no callback answers (main.c:126, SipProcess).
THEOREM UasSpecTurnIsComplete == UasSpec => []TurnIsComplete
<1>1. UasInv => TurnIsComplete
  BY InvIsComplete
<1> QED
  BY <1>1, UasSpecInv, PTL

\* After a BYE at most the frame being recorded is sent (CbOnNistByeRcvd against
\* RecSamplesThread of rtp_handling.c).
THEOREM UasSpecOneFrameAfterBye == UasSpec => []OneFrameAfterBye
<1>1. UasInit => FrameInv
  BY DEF UasInit, FrameInv
<1>2. FrameInv /\ [UasNext]_vars => FrameInv'
  <2> SUFFICES ASSUME FrameInv, [UasNext]_vars PROVE FrameInv'
    OBVIOUS
  <2> USE DEF FrameInv
  <2>1. ASSUME UNCHANGED <<gRtpSessionActive, audioVars, histVars>> PROVE FrameInv'
    BY <2>1 DEF audioVars, histVars
  <2>2. CASE \/ (\E m \in Messages : RecvSip(m)) \/ (\E p \in Peers : RecvUnparsed(p))
             \/ RecvNothing \/ SipProcess \/ ProcessNewReqAddEvent \/ StartCopy
    BY <2>1, <2>2 DEF RecvSip, RecvUnparsed, RecvNothing, SipProcess, ProcessNewReqAddEvent,
                      StartCopy, globals
  <2>3. ASSUME NEW k \in Kinds, MainCopyList(k) \/ MainExecuteNext(k) \/ MainExecuteEnd(k)
        PROVE  FrameInv'
    BY <2>1, <2>3 DEF MainCopyList, MainExecuteNext, MainExecuteEnd, globals
  <2>4. ASSUME NEW k \in Kinds, MainExecuteEvent(k) PROVE FrameInv'
    <3>1. /\ recPc' = recPc
          /\ \/ UNCHANGED <<gRtpSessionActive, sinceBye>>
             \/ gRtpSessionActive' = FALSE /\ sinceBye' = 0
      BY <2>4 DEF MainExecuteEvent, CbOnIstInviteRcvd, CbOnNistByeRcvd, audioVars
    <3> QED
      BY <3>1
  <2>5. CASE \/ MainTimers("IST", "timers_ist", "timers_nist")
             \/ MainTimers("NIST", "timers_nist", "recv")
    BY <2>1, <2>5 DEF MainTimers, globals
  <2>6. CASE RtpStep
    BY <2>6 DEF RtpStep, RtpProcess, RtpRecv, histVars
  <2>7. CASE RecStep
    BY <2>7 DEF RecStep, RecStart, RecReadPort, RecSend, Min2, globals, histVars
  <2>8. CASE UNCHANGED vars
    BY <2>1, <2>8 DEF vars, globals
  <2> QED
    BY <2>2, <2>3, <2>4, <2>5, <2>6, <2>7, <2>8 DEF UasNext, MainStep
<1>3. FrameInv => OneFrameAfterBye
  BY DEF FrameInv, OneFrameAfterBye
<1> QED
  BY <1>1, <1>2, <1>3, PTL DEF UasSpec

=============================================================================
