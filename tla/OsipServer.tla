----------------------------- MODULE OsipServer -----------------------------
(***************************************************************************)
(* The server side of the oSIP2 transaction layer, lib/osip/src/osip2:     *)
(* INVITE server transactions (IST) and non-INVITE ones (NIST), the lists  *)
(* they live in, the FIFO of events each of them owns, their timers, and   *)
(* the two state machines.                                                 *)
(*                                                                         *)
(* The library is written for several threads.  Four of them meet here:    *)
(*   - the receiver matches a message with a transaction and queues it, or *)
(*     makes a new transaction;                                            *)
(*   - the executor (osip_ist_execute, osip_nist_execute) copies a list    *)
(*     and drains the FIFO of every transaction of the copy;               *)
(*   - the timer thread (osip_timers_*_execute) queues timeouts;           *)
(*   - the user of the library (TU) queues responses at any time, also to  *)
(*     a transaction that is over.                                         *)
(* The kill callback is the one of src/sip/callbacks.c: it takes the       *)
(* transaction out of its list and does not free it.                       *)
(*                                                                         *)
(* A message is a record with a kind, a CSeq method (equal to the method   *)
(* of the request line) and the branch of its top Via.  A response that is *)
(* sent is known by its class, and the class by the event that queues it.  *)
(* Timer G's interval is -1 over a reliable transport; G is not started    *)
(* there, so its interval is kept as if it were T1 and never read.         *)
(* Time is not counted: a timer that was started may fire.                 *)
(***************************************************************************)
EXTENDS Integers, Sequences

CONSTANTS Messages,          \* what may arrive: [kind, method, branch, ...]
          Reliable,          \* the messages whose top Via names TCP, TLS or SCTP
          SendMayFail,       \* may cb_send_message return an error?
          T1, T2,            \* DEFAULT_T1, DEFAULT_T2
          MaxTransactions,   \* bound: transactions ever made
          MaxCopies,         \* bound: times one message arrives
          MaxFifo,           \* bound: events one FIFO holds
          MaxWire,           \* bound: responses sent for one transaction
          None               \* no message, no response

ASSUME OsipAssumption ==
    /\ \A m \in Messages : m.kind \in {"request", "response"} /\ m.method \in STRING
    /\ Reliable \subseteq Messages
    /\ SendMayFail \in BOOLEAN
    /\ T1 \in Nat \ {0} /\ T2 \in Nat /\ T1 <= T2
    /\ MaxTransactions \in Nat /\ MaxCopies \in Nat /\ MaxFifo \in Nat /\ MaxWire \in Nat
    /\ None \notin Messages

VARIABLES tr,                \* the transactions, by transactionid
          transactionid,     \* osip->transactionid, the next one
          lists,             \* the ids in osip_ist_transactions, osip_nist_transactions
          array,             \* per list, what is left of the executor's copy
          incoming,          \* the transaction made whose first event is not queued, or 0
          arrived            \* how often each message has arrived

osipVars == <<tr, transactionid, lists, array, incoming, arrived>>

Ids == 1 .. MaxTransactions
Kinds == {"IST", "NIST"}
Final == {"SND_STATUS_2XX", "SND_STATUS_3456XX"}
Responses == {"SND_STATUS_1XX"} \cup Final
Timeouts == {"TIMEOUT_G", "TIMEOUT_H", "TIMEOUT_I", "TIMEOUT_J"}
Received == {"RCV_REQINVITE", "RCV_REQACK", "RCV_REQUEST", "RCV_STATUS"}
Events == Received \cup Responses \cup Timeouts
PreStates == {"IST_PRE_PROCEEDING", "NIST_PRE_TRYING"}
Terminated == {"IST_TERMINATED", "NIST_TERMINATED"}
States == PreStates \cup Terminated \cup
          {"none", "IST_PROCEEDING", "IST_COMPLETED", "IST_CONFIRMED",
           "NIST_TRYING", "NIST_PROCEEDING", "NIST_COMPLETED"}

NoTransaction ==
    [ctx_type |-> "none", req |-> None, state |-> "none", fifo |-> <<>>,
     last_response |-> None, timers |-> {}, g_length |-> T1, wire |-> <<>>]

Init == /\ tr = [t \in Ids |-> NoTransaction]
        /\ transactionid = 1
        /\ lists = {}
        /\ array = [k \in Kinds |-> {}]
        /\ incoming = 0
        /\ arrived = [m \in Messages |-> 0]

Min2(a, b) == IF a <= b THEN a ELSE b

\* Ids grow and lists are appended to, so list order is the order of the ids.
First(S) == CHOOSE t \in S : \A u \in S : t <= u

Live(k) == {t \in lists : tr[t].ctx_type = k}

-----------------------------------------------------------------------------
(* Receiving a message *)

EventType(m) ==
    CASE m.kind = "response"                        -> "RCV_STATUS"
      [] m.kind = "request" /\ m.method = "INVITE"  -> "RCV_REQINVITE"
      [] m.kind = "request" /\ m.method = "ACK"     -> "RCV_REQACK"
      [] OTHER                                      -> "RCV_REQUEST"

\* The list __osip_find_transaction searches; responses go to the client side.
ListOf(m) == IF m.method \in {"INVITE", "ACK"} THEN "IST" ELSE "NIST"

\* __osip_transaction_matching_request_osip_to_xist_17_2_3.
Matches(t, m) ==
    /\ m.kind = "request"
    /\ tr[t].ctx_type = ListOf(m)
    /\ tr[t].req.branch = m.branch
    /\ \/ tr[t].req.method = m.method
       \/ tr[t].req.method = "INVITE" /\ m.method = "ACK"

\* Mutant of Found: a transaction that was removed is still found.
FoundRemoved(m) == {t \in Ids : Matches(t, m)}

Found(m) == {t \in lists : Matches(t, m)}

\* The event is queued before the mutex of the list is released.
osip_find_transaction_and_add_event(m) ==
    /\ Found(m) # {}
    /\ tr' = [tr EXCEPT ![First(Found(m))].fifo = Append(@, EventType(m))]
    /\ UNCHANGED <<transactionid, lists, array, incoming>>

\* The transaction is in its list before its first event is in its FIFO.
osip_transaction_init(k, m) ==
    /\ transactionid \in Ids
    /\ tr' = [tr EXCEPT ![transactionid] =
                [NoTransaction EXCEPT
                    !.ctx_type = k,
                    !.req = m,
                    !.state = IF k = "IST" THEN "IST_PRE_PROCEEDING" ELSE "NIST_PRE_TRYING"]]
    /\ transactionid' = transactionid + 1
    /\ lists' = lists \cup {transactionid}
    /\ incoming' = transactionid
    /\ UNCHANGED array

AddFirstEvent ==
    /\ incoming # 0
    /\ tr' = [tr EXCEPT ![incoming].fifo = Append(@, EventType(tr[incoming].req))]
    /\ incoming' = 0
    /\ UNCHANGED <<transactionid, lists, array, arrived>>

Arrive(m) == /\ incoming = 0
             /\ arrived[m] < MaxCopies
             /\ arrived' = [arrived EXCEPT ![m] = @ + 1]

\* Mutant of osip_create_transaction: made without looking for one first.
CreateAnyway(m) ==
    /\ m.kind = "request" /\ m.method # "ACK"
    /\ osip_transaction_init(ListOf(m), m)

osip_create_transaction(m) ==
    /\ Found(m) = {}
    /\ IF m.kind = "request" /\ m.method # "ACK"
       THEN osip_transaction_init(ListOf(m), m)
       ELSE UNCHANGED <<tr, transactionid, lists, array, incoming>>

Receive == \E m \in Messages :
    /\ Arrive(m)
    /\ osip_find_transaction_and_add_event(m) \/ osip_create_transaction(m)

-----------------------------------------------------------------------------
(* The handlers of the state machines, for the event at the head of a FIFO *)

On(t, states, events) == /\ tr[t].fifo # <<>>
                         /\ tr[t].state \in states
                         /\ Head(tr[t].fifo) \in events

\* cb_send_message failed: ist_handle_transport_error, nist_handle_transport_error.
\* g is timer G's interval, which is doubled before the attempt.
transport_error(t, r, g) ==
    /\ SendMayFail
    /\ tr' = [tr EXCEPT ![t].fifo = Tail(@),
                        ![t].last_response = r,
                        ![t].g_length = g,
                        ![t].state = IF tr[t].ctx_type = "IST" THEN "IST_TERMINATED"
                                                               ELSE "NIST_TERMINATED"]
    /\ lists' = lists \ {t}

\* The message callback tells the TU of the request; it may queue answers.
Announce(t, next, answers) ==
    /\ tr' = [tr EXCEPT ![t].fifo = Tail(@) \o answers, ![t].state = next]
    /\ UNCHANGED lists

\* A response the TU has queued is sent; timers are started; a transaction
\* that ends is killed.
Answer(t, next, started) ==
    \/ /\ tr' = [tr EXCEPT ![t].fifo = Tail(@),
                           ![t].last_response = Head(tr[t].fifo),
                           ![t].wire = Append(@, Head(tr[t].fifo)),
                           ![t].state = next,
                           ![t].timers = @ \cup started]
       /\ lists' = IF next \in Terminated THEN lists \ {t} ELSE lists
    \/ transport_error(t, Head(tr[t].fifo), tr[t].g_length)

\* A retransmitted request, or timer G, sends the last response once more.
Resend(t, g) ==
    \/ /\ tr[t].last_response = None
       /\ tr' = [tr EXCEPT ![t].fifo = Tail(@)]
       /\ UNCHANGED lists
    \/ /\ tr[t].last_response # None
       /\ tr' = [tr EXCEPT ![t].fifo = Tail(@),
                           ![t].wire = Append(@, tr[t].last_response),
                           ![t].g_length = g]
       /\ UNCHANGED lists
    \/ /\ tr[t].last_response # None
       /\ transport_error(t, tr[t].last_response, g)

Expire(t, e, next) ==
    /\ tr' = [tr EXCEPT ![t].fifo = Tail(@), ![t].state = next, ![t].timers = @ \ {e}]
    /\ lists' = lists \ {t}

ist_rcv_invite(t, answers) ==
    \/ /\ On(t, {"IST_PRE_PROCEEDING"}, {"RCV_REQINVITE"})
       /\ Announce(t, "IST_PROCEEDING", answers)
    \/ /\ On(t, {"IST_PROCEEDING", "IST_COMPLETED"}, {"RCV_REQINVITE"})
       /\ Resend(t, tr[t].g_length)

ist_snd_1xx(t) ==
    On(t, {"IST_PROCEEDING"}, {"SND_STATUS_1XX"}) /\ Answer(t, "IST_PROCEEDING", {})

\* Mutant of ist_snd_2xx: the transaction is not ended.
Snd2xxStays(t) ==
    On(t, {"IST_PROCEEDING"}, {"SND_STATUS_2XX"}) /\ Answer(t, "IST_PROCEEDING", {})

ist_snd_2xx(t) ==
    On(t, {"IST_PROCEEDING"}, {"SND_STATUS_2XX"}) /\ Answer(t, "IST_TERMINATED", {})

\* Mutant of ist_snd_3456xx: timer H is not started where G is.
Snd3456xxNoTimer(t) ==
    /\ On(t, {"IST_PROCEEDING"}, {"SND_STATUS_3456XX"})
    /\ Answer(t, "IST_COMPLETED", IF tr[t].req \in Reliable THEN {"TIMEOUT_H"} ELSE {"TIMEOUT_G"})

ist_snd_3456xx(t) ==
    /\ On(t, {"IST_PROCEEDING"}, {"SND_STATUS_3456XX"})
    /\ Answer(t, "IST_COMPLETED", {"TIMEOUT_H"} \cup
                 (IF tr[t].req \in Reliable THEN {} ELSE {"TIMEOUT_G"}))

\* The TU is told of the first ACK only (OSIP_IST_ACK_RECEIVED).
ist_rcv_ack(t, answers) ==
    /\ On(t, {"IST_COMPLETED", "IST_CONFIRMED"}, {"RCV_REQACK"})
    /\ tr' = [tr EXCEPT ![t].fifo = Tail(@) \o (IF tr[t].state = "IST_COMPLETED"
                                               THEN answers ELSE <<>>),
                        ![t].state = "IST_CONFIRMED",
                        ![t].timers = @ \cup {"TIMEOUT_I"}]
    /\ UNCHANGED lists

osip_ist_timeout_g_event(t) ==
    /\ On(t, {"IST_COMPLETED"}, {"TIMEOUT_G"})
    /\ Resend(t, Min2(2 * tr[t].g_length, T2))

osip_ist_timeout_h_event(t) ==
    On(t, {"IST_COMPLETED"}, {"TIMEOUT_H"}) /\ Expire(t, "TIMEOUT_H", "IST_TERMINATED")

osip_ist_timeout_i_event(t) ==
    On(t, {"IST_CONFIRMED"}, {"TIMEOUT_I"}) /\ Expire(t, "TIMEOUT_I", "IST_TERMINATED")

nist_rcv_request(t, answers) ==
    \/ /\ On(t, {"NIST_PRE_TRYING"}, {"RCV_REQUEST"})
       /\ Announce(t, "NIST_TRYING", answers)
    \/ /\ On(t, {"NIST_PROCEEDING", "NIST_COMPLETED"}, {"RCV_REQUEST"})
       /\ Resend(t, tr[t].g_length)

nist_snd_1xx(t) ==
    /\ On(t, {"NIST_TRYING", "NIST_PROCEEDING"}, {"SND_STATUS_1XX"})
    /\ Answer(t, "NIST_PROCEEDING", {})

\* Mutant of nist_snd_23456xx: the TU's second final response is sent too.
Snd23456xxTwice(t) ==
    /\ On(t, {"NIST_TRYING", "NIST_PROCEEDING", "NIST_COMPLETED"}, Final)
    /\ Answer(t, "NIST_COMPLETED", {"TIMEOUT_J"})

nist_snd_23456xx(t) ==
    /\ On(t, {"NIST_TRYING", "NIST_PROCEEDING"}, Final)
    /\ Answer(t, "NIST_COMPLETED", {"TIMEOUT_J"})

osip_nist_timeout_j_event(t) ==
    On(t, {"NIST_COMPLETED"}, {"TIMEOUT_J"}) /\ Expire(t, "TIMEOUT_J", "NIST_TERMINATED")

\* What ist_transition and nist_transition list; any other event is useless.
transitions ==
    {<<"IST_PRE_PROCEEDING", "RCV_REQINVITE">>, <<"IST_PROCEEDING", "RCV_REQINVITE">>,
     <<"IST_COMPLETED", "RCV_REQINVITE">>, <<"IST_COMPLETED", "TIMEOUT_G">>,
     <<"IST_COMPLETED", "TIMEOUT_H">>, <<"IST_COMPLETED", "RCV_REQACK">>,
     <<"IST_CONFIRMED", "RCV_REQACK">>, <<"IST_CONFIRMED", "TIMEOUT_I">>,
     <<"NIST_PRE_TRYING", "RCV_REQUEST">>, <<"NIST_PROCEEDING", "RCV_REQUEST">>,
     <<"NIST_COMPLETED", "RCV_REQUEST">>, <<"NIST_COMPLETED", "TIMEOUT_J">>}
    \cup {"IST_PROCEEDING", "NIST_TRYING", "NIST_PROCEEDING"} \X Responses

UselessEvent(t) ==
    /\ tr[t].fifo # <<>>
    /\ <<tr[t].state, Head(tr[t].fifo)>> \notin transitions
    /\ tr' = [tr EXCEPT ![t].fifo = Tail(@)]
    /\ UNCHANGED lists

osip_transaction_execute(t, answers) ==
    \/ ist_rcv_invite(t, answers)
    \/ ist_snd_1xx(t)
    \/ ist_snd_2xx(t)
    \/ ist_snd_3456xx(t)
    \/ ist_rcv_ack(t, answers)
    \/ osip_ist_timeout_g_event(t)
    \/ osip_ist_timeout_h_event(t)
    \/ osip_ist_timeout_i_event(t)
    \/ nist_rcv_request(t, answers)
    \/ nist_snd_1xx(t)
    \/ nist_snd_23456xx(t)
    \/ osip_nist_timeout_j_event(t)
    \/ UselessEvent(t)

-----------------------------------------------------------------------------
(* osip_ist_execute and osip_nist_execute *)

CopyList(k) == /\ array[k] = {}
               /\ array' = [array EXCEPT ![k] = Live(k)]

\* One event of the first transaction left in the copy.
ExecuteEvent(k, answers) ==
    /\ array[k] # {}
    /\ osip_transaction_execute(First(array[k]), answers)
    /\ UNCHANGED <<transactionid, array, incoming, arrived>>

\* Mutant of ExecuteNext: leaves a transaction before its FIFO is empty.
ExecuteNextEarly(k) ==
    /\ array[k] # {}
    /\ array' = [array EXCEPT ![k] = @ \ {First(@)}]
    /\ UNCHANGED <<tr, transactionid, lists, incoming, arrived>>

\* Its FIFO is empty: go on to the next one.
ExecuteNext(k) ==
    /\ array[k] # {}
    /\ tr[First(array[k])].fifo = <<>>
    /\ array' = [array EXCEPT ![k] = @ \ {First(@)}]
    /\ UNCHANGED <<tr, transactionid, lists, incoming, arrived>>

ExecuteBegin(k) ==
    /\ Live(k) # {}
    /\ CopyList(k)
    /\ UNCHANGED <<tr, transactionid, lists, incoming, arrived>>

-----------------------------------------------------------------------------
(* osip_timers_ist_execute and osip_timers_nist_execute *)

\* Mutant of TimerState: timer I is asked for in the wrong state.
TimerStateIWrong == [TIMEOUT_G |-> "IST_COMPLETED", TIMEOUT_H |-> "IST_COMPLETED",
                     TIMEOUT_I |-> "IST_COMPLETED", TIMEOUT_J |-> "NIST_COMPLETED"]

\* The state in which each timer counts: __osip_transaction_need_timer_x_event.
TimerState == [TIMEOUT_G |-> "IST_COMPLETED", TIMEOUT_H |-> "IST_COMPLETED",
               TIMEOUT_I |-> "IST_CONFIRMED", TIMEOUT_J |-> "NIST_COMPLETED"]

MayFire(t, e) == e \in tr[t].timers /\ tr[t].state = TimerState[e]

\* due says which timer, if any, is found to have run out, transaction by
\* transaction; the code queues one timeout per transaction and pass.
osip_timers_execute(k, due) ==
    /\ \A t \in Live(k) : due[t] # "none" => MayFire(t, due[t])
    /\ tr' = [t \in Ids |->
                IF t \in Live(k) /\ due[t] # "none"
                THEN [tr[t] EXCEPT !.fifo = Append(@, due[t])]
                ELSE tr[t]]
    /\ UNCHANGED <<transactionid, lists, array, incoming, arrived>>

FireTimer(t, e) ==
    /\ t \in lists
    /\ Len(tr[t].fifo) < MaxFifo
    /\ e = "TIMEOUT_G" => Len(tr[t].wire) < MaxWire
    /\ osip_timers_execute(tr[t].ctx_type, [u \in Ids |-> IF u = t THEN e ELSE "none"])

\* The user of the library answers a request it was told of, whenever it likes.
osip_transaction_add_event(t, r) ==
    /\ tr[t].state \notin PreStates \cup {"none"}
    /\ Len(tr[t].fifo) + 1 < MaxFifo
    /\ Len(tr[t].wire) < MaxWire
    /\ tr' = [tr EXCEPT ![t].fifo = Append(@, r)]
    /\ UNCHANGED <<transactionid, lists, array, incoming, arrived>>

Execute(k) == ExecuteBegin(k) \/ ExecuteEvent(k, <<>>) \/ ExecuteNext(k)

Next == \/ Receive
        \/ AddFirstEvent
        \/ \E k \in Kinds : Execute(k)
        \/ \E t \in Ids, e \in Timeouts : FireTimer(t, e)
        \/ \E t \in Ids, r \in Responses : osip_transaction_add_event(t, r)

Spec == Init /\ [][Next]_osipVars

\* The executor keeps running and so does the clock: a timer that stays
\* started is found to have run out.  Nothing that ends is due to timer G.
ServerFairness ==
    /\ WF_osipVars(AddFirstEvent)
    /\ \A k \in Kinds : WF_osipVars(Execute(k))
    /\ \A t \in Ids, e \in Timeouts \ {"TIMEOUT_G"} : WF_osipVars(FireTimer(t, e))

-----------------------------------------------------------------------------
(* Properties *)

Transaction ==
    [ctx_type : Kinds \cup {"none"}, req : Messages \cup {None}, state : States,
     fifo : Seq(Events), last_response : Responses \cup {None},
     timers : SUBSET Timeouts, g_length : T1 .. T2, wire : Seq(Responses)]

\* The variables have their types; timer G stays between T1 and T2.
OsipTypeOK == /\ tr \in [Ids -> Transaction]
              /\ transactionid \in 1 .. MaxTransactions + 1
              /\ lists \subseteq Ids
              /\ array \in [Kinds -> SUBSET Ids]
              /\ incoming \in Ids \cup {0}
              /\ arrived \in [Messages -> 0 .. MaxCopies]

\* A message that was matched with a transaction, or made one, is executed: no
\* race of the receiver with the executor that kills the transaction leaves it
\* in the FIFO of a transaction nobody will execute again.
NoStrandedMessage ==
    \A t \in Ids : t \notin lists /\ (\A k \in Kinds : t \notin array[k]) =>
        \A i \in DOMAIN tr[t].fifo : tr[t].fifo[i] \notin Received

\* A transaction that only a timeout can end has the timer for it running.
WaitsOnTimer ==
    \A t \in Ids :
        /\ tr[t].state = "IST_COMPLETED" =>
              /\ "TIMEOUT_H" \in tr[t].timers
              /\ tr[t].req \in Reliable \/ "TIMEOUT_G" \in tr[t].timers
        /\ tr[t].state = "IST_CONFIRMED" => "TIMEOUT_I" \in tr[t].timers
        /\ tr[t].state = "NIST_COMPLETED" => "TIMEOUT_J" \in tr[t].timers

\* A request never has two transactions in the stack that could take it.
OneTransactionPerRequest ==
    \A m \in Messages : \A t, u \in Found(m) : t = u

\* After a final response nothing but that response is ever sent: no late
\* provisional one, no second answer of the TU, whatever it queues and when.
FinalIsFinal ==
    \A t \in Ids : \A i, j \in DOMAIN tr[t].wire :
        i < j /\ tr[t].wire[i] \in Final => tr[t].wire[j] = tr[t].wire[i]

\* The transaction layer is an implementation of what ServerTransaction
\* promises: FIFOs, races and timers are stutters or one of its steps.
Phase(t) ==
    CASE tr[t].state \in PreStates \cup {"none"} -> "idle"
      [] tr[t].state \in {"IST_PROCEEDING", "NIST_TRYING", "NIST_PROCEEDING"} -> "open"
      [] tr[t].state \in {"IST_COMPLETED", "IST_CONFIRMED", "NIST_COMPLETED"} -> "final"
      [] tr[t].state \in Terminated -> "over"

Promise == INSTANCE ServerTransaction
             WITH Provisional <- {"SND_STATUS_1XX"},
                  phase <- [t \in Ids |-> Phase(t)],
                  wire <- [t \in Ids |-> tr[t].wire]

KeepsPromise == Promise!Spec

\* A transaction whose final response was sent is over some day.
Completed(t) == tr[t].state \in {"IST_COMPLETED", "IST_CONFIRMED", "NIST_COMPLETED"}
CompletedEnds == \A t \in Ids : Completed(t) ~> tr[t].state \in Terminated
=============================================================================
