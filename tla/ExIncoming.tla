----------------------------- MODULE ExIncoming -----------------------------
(***************************************************************************)
(* A call that comes in to libeXosip2.  One thread runs eXosip_execute:    *)
(* _eXosip_read_message takes one message and holds the lock while it      *)
(* works on it, and a second critical section runs the timers, the state   *)
(* machines and the release of what has ended.  The application calls in   *)
(* between, also between these two: it answers, terminates, and by waiting *)
(* for events retransmits 200s.  An answer is only queued on its           *)
(* transaction; the state it is judged by is that of the answers before.   *)
(*                                                                         *)
(* The call has the INVITE that made it ("inc"), a re-INVITE ("re"), a     *)
(* CANCEL of either, a BYE from the peer and a BYE of its own.  The INVITE *)
(* server transactions are those of OsipServer, seen from their user: the  *)
(* executor takes all that is queued, since nobody else does.              *)
(***************************************************************************)
EXTENDS Integers, Sequences, SequencesExt

CONSTANTS LastCount,      \* d_count at which a call without ACK is dropped: 9
          Copies,         \* how often each message of the peer may arrive
          MaxMessages,    \* bound: how many messages of the peer arrive
          MaxQueue        \* bound: answers queued on one transaction

ASSUME ExIncomingAssumption ==
    /\ LastCount \in Nat \ {0} /\ MaxQueue \in Nat \ {0}
    /\ DOMAIN Copies \subseteq STRING

VARIABLES pc,     \* where the thread is: it reads or it executes
          c,      \* the eXosip_call_t with its dialog and its transactions
          got,    \* how many copies of each message have arrived
          due,    \* the transactions whose timer has run out
          old     \* the transactions born more than 180 seconds ago

exVars == <<pc, c, got, due, old>>

Invites == {"inc", "re"}
Cancel == [inc |-> "cancel", re |-> "recancel"]
Servers == Invites \cup {"cancel", "recancel", "bye"}
Transactions == Servers \cup {"byeOut"}
CSeq == [inc |-> 1, re |-> 2, bye |-> 3]
Answered == {"completed", "confirmed", "terminated"}

NoCall ==
    [call |-> "none",                                  \* none, active, released
     dialog |-> "none",                                \* none, early, confirmed, null
     cseq |-> 0,                                       \* remote_cseq
     ok |-> "none", count |-> 0,                       \* whose 200 is d_200Ok, d_count
     st |-> [x \in Transactions |-> "none"],
     q |-> [x \in Transactions |-> <<>>],
     resp |-> [x \in Invites |-> "none"],              \* last_response
     inDialog |-> {},                                  \* d_inc_trs and d_out_trs
     refCall |-> {}, refDialog |-> {},                 \* reserved2, reserved3
     sent |-> {},                                      \* what the peer may have heard
     told |-> {},                                      \* the events of the application
     left |-> FALSE]                                   \* eXosip_call_terminate returned 0

Init == /\ pc = "read"
        /\ c = NoCall
        /\ got = [m \in DOMAIN Copies |-> 0]
        /\ due = {}
        /\ old = {}

Tell(s, e) == [s EXCEPT !.told = @ \cup {e}]
Put(s, x, a) == [s EXCEPT !.q[x] = Append(@, a)]
Matched(s) == s.dialog \in {"early", "confirmed"}
HasDialog(s) == s.dialog # "none"

\* The transaction is in the lists of oSIP, where a copy of its request finds it.
InOsip(s, x) == s.st[x] \notin {"none", "terminated"}

-----------------------------------------------------------------------------
(* The state machines, as the user of the stack sees them. *)

\* A response that refuses an INVITE was sent.
RefusalSent(s, x) ==
    LET early == [s EXCEPT !.dialog = IF @ = "early" THEN "null" ELSE @] IN
    IF x \notin s.refDialog THEN s
    ELSE IF x = "inc" /\ x \in s.refCall THEN Tell(early, "CALL_CLOSED") ELSE early

\* Mutant of MayRefuse: also after a 200.
MayRefuseLate(s, x) == s.st[x] \in {"proceeding", "terminated"}

MayRefuse(s, x) == s.st[x] = "proceeding"

\* One event of an INVITE server transaction.
Ist(s, x, a) ==
    CASE a = "1xx" /\ s.st[x] = "proceeding" ->
            [s EXCEPT !.resp[x] = a, !.sent = @ \cup {<<x, a>>}]
      [] a = "2xx" /\ s.st[x] = "proceeding" ->
            [s EXCEPT !.resp[x] = a, !.sent = @ \cup {<<x, a>>}, !.st[x] = "terminated"]
      [] a = "3456xx" /\ MayRefuse(s, x) ->
            RefusalSent([s EXCEPT !.resp[x] = a, !.sent = @ \cup {<<x, a>>},
                                  !.st[x] = "completed"], x)
      [] a = "ACK" /\ s.st[x] = "completed" -> [s EXCEPT !.st[x] = "confirmed"]
      [] OTHER -> s

\* One event of a non-INVITE server transaction.
Nist(s, x, a) ==
    CASE a = "CANCEL" -> LET t == [s EXCEPT !.st[x] = "trying"]
                         IN IF x \in s.refDialog \cap s.refCall
                            THEN Tell(t, "CALL_CANCELLED") ELSE t
      [] a = "BYE" -> [s EXCEPT !.st[x] = "trying"]
      [] a = "200" /\ s.st[x] = "trying" ->
            [s EXCEPT !.st[x] = "completed", !.sent = @ \cup {<<x, "2xx">>}]
      [] OTHER -> s

\* One event of the client transaction of an own BYE.
Nict(s, x, a) ==
    CASE a = "SND_BYE" -> [s EXCEPT !.st[x] = "trying", !.sent = @ \cup {<<x, "BYE">>}]
      [] a = "RCV_200" /\ s.st[x] = "trying" ->
            LET t == [s EXCEPT !.st[x] = "completed"]
            IN IF x \in s.refCall THEN Tell(t, "CALL_MESSAGE_ANSWERED") ELSE t
      [] OTHER -> s

Takes(s, x, a) == IF x \in Invites THEN Ist(s, x, a)
                  ELSE IF x = "byeOut" THEN Nict(s, x, a) ELSE Nist(s, x, a)

\* All that is queued on one transaction, in order.
RunOne(s, x) ==
    LET after[n \in 0 .. Len(s.q[x])] == IF n = 0 THEN s ELSE Takes(after[n-1], x, s.q[x][n])
    IN [after[Len(s.q[x])] EXCEPT !.q[x] = <<>>]

osip_nist_execute(s) == RunOne(RunOne(RunOne(s, "cancel"), "recancel"), "bye")
osip_nict_execute(s) == RunOne(s, "byeOut")
osip_ist_execute(s) == RunOne(RunOne(s, "inc"), "re")

\* In the order of eXosip_execute.
Run(s) == osip_ist_execute(osip_nict_execute(osip_nist_execute(s)))

\* Timers that end their transactions: H or I, J, F or K.
Expired(s, ends) ==
    LET t == [s EXCEPT !.st = [x \in Transactions |-> IF x \in ends THEN "terminated" ELSE @[x]]]
    IN IF "byeOut" \in ends \cap s.refCall /\ s.st.byeOut = "trying"
       THEN Tell(t, "CALL_MESSAGE_REQUESTFAILURE") ELSE t

-----------------------------------------------------------------------------
(* _eXosip_release_terminated_calls *)

LastIncInvite(s) == IF "re" \in s.inDialog THEN "re" ELSE "inc"
IncBye(s) == "bye" \in s.inDialog
OutBye(s) == "byeOut" \in s.inDialog
Open(s, x) == s.st[x] # "terminated"

\* Mutant of _eXosip_dialog_free: transactions keep their reserved3.
DialogFreeKeepsReferences(s) ==
    [s EXCEPT !.dialog = "none", !.ok = "none", !.inDialog = {}, !.refCall = @ \ s.inDialog]

\* A dialog and the lists it has are freed; the call forgets it.
_eXosip_dialog_free(s) ==
    [s EXCEPT !.dialog = "none", !.ok = "none", !.inDialog = {},
              !.refCall = @ \ s.inDialog, !.refDialog = @ \ (s.inDialog \cup {"inc"})]

_eXosip_release_call(s) ==
    LET t == _eXosip_dialog_free(Tell(s, "CALL_RELEASED"))
    IN [t EXCEPT !.call = "released", !.refCall = @ \ {"inc"}]

\* Mutant of _eXosip_pendingosip_transaction_exist: an INVITE holds its call at any age.
PendingForEver(s) ==
    \/ IncBye(s) /\ Open(s, "bye")
    \/ OutBye(s) /\ Open(s, "byeOut")
    \/ Open(s, LastIncInvite(s))

_eXosip_pendingosip_transaction_exist(s) ==
    \/ IncBye(s) /\ Open(s, "bye")
    \/ OutBye(s) /\ Open(s, "byeOut")
    \/ Open(s, LastIncInvite(s)) /\ LastIncInvite(s) \notin old

_eXosip_release_finished_calls(s) ==
    \/ IncBye(s) /\ ~Open(s, "bye")
    \/ ~IncBye(s) /\ OutBye(s) /\ ~Open(s, "byeOut")

Refused(s) == ~Open(s, "inc") /\ s.resp.inc = "3456xx"

\* What happens to the dialog of the call.
ReleaseDialog(s) ==
    IF ~HasDialog(s) \/ _eXosip_pendingosip_transaction_exist(s) THEN s
    ELSE IF _eXosip_release_finished_calls(s) THEN _eXosip_dialog_free(s)
    ELSE IF Open(s, "inc") /\ "inc" \in old THEN Tell(_eXosip_dialog_free(s), "CALL_NOANSWER")
    ELSE IF Refused(s) THEN _eXosip_release_call(s)
    ELSE IF s.dialog = "null" THEN _eXosip_dialog_free(s)
    ELSE s

\* A call without dialog is released when its INVITE is over, or old.
_eXosip_release_terminated_calls(s) ==
    IF s.call # "active" THEN s
    ELSE LET t == ReleaseDialog(s)
         IN IF t.call = "active" /\ ~HasDialog(t) /\ (~Open(t, "inc") \/ "inc" \in old)
            THEN _eXosip_release_call(t) ELSE t

-----------------------------------------------------------------------------
(* Messages of the peer.  Copies are made by its retransmissions. *)

\* Whether a transaction has a timer that ends it.
HasTimer(s, x) ==
    \/ x \in Invites /\ s.st[x] \in {"completed", "confirmed"}
    \/ x \in Servers \ Invites /\ s.st[x] = "completed"
    \/ x = "byeOut" /\ s.st[x] \in {"trying", "completed"}

\* Time passes while _eXosip_read_message waits, and timers run out.
Wait == /\ pc = "read" /\ pc' = "execute"
        /\ due' \in SUBSET {x \in Transactions : HasTimer(c, x)}
        /\ UNCHANGED old

Arrives(m) == /\ Wait
              /\ got[m] < Copies[m]
              /\ SumFunction(got) < MaxMessages
              /\ got' = [got EXCEPT ![m] = @ + 1]

\* The INVITE that makes the call, and its copies.
NewInvite(s) ==
    Tell([s EXCEPT !.call = "active", !.dialog = "early", !.cseq = CSeq.inc,
                   !.st.inc = "proceeding", !.resp.inc = "1xx",
                   !.refCall = {"inc"}, !.refDialog = {"inc"}], "CALL_INVITE")

RcvInvite ==
    /\ Arrives("INVITE")
    /\ c' = IF c.call = "none" THEN NewInvite(c)
            ELSE IF InOsip(c, "inc") THEN c               \* the last response again
            ELSE IF c.call = "active" /\ Matched(c)       \* 486, or 500 with a lower CSeq
            THEN [c EXCEPT !.sent = @ \cup {<<"inc", "copy refused">>}]
            ELSE Tell(c, "another CALL_INVITE")

\* A re-INVITE in the dialog.
ProcessReinvite(s) ==
    Tell(osip_ist_execute(
           [s EXCEPT !.cseq = CSeq.re, !.st.re = "proceeding", !.resp.re = "1xx",
                     !.inDialog = @ \cup {"re"}, !.refCall = @ \cup {"re"},
                     !.refDialog = @ \cup {"re"}]), "CALL_REINVITE")

RcvReinvite ==
    /\ <<"inc", "2xx">> \in c.sent
    /\ Arrives("REINVITE")
    /\ c' = IF /\ ~InOsip(c, "re") /\ c.call = "active" /\ Matched(c)
               /\ CSeq.re > c.cseq                        \* else 500, or a copy: no answer
               /\ ~IncBye(c) /\ ~OutBye(c)                \* else 481
            THEN IF c.st[LastIncInvite(c)] \in Answered
                 THEN ProcessReinvite(c)
                 ELSE [c EXCEPT !.cseq = CSeq.re]         \* 500, An INVITE is not terminated
            ELSE c

\* _eXosip_process_cancel: the CANCEL is judged by the state the INVITE has now.
_eXosip_process_cancel(s, x) ==
    LET k == Cancel[x]
        found == s.call = "active" /\ s.st[x] # "none"
                 /\ (x = "inc" \/ x \in s.inDialog)
    IN IF ~found \/ s.st[x] \in Answered
       THEN [s EXCEPT !.st[k] = "pretrying", !.q[k] = <<"CANCEL", "200">>,   \* 481
                      !.inDialog = IF found /\ HasDialog(s) THEN @ \cup {k} ELSE @]
       ELSE [Put(s, x, "3456xx") EXCEPT
                !.st[k] = "pretrying", !.q[k] = <<"CANCEL", "200">>,
                !.inDialog = IF HasDialog(s) THEN @ \cup {k} ELSE @,
                !.refCall = @ \cup {k},
                !.refDialog = IF HasDialog(s) THEN @ \cup {k} ELSE @]

RcvCancel(x) ==
    /\ c.st[x] # "none"
    /\ Arrives(IF x = "inc" THEN "CANCEL" ELSE "RECANCEL")
    /\ Len(c.q[x]) < MaxQueue
    /\ c' = IF InOsip(c, Cancel[x]) THEN c ELSE _eXosip_process_cancel(c, x)

\* The ACK of a refusal belongs to the transaction; any other is the dialog's.
_eXosip_process_ack(s) == Tell([s EXCEPT !.count = 0, !.ok = "none"], "CALL_ACK")

RcvNak(x) ==
    /\ <<x, "3456xx">> \in c.sent
    /\ Arrives(IF x = "inc" THEN "NAK" ELSE "RENAK")
    /\ c' = IF InOsip(c, x) THEN Put(c, x, "ACK")
            ELSE IF c.call = "active" /\ Matched(c) THEN _eXosip_process_ack(c)
            ELSE c

RcvAck(x) ==
    /\ <<x, "2xx">> \in c.sent
    /\ Arrives(IF x = "inc" THEN "ACK" ELSE "REACK")
    /\ c' = IF c.call = "active" /\ Matched(c) THEN _eXosip_process_ack(c) ELSE c

\* A BYE in the dialog, answered at once: autoanswer_bye is on unless it is set off.
_eXosip_process_bye(s) ==
    LET t == [s EXCEPT !.cseq = CSeq.bye, !.st.bye = "pretrying", !.q.bye = <<"BYE", "200">>,
                       !.inDialog = @ \cup {"bye"}, !.refCall = @ \cup {"bye"},
                       !.dialog = "null"]
    IN Tell(Tell(osip_nist_execute(t), "CALL_MESSAGE_NEW"), "CALL_CLOSED")

RcvBye ==
    /\ {<<"inc", "1xx">>, <<"inc", "2xx">>} \cap c.sent # {}
    /\ Arrives("BYE")
    /\ c' = IF /\ ~InOsip(c, "bye") /\ c.call = "active" /\ Matched(c)
               /\ CSeq.bye > c.cseq /\ ~IncBye(c)
            THEN _eXosip_process_bye(c) ELSE c

\* The peer answers the BYE it was sent.
RcvByeAnswer ==
    /\ <<"byeOut", "BYE">> \in c.sent
    /\ Arrives("BYE200")
    /\ c' = IF InOsip(c, "byeOut") THEN Put(c, "byeOut", "RCV_200") ELSE c

-----------------------------------------------------------------------------
(* Calls of the application. *)

Calls == UNCHANGED <<pc, got, due, old>>

\* eXosip_call_build_answer and eXosip_call_send_answer of an INVITE.
MayAnswer(s, x) == /\ s.call = "active" /\ HasDialog(s)
                   /\ x = "inc" \/ x \in s.inDialog
                   /\ s.st[x] = "proceeding"

eXosip_call_send_answer(x, a) ==
    /\ MayAnswer(c, x)
    /\ Len(c.q[x]) < MaxQueue
    /\ a = "2xx" => Matched(c)
    /\ a = "1xx" => x = "inc" /\ <<x, a>> \notin c.sent /\ ~Contains(c.q[x], a)  \* bound: one 1xx
    /\ c' = IF a = "2xx"
            THEN [Put(c, x, a) EXCEPT !.count = 0, !.ok = x, !.dialog = "confirmed"]
            ELSE Put(c, x, a)
    /\ Calls

\* eXosip_call_terminate, for a call that came in: 603 if the last INVITE has no
\* final response yet, a BYE if it has, both for a re-INVITE.
Decline(s) == IF s.resp[LastIncInvite(s)] = "1xx" /\ s.st[LastIncInvite(s)] = "proceeding"
              THEN Put(s, LastIncInvite(s), "3456xx") ELSE s
SendBye(s) ==
    [s EXCEPT !.st.byeOut = "precalling", !.q.byeOut = <<"SND_BYE">>,
              !.inDialog = @ \cup {"byeOut"}, !.refCall = @ \cup {"byeOut"},
              !.refDialog = @ \cup {"byeOut"}, !.dialog = "null"]
eXosip_call_terminate(s) ==
    IF LastIncInvite(s) = "inc" /\ s.resp.inc = "1xx" THEN Decline(s)
    ELSE SendBye(Decline(s))

Terminate == /\ c.call = "active" /\ Matched(c)
             /\ Len(c.q[LastIncInvite(c)]) < MaxQueue
             /\ ~c.left
             /\ c' = [eXosip_call_terminate(c) EXCEPT !.left = TRUE]
             /\ Calls

\* The 200 again, a second or more after it was sent; no ACK after the last time.
_eXosip_retransmit_lost200ok ==
    /\ c.call = "active" /\ Matched(c) /\ c.ok # "none"
    /\ \A x \in Invites : c.q[x] = <<>>
    /\ c' = IF c.count = LastCount
            THEN Tell(eXosip_call_terminate([c EXCEPT !.count = 0, !.ok = "none"]), "CALL_CLOSED")
            ELSE [c EXCEPT !.count = @ + 1, !.sent = @ \cup {<<c.ok, "200 again">>}]
    /\ Calls

-----------------------------------------------------------------------------
(* The thread and its clock. *)

\* _eXosip_read_message comes back without a message.
ReadNothing == Wait /\ UNCHANGED <<c, got>>

\* The second critical section of eXosip_execute.  A timeout is queued behind what
\* the transaction has received, and is of no use in another state.
eXosip_execute ==
    /\ pc = "execute" /\ pc' = "read"
    /\ LET ran == Run(c)
           ends == {x \in due : HasTimer(ran, x) /\ ran.st[x] = c.st[x]}
       IN c' = _eXosip_release_terminated_calls(Expired(ran, ends))
    /\ due' = {}
    /\ UNCHANGED <<got, old>>

\* 180 seconds after its birth; the INVITE is the oldest, and what has a timer is
\* over by then.
Age(x) == /\ c.call = "active" /\ c.st[x] \notin {"none", "terminated"} /\ x \notin old
          /\ x = "inc" \/ "inc" \in old \/ ~Open(c, "inc")
          /\ old' = old \cup {x}
          /\ UNCHANGED <<pc, c, got, due>>

Peer == \/ RcvInvite
        \/ RcvReinvite
        \/ \E x \in Invites : RcvCancel(x) \/ RcvNak(x) \/ RcvAck(x)
        \/ RcvBye
        \/ RcvByeAnswer

Application == \/ \E x \in Invites, a \in {"1xx", "2xx", "3456xx"} :
                      eXosip_call_send_answer(x, a)
               \/ Terminate
               \/ _eXosip_retransmit_lost200ok

Next == \/ Peer
        \/ ReadNothing
        \/ Application
        \/ eXosip_execute
        \/ \E x \in {"inc", "re"} : Age(x)

Spec == Init /\ [][Next]_exVars

\* The thread goes round for ever, timers run out, and the application waits for
\* events, which is what retransmits a 200.
Fair == /\ WF_pc(pc = "read" /\ pc' = "execute")
        /\ WF_pc(pc = "execute" /\ pc' = "read")
        /\ SF_exVars(ReadNothing /\ due' = {x \in Transactions : HasTimer(c, x)})
        /\ WF_exVars(\E x \in {"inc", "re"} : Age(x))
        /\ WF_exVars(_eXosip_retransmit_lost200ok)

FairSpec == Spec /\ Fair

-----------------------------------------------------------------------------
(* Properties *)

Told(e) == e \in c.told

\* Nothing points at what is freed: a transaction that oSIP still runs is in no
\* reference of a call or dialog that _eXosip_dialog_free or _eXosip_release_call has
\* freed, although releases, CANCELs and the application's calls come in any order.
NoDangling ==
    \A x \in Transactions : InOsip(c, x) =>
        /\ x \in c.refDialog => HasDialog(c)
        /\ x \in c.refCall => c.call = "active"

\* A peer that cancels and an application that answers, declines or terminates at the
\* same time: whatever is queued in which order, one final response leaves.
OneFinal == \A x \in Invites : ~({<<x, "2xx">>, <<x, "3456xx">>} \subseteq c.sent)

\* The application never loses a call without a reason: CALL_RELEASED comes after a
\* CALL_CLOSED, a CALL_NOANSWER or its own eXosip_call_terminate.
Explained == c.left \/ Told("CALL_CLOSED") \/ Told("CALL_NOANSWER")

\* A call whose dialog is closed, or whose INVITE was refused, is released in the end,
\* even if the peer never sends its ACK or its answer to the BYE.
Released == (c.call = "active" /\ (c.dialog = "null" \/ c.resp.inc = "3456xx"))
                ~> (c.call = "released" /\ Explained)

\* A 200 is not retransmitted for ever: the ACK comes, or after the last time the call is
\* terminated (_eXosip_retransmit_lost200ok).
LostAckEnds == (c.ok # "none") ~> (c.ok = "none")

\* Nothing of a call goes on for ever, whatever the peer leaves out: neither the call
\* after its end nor the retransmission of its answer (_eXosip_release_terminated_calls,
\* _eXosip_retransmit_lost200ok).
EndedIsReleased == Released /\ LostAckEnds

=============================================================================
