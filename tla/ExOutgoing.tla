----------------------------- MODULE ExOutgoing -----------------------------
(***************************************************************************)
(* A call that goes out through libeXosip2, towards callees that a proxy   *)
(* may have forked it to: several may ring, and several may answer.  The   *)
(* thread and its two critical sections are those of ExIncoming; the       *)
(* INVITE and BYE transactions are those of OsipClient and OsipServer seen *)
(* from their user.                                                        *)
(*                                                                         *)
(* libeXosip2 keeps one dialog for the call and moves it from callee to    *)
(* callee as they ring.  The first 200 ends the INVITE transaction and     *)
(* decides; a 200 of another callee is met with an ACK and a BYE.  A       *)
(* refusal that asks for credentials or elsewhere makes a new INVITE, in   *)
(* eXosip_automatic_action, which the application calls when it likes.     *)
(*                                                                         *)
(* Of a proxy it is assumed that it forwards no refusal after a 200 and no *)
(* second refusal.  Responses without a To tag are left out, but for 100.  *)
(***************************************************************************)
EXTENDS Integers, Sequences, FiniteSets

CONSTANTS Callees,      \* where the call may be answered
          NoOne,        \* no callee
          MaxRetry,     \* c_retry up to which a 401 or 407 is retried: 3
          MaxAttempts   \* bound: INVITEs sent for the call

ASSUME ExOutgoingAssumption ==
    /\ NoOne \notin Callees
    /\ MaxRetry \in Nat /\ MaxAttempts \in Nat \ {0}

VARIABLES pc,        \* where the thread is: it reads or it executes
          call,      \* the eXosip_call_t
          inv,       \* c_out_tr, its INVITE transaction
          dialog,    \* the eXosip_dialog_t of c_out_tr
          due,       \* the timers that have run out
          sent,      \* the ACKs and BYEs that went to callees
          told,      \* the events of the application
          callee     \* the callees: who answered, who hung up, what the proxy refused

outVars == <<pc, call, inv, dialog, due, sent, told, callee>>

Refusals == {"401", "3xx", "6xx"}   \* 401, 407 or 422; a redirection; any other

NoDialog == [state |-> "none",      \* none, early, confirmed, null
             tag |-> NoOne,         \* remote_tag
             ack |-> FALSE,         \* d_ack
             bye |-> "none", byeIn |-> "none"]

NewInvite == [st |-> "precalling", q |-> <<>>, resp |-> "none", age |-> 0]

Init == /\ pc = "read"
        /\ call = [state |-> "active", retry |-> 0, attempts |-> 1,
                   dead |-> FALSE,      \* dialogs of refused attempts are in c_dialogs
                   expired |-> TRUE,    \* expire_time has passed: it is 0 until a 1xx
                   cancel |-> "none"]
        /\ inv = NewInvite
        /\ dialog = NoDialog
        /\ due = {}
        /\ sent = {}
        /\ told = {}
        /\ callee = [answered |-> {}, hungUp |-> {}, refusal |-> "none"]

Live(d) == d.state \in {"early", "confirmed"}
InOsip == inv.st \in {"calling", "proceeding", "completed"}

-----------------------------------------------------------------------------
(* The second critical section: the state machines and their callbacks.  A *)
(* world is what they change, [inv, dialog, call, told].                   *)

Before == [inv |-> inv, dialog |-> dialog, call |-> call, told |-> told]
Tell(w, e) == [w EXCEPT !.told = @ \cup {<<e, NoOne>>}]

\* A callee rings: the dialog is made for it, or becomes its own.
cb_rcv1xx(w, t) ==
    LET ringing == [w EXCEPT !.call.expired = FALSE]
    IN Tell(CASE w.dialog.state = "none" ->
                     [ringing EXCEPT !.dialog = [NoDialog EXCEPT !.state = "early", !.tag = t]]
              [] Live(w.dialog) /\ w.dialog.tag # t ->
                     [ringing EXCEPT !.dialog.state = "early", !.dialog.tag = t]
              [] OTHER -> ringing, "CALL_RINGING")

\* A callee answers.  Without its dialog, closed by a BYE, nothing happens.
cb_rcv2xx_4invite(w, t) ==
    CASE w.dialog.state = "none" ->
             [w EXCEPT !.dialog = [NoDialog EXCEPT !.state = "confirmed", !.tag = t],
                       !.told = @ \cup {<<"CALL_ANSWERED", t>>}]
      [] Live(w.dialog) ->
             [w EXCEPT !.dialog.state = "confirmed", !.dialog.tag = t,
                       !.told = @ \cup {<<"CALL_ANSWERED", t>>}]
      [] OTHER -> w

\* The call is refused: an early dialog is closed.
cb_rcv3456xx(w) ==
    Tell([w EXCEPT !.dialog.state = IF @ = "early" THEN "null" ELSE @], "CALL_REFUSED")

\* Mutant of Ended: a 2xx does not end the INVITE transaction.
EndedLate(st) == "proceeding"

Ended(st) == "terminated"

\* One event of the INVITE client transaction: <<what, of whom>>.
Ict(w, e) ==
    LET waits == w.inv.st \in {"calling", "proceeding"}
        heard == [w EXCEPT !.inv.resp = e[1]]
    IN CASE e[1] = "SND" -> [w EXCEPT !.inv.st = "calling"]
         [] e[1] = "100" /\ waits -> [heard EXCEPT !.inv.st = "proceeding", !.inv.resp = "1xx"]
         [] e[1] = "1xx" /\ waits -> cb_rcv1xx([heard EXCEPT !.inv.st = "proceeding"], e[2])
         [] e[1] = "2xx" /\ waits -> cb_rcv2xx_4invite([heard EXCEPT !.inv.st = Ended(@)], e[2])
         [] e[1] \in Refusals /\ waits -> cb_rcv3456xx([heard EXCEPT !.inv.st = "completed"])
         [] OTHER -> w

osip_ict_execute(w) ==
    LET after[n \in 0 .. Len(w.inv.q)] == IF n = 0 THEN w ELSE Ict(after[n-1], w.inv.q[n])
    IN [after[Len(w.inv.q)] EXCEPT !.inv.q = <<>>]

\* The BYE and the CANCEL that were queued are sent.
osip_nict_execute(w) ==
    [w EXCEPT !.dialog.bye = IF @ = "queued" THEN "trying" ELSE @,
              !.call.cancel = IF @ = "queued" THEN "sent" ELSE @]

\* Whether a timer runs: B or D of the INVITE; F or K, and J, of the BYEs; and the ten
\* seconds that a call without dialog is kept after its INVITE transaction.
Timers == {"inv", "bye", "byeIn", "rest"}
HasTimer(w, x) ==
    CASE x = "inv" -> w.inv.st \in {"calling", "completed"}
      [] x = "bye" -> w.dialog.bye \in {"trying", "completed"}
      [] x = "byeIn" -> w.dialog.byeIn = "completed"
      [] x = "rest" -> w.inv.st = "terminated"

Expired(w, x) ==
    CASE x = "inv" -> [w EXCEPT !.inv.st = "terminated"]
      [] x = "bye" -> [w EXCEPT !.dialog.bye = "terminated"]
      [] x = "byeIn" -> [w EXCEPT !.dialog.byeIn = "terminated"]
      [] OTHER -> w

-----------------------------------------------------------------------------
(* _eXosip_release_terminated_calls *)

_eXosip_release_call(w) ==
    Tell([w EXCEPT !.call.state = "released", !.call.dead = FALSE, !.dialog = NoDialog],
         "CALL_RELEASED")

Old(w) == w.inv.st # "terminated" /\ w.inv.age = 180

_eXosip_pendingosip_transaction_exist(w) ==
    \/ w.dialog.byeIn \notin {"none", "terminated"}
    \/ w.dialog.bye \notin {"none", "terminated"}
    \/ w.inv.st # "terminated" /\ ~w.call.expired

_eXosip_release_finished_calls(w) == "terminated" \in {w.dialog.byeIn, w.dialog.bye}

Refused(w) == w.inv.st = "terminated" /\ w.inv.resp \in {"none"} \cup Refusals

\* What becomes of the dialog, and of the dialogs of earlier attempts.
ReleaseDialog(w) ==
    LET free == [w EXCEPT !.dialog = NoDialog]
    IN IF w.dialog.state = "none" \/ _eXosip_pendingosip_transaction_exist(w) THEN w
       ELSE IF _eXosip_release_finished_calls(w) THEN free
       ELSE IF Old(w) THEN Tell(free, "CALL_NOANSWER")
       ELSE IF Refused(w) THEN _eXosip_release_call(w)
       ELSE IF w.dialog.state = "null" THEN free
       ELSE w

\* Mutant of ReleaseDead: the dialogs of earlier attempts stay.
DeadStays(w) == w

ReleaseDead(w) ==
    IF ~w.call.dead \/ (w.inv.st # "terminated" /\ ~w.call.expired) THEN w
    ELSE IF Old(w) THEN Tell([w EXCEPT !.call.dead = FALSE], "CALL_NOANSWER")
    ELSE IF Refused(w) THEN _eXosip_release_call(w)
    ELSE [w EXCEPT !.call.dead = FALSE]

\* A call without dialog: its INVITE is old, or ended ten seconds ago.
ReleaseCall(w, rested) ==
    IF /\ w.call.state = "active" /\ w.dialog.state = "none" /\ ~w.call.dead
       /\ Old(w) \/ (w.inv.st = "terminated" /\ rested)
    THEN _eXosip_release_call(w) ELSE w

_eXosip_release_terminated_calls(w, rested) ==
    IF w.call.state # "active" THEN w
    ELSE ReleaseCall(ReleaseDead(ReleaseDialog(w)), rested)

-----------------------------------------------------------------------------
(* Messages. *)

\* _eXosip_read_message waits, and timers run out, until a message comes.
Wait == /\ pc = "read" /\ pc' = "execute"
        /\ due' \in SUBSET {x \in Timers : HasTimer(Before, x)}

ReadNothing == Wait /\ UNCHANGED <<call, inv, dialog, sent, told, callee>>

\* A response to the INVITE that is under way.
Response(e) ==
    /\ Wait
    /\ inv.st # "precalling"
    /\ inv' = IF InOsip THEN [inv EXCEPT !.q = Append(@, e)] ELSE inv

Rcv100 == /\ callee.refusal = "none" /\ inv.st = "calling"
          /\ Response(<<"100", NoOne>>)
          /\ UNCHANGED <<call, dialog, sent, told, callee>>

\* Nobody rings when a callee has answered and hung up: the proxy has cancelled the rest.
Rcv1xx(t) ==
    /\ callee.refusal = "none" /\ t \notin callee.answered /\ callee.hungUp = {}
    /\ Response(<<"1xx", t>>)
    /\ UNCHANGED <<call, dialog, sent, told, callee>>

RcvRefusal(r) ==
    /\ callee.refusal = "none" /\ callee.answered = {}
    /\ Response(<<r, NoOne>>)
    /\ callee' = [callee EXCEPT !.refusal = r]
    /\ UNCHANGED <<call, dialog, sent, told>>

\* A callee answers.  Its 200 comes again until the ACK does, and may come later yet.
Answer(t) ==
    /\ callee.refusal = "none" /\ t \notin callee.answered /\ inv.st # "precalling"
    /\ callee' = [callee EXCEPT !.answered = @ \cup {t}]
    /\ UNCHANGED <<pc, call, inv, dialog, due, sent, told>>

Discarded(t) == sent

\* A 200 without transaction: of the callee of the dialog it is met with the ACK that is
\* kept, of another one with an ACK and a BYE, if the call has any dialog.
_eXosip_process_response_out_of_transaction(t) ==
    IF (Live(dialog) /\ dialog.tag = t) \/ (dialog.state = "none" /\ ~call.dead) THEN sent
    ELSE sent \cup {<<"ACK", t>>, <<"BYE", t>>}

Rcv2xx(t) ==
    /\ t \in callee.answered
    /\ Response(<<"2xx", t>>)
    /\ sent' = IF InOsip THEN sent ELSE _eXosip_process_response_out_of_transaction(t)
    /\ UNCHANGED <<call, dialog, told, callee>>

\* The callee hangs up, perhaps before its 200 is read; the BYE is answered at once.
RcvBye(t) ==
    /\ t \in callee.answered \ callee.hungUp
    /\ Wait
    /\ callee' = [callee EXCEPT !.hungUp = @ \cup {t}]
    /\ IF Live(dialog) /\ dialog.tag = t
       THEN /\ dialog' = [dialog EXCEPT !.state = "null", !.byeIn = "completed"]
            /\ told' = told \cup {<<"CALL_CLOSED", NoOne>>}
       ELSE UNCHANGED <<dialog, told>>
    /\ UNCHANGED <<call, inv, sent>>

RcvByeAnswer ==
    /\ dialog.bye = "trying"
    /\ Wait
    /\ dialog' = [dialog EXCEPT !.bye = "completed"]
    /\ UNCHANGED <<call, inv, sent, told, callee>>

-----------------------------------------------------------------------------
(* The application. *)

\* eXosip_call_send_initial_invite; the event is executed later.
eXosip_call_send_initial_invite ==
    /\ inv.st = "precalling" /\ inv.q = <<>>
    /\ inv' = [inv EXCEPT !.q = <<<<"SND", NoOne>>>>]
    /\ UNCHANGED <<pc, call, dialog, due, sent, told, callee>>

\* Sent at once, and kept for the 200s that come again.
eXosip_call_send_ack(t) ==
    /\ <<"CALL_ANSWERED", t>> \in told
    /\ Live(dialog) /\ ~dialog.ack
    /\ dialog' = [dialog EXCEPT !.ack = TRUE]
    /\ sent' = sent \cup {<<"ACK", dialog.tag>>}
    /\ UNCHANGED <<pc, call, inv, due, told, callee>>

\* eXosip_call_terminate: CANCEL after a 1xx, BYE in a confirmed dialog.
Terminate ==
    /\ call.state = "active"
    /\ \/ /\ dialog.state # "confirmed" /\ inv.resp = "1xx" /\ call.cancel = "none"
          /\ call' = [call EXCEPT !.cancel = "queued"]
          /\ UNCHANGED <<dialog, sent>>
       \/ /\ Live(dialog)
          /\ dialog.state = "confirmed" \/ inv.resp # "1xx"
          /\ dialog' = [dialog EXCEPT !.state = "null", !.bye = "queued"]
          /\ sent' = sent \cup {<<"BYE", dialog.tag>>}
          /\ UNCHANGED call
    /\ UNCHANGED <<pc, inv, due, told, callee>>

\* _eXosip_call_retry_request: a new INVITE takes the place of the refused one.
_eXosip_call_retry_request(retry) ==
    /\ call.attempts < MaxAttempts
    /\ inv' = [NewInvite EXCEPT !.q = <<<<"SND", NoOne>>>>]
    /\ call' = [call EXCEPT !.retry = retry, !.attempts = @ + 1,
                            !.dead = @ \/ dialog.state # "none"]
    /\ dialog' = NoDialog
    /\ callee' = [callee EXCEPT !.refusal = "none"]
    /\ UNCHANGED <<pc, due, sent, told>>

eXosip_automatic_action ==
    /\ call.state = "active" /\ ~Live(dialog)
    /\ inv.st \in {"completed", "terminated"} /\ inv.age < 120
    /\ \/ inv.resp = "401" /\ call.retry < MaxRetry /\ _eXosip_call_retry_request(call.retry + 1)
       \/ inv.resp = "3xx" /\ _eXosip_call_retry_request(call.retry)

-----------------------------------------------------------------------------
(* The thread and its clock. *)

eXosip_execute ==
    /\ pc = "execute" /\ pc' = "read"
    /\ LET ran == osip_ict_execute(osip_nict_execute(Before))
           over == {x \in due : HasTimer(ran, x)
                                /\ (x = "inv" => ran.inv.st = inv.st)
                                /\ (x = "bye" => ran.dialog.bye = dialog.bye)}
           Timed(w, x) == IF x \in over THEN Expired(w, x) ELSE w
           timed == Timed(Timed(Timed(ran, "inv"), "bye"), "byeIn")
           w == _eXosip_release_terminated_calls(timed, "rest" \in over)
       IN /\ inv' = w.inv /\ dialog' = w.dialog /\ call' = w.call /\ told' = w.told
    /\ due' = {}
    /\ UNCHANGED <<sent, callee>>

\* 120 and 180 seconds after the birth of the INVITE; timers B and D are shorter.
Age == /\ call.state = "active" /\ inv.st \in {"proceeding", "terminated"} /\ inv.age < 180
       /\ inv' = [inv EXCEPT !.age = IF @ = 0 THEN 120 ELSE 180]
       /\ UNCHANGED <<pc, call, dialog, due, sent, told, callee>>

\* 180 seconds after the last 1xx, which may have been of an earlier attempt.
ExpireTime == /\ call.state = "active" /\ ~call.expired
              /\ inv.age = 180 \/ (call.attempts > 1 /\ dialog.state = "none")
              /\ call' = [call EXCEPT !.expired = TRUE]
              /\ UNCHANGED <<pc, inv, dialog, due, sent, told, callee>>

Network == \/ ReadNothing
           \/ Rcv100
           \/ \E t \in Callees : Rcv1xx(t) \/ Rcv2xx(t) \/ RcvBye(t)
           \/ \E r \in Refusals : RcvRefusal(r)
           \/ RcvByeAnswer

Application == \/ eXosip_call_send_initial_invite
               \/ \E t \in Callees : eXosip_call_send_ack(t)
               \/ Terminate
               \/ eXosip_automatic_action

Next == \/ Network
        \/ \E t \in Callees : Answer(t)
        \/ Application
        \/ eXosip_execute
        \/ Age
        \/ ExpireTime

Spec == Init /\ [][Next]_outVars

\* The thread goes round, timers run out, the application acknowledges what it is told
\* of, and the 200 of a callee without ACK comes through in the end.
Fair == /\ WF_pc(pc = "read" /\ pc' = "execute")
        /\ WF_pc(pc = "execute" /\ pc' = "read")
        /\ SF_outVars(ReadNothing /\ due' = {x \in Timers : HasTimer(Before, x)})
        /\ WF_outVars(Age)
        /\ WF_outVars(ExpireTime)
        /\ \A t \in Callees : WF_outVars(eXosip_call_send_ack(t)) /\ SF_outVars(Rcv2xx(t))

FairSpec == Spec /\ Fair

-----------------------------------------------------------------------------
(* Properties *)

\* No callee that only rings is sent an ACK or a BYE, however the dialog was moved from
\* one to another before (cb_rcv1xx, cb_rcv2xx_4invite).
OnlyWhoAnswered == \A m \in sent : m[2] \in callee.answered

\* The application talks to one callee: of those that have its ACK, all but one have a
\* BYE or hung up themselves.
OneCalleeTalks ==
    Cardinality({t \in Callees : /\ <<"ACK", t>> \in sent /\ <<"BYE", t>> \notin sent
                                 /\ t \notin callee.hungUp}) <= 1

\* However the answers of the callees cross and move the dialog from one to another, those
\* who answered, and nobody else, are told what became of it (cb_rcv1xx,
\* cb_rcv2xx_4invite, _eXosip_process_response_out_of_transaction).
RightCallees == OnlyWhoAnswered /\ OneCalleeTalks

\* Every callee that answers hears of it: it gets an ACK or a BYE, unless it hung up or
\* the call was released before its 200 came.
AnswerIsMet ==
    \A t \in Callees :
        (t \in callee.answered) ~>
            \/ {<<"ACK", t>>, <<"BYE", t>>} \cap sent # {}
            \/ t \in callee.hungUp
            \/ call.state = "released"

\* A call that was closed by a BYE of either side or refused for good is released.
ClosedIsReleased ==
    (\/ dialog.state = "null" /\ inv.resp \notin {"401", "3xx"}
     \/ callee.refusal = "6xx") ~> (call.state = "released")

=============================================================================
