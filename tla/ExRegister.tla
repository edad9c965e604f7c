----------------------------- MODULE ExRegister -----------------------------
(***************************************************************************)
(* A registration of libeXosip2 with its registrar: eXregister_api.c, the  *)
(* refreshes and retries of eXosip_automatic_action, and the release of a  *)
(* registration whose period is 0.                                         *)
(*                                                                         *)
(* r_reg_expire is what the next REGISTER asks for, r_reg_period what the  *)
(* refreshes count by; the registrar's answers change the second, a 423    *)
(* both, and the application sets both.  One REGISTER is under way at a    *)
(* time.  The REGISTER transaction is the one of OsipClient, seen from its *)
(* user: what is queued on it is executed by the thread, and what concerns *)
(* time (timer F, 32 seconds) happens between two ticks.                   *)
(*                                                                         *)
(* Time goes on by Tick seconds when there is nothing left to do: the      *)
(* application calls eXosip_automatic_action at least once a tick.         *)
(***************************************************************************)
EXTENDS Integers

CONSTANTS Tick,          \* seconds
          Asks,          \* what the application registers for, in seconds
          MinExpires,    \* below it the registrar answers 423
          Grants,        \* what the registrar grants, if no more than asked
          MaxTrouble     \* bound: messages lost or refused, and calls that come too early

ASSUME ExRegisterAssumption ==
    /\ Tick \in Nat \ {0} /\ MaxTrouble \in Nat
    /\ Asks \subseteq Nat \ {0} /\ Grants \subseteq Nat \ {0} /\ MinExpires \in Nat

\* A grant that falls short of the period by no more than 15 seconds is not followed
\* (_eXosip_update_expires_according_to_contact).  The refresh makes up for that, and for a
\* tick, if it comes earlier still: a tenth of the period, or 6 seconds, before its end.
ASSUME GrantsAssumption ==
    \A g \in Grants, p \in Asks \cup Grants \cup {MinExpires} :
        p - g \in 0 .. 15 => p - g + Tick < p \div 10 \/ p - g + Tick < 6

VARIABLES jr,        \* the eXosip_reg_t
          tr,        \* r_last_tr
          built,     \* a REGISTER the application has built and not sent
          net,       \* the message on its way
          bound,     \* how long the registrar keeps the binding, in seconds
          trouble,   \* how many of them there were
          seen       \* history: what the application asked for and was told

regVars == <<jr, tr, built, net, bound, trouble, seen>>

NoTransaction == [st |-> "none", asked |-> 0, auth |-> "none", resp |-> "none", age |-> 0]
Nothing == [kind |-> "none", value |-> 0, auth |-> "none"]

RegInit == /\ \E e \in Asks :
                /\ jr = [active |-> TRUE, period |-> e, expire |-> e, retry |-> 0]
                /\ built = [kind |-> "REGISTER", value |-> e, auth |-> "none"]
                /\ seen = [registered |-> FALSE, sentZero |-> FALSE]
           /\ tr = NoTransaction
           /\ net = Nothing
           /\ bound = 0
           /\ trouble = 0

Busy == tr.st \in {"precalling", "trying"}

-----------------------------------------------------------------------------
(* Building and sending. *)

\* _eXosip_register_build_register, from the last request and its response: what the
\* REGISTER asks for, and the registration.  Credentials for a challenge are made from
\* it, otherwise those of an earlier one are used again.
MinExpiresAsked == tr.st # "none" /\ tr.resp = "423"
AskedNext(r) == IF MinExpiresAsked THEN MinExpires ELSE r.expire

\* Mutant of CredentialsNext: a challenge to credentials that were used once is not met.
CredentialsOnce == IF tr.resp = "401" /\ tr.auth = "none" THEN "fresh"
                   ELSE IF tr.st = "none" \/ tr.auth = "none" THEN "none"
                   ELSE "cached"

CredentialsNext == IF tr.resp = "401" THEN "fresh"
                   ELSE IF tr.st = "none" \/ tr.auth = "none" THEN "none"
                   ELSE "cached"

_eXosip_register_build_register(r) ==
    [msg |-> [kind |-> "REGISTER", value |-> AskedNext(r), auth |-> CredentialsNext],
     reg |-> IF MinExpiresAsked THEN [r EXCEPT !.period = MinExpires, !.expire = MinExpires]
             ELSE r]

Sends(m) == tr' = [NoTransaction EXCEPT !.st = "precalling", !.asked = m.value, !.auth = m.auth]

\* The application builds; the registration has its new period even if it comes too early
\* (OSIP_WRONG_STATE).
eXosip_register_build_register(e) ==
    /\ jr.active
    /\ built = Nothing                                   \* bound: one message at a time
    /\ LET r == [jr EXCEPT !.period = e, !.expire = e]
           new == _eXosip_register_build_register(r)
       IN \/ /\ Busy /\ trouble < MaxTrouble
             /\ jr' = r
             /\ trouble' = trouble + 1
             /\ seen' = [seen EXCEPT !.registered = FALSE]
             /\ UNCHANGED <<tr, built>>
          \/ /\ ~Busy
             /\ jr' = new.reg
             /\ built' = new.msg
             /\ tr' = NoTransaction
             /\ seen' = [seen EXCEPT !.registered = FALSE]
             /\ UNCHANGED trouble
    /\ UNCHANGED <<net, bound>>

\* ... and sends what it has built.
eXosip_register_send_register ==
    /\ jr.active /\ built # Nothing /\ ~Busy
    /\ Sends(built)
    /\ built' = Nothing
    /\ UNCHANGED <<jr, net, bound, trouble, seen>>

eXosip_register_remove ==
    /\ jr.active
    /\ jr' = [jr EXCEPT !.active = FALSE, !.period = 0, !.expire = 0]
    /\ tr' = NoTransaction /\ built' = Nothing /\ net' = Nothing
    /\ UNCHANGED <<bound, trouble, seen>>

-----------------------------------------------------------------------------
(* eXosip_automatic_action *)

Old == jr.period # 0 /\ tr.age > 900

\* Mutant of Refreshes: ten percent later instead of earlier.
RefreshesLate == jr.period # 0 /\ tr.age > jr.period + jr.period \div 10

Refreshes == jr.period # 0 /\ \/ tr.age > jr.period - jr.period \div 10
                              \/ tr.age > jr.period - 6

Failed == jr.period # 0 /\ tr.age > 120 /\ tr.resp # "2xx"

Challenged == tr.age < 120 /\ tr.resp \in {"401", "423"} /\ jr.retry < 3

Due == jr.active /\ tr.st = "done" /\ (Old \/ Refreshes \/ Failed \/ Challenged)

eXosip_automatic_action ==
    /\ Due
    /\ LET new == _eXosip_register_build_register(jr)
       IN /\ jr' = [new.reg EXCEPT !.retry = IF Old \/ Refreshes \/ Failed THEN @ ELSE @ + 1]
          /\ Sends(new.msg)
    /\ UNCHANGED <<built, net, bound, trouble, seen>>

-----------------------------------------------------------------------------
(* eXosip_execute: the transaction, its callbacks, and the release. *)

Releases(r, t) ==
    r.active /\ r.period = 0 /\ t.st # "none" /\ (t.age > 75 \/ t.resp = "2xx")

\* _eXosip_release_terminated_registrations
ReleaseOf(r, t) == IF Releases(r, t) THEN [r EXCEPT !.active = FALSE] ELSE r

Becomes(r, t, s) == tr' = t /\ jr' = ReleaseOf(r, t) /\ seen' = s

\* The REGISTER is sent.
SendRequest ==
    /\ tr.st = "precalling"
    /\ net' = [kind |-> "REGISTER", value |-> tr.asked, auth |-> tr.auth]
    /\ Becomes(jr, [tr EXCEPT !.st = "trying"], [seen EXCEPT !.sentZero = tr.asked = 0])
    /\ UNCHANGED <<built, bound, trouble>>

\* cb_rcv2xx and _eXosip_update_expires_according_to_contact: the 200 has the time that
\* is left in Expires and in the Contact of this registration.
Granted(r, value) ==
    IF value > 0 /\ (value < r.period - 15 \/ value > r.period)
    THEN [r EXCEPT !.period = value] ELSE r

\* The answer is executed.
RcvAnswer ==
    /\ tr.st = "trying" /\ net.kind \in {"2xx", "401", "423", "5xx"}
    /\ IF net.kind = "2xx"
       THEN Becomes([Granted(jr, net.value) EXCEPT !.retry = 0],
                    [tr EXCEPT !.st = "done", !.resp = "2xx"],
                    [seen EXCEPT !.registered = net.value > 0])
       ELSE Becomes(jr, [tr EXCEPT !.st = "done", !.resp = net.kind], seen)
    /\ net' = Nothing
    /\ UNCHANGED <<built, bound, trouble>>

\* Timer F: EXOSIP_REGISTRATION_FAILURE.
TimeoutF ==
    /\ tr.st = "trying" /\ net = Nothing /\ tr.age > 32
    /\ Becomes(jr, [tr EXCEPT !.st = "done"], seen)
    /\ UNCHANGED <<built, net, bound, trouble>>

\* The loop goes round with nothing to do but a release.
Release == /\ Releases(jr, tr)
           /\ Becomes(jr, tr, seen)
           /\ UNCHANGED <<built, net, bound, trouble>>

-----------------------------------------------------------------------------
(* The registrar and the network. *)

Registrar ==
    /\ net.kind = "REGISTER"
    /\ LET asked == net.value
           answer(kind, v) == net' = [Nothing EXCEPT !.kind = kind, !.value = v]
       IN \/ net.auth # "fresh" /\ answer("401", 0) /\ UNCHANGED <<bound, trouble>>
          \/ /\ net.auth # "none" /\ asked = 0
             /\ answer("2xx", 0) /\ bound' = 0 /\ UNCHANGED trouble
          \/ /\ net.auth # "none" /\ asked > 0 /\ asked < MinExpires
             /\ answer("423", 0) /\ UNCHANGED <<bound, trouble>>
          \/ \E v \in {x \in Grants : x <= asked} :
                /\ net.auth # "none" /\ asked >= MinExpires
                /\ answer("2xx", v) /\ bound' = v /\ UNCHANGED trouble
          \/ /\ trouble < MaxTrouble
             /\ answer("5xx", 0) /\ trouble' = trouble + 1 /\ UNCHANGED bound
    /\ UNCHANGED <<jr, tr, built, seen>>

\* Until timer F ends the transaction, nothing comes through.
Outage == /\ net # Nothing /\ trouble < MaxTrouble
          /\ net' = Nothing
          /\ trouble' = trouble + 1
          /\ UNCHANGED <<jr, tr, built, bound, seen>>

Idle == /\ tr.st # "precalling" /\ net = Nothing
        /\ ~Due /\ ~Releases(jr, tr)
        /\ ~(tr.st = "trying" /\ tr.age > 32)

TickTime == /\ jr.active /\ Idle
            /\ bound' = IF bound > Tick THEN bound - Tick ELSE 0
            /\ tr' = IF tr.st = "none" \/ tr.age > 900 THEN tr ELSE [tr EXCEPT !.age = @ + Tick]
            /\ UNCHANGED <<jr, built, net, trouble, seen>>

RegApplication == \/ \E e \in Asks \cup {0} : eXosip_register_build_register(e)
                  \/ eXosip_register_send_register
                  \/ eXosip_register_remove

Execute == SendRequest \/ RcvAnswer \/ TimeoutF \/ Release

RegNext == RegApplication \/ eXosip_automatic_action \/ Execute \/ Registrar \/ Outage \/ TickTime

RegSpec == RegInit /\ [][RegNext]_regVars

\* The thread and the registrar do what there is to do, the application calls
\* eXosip_automatic_action and sends what it has built, and time goes on.
RegFair == /\ WF_regVars(Execute) /\ WF_regVars(Registrar)
           /\ WF_regVars(eXosip_automatic_action)
           /\ WF_regVars(eXosip_register_send_register)
           /\ WF_regVars(TickTime)
RegFairSpec == RegSpec /\ RegFair

-----------------------------------------------------------------------------
(* Properties *)

\* The refreshes come in time: while nothing is lost and nothing refused, a user who is
\* registered and wants to be stays so, whatever the registrar grants and however often
\* it asks for credentials anew.
StaysBound ==
    (/\ seen.registered /\ trouble = 0 /\ jr.active
     /\ jr.period > 0 /\ ~seen.sentZero)
        => bound > 0

\* A user who wants to be registered is so in the end, again and again, through answers
\* that refuse, outages and challenges, unless the application has asked for 0, in time
\* or too early: then the refreshes ask for 0 too.
Rebound == []<>(bound > 0 \/ ~jr.active \/ jr.expire = 0 \/ built # Nothing)

\* An unregistration ends: the registration is released, answered or not.
UnregisterEnds == (seen.sentZero /\ jr.period = 0 /\ jr.active)
                      ~> (~jr.active \/ jr.period > 0 \/ built # Nothing)

\* What the application wants, to be registered or to be gone, comes about in the end
\* (eXosip_automatic_action, _eXosip_release_terminated_registrations).
Recovers == Rebound /\ UnregisterEnds

=============================================================================
