--------------------------- MODULE ExSubscription ---------------------------
(***************************************************************************)
(* A subscription of libeXosip2 between two of its users: the subscriber   *)
(* (eXsubscription_api.c, jsubscribe.c) and the notifier                   *)
(* (eXinsubscription_api.c, jnotify.c), what udp.c and jcallback.c do with *)
(* the requests and answers that reach them, and the refreshes and retries *)
(* of eXosip_automatic_action.                                             *)
(*                                                                         *)
(* The dialog of the subscriber is made by what comes first: a provisional *)
(* answer, the 2xx, or a NOTIFY that overtakes it.  js->s_reg_period says  *)
(* when to refresh, jn->n_ss_expires when the subscription runs out; they  *)
(* are counted from two different moments on two hosts.                    *)
(*                                                                         *)
(* The transactions are seen from their users: a message is handed over in *)
(* any order, and what concerns time happens between two ticks.  The       *)
(* thread of each side and the network are faster than a tick, the         *)
(* applications are not.                                                   *)
(***************************************************************************)
EXTENDS Integers, SequencesExt

CONSTANTS Tick,            \* seconds
          Asks,            \* what the subscriber asks for, in seconds
          MinExpires,      \* what the notifier's application takes at least
          MaxSubscribes,   \* bound: SUBSCRIBEs sent
          MaxNotifies,     \* bound: NOTIFYs sent
          MaxTrouble       \* bound: messages lost, requests refused or challenged

ASSUME ExSubscriptionAssumption ==
    /\ Tick \in Nat \ {0} /\ Asks \subseteq Nat \ {0} /\ MinExpires \in Nat
    /\ MaxSubscribes \in Nat /\ MaxNotifies \in Nat /\ MaxTrouble \in Nat

VARIABLES js,        \* the eXosip_subscribe_t with its dialogs and transactions
          replaced,  \* its transactions that have been moved to j_transactions
          jn,        \* the eXosip_notify_t with its dialog and transactions
          stranded,  \* how many eXosip_notify_t were refused and are still there
          net,       \* the messages on their way
          trouble,   \* how much of it there was
          seen       \* history

vars == <<js, replaced, jn, stranded, net, trouble, seen>>

\* enum eXosip_ss; a pending subscription differs from an active one in what is reported.
UNKNOWN == 0
ACTIVE == 2
TERMINATED == 3

\* A client transaction: its CSeq, what it asks for (or notifies), whether it has
\* credentials, the dialog it belongs to (0: none), its state, its last response, its age.
Transaction(n, ask, auth, d) ==
    [n |-> n, ask |-> ask, auth |-> auth, jd |-> d, st |-> "trying", resp |-> "none", age |-> 0]

Finished(tr) == tr.st \in {"completed", "terminated"}
Final == {"2xx", "401", "423", "4xx"}
Oldest == 130            \* no comparison looks further, but for those with what it asked for

\* A dialog of the subscriber; "deleted" is jd->d_dialog = NULL.
Dialog(tag, state, cseq) == [tag |-> tag, state |-> state, cseq |-> cseq, retry |-> 0, outs |-> <<>>]

NoNotify == [live |-> FALSE, tag |-> 0, left |-> 0, status |-> UNKNOWN, state |-> "deleted",
             cseq |-> 0, retry |-> 0, inc |-> [n |-> 0, ask |-> 0, st |-> "answered"], outs |-> <<>>]

Freed == [live |-> FALSE, period |-> 0, retry |-> 0, status |-> TERMINATED, dlgs |-> <<>>,
          out |-> [Transaction(0, 0, FALSE, 0) EXCEPT !.st = "terminated"]]

Message(kind, n, tag) == [kind |-> kind, n |-> n, tag |-> tag, ask |-> 0, auth |-> FALSE,
                          code |-> "none", value |-> 0]
Subscribe(tr, tag) == [Message("SUBSCRIBE", tr.n, tag) EXCEPT !.ask = tr.ask, !.auth = tr.auth]
Notify(tr, tag) == [Message("NOTIFY", tr.n, tag) EXCEPT !.ask = tr.ask, !.auth = tr.auth]
Answer(m, code, tag, value) ==
    [m EXCEPT !.kind = IF m.kind = "NOTIFY" THEN "to NOTIFY" ELSE "to SUBSCRIBE",
              !.tag = tag, !.code = code, !.value = value]

\* _eXosip_subscribe_set_refresh_interval
RefreshInterval(period, expires) == CASE expires = 0 -> 0
                                      [] expires > 0 /\ expires < period - 15 -> expires
                                      [] OTHER -> period

Init == \E e \in Asks :
    LET tr == Transaction(1, e, FALSE, 0)
    IN \* eXosip_subscribe_send_initial_request
       /\ js = [live |-> TRUE, period |-> RefreshInterval(3600, e), retry |-> 0,
                status |-> UNKNOWN, dlgs |-> <<>>, out |-> tr]
       /\ net = {Subscribe(tr, 0)}
       /\ jn = NoNotify
       /\ replaced = {}
       /\ stranded = 0 /\ trouble = 0
       /\ seen = [subscribes |-> 1, confirmed |-> FALSE, wants |-> TRUE, closing |-> FALSE,
                  closed |-> "none", stale |-> FALSE, short |-> FALSE]

-----------------------------------------------------------------------------
(* The subscriber sends. *)

Usable(d) == d.state # "deleted"

\* The first of d_out_trs, or s_out_tr.
LastOut(s, d) == IF d = 0 \/ s.dlgs[d].outs = <<>> THEN s.out ELSE s.dlgs[d].outs[1]

\* eXosip_subscribe_build_refresh_request and eXosip_subscribe_send_refresh_request
SendRefresh(d, expires) ==
    LET n == js.dlgs[d].cseq + 1
        tr == Transaction(n, expires, js.out.auth \/ LastOut(js, d).auth, d)
    IN /\ seen.subscribes < MaxSubscribes
       /\ Usable(js.dlgs[d]) /\ Finished(LastOut(js, d))
       /\ js' = [js EXCEPT !.period = RefreshInterval(3600, expires),
                           !.dlgs[d].cseq = n,
                           !.dlgs[d].outs = <<tr>> \o @]
       /\ net' = net \cup {Subscribe(tr, js.dlgs[d].tag)}
       /\ seen' = [seen EXCEPT !.subscribes = @ + 1, !.wants = expires > 0,
                               !.short = @ \/ expires < MinExpires]
       /\ UNCHANGED replaced

\* The application refreshes or unsubscribes, or refreshes what it had ended.
eXosip_subscribe_send_refresh_request ==
    /\ js.live
    /\ \E d \in DOMAIN js.dlgs, e \in Asks \cup {0} : SendRefresh(d, e)
    /\ UNCHANGED <<jn, stranded, trouble>>

\* _eXosip_subscribe_send_request_with_credential: the last request again, asking for what
\* a 423 wants at least.
SendWithCredential(d) ==
    LET out == LastOut(js, d)
        initial == d = 0 \/ js.dlgs[d].outs = <<>>
        tr == Transaction(out.n + 1, IF out.resp = "423" THEN MinExpires ELSE out.ask, TRUE, d)
    IN /\ seen.subscribes < MaxSubscribes
       /\ js' = IF d = 0 THEN [js EXCEPT !.retry = @ + 1, !.out = tr]
                ELSE IF initial
                THEN [js EXCEPT !.dlgs[d].retry = @ + 1, !.dlgs[d].cseq = @ + 1, !.out = tr]
                ELSE [js EXCEPT !.dlgs[d].retry = @ + 1, !.dlgs[d].cseq = @ + 1,
                                !.dlgs[d].outs = <<tr>> \o @]
       /\ replaced' = IF initial THEN replaced \cup {js.out} ELSE replaced
       /\ net' = net \cup {Subscribe(tr, IF d = 0 THEN 0 ELSE js.dlgs[d].tag)}
       /\ seen' = [seen EXCEPT !.subscribes = @ + 1]

Challenged(tr) == tr.resp = "401" /\ Finished(tr) /\ tr.age < 120

RetriesInitial == /\ js.live /\ js.dlgs = <<>>
                  /\ Challenged(js.out) \/ (js.out.resp = "423" /\ Finished(js.out))
                  /\ js.retry < 3

RetriesIn(d) == /\ Usable(js.dlgs[d]) /\ Challenged(LastOut(js, d))
                /\ js.dlgs[d].retry < 3

\* Mutant of RefreshesIn: ten percent later instead of earlier.
RefreshesLate(d) ==
    LET out == LastOut(js, d)
    IN /\ Usable(js.dlgs[d]) /\ ~Challenged(out)
       /\ js.period # 0 /\ Finished(out) /\ out.resp = "2xx"
       /\ out.age > js.period + js.period \div 10

RefreshesIn(d) ==
    LET out == LastOut(js, d)
    IN /\ Usable(js.dlgs[d]) /\ ~Challenged(out)
       /\ js.period # 0 /\ Finished(out) /\ out.resp = "2xx"
       /\ \/ out.age > js.period - js.period \div 10
          \/ out.age > js.period - 6

Due == \/ RetriesInitial
       \/ js.live /\ \E d \in DOMAIN js.dlgs : RetriesIn(d) \/ RefreshesIn(d)

\* _eXosip_subscribe_automatic_refresh: for as long as the last time.
AutomaticRefresh(d) == SendRefresh(d, LastOut(js, d).ask)

\* eXosip_automatic_action for the subscription.
eXosip_automatic_action ==
    /\ js.live
    /\ \/ RetriesInitial /\ SendWithCredential(0)
       \/ \E d \in DOMAIN js.dlgs :
             \/ RetriesIn(d) /\ SendWithCredential(d)
             \/ RefreshesIn(d) /\ AutomaticRefresh(d)
    /\ UNCHANGED <<jn, stranded, trouble>>

eXosip_subscribe_remove ==
    /\ js.live
    /\ js' = Freed
    /\ UNCHANGED <<replaced, jn, stranded, net, trouble, seen>>

-----------------------------------------------------------------------------
(* The subscriber receives. *)

WithTransaction(s, tr) ==
    IF s.out.n = tr.n THEN [s EXCEPT !.out = tr]
    ELSE LET d == tr.jd
             i == CHOOSE j \in DOMAIN s.dlgs[d].outs : s.dlgs[d].outs[j].n = tr.n
         IN [s EXCEPT !.dlgs[d].outs[i] = tr]

TransactionsOf(s) ==
    IF ~s.live THEN {}
    ELSE {s.out} \cup UNION {Range(s.dlgs[d].outs) : d \in DOMAIN s.dlgs}

\* Mutant of MadeByNotify: the 2xx does not look for a dialog a NOTIFY has made.
MadeByNotifyNever(s, tag) == 0

\* The dialog a NOTIFY has made before the answer came, by its tag.
MadeByNotify(s, tag) ==
    IF \E d \in DOMAIN s.dlgs : s.dlgs[d].tag = tag
    THEN CHOOSE d \in DOMAIN s.dlgs : s.dlgs[d].tag = tag ELSE 0

\* cb_rcv1xx and cb_rcv2xx_4subscribe: the transaction's dialog, found or made.
InDialog(s, tr, tag, state) ==
    LET d == IF tr.jd # 0 THEN tr.jd ELSE MadeByNotify(s, tag)
    IN IF d = 0
       THEN [sub |-> [s EXCEPT !.dlgs = Append(@, Dialog(tag, state, tr.n))],
             tr |-> [tr EXCEPT !.jd = Len(s.dlgs) + 1]]
       ELSE [sub |-> IF state = "confirmed" THEN [s EXCEPT !.dlgs[d].state = state] ELSE s,
             tr |-> [tr EXCEPT !.jd = d]]

\* _eXosip_delete_early_dialog
DeleteEarly(s, d) == IF d # 0 /\ s.dlgs[d].state = "early"
                     THEN [s EXCEPT !.dlgs[d].state = "deleted"] ELSE s

\* cb_rcv3xx .. cb_rcv6xx
Refused(s, tr) == WithTransaction(DeleteEarly(s, tr.jd), tr)

\* cb_rcv1xx, cb_rcv2xx, cb_rcv3xx .. cb_rcv6xx
RcvAnswer ==
    \E m \in net, tr \in TransactionsOf(js) :
        /\ m.kind = "to SUBSCRIBE" /\ m.n = tr.n /\ tr.st = "trying"
        /\ LET now == [tr EXCEPT !.resp = m.code,
                                 !.st = IF m.code \in Final THEN "completed" ELSE @]
           IN IF m.code \in {"1xx", "2xx"}
              THEN LET s == IF m.code = "1xx" THEN js ELSE
                            [js EXCEPT !.retry = 0,
                                       !.period = RefreshInterval(@, m.value),
                                       !.dlgs = IF tr.jd = 0 THEN @
                                                ELSE [js.dlgs EXCEPT ![tr.jd].retry = 0]]
                       r == InDialog(s, now, m.tag, IF m.code = "1xx" THEN "early" ELSE "confirmed")
                   IN js' = WithTransaction(r.sub, r.tr)
              ELSE js' = Refused(js, now)
        /\ net' = net \ {m}
        /\ seen' = IF m.code = "2xx" THEN [seen EXCEPT !.confirmed = TRUE] ELSE seen
    /\ UNCHANGED <<replaced, jn, stranded, trouble>>

\* An answer to a transaction that is no more, or was answered.
RcvLateAnswer ==
    \E m \in net :
        /\ m.kind = "to SUBSCRIBE"
        /\ \A tr \in TransactionsOf(js) : tr.n = m.n => tr.st # "trying"
        /\ net' = net \ {m}
        /\ UNCHANGED <<js, replaced, jn, stranded, trouble, seen>>

NotifyEnds(state) == state = TERMINATED

\* _eXosip_process_notify_within_dialog; a NOTIFY for no dialog makes one if it answers
\* the subscription, and is never answered if there is none.
RcvNotify ==
    \E m \in net :
        /\ m.kind = "NOTIFY"
        /\ IF ~js.live
           THEN net' = net \ {m} /\ UNCHANGED js
           ELSE LET known == \E d \in DOMAIN js.dlgs : js.dlgs[d].tag = m.tag /\ Usable(js.dlgs[d])
                    s == IF known THEN js
                         ELSE [js EXCEPT !.dlgs = Append(@, Dialog(m.tag, "confirmed", js.out.n))]
                IN /\ js' = IF NotifyEnds(m.ask) THEN Freed ELSE [s EXCEPT !.status = m.ask]
                   /\ net' = (net \ {m}) \cup {Answer(m, "2xx", m.tag, 0)}
    /\ UNCHANGED <<replaced, jn, stranded, trouble, seen>>

-----------------------------------------------------------------------------
(* The subscriber's transactions and its release. *)

\* Mutant of KillFrees: any refusal ends the subscription.
KillFreesRefused(tr) == tr.resp # "2xx" \/ tr.ask = 0

\* What the kill callback of a SUBSCRIBE does to its subscription: it ends it when there
\* was no answer, and when it had asked for the end.
KillFrees(tr) == tr.resp \in {"none", "1xx"} \/ (tr.resp # "401" /\ tr.ask = 0)

Overdue(tr) == tr.st = "trying" /\ tr.age > 32                  \* timer F

\* OSIP_NICT_KILL_TRANSACTION, after timer F or timer K.
KillSubscribe ==
    /\ \E tr \in TransactionsOf(js) :
          /\ Overdue(tr) \/ tr.st = "completed"
          /\ js' = IF KillFrees(tr) THEN Freed
                   ELSE WithTransaction(js, [tr EXCEPT !.st = "terminated"])
    /\ UNCHANGED <<replaced, jn, stranded, net, trouble, seen>>

\* ... of one that was replaced: it still points to the subscription.
KillReplaced ==
    /\ \E tr \in replaced :
          /\ replaced' = replaced \ {tr}
          /\ js' = IF KillFrees(tr) THEN Freed ELSE js
          /\ seen' = [seen EXCEPT !.stale = @ \/ (KillFrees(tr) /\ ~js.live)]
    /\ UNCHANGED <<jn, stranded, net, trouble>>

\* _eXosip_release_terminated_subscriptions
Releases ==
    /\ js.live
    /\ LET d == Len(js.dlgs) IN
       \/ d = 0 /\ js.out.age > 64
       \/ LET tr == LastOut(js, d) IN d # 0 /\ tr.st = "terminated" /\ tr.age > 15 /\ tr.ask = 0
       \/ js.out.age > 64 /\ \E i \in 1 .. d : js.dlgs[i].state \in {"deleted", "early"}

\* _eXosip_release_finished_transactions_for_subscription: the first one that is over and
\* old, but never the last request.
Over(tr) == tr.st = "terminated" /\ tr.age > 30
Outdated(outs) == \E i \in DOMAIN outs : i > 1 /\ Over(outs[i])
WithoutOutdated(outs) ==
    IF Outdated(outs)
    THEN RemoveAt(outs, CHOOSE i \in DOMAIN outs :
                            /\ i > 1 /\ Over(outs[i])
                            /\ \A j \in DOMAIN outs : j > 1 /\ Over(outs[j]) => i <= j)
    ELSE outs

ReleaseSubscription ==
    /\ \/ Releases /\ js' = Freed
       \/ /\ js.live /\ ~Releases
          /\ \E d \in DOMAIN js.dlgs : Outdated(js.dlgs[d].outs)
          /\ js' = [js EXCEPT !.dlgs = [d \in DOMAIN js.dlgs |->
                        [js.dlgs[d] EXCEPT !.outs = WithoutOutdated(js.dlgs[d].outs)]]]
    /\ UNCHANGED <<replaced, jn, stranded, net, trouble, seen>>

-----------------------------------------------------------------------------
(* The notifier receives a SUBSCRIBE. *)

\* _eXosip_process_new_subscribe: an answer 101 that is not sent makes the dialog.
NewSubscribe(m) ==
    /\ m.tag = 0
    /\ jn' = [NoNotify EXCEPT !.live = TRUE, !.tag = jn.tag + 1, !.left = m.ask,
                              !.state = "early", !.cseq = 1,
                              !.inc = [n |-> m.n, ask |-> m.ask, st |-> "open"]]
    /\ stranded' = IF jn.live THEN stranded + 1 ELSE stranded
    /\ net' = net \ {m}

OfDialog(m) == jn.live /\ jn.state # "deleted" /\ m.tag = jn.tag

\* ... or it belongs to a dialog that is no more.
UnknownSubscribe(m) == /\ m.tag # 0 /\ ~OfDialog(m)
                       /\ net' = (net \ {m}) \cup {Answer(m, "4xx", m.tag, 0)}
                       /\ UNCHANGED <<jn, stranded>>

\* _eXosip_process_subscribe_within_call; 500 while another one is not answered.
SubscribeWithin(m) ==
    /\ OfDialog(m)
    /\ IF jn.inc.st = "open"
       THEN net' = (net \ {m}) \cup {Answer(m, "4xx", m.tag, 0)} /\ UNCHANGED jn
       ELSE /\ jn' = [jn EXCEPT !.left = m.ask,
                                !.status = IF m.ask = 0 THEN TERMINATED ELSE @,
                                !.inc = [n |-> m.n, ask |-> m.ask, st |-> "open"]]
            /\ net' = net \ {m}
    /\ UNCHANGED stranded

RcvSubscribe == /\ \E m \in net : /\ m.kind = "SUBSCRIBE"
                                  /\ NewSubscribe(m) \/ UnknownSubscribe(m) \/ SubscribeWithin(m)
                /\ UNCHANGED <<js, replaced, trouble, seen>>

-----------------------------------------------------------------------------
(* The notifier's application. *)

Reply(code, value) ==
    net' = net \cup {Answer(Message("SUBSCRIBE", jn.inc.n, 0), code, jn.tag, value)}

\* _eXosip_notify_add_expires_in_2XX_for_subscribe
TimeLeft == IF jn.left < 0 THEN 0 ELSE jn.left

\* eXosip_insubscription_build_answer and eXosip_insubscription_send_answer.  A refusal of
\* the first SUBSCRIBE deletes the dialog: the eXosip_notify_t stays, without an identifier.
eXosip_insubscription_send_answer ==
    /\ jn.live /\ jn.inc.st = "open"
    /\ \/ /\ jn.inc.ask = 0 \/ jn.inc.ask >= MinExpires
          /\ Reply("2xx", TimeLeft)
          /\ jn' = [jn EXCEPT !.inc.st = "answered", !.state = "confirmed"]
          /\ UNCHANGED trouble
       \/ /\ jn.inc.ask # 0 /\ jn.inc.ask < MinExpires
          /\ Reply("423", MinExpires)
          /\ jn' = [jn EXCEPT !.inc.st = "answered",
                              !.state = IF @ = "early" THEN "deleted" ELSE @]
          /\ UNCHANGED trouble
       \/ \E code \in {"1xx", "401", "4xx"} :
             /\ trouble < MaxTrouble /\ trouble' = trouble + 1
             /\ Reply(code, 0)
             /\ jn' = IF code = "1xx" THEN jn
                      ELSE [jn EXCEPT !.inc.st = "answered",
                                      !.state = IF @ = "early" THEN "deleted" ELSE @]
    /\ UNCHANGED <<js, replaced, stranded, seen>>

NotifyPending == jn.outs # <<>> /\ ~Finished(jn.outs[1])

\* eXosip_insubscription_build_notify and eXosip_insubscription_send_request: after the
\* answer, one at a time, and none after the one that ends the subscription.
SendNotify(state) ==
    LET tr == Transaction(jn.cseq + 1, state, jn.outs # <<>> /\ jn.outs[1].auth, 0)
    IN /\ jn.live /\ jn.state = "confirmed" /\ ~seen.closing
       /\ ~NotifyPending
       /\ jn' = [jn EXCEPT !.cseq = @ + 1, !.outs = <<tr>>]
       /\ net' = net \cup {Notify(tr, jn.tag)}
       /\ seen' = IF state = TERMINATED THEN [seen EXCEPT !.closing = TRUE] ELSE seen
       /\ UNCHANGED <<js, replaced, stranded, trouble>>

SendState == /\ jn.cseq < MaxNotifies /\ jn.left > 0 /\ jn.status # TERMINATED
             /\ SendNotify(ACTIVE)

\* The application owes it once the time is over or the subscriber has unsubscribed.
OwesTheEnd == jn.left <= 0 \/ jn.status = TERMINATED
SendEnd == SendNotify(TERMINATED)

eXosip_insubscription_remove ==
    /\ jn.live /\ jn.state # "deleted"
    /\ jn' = [NoNotify EXCEPT !.tag = jn.tag]
    /\ UNCHANGED <<js, replaced, stranded, net, trouble, seen>>

-----------------------------------------------------------------------------
(* The notifier's transactions. *)

Closed(why) == /\ jn' = [NoNotify EXCEPT !.tag = jn.tag]
               /\ seen' = [seen EXCEPT !.closed = why]

RcvNotifyAnswer ==
    /\ \E m \in net :
          /\ m.kind = "to NOTIFY" /\ net' = net \ {m}
          /\ IF jn.live /\ m.tag = jn.tag /\ jn.outs # <<>> /\ jn.outs[1].n = m.n
                /\ jn.outs[1].st = "trying"
             THEN IF m.code = "2xx" /\ m.ask = TERMINATED THEN Closed("answered")
                  ELSE /\ jn' = [jn EXCEPT !.outs[1].resp = m.code, !.outs[1].st = "completed",
                                           !.retry = IF m.code = "2xx" THEN 0 ELSE @]
                       /\ UNCHANGED seen
             ELSE UNCHANGED <<jn, seen>>
    /\ UNCHANGED <<js, replaced, stranded, trouble>>

\* Mutant of KillEnds: a NOTIFY that was not answered is forgotten.
KillEndsAnswered(tr) == tr.resp = "4xx" \/ (tr.resp = "2xx" /\ jn.status = TERMINATED)

KillEnds(tr) == tr.resp \in {"none", "4xx"} \/ (tr.resp = "2xx" /\ jn.status = TERMINATED)

\* OSIP_NICT_KILL_TRANSACTION of a NOTIFY: no answer, a refusal, or the subscriber has
\* unsubscribed.
KillNotify ==
    /\ jn.live /\ jn.outs # <<>>
    /\ LET tr == jn.outs[1] IN
       /\ Overdue(tr) \/ tr.st = "completed"
       /\ IF KillEnds(tr) THEN Closed("killed")
          ELSE jn' = [jn EXCEPT !.outs[1].st = "terminated"] /\ UNCHANGED seen
    /\ UNCHANGED <<js, replaced, stranded, net, trouble>>

RetriesNotify == /\ jn.live /\ jn.outs # <<>>
                 /\ Challenged(jn.outs[1]) /\ jn.retry < 3

\* _eXosip_insubscription_send_request_with_credential
eXosip_automatic_notify ==
    /\ RetriesNotify
    /\ LET tr == Transaction(jn.outs[1].n + 1, jn.outs[1].ask, TRUE, 0)
       IN /\ jn' = [jn EXCEPT !.outs = <<tr>>, !.cseq = @ + 1, !.retry = @ + 1]
          /\ net' = net \cup {Notify(tr, jn.tag)}
    /\ UNCHANGED <<js, replaced, stranded, trouble, seen>>

-----------------------------------------------------------------------------
(* The network and time. *)

\* A proxy asks for credentials, or refuses.
ProxyAnswers ==
    /\ trouble < MaxTrouble /\ trouble' = trouble + 1
    /\ \E m \in net, code \in {"401", "4xx"} :
          /\ m.kind \in {"SUBSCRIBE", "NOTIFY"} /\ (code = "401" => ~m.auth)
          /\ net' = (net \ {m}) \cup {Answer(m, code, m.tag, 0)}
    /\ UNCHANGED <<js, replaced, jn, stranded, seen>>

\* Until the transaction times out, nothing comes through.
Outage == /\ trouble < MaxTrouble /\ trouble' = trouble + 1
          /\ \E m \in net : net' = net \ {m}
          /\ UNCHANGED <<js, replaced, jn, stranded, seen>>

\* cb_transport_error
TransportError ==
    /\ trouble < MaxTrouble /\ trouble' = trouble + 1
    /\ \/ /\ \E tr \in TransactionsOf(js) : tr.st = "trying"
          /\ js' = Freed
          /\ UNCHANGED <<jn, seen>>
       \/ /\ jn.live /\ jn.outs # <<>> /\ jn.outs[1].st = "trying"
          /\ Closed("unreachable")
          /\ UNCHANGED js
    /\ UNCHANGED <<replaced, stranded, net>>

Older(tr) == IF tr.age >= Oldest /\ tr.age >= tr.ask THEN tr ELSE [tr EXCEPT !.age = @ + Tick]
Aged(outs) == [i \in DOMAIN outs |-> Older(outs[i])]

Idle == /\ net = {} /\ replaced = {}
        /\ ~Due \/ seen.subscribes = MaxSubscribes
        /\ ~Releases /\ ~RetriesNotify
        /\ \A tr \in TransactionsOf(js) \cup (IF jn.live THEN Range(jn.outs) ELSE {}) :
              tr.st # "completed" /\ ~Overdue(tr)
        /\ \A d \in DOMAIN js.dlgs : ~Outdated(js.dlgs[d].outs)

TickTime ==
    /\ js.live \/ jn.live
    /\ Idle
    /\ js' = IF ~js.live THEN js ELSE
             [js EXCEPT !.out = Older(js.out),
                        !.dlgs = [d \in DOMAIN js.dlgs |->
                            [js.dlgs[d] EXCEPT !.outs = Aged(js.dlgs[d].outs)]]]
    /\ jn' = IF ~jn.live THEN jn ELSE
             [jn EXCEPT !.left = IF @ > 0 THEN @ - Tick ELSE -Tick,
                        !.outs = Aged(jn.outs)]
    /\ UNCHANGED <<replaced, stranded, net, trouble, seen>>

SubscriberThread == RcvAnswer \/ RcvLateAnswer \/ RcvNotify \/ KillSubscribe \/ KillReplaced
                       \/ ReleaseSubscription
NotifierThread == RcvSubscribe \/ RcvNotifyAnswer \/ KillNotify

Next == \/ eXosip_subscribe_send_refresh_request \/ eXosip_subscribe_remove
        \/ eXosip_automatic_action \/ SubscriberThread
        \/ eXosip_insubscription_send_answer \/ SendState \/ SendEnd
        \/ eXosip_insubscription_remove
        \/ eXosip_automatic_notify \/ NotifierThread
        \/ ProxyAnswers \/ Outage \/ TransportError \/ TickTime

Spec == Init /\ [][Next]_vars

\* The threads run, the applications call eXosip_automatic_action, answer, and send the
\* last NOTIFY when they owe it, and time goes on.
Fair == /\ WF_vars(SubscriberThread) /\ WF_vars(NotifierThread)
        /\ WF_vars(eXosip_automatic_action) /\ WF_vars(eXosip_automatic_notify)
        /\ WF_vars(eXosip_insubscription_send_answer)
        /\ WF_vars(OwesTheEnd /\ SendEnd)
        /\ WF_vars(TickTime)
FairSpec == Spec /\ Fair

-----------------------------------------------------------------------------
(* Properties *)

\* What one tick may cost: an answer is waited for until timer F, a refresh until its time
\* has come (eXosip_automatic_action); from the last tick before it to the next one there is
\* time left.
Seconds(k) == k * Tick
Longest == 3600
Waits(ask, age) == LET refresh == RefreshInterval(3600, ask)
                   IN \/ age <= 32
                      \/ age <= refresh - refresh \div 10 /\ age <= refresh - 6
ShortTicks ==
    \A ask \in Asks \cup {MinExpires}, k \in 0 .. Longest :
        ask > 0 /\ ask >= MinExpires /\ Waits(ask, Seconds(k)) => Seconds(k) + Tick < ask

\* The refreshes come in time: while nothing is lost or refused and neither application
\* ends it or asks for too little, the time of the notifier does not run out, however
\* late it answers (for ticks that are short enough).
StaysSubscribed ==
    (/\ js.live /\ seen.confirmed /\ trouble = 0 /\ seen.subscribes < MaxSubscribes
     /\ ~seen.short
     /\ jn.live /\ jn.status # TERMINATED /\ ~seen.closing)
        => jn.left > 0

\* A provisional answer, the 2xx and a NOTIFY that overtakes them make one dialog, and it
\* is the one the notifier has.
OneDialog ==
    LET usable == {d \in DOMAIN js.dlgs : Usable(js.dlgs[d])}
    IN /\ \A d, e \in usable : d = e
       /\ \A d \in usable : jn.state = "confirmed" => js.dlgs[d].tag = jn.tag

\* The notifier lets go of a subscription because its last NOTIFY was answered only when
\* the subscriber has let go of it too.
ClosedTogether == seen.closed = "answered" => ~js.live

\* Subscriber and notifier have the same subscription, in whatever order answers and
\* NOTIFYs cross (cb_rcv2xx_4subscribe, _eXosip_process_notify_within_dialog).
SameForBoth == OneDialog /\ ClosedTogether

\* The kill callback of a request that was replaced by one with credentials never uses
\* the subscription it still points to after that has been freed.
NoStaleUse == ~seen.stale

\* An unsubscription ends the subscription on both sides, whatever is lost or refused on
\* the way, unless the user subscribes again before.
EndsForBoth == (js.live /\ ~seen.wants)
                  ~> (seen.wants \/ (~js.live /\ (~jn.live \/ jn.state = "deleted")))

=============================================================================
