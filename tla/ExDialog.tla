------------------------------ MODULE ExDialog ------------------------------
(***************************************************************************)
(* The dialog of a call between two users of libeXosip2: the osip_dialog_t *)
(* on each side (osip_dialog.c), the requests that are built in it         *)
(* (jrequest.c, eXcall_api.c), what udp.c and jcallback.c do with those    *)
(* that come in and with their answers, and the session timer.             *)
(*                                                                         *)
(* A message is handed over in any order.  The proxies that recorded       *)
(* themselves are seen through the way they send a request (Path).  That   *)
(* the transaction layer resends what is lost, and answers copies, is in   *)
(* OsipClient and OsipServer; here a message that is late is one that was  *)
(* lost.  How a call starts with forks and challenges, and how it is       *)
(* released, is in ExOutgoing and ExIncoming.                              *)
(***************************************************************************)
EXTENDS Integers, SequencesExt

CONSTANTS Calls,         \* [chain, se, requests, moves, challenges]: the proxies that recorded
                         \* themselves, from the caller on, the Session-Expires of the INVITE,
                         \* and the bounds: requests built in the dialog, changes of
                         \* eXosip_masquerade_contact, requests answered 401
          Strict,        \* those of the proxies without ";lr"
          Methods        \* what is asked in the call: INVITE, or anything else

ASSUME ExDialogAssumption ==
    /\ Strict \cap {"caller", "callee"} = {}
    /\ Methods \subseteq STRING /\ "BYE" \notin Methods
    /\ \A c \in Calls : /\ c.chain \in Seq(STRING) /\ c.se \in STRING
                        /\ c.requests \in Nat /\ c.moves \in Nat /\ c.challenges \in Nat

VARIABLES chain,   \* the proxies of this call
          user,    \* the eXosip_dialog_t of each side, with its transactions
          built,   \* the request an application has built and not sent yet
          net,     \* the messages on their way
          seen     \* history, and what is left of the bounds

vars == <<chain, user, built, net, seen>>

User == {"caller", "callee"}
Peer(u) == IF u = "caller" THEN "callee" ELSE "caller"

\* Where a message can be sent: a proxy, or a user at its n-th contact.
Address(host, n) == [host |-> host, n |-> n]
Proxies(c) == [i \in DOMAIN c |-> Address(c[i], 0)]

Nowhere == Address("nowhere", 0)

Request(u, method, cseq, se, uri, routes, contact) ==
    [kind |-> "request", from |-> u, method |-> method, cseq |-> cseq, retry |-> FALSE,
     se |-> se,            \* Session-Expires: none, its refresher, or "bare" without one
     uri |-> uri, routes |-> routes, contact |-> contact, tag |-> TRUE]

\* What is left of a request that will not be sent again.
Past(method) == [Request("caller", method, 0, "none", Nowhere, <<>>, Nowhere) EXCEPT !.tag = FALSE]
Nothing == Past("none")

\* A transaction is "open" until its final response: then it is completed, confirmed or
\* terminated, and its request is past, unless it may be retried.
Transaction(dir, req) == [dir |-> dir, st |-> "open", code |-> "none", req |-> req]
NoTransaction == [Transaction("none", Nothing) EXCEPT !.st = "done"]

\* The eXosip_dialog_t; "gone" is d_dialog = NULL.  refresher: 0 me, 1 the peer.
NoDialog == [dlg |-> "none", lcseq |-> 0, rcseq |-> -1, routes |-> <<>>,
             target |-> Nowhere, refresher |-> -1, retry |-> 0, contact |-> 0,
             trs |-> <<>>]

Usable(d) == d.dlg \in {"early", "confirmed"}

Init == \E c \in Calls :
    LET invite == [Request("caller", "INVITE", 20, c.se, Address("callee", 0), <<>>,
                           Address("caller", 0)) EXCEPT !.tag = FALSE]
    IN /\ chain = Proxies(c.chain)
       /\ user = [u \in User |-> IF u = "callee" THEN NoDialog
                                 ELSE [NoDialog EXCEPT !.trs = <<Transaction("out", invite)>>]]
       /\ built = [u \in User |-> Nothing]
       /\ net = {invite}
       /\ seen = [requests |-> c.requests, moves |-> c.moves, challenges |-> c.challenges, retried |-> {},
                  ignored |-> {}, met |-> [u \in User |-> 0], spoilt |-> FALSE, doubled |-> FALSE]

-----------------------------------------------------------------------------
(* Routes. *)

\* Whether a URI has ";lr": neither a strict proxy nor a contact.
Loose(a) == a.host \notin Strict \cup User

\* dialog_fill_route_set.  Without ";lr" in the first route it becomes the Request-URI;
\* of the routes all but the last one are added, then the target.
dialog_fill_route_set(d) ==
    IF Loose(d.routes[1])
    THEN [uri |-> d.target, routes |-> d.routes]
    ELSE [uri |-> d.routes[1], routes |-> Append(Front(d.routes), d.target)]

RequestUri(d) == IF d.routes = <<>> THEN [uri |-> d.target, routes |-> <<>>]
                 ELSE dialog_fill_route_set(d)

\* _eXosip_dialog_add_contact; the contact of anything but an INVITE is not looked at.
Contact(u, method) == Address(u, IF method = "INVITE" THEN user[u].contact ELSE 0)

\* _eXosip_build_request_within_dialog
Within(u, method, cseq, se) ==
    LET to == RequestUri(user[u])
    IN Request(u, method, cseq, se, to.uri, to.routes, Contact(u, method))

\* _eXosip_build_response_default, and _eXosip_complete_answer_that_establish_a_dialog.
Respond(u, req, code, se, rr) ==
    [kind |-> "response", from |-> u, method |-> req.method, cseq |-> req.cseq,
     retry |-> req.retry, code |-> code, se |-> se, rr |-> rr,
     contact |-> Contact(u, req.method)]

\* The next hop of a request: its first Route with ";lr", else its Request-URI.
NextHop(m) == IF m.routes # <<>> /\ Loose(m.routes[1]) THEN m.routes[1] ELSE m.uri

\* A proxy takes its own Route away.  One that finds itself in the Request-URI puts back
\* what a sender without ";lr" has moved: the last Route, or the first if it is strict.
\* With ";lr" it makes a next Route without it the Request-URI.
Forward(w) ==
    LET popped == IF w.m.routes # <<>> /\ w.m.routes[1] = w.at THEN Tail(w.m.routes) ELSE w.m.routes
        m == IF w.m.uri # w.at \/ popped = <<>> THEN [w.m EXCEPT !.routes = popped]
             ELSE IF w.at.host \in Strict
             THEN [w.m EXCEPT !.uri = Head(popped), !.routes = Tail(popped)]
             ELSE [w.m EXCEPT !.uri = Last(popped), !.routes = Front(popped)]
        sent == IF w.at.host \in Strict \/ m.routes = <<>> \/ Loose(m.routes[1]) THEN m
                ELSE [m EXCEPT !.uri = Head(m.routes), !.routes = Append(Tail(m.routes), m.uri)]
    IN [m |-> sent, at |-> NextHop(sent), visited |-> Append(w.visited, w.at)]

\* The way of a request: the proxies it visits and where it ends.
Path(m) ==
    LET way[k \in 0 .. Len(chain) + 1] ==
            IF k = 0 THEN [m |-> m, at |-> NextHop(m), visited |-> <<>>]
            ELSE LET w == way[k - 1] IN IF w.at.host \in User THEN w ELSE Forward(w)
    IN way[Len(chain) + 1]

\* The Record-Route headers: each proxy puts itself first.
RecordRoute(m) == Reverse(IF m.tag THEN Path(m).visited ELSE chain)

-----------------------------------------------------------------------------
(* The osip_dialog_t. *)

\* Mutant of Refilled: the routes of the early dialog stay.
RefilledTwice(d, rr) == IF d.dlg = "early" THEN Reverse(rr) \o d.routes ELSE d.routes

RouteSet(rr) == Reverse(rr)

\* osip_dialog_init_as_uac and osip_dialog_init_as_uas.
osip_dialog_init_as_uac(d, r) ==
    [d EXCEPT !.dlg = IF r.code = "2xx" THEN "confirmed" ELSE "early", !.lcseq = r.cseq,
              !.rcseq = -1, !.routes = RouteSet(r.rr), !.target = r.contact]

osip_dialog_init_as_uas(d, m) ==
    [d EXCEPT !.dlg = "early", !.lcseq = m.cseq, !.rcseq = m.cseq,
              !.routes = RecordRoute(m), !.target = m.contact]

Refilled(d, rr) == IF d.dlg = "early" THEN RouteSet(rr) ELSE d.routes

\* Mutant of osip_dialog_update_route_set_as_uac: an established dialog keeps its target.
OnlyWhileEarly(d, r) ==
    IF d.dlg = "confirmed" THEN d
    ELSE [d EXCEPT !.target = r.contact, !.routes = Refilled(d, r.rr),
                   !.dlg = IF r.code = "2xx" THEN "confirmed" ELSE @]

osip_dialog_update_route_set_as_uac(d, r) ==
    [d EXCEPT !.target = r.contact, !.routes = Refilled(d, r.rr),
              !.dlg = IF r.code = "2xx" THEN "confirmed" ELSE @]

-----------------------------------------------------------------------------
(* The transactions of a dialog, the newest last in d.trs. *)

\* Where the newest one of a direction and a method is.
Newest(d, dir, method) ==
    Max({0} \cup {i \in DOMAIN d.trs : d.trs[i].dir = dir /\ d.trs[i].req.method = method})

Nth(d, i) == IF i = 0 THEN NoTransaction ELSE d.trs[i]

_eXosip_find_last_inc_invite(d) == Nth(d, Newest(d, "in", "INVITE"))
_eXosip_find_last_out_invite(d) == Nth(d, Newest(d, "out", "INVITE"))

\* _eXosip_find_last_transaction and _eXosip_find_last_invite: the later one by its second
\* of birth; of the same second the outgoing one, although it may be older.
FindLast(d, method) ==
    LET inc == Newest(d, "in", method)
        out == Newest(d, "out", method)
    IN IF out = 0 THEN {Nth(d, inc)}
       ELSE {Nth(d, out)} \cup {Nth(d, i) : i \in {inc} \cap {j \in DOMAIN d.trs : j > out}}

\* A request of that method may follow.  Of a refused incoming INVITE the ACK has to come
\* first, which takes no time here.
MayFollow(t) == t.st # "open"

Waits(t, dir, m) == /\ t.dir = dir /\ t.st = "open" /\ t.req.method = m.method
                    /\ t.req.cseq = m.cseq /\ t.req.retry = m.retry

\* A final response for the transaction that waits for it.
Final(t, code) ==
    IF code = "401" /\ t.dir = "out" THEN [t EXCEPT !.st = "done", !.code = code]
    ELSE [t EXCEPT !.st = "done", !.req = Past(t.req.method)]

Finish(d, dir, m, code) ==
    [d EXCEPT !.trs = [i \in DOMAIN @ |-> IF Waits(@[i], dir, m) THEN Final(@[i], code) ELSE @[i]]]

Add(d, t) == [d EXCEPT !.trs = Append(@, t)]

-----------------------------------------------------------------------------
(* The application. *)

Put(u, d) == user' = [user EXCEPT ![u] = d]

\* eXosip_call_build_request, eXosip_call_build_info and their like.
Build(u, method, se) ==
    /\ seen.requests > 0 /\ built[u] = Nothing
    /\ Usable(user[u])
    /\ \E t \in FindLast(user[u], method) : MayFollow(t)
    /\ built' = [built EXCEPT ![u] = Within(u, method, user[u].lcseq + 1, se)]
    /\ Put(u, [user[u] EXCEPT !.lcseq = @ + 1])
    /\ seen' = [seen EXCEPT !.requests = @ - 1]
    /\ UNCHANGED <<chain, net>>

\* The request is sent, or freed because another one has come in meanwhile.
eXosip_call_send_request(u) ==
    /\ built[u] # Nothing
    /\ built' = [built EXCEPT ![u] = Nothing]
    /\ \E t \in FindLast(user[u], built[u].method) :
           IF MayFollow(t)
           THEN /\ Put(u, Add(user[u], Transaction("out", built[u])))
                /\ net' = net \cup {built[u]}
           ELSE UNCHANGED <<user, net>>
    /\ UNCHANGED <<chain, seen>>

\* eXosip_call_terminate in a confirmed dialog.  Who has sent no INVITE first refuses one
\* that is waiting.
Terminate(u) ==
    LET d == user[u]
        bye == Within(u, "BYE", d.lcseq + 1, "none")
        waiting == _eXosip_find_last_inc_invite(d)
        refuses == _eXosip_find_last_out_invite(d) = NoTransaction /\ waiting.st = "open"
        left == IF refuses THEN Finish(d, "in", waiting.req, "4xx") ELSE d
    IN /\ d.dlg = "confirmed"
       /\ Put(u, Add([left EXCEPT !.lcseq = @ + 1, !.dlg = "gone"], Transaction("out", bye)))
       /\ net' = net \cup {bye} \cup
              (IF refuses THEN {Respond(u, waiting.req, "4xx", "none", <<>>)} ELSE {})
       /\ UNCHANGED <<chain, built, seen>>

\* The address that contacts are made of changes.
eXosip_masquerade_contact(u) ==
    /\ seen.moves > 0 /\ Usable(user[u])
    /\ Put(u, [user[u] EXCEPT !.contact = @ + 1])
    /\ seen' = [seen EXCEPT !.moves = @ - 1]
    /\ UNCHANGED <<chain, built, net>>

\* What eXosip_call_send_answer makes of the Session-Expires that was asked for.
TimerInAnswer(se) == IF se = "bare" THEN [se |-> "uas", refresher |-> 0]
                     ELSE [se |-> se, refresher |-> IF se = "uas" THEN 0 ELSE 1]

\* eXosip_call_build_answer and eXosip_call_send_answer; timer: the application supports it.
AnswerInvite(u, code, timer) ==
    LET t == _eXosip_find_last_inc_invite(user[u])
        d == IF code = "1xx" THEN user[u] ELSE Finish(user[u], "in", t.req, code)
        kept == timer /\ code = "2xx" /\ t.req.se # "none"
        agreed == TimerInAnswer(t.req.se)
    IN /\ t.st = "open"
       /\ code = "2xx" => Usable(user[u])
       /\ code = "1xx" => user[u].dlg = "early"
       /\ timer => kept
       /\ code = "401" => t.req.tag /\ seen.challenges > 0
       /\ Put(u, [d EXCEPT !.dlg = IF code = "2xx" THEN "confirmed" ELSE @,
                           !.refresher = IF kept THEN agreed.refresher ELSE @])
       /\ net' = net \cup {Respond(u, t.req, code, IF kept THEN agreed.se ELSE "none",
                                   IF code \in {"1xx", "2xx"} THEN RecordRoute(t.req) ELSE <<>>)}
       /\ seen' = [seen EXCEPT !.spoilt = @ \/ code \in {"401", "4xx"},
                               !.challenges = @ - (IF code = "401" THEN 1 ELSE 0)]
       /\ UNCHANGED <<chain, built>>

AnswerOther(u, code) ==
    /\ code = "401" => seen.challenges > 0
    /\ \E i \in DOMAIN user[u].trs :
           LET t == user[u].trs[i]
           IN /\ t.dir = "in" /\ t.st = "open" /\ t.req.method # "INVITE"
              /\ Put(u, Finish(user[u], "in", t.req, code))
              /\ net' = net \cup {Respond(u, t.req, code, "none", <<>>)}
    /\ seen' = [seen EXCEPT !.challenges = @ - (IF code = "401" THEN 1 ELSE 0)]
    /\ UNCHANGED <<chain, built>>

-----------------------------------------------------------------------------
(* eXosip_automatic_action and eXosip_default_action. *)

\* Mutant of Counted: the dialog does not count the number of a retry.
NotCounted(d) == d.lcseq

Counted(d) == IF Usable(d) THEN d.lcseq + 1 ELSE d.lcseq

\* One side has an INVITE sent again while another one of its own is open: nothing looks
\* for that before it is sent.
Doubles(d, t) == /\ t.req.method = "INVITE"
                 /\ \E i \in DOMAIN d.trs : /\ d.trs[i].dir = "out" /\ d.trs[i].st = "open"
                                            /\ d.trs[i].req.method = "INVITE"

\* _eXosip_call_retry_request: the same request, contact and all, with the next number.
_eXosip_call_retry_request(u, i) ==
    LET t == user[u].trs[i]
        again == [t.req EXCEPT !.cseq = @ + 1, !.retry = TRUE]
    IN /\ t.st = "done" /\ t.code = "401"
       /\ user[u].retry < 3
       /\ Put(u, Add([user[u] EXCEPT !.lcseq = Counted(user[u]), !.retry = @ + 1,
                                     !.trs[i] = Final([t EXCEPT !.code = "none"], "none")],
                     Transaction("out", again)))
       /\ net' = net \cup {again}
       /\ seen' = [seen EXCEPT !.retried = @ \cup {<<u, again.cseq>>},
                               !.doubled = @ \/ Doubles(user[u], t)]
       /\ UNCHANGED <<chain, built>>

\* Of the dialog the last request that went out; the application may ask for any other.
eXosip_automatic_action(u) ==
    LET outs == {i \in DOMAIN user[u].trs : user[u].trs[i].dir = "out"}
    IN Usable(user[u]) /\ outs # {} /\ _eXosip_call_retry_request(u, Max(outs))

\* An application that has hung up asks for no retry.
eXosip_default_action(u) ==
    /\ Usable(user[u])
    /\ \E i \in DOMAIN user[u].trs : _eXosip_call_retry_request(u, i)

\* The refresher's re-INVITE, when half of the session interval is over, is built and sent
\* at once.
SessionTimer(u) ==
    LET refresh == Within(u, "INVITE", user[u].lcseq + 1, "uac")
    IN /\ seen.requests > 0
       /\ Usable(user[u]) /\ user[u].refresher = 0
       /\ \E t \in FindLast(user[u], "INVITE") : MayFollow(t)
       /\ Put(u, Add([user[u] EXCEPT !.lcseq = @ + 1], Transaction("out", refresh)))
       /\ net' = net \cup {refresh}
       /\ seen' = [seen EXCEPT !.requests = @ - 1]
       /\ UNCHANGED <<chain, built>>

-----------------------------------------------------------------------------
(* What comes in. *)

\* Mutant of Verdict: an INVITE is taken while one of this side is open.
Crossing(d, m) ==
    IF ~Usable(d) \/ (d.rcseq > 0 /\ m.cseq < d.rcseq) THEN "4xx"
    ELSE IF d.rcseq > 0 /\ m.cseq = d.rcseq THEN "ignored"
    ELSE IF m.method = "INVITE" /\ _eXosip_find_last_inc_invite(d).st = "open" THEN "4xx"
    ELSE "taken"

\* _eXosip_process_newrequest on a request with a To tag: what becomes of it.
Verdict(d, m) ==
    IF ~Usable(d) \/ (d.rcseq > 0 /\ m.cseq < d.rcseq) THEN "4xx"             \* 481, 500
    ELSE IF d.rcseq > 0 /\ m.cseq = d.rcseq THEN "ignored"
    ELSE IF /\ m.method = "INVITE"
            /\ \/ _eXosip_find_last_inc_invite(d).st = "open"                  \* 500
               \/ _eXosip_find_last_out_invite(d).st = "open"                  \* 491
    THEN "4xx"
    ELSE "taken"

\* Of the refused the number is remembered when it was looked at.
Numbered(d, m) == IF Usable(d) /\ m.cseq > d.rcseq THEN [d EXCEPT !.rcseq = m.cseq] ELSE d

\* The INVITE that starts the call: _eXosip_process_new_invite.
RcvNewInvite(u, m) ==
    /\ ~m.tag
    /\ Put(u, [osip_dialog_init_as_uas(user[u], m) EXCEPT !.trs = <<Transaction("in", m)>>])
    /\ net' = net \ {m}
    /\ UNCHANGED <<chain, built, seen>>

\* A request in the dialog; a BYE is answered and ends it.
RcvRequest(u, m) ==
    LET verdict == Verdict(user[u], m)
        d == Numbered(user[u], m)
        taken == Add([d EXCEPT !.target = IF m.method = "INVITE" THEN m.contact ELSE @],
                     Transaction("in", m))
        bye == verdict = "taken" /\ m.method = "BYE"
    IN /\ m.tag
       /\ Put(u, IF bye THEN [Finish(taken, "in", m, "2xx") EXCEPT !.dlg = "gone"]
                 ELSE IF verdict = "taken" THEN taken ELSE d)
       /\ net' = (net \ {m}) \cup
              (CASE verdict = "4xx" -> {Respond(u, m, "4xx", "none", <<>>)}
                 [] bye -> {Respond(u, m, "2xx", "none", <<>>)}
                 [] OTHER -> {})
       /\ seen' = [seen EXCEPT !.ignored = IF verdict = "ignored" THEN @ \cup {m} ELSE @]
       /\ UNCHANGED <<chain, built>>

\* Mutant of TimerAgreed: whoever asked refreshes, whatever the answer says.
TimerMine(se) == 0

\* What cb_rcv2xx_4invite makes of the Session-Expires of the answer.
TimerAgreed(se) == IF se = "uas" THEN 1 ELSE 0

\* cb_rcv1xx, cb_rcv2xx and cb_rcv3456xx for an INVITE.
InviteAnswered(d, r) ==
    LET known == IF d.dlg = "none" THEN osip_dialog_init_as_uac(d, r)
                 ELSE osip_dialog_update_route_set_as_uac(d, r)
    IN IF r.code \in {"4xx", "401"} THEN [d EXCEPT !.dlg = IF @ = "early" THEN "gone" ELSE @]
       ELSE IF d.dlg = "gone" THEN d
       ELSE IF r.code = "2xx" /\ r.se # "none" THEN [known EXCEPT !.refresher = TimerAgreed(r.se)]
       ELSE known

\* A response whose transaction waits for it; any other one is dropped.
RcvResponse(u, r) ==
    LET d == user[u]
        waiting == {i \in DOMAIN d.trs : Waits(d.trs[i], "out", r)}
        answered == IF r.method = "INVITE" THEN InviteAnswered(d, r) ELSE d
        ended == IF r.code = "1xx" THEN answered ELSE Finish(answered, "out", r, r.code)
    IN /\ net' = net \ {r}
       /\ IF waiting = {} THEN UNCHANGED <<user, seen>>
          ELSE /\ Put(u, [ended EXCEPT !.retry = IF r.code = "2xx" THEN 0 ELSE @])
               /\ seen' = IF r.method = "INVITE" /\ r.code = "2xx" /\ d.dlg # "gone"
                          THEN [seen EXCEPT !.spoilt = FALSE,
                                            !.met[u] = d.trs[Max(waiting)].req.contact.n,
                                            !.met[Peer(u)] = r.contact.n]
                          ELSE seen
       /\ UNCHANGED <<chain, built>>

Arrives(u) == \E m \in net :
    /\ m.from = Peer(u)
    /\ \/ m.kind = "request" /\ (RcvNewInvite(u, m) \/ RcvRequest(u, m))
       \/ m.kind = "response" /\ RcvResponse(u, m)

Next == \E u \in User :
    \/ \E method \in Methods : Build(u, method, "none")
    \/ eXosip_call_send_request(u)
    \/ Terminate(u)
    \/ eXosip_masquerade_contact(u)
    \/ \E code \in {"1xx", "2xx", "4xx", "401"}, timer \in BOOLEAN : AnswerInvite(u, code, timer)
    \/ \E code \in {"2xx", "401"} : AnswerOther(u, code)
    \/ eXosip_automatic_action(u)
    \/ eXosip_default_action(u)
    \/ SessionTimer(u)
    \/ Arrives(u)

Spec == Init /\ [][Next]_vars

-----------------------------------------------------------------------------
(* Properties *)

\* Every request in the dialog, of either side and whichever answer the dialog was made
\* from, goes through the proxies that recorded themselves, each once and in order, and
\* ends at the other side (__osip_dialog_init, osip_dialog_update_route_set_as_uac,
\* dialog_fill_route_set).
RouteRetraced ==
    \A m \in net : m.kind = "request" /\ m.tag =>
        LET way == Path(m)
        IN /\ way.visited = IF m.from = "caller" THEN chain ELSE Reverse(chain)
           /\ way.at.host = Peer(m.from)

InviteUnderWay == \/ \E m \in net : m.method = "INVITE"
                  \/ \E u \in User : \E t \in ToSet(user[u].trs) :
                         t.st = "open" /\ t.req.method = "INVITE"

Established == \A u \in User : user[u].dlg = "confirmed"

\* When no INVITE is under way each side sends to the address that the other one gave in
\* the last exchange, whatever crossed it, unless an INVITE was refused after its contact
\* had been taken (udp.c takes it before the application has answered), or two of one side
\* were open at once: their answers may come in any order.
TargetAgreed ==
    Established /\ ~InviteUnderWay /\ ~seen.spoilt /\ ~seen.doubled =>
        \A u \in User : user[Peer(u)].target = Address(u, seen.met[u])

\* INVITEs that cross are not both taken: one of the two is answered 491 or 500, also when
\* they are retried or sent by the session timer.  It holds until a side has had an INVITE
\* sent again with credentials while another one of its own was open, which nothing keeps
\* it from: then the newest of them is the only one udp.c looks at.
NoGlare == ~seen.doubled => ~(\A u \in User : user[u].dlg = "confirmed"
                             /\ _eXosip_find_last_inc_invite(user[u]).st = "open")

\* When no INVITE is under way either nobody refreshes the session or exactly one side
\* does, whoever asked last.
OneRefresher ==
    Established /\ ~InviteUnderWay =>
        <<user["caller"].refresher, user["callee"].refresher>> \in {<<-1, -1>>, <<0, 1>>, <<1, 0>>}

\* A request is dropped as a copy only if a retry with credentials carries its number: the
\* retry takes the number after that of the refused request, which another request may
\* have by then.  A BYE is never dropped.
IgnoredOnlyByRetry ==
    \A m \in seen.ignored : <<m.from, m.cseq>> \in seen.retried /\ m.method # "BYE"

=============================================================================
