---------------------------- MODULE ExDialogProofs ----------------------------
(***************************************************************************)
(* What ExDialog says of a call is proved here for every set of proxies    *)
(* and every number of requests: its types (Types), and four properties of *)
(* the run, each from an inductive invariant of its own:                   *)
(*   Numbers   the numbers of the requests on their way and in the         *)
(*             transactions, below the number of their sender;             *)
(*   Exchange  which INVITEs are open, and what of theirs is on its way;   *)
(*   Refresh   what is agreed of the session's refresher, stage by stage;  *)
(*   Routes    the route sets and targets, and where a request can be.     *)
(* First come the types, then what each step changes (the lemmas named     *)
(* ...Effect, which the four share), then one part per invariant.          *)
(***************************************************************************)
EXTENDS ExDialog, WellFoundedInduction, TLAPS

\* The strings; that its literals are among them the provers do not see.
Text == STRING \cup {"none", "nowhere", "caller", "callee", "INVITE", "BYE",
                     "1xx", "2xx", "4xx", "401", "uac", "uas", "bare"}

Addresses == [host : Text, n : Nat]
Requests == [kind : {"request"}, from : User, method : Text, cseq : Nat, retry : BOOLEAN,
             se : Text, uri : Addresses, routes : Seq(Addresses), contact : Addresses,
             tag : BOOLEAN]
Responses == [kind : {"response"}, from : User, method : Text, cseq : Nat, retry : BOOLEAN,
              code : Text, se : Text, rr : Seq(Addresses), contact : Addresses]
Transactions == [dir : {"in", "out"}, st : {"open", "done"}, code : Text, req : Requests]
Dialogs == [dlg : {"none", "early", "confirmed", "gone"}, lcseq : Nat, rcseq : Int,
            routes : Seq(Addresses), target : Addresses, refresher : {-1, 0, 1}, retry : Nat,
            contact : Nat, trs : Seq(Transactions)]
Seens == [requests : Nat, moves : Nat, challenges : Nat, retried : SUBSET (User \X Nat),
          ignored : SUBSET Requests, met : [User -> Nat], spoilt : BOOLEAN, doubled : BOOLEAN]

TypeOK == /\ chain \in Seq(Addresses)
          /\ user \in [User -> Dialogs]
          /\ built \in [User -> Requests]
          /\ net \subseteq Requests \cup Responses
          /\ seen \in Seens

-----------------------------------------------------------------------------
(* Least elements, and induction *)

LEMMA Least ==
  ASSUME NEW T, T \subseteq Nat, T # {}
  PROVE  \E n \in T : \A m \in T : ~(m < n)
<1>1. IsWellFoundedOn(OpToRel(<, Nat), Nat)
  BY NatLessThanWellFounded, Zenon
<1>2. \E n \in T : \A m \in T : <<m, n>> \notin OpToRel(<, Nat)
  BY <1>1, WFMin, Zenon
<1> QED
  BY <1>2 DEF OpToRel

LEMMA Induction ==
  ASSUME NEW G, 0 \in G, \A n \in Nat : n \in G => n + 1 \in G
  PROVE  Nat \subseteq G
<1> SUFFICES ASSUME ~(Nat \subseteq G) PROVE FALSE
  OBVIOUS
<1> DEFINE T == Nat \ G
<1>1. PICK n \in T : \A m \in T : ~(m < n)
  BY Least
<1>2. n # 0 /\ n - 1 \in Nat /\ n - 1 < n /\ (n - 1) + 1 = n
  BY <1>1
<1> QED
  BY <1>1, <1>2

\* A set of positions has a last one.
LEMMA MaxIn ==
  ASSUME NEW N \in Nat, NEW S, S \subseteq 0 .. N, S # {}
  PROVE  Max(S) \in S /\ \A x \in S : x <= Max(S)
<1> DEFINE T == {N - x : x \in S}
<1>0. T \subseteq Nat /\ T # {}
  <2>1. \A x \in S : N - x \in Nat
    OBVIOUS
  <2>2. PICK x \in S : TRUE
    OBVIOUS
  <2>3. N - x \in T
    BY <2>2
  <2> QED
    BY <2>1, <2>3
<1>1. PICK n \in T : \A m \in T : ~(m < n)
  BY <1>0, Least
<1>2. PICK y \in S : n = N - y
  BY <1>1
<1>3. \A x \in S : y >= x
  BY <1>1, <1>2
<1> HIDE DEF T
<1>4. \E y2 \in S : \A x \in S : y2 >= x
  BY <1>2, <1>3
<1>5. Max(S) \in S /\ \A x \in S : Max(S) >= x
  BY <1>4 DEF Max
<1> QED
  BY <1>5

-----------------------------------------------------------------------------
(* The sides, the way of a request *)

LEMMA Sides ==
  ASSUME NEW u \in User
  PROVE  /\ Peer(u) \in User /\ Peer(u) # u /\ Peer(Peer(u)) = u
         /\ \A v \in User : v = u \/ v = Peer(u)
  BY DEF User, Peer

\* The stations of a request, as a function that is what its definition says.
LEMMA WayIs ==
  ASSUME NEW m, chain \in Seq(Addresses)
  PROVE  \E way : /\ way = [k \in 0 .. Len(chain) + 1 |->
                              IF k = 0 THEN [m |-> m, at |-> NextHop(m), visited |-> <<>>]
                              ELSE LET w == way[k-1] IN IF w.at.host \in User THEN w ELSE Forward(w)]
                  /\ Path(m) = way[Len(chain) + 1]
<1> DEFINE First == [m |-> m, at |-> NextHop(m), visited |-> <<>>]
           Stay(w) == IF w.at.host \in User THEN w ELSE Forward(w)
           Step(g, k) == IF k = 0 THEN First ELSE Stay(g[k-1])
           Built(g, n) == g = [k \in 0 .. n |-> Step(g, k)]
           Exists == {n \in Nat : \E g : Built(g, n)}
           N == Len(chain) + 1
           way[k \in 0 .. Len(chain) + 1] == IF k = 0 THEN First ELSE Stay(way[k-1])
<1> HIDE DEF First, Stay
<1>1. 0 \in Exists
  <2> DEFINE g == [k \in 0 .. 0 |-> First]
  <2>1. g = [k \in 0 .. 0 |-> Step(g, k)]
    OBVIOUS
  <2> HIDE DEF g
  <2> QED
    BY <2>1
<1>2. ASSUME NEW n \in Nat, n \in Exists PROVE n + 1 \in Exists
  <2>1. PICK g : Built(g, n)
    BY <1>2
  <2> DEFINE h == [k \in 0 .. n + 1 |-> IF k = n + 1 THEN Step(g, k) ELSE g[k]]
  <2>2. ASSUME NEW k \in 0 .. n + 1 PROVE h[k] = Step(h, k)
    <3>1. k # 0 => k - 1 \in 0 .. n /\ h[k-1] = g[k-1]
      OBVIOUS
    <3>2. CASE k = n + 1
      BY <3>1, <3>2
    <3>3. CASE k # n + 1
      <4>1. k \in 0 .. n /\ h[k] = g[k] /\ g[k] = Step(g, k)
        BY <2>1, <3>3
      <4> QED
        BY <3>1, <4>1
    <3> QED
      BY <3>2, <3>3
  <2>3. Built(h, n + 1)
    <3> HIDE DEF Step
    <3>1. h = [k \in 0 .. n + 1 |-> h[k]]
      OBVIOUS
    <3> QED
      BY <2>2, <3>1
  <2> HIDE DEF Built, h
  <2>4. \E g2 : Built(g2, n + 1)
    BY <2>3
  <2> QED
    BY <2>4
<1>3. \E g : Built(g, N)
  <2> HIDE DEF Built
  <2>1. Nat \subseteq Exists
    <3> HIDE DEF Exists
    <3> QED
      BY <1>1, <1>2, Induction
  <2> QED
    BY <2>1
<1>4. way = [k \in 0 .. N |-> Step(way, k)]
  BY <1>3
<1>5. Path(m) = way[N]
  BY DEF Path, way, First, Stay
<1> HIDE DEF way
<1> QED
  BY <1>4, <1>5 DEF First, Stay


-----------------------------------------------------------------------------
(* What the operators return *)

LEMMA Sequences ==
  ASSUME NEW T, NEW s \in Seq(T)
  PROVE  /\ DOMAIN s = 1 .. Len(s) /\ Len(s) \in Nat
         /\ \A i \in DOMAIN s : s[i] \in T
         /\ Reverse(s) \in Seq(T)
         /\ s # <<>> => /\ Front(s) \in Seq(T) /\ Tail(s) \in Seq(T)
                        /\ Head(s) \in T /\ Last(s) \in T /\ s[1] \in T
<1>1. DOMAIN s = 1 .. Len(s) /\ Len(s) \in Nat /\ \A i \in DOMAIN s : s[i] \in T
  OBVIOUS
<1>2. Reverse(s) \in Seq(T)
  <2>1. \A i \in 1 .. Len(s) : s[(Len(s) - i) + 1] \in T
    BY <1>1
  <2> QED
    BY <2>1, <1>1 DEF Reverse
<1>3. ASSUME s # <<>> PROVE /\ Front(s) \in Seq(T) /\ Tail(s) \in Seq(T)
                            /\ Head(s) \in T /\ Last(s) \in T /\ s[1] \in T
  <2>1. Len(s) >= 1 /\ s[1] \in T /\ s[Len(s)] \in T
    BY <1>1, <1>3
  <2>2. Tail(s) \in Seq(T) /\ Head(s) \in T
    BY <1>3, <2>1
  <2>3. SubSeq(s, 1, Len(s) - 1) \in Seq(T)
    BY <2>1, <1>1
  <2> QED
    BY <2>1, <2>2, <2>3 DEF Front, Last
<1> QED
  BY <1>1, <1>2, <1>3

LEMMA AddressFacts ==
  ASSUME NEW host \in Text, NEW n \in Nat
  PROVE  Address(host, n) \in Addresses /\ Address(host, n).host = host /\ Address(host, n).n = n
  BY DEF Address, Addresses

LEMMA RequestFacts ==
  ASSUME NEW u \in User, NEW method \in Text, NEW cseq \in Nat, NEW se \in Text,
         NEW uri \in Addresses, NEW routes \in Seq(Addresses), NEW contact \in Addresses
  PROVE  LET m == Request(u, method, cseq, se, uri, routes, contact)
         IN /\ m \in Requests /\ m.kind = "request" /\ m.from = u /\ m.method = method
            /\ m.cseq = cseq /\ ~m.retry /\ m.se = se /\ m.uri = uri /\ m.routes = routes
            /\ m.contact = contact /\ m.tag
  BY DEF Request, Requests

LEMMA PastFacts ==
  ASSUME NEW method \in Text
  PROVE  LET m == Past(method)
         IN m \in Requests /\ m.kind = "request" /\ m.method = method /\ ~m.retry /\ m.se = "none" /\ ~m.tag /\ m.cseq = 0
<1>1. "nowhere" \in Text /\ "none" \in Text /\ "caller" \in User /\ <<>> \in Seq(Addresses)
  BY DEF User, Text
<1>2. Nowhere \in Addresses
  BY <1>1, AddressFacts DEF Nowhere
<1> DEFINE r == Request("caller", method, 0, "none", Nowhere, <<>>, Nowhere)
<1>3. /\ r \in Requests /\ r.kind = "request" /\ r.method = method /\ ~r.retry
      /\ r.se = "none" /\ r.cseq = 0
  BY <1>1, <1>2 DEF Request, Requests
<1>4. Past(method) = [r EXCEPT !.tag = FALSE]
  BY DEF Past
<1> HIDE DEF r
<1> QED
  BY <1>3, <1>4 DEF Requests

LEMMA NothingFacts ==
  /\ Nothing \in Requests /\ NoTransaction \in [dir : {"none"}, st : {"done"}, code : {"none"}, req : {Nothing}]
  /\ NoTransaction.st = "done" /\ Nowhere \in Addresses
<1>1. "none" \in Text /\ "nowhere" \in Text /\ 0 \in Nat
  BY DEF Text
<1> QED
  BY <1>1, PastFacts, AddressFacts DEF Nothing, NoTransaction, Transaction, Nowhere

LEMMA TransactionFacts ==
  ASSUME NEW dir \in {"in", "out"}, NEW m \in Requests
  PROVE  LET t == Transaction(dir, m)
         IN t \in Transactions /\ t.dir = dir /\ t.st = "open" /\ t.code = "none" /\ t.req = m
  BY DEF Transaction, Transactions, Text

LEMMA NewDialog ==
  /\ NoDialog \in Dialogs /\ NoDialog.trs = <<>> /\ NoDialog.dlg = "none"
  /\ NoDialog.lcseq = 0 /\ NoDialog.rcseq = -1 /\ NoDialog.refresher = -1 /\ NoDialog.contact = 0
<1>1. Nowhere \in Addresses /\ <<>> \in Seq(Addresses) /\ <<>> \in Seq(Transactions)
  BY NothingFacts
<1> QED
  BY <1>1 DEF NoDialog, Dialogs

LEMMA Changed ==
  ASSUME NEW d \in Dialogs
  PROVE  /\ \A n \in Nat : /\ [d EXCEPT !.lcseq = n] \in Dialogs /\ [d EXCEPT !.contact = n] \in Dialogs
                           /\ [d EXCEPT !.retry = n] \in Dialogs /\ [d EXCEPT !.rcseq = n] \in Dialogs
         /\ \A a \in Addresses : [d EXCEPT !.target = a] \in Dialogs
         /\ \A x \in {"none", "early", "confirmed", "gone"} : [d EXCEPT !.dlg = x] \in Dialogs
         /\ \A x \in {-1, 0, 1} : [d EXCEPT !.refresher = x] \in Dialogs
         /\ \A s \in Seq(Transactions) : [d EXCEPT !.trs = s] \in Dialogs
<1>1. \A n \in Nat : n \in Int
  OBVIOUS
<1> QED
  BY <1>1 DEF Dialogs

LEMMA UriFacts ==
  ASSUME NEW d \in Dialogs
  PROVE  RequestUri(d).uri \in Addresses /\ RequestUri(d).routes \in Seq(Addresses)
<1>1. d.routes \in Seq(Addresses) /\ d.target \in Addresses
  BY DEF Dialogs
<1>2. CASE d.routes = <<>>
  BY <1>1, <1>2 DEF RequestUri
<1>3. CASE d.routes # <<>>
  <2>1. Front(d.routes) \in Seq(Addresses) /\ d.routes[1] \in Addresses
    BY <1>1, <1>3, Sequences
  <2>2. Append(Front(d.routes), d.target) \in Seq(Addresses)
    BY <2>1, <1>1
  <2> QED
    BY <1>1, <1>3, <2>1, <2>2 DEF RequestUri, dialog_fill_route_set
<1> QED
  BY <1>2, <1>3

LEMMA ContactFacts ==
  ASSUME TypeOK, NEW u \in User, NEW method
  PROVE  Contact(u, method) \in Addresses /\ Contact(u, method).host = u
<1>1. u \in Text /\ user[u].contact \in Nat
  BY DEF TypeOK, Dialogs, User, Text
<1> QED
  BY <1>1, AddressFacts DEF Contact

LEMMA WithinFacts ==
  ASSUME TypeOK, NEW u \in User, NEW method \in Text, NEW cseq \in Nat, NEW se \in Text
  PROVE  LET m == Within(u, method, cseq, se)
         IN /\ m \in Requests /\ m.kind = "request" /\ m.from = u /\ m.method = method
            /\ m.cseq = cseq /\ ~m.retry /\ m.se = se /\ m.tag
            /\ m.uri = RequestUri(user[u]).uri /\ m.routes = RequestUri(user[u]).routes
            /\ m.contact = Contact(u, method) /\ m.contact.host = u
<1>1. user[u] \in Dialogs
  BY DEF TypeOK
<1>2. Contact(u, method) \in Addresses /\ Contact(u, method).host = u
  BY ContactFacts
<1> QED
  BY <1>1, <1>2, UriFacts, RequestFacts DEF Within

LEMMA RespondFacts ==
  ASSUME TypeOK, NEW u \in User, NEW req \in Requests, NEW code \in Text, NEW se \in Text,
         NEW rr \in Seq(Addresses)
  PROVE  LET r == Respond(u, req, code, se, rr)
         IN /\ r \in Responses /\ r.kind = "response" /\ r.from = u /\ r.method = req.method
            /\ r.cseq = req.cseq /\ r.retry = req.retry /\ r.code = code /\ r.se = se /\ r.rr = rr
            /\ r.contact = Contact(u, req.method) /\ r.contact.host = u
<1>1. Contact(u, req.method) \in Addresses /\ Contact(u, req.method).host = u
  BY ContactFacts
<1> QED
  BY <1>1 DEF Respond, Responses, Requests

-----------------------------------------------------------------------------
(* The way of a request, whatever the request *)

Walks == [m : Requests, at : Addresses, visited : Seq(Addresses)]

LEMMA NextHopType ==
  ASSUME NEW m \in Requests
  PROVE  NextHop(m) \in Addresses
<1>1. m.routes \in Seq(Addresses) /\ m.uri \in Addresses
  BY DEF Requests
<1>2. m.routes # <<>> => m.routes[1] \in Addresses
  BY <1>1, Sequences
<1> QED
  BY <1>1, <1>2 DEF NextHop

LEMMA ForwardType ==
  ASSUME NEW w \in Walks
  PROVE  Forward(w) \in Walks
<1> DEFINE popped == IF w.m.routes # <<>> /\ w.m.routes[1] = w.at THEN Tail(w.m.routes) ELSE w.m.routes
           m == IF w.m.uri # w.at \/ popped = <<>> THEN [w.m EXCEPT !.routes = popped]
                ELSE IF w.at.host \in Strict
                THEN [w.m EXCEPT !.uri = Head(popped), !.routes = Tail(popped)]
                ELSE [w.m EXCEPT !.uri = Last(popped), !.routes = Front(popped)]
           sent == IF w.at.host \in Strict \/ m.routes = <<>> \/ Loose(m.routes[1]) THEN m
                   ELSE [m EXCEPT !.uri = Head(m.routes), !.routes = Append(Tail(m.routes), m.uri)]
<1>1. w.m \in Requests /\ w.at \in Addresses /\ w.visited \in Seq(Addresses)
  BY DEF Walks
<1>2. w.m.routes \in Seq(Addresses) /\ w.m.uri \in Addresses
  BY <1>1 DEF Requests
<1>3. popped \in Seq(Addresses)
  BY <1>2, Sequences
<1> HIDE DEF popped
<1>4. m \in Requests
  <2>1. CASE w.m.uri # w.at \/ popped = <<>>
    BY <1>1, <1>3, <2>1 DEF Requests
  <2>2. CASE ~(w.m.uri # w.at \/ popped = <<>>)
    <3>1. Front(popped) \in Seq(Addresses) /\ Tail(popped) \in Seq(Addresses)
          /\ Head(popped) \in Addresses /\ Last(popped) \in Addresses
      BY <1>3, <2>2, Sequences
    <3> QED
      BY <1>1, <2>2, <3>1 DEF Requests
  <2> QED
    BY <2>1, <2>2
<1> HIDE DEF m
<1>5. sent \in Requests
  <2>1. m.routes \in Seq(Addresses) /\ m.uri \in Addresses
    BY <1>4 DEF Requests
  <2>2. CASE m.routes = <<>>
    BY <1>4, <2>2
  <2>3. CASE m.routes # <<>>
    <3>1. Tail(m.routes) \in Seq(Addresses) /\ Head(m.routes) \in Addresses
      BY <2>1, <2>3, Sequences
    <3>2. Append(Tail(m.routes), m.uri) \in Seq(Addresses)
      BY <3>1, <2>1
    <3> QED
      BY <1>4, <3>1, <3>2 DEF Requests
  <2> QED
    BY <2>2, <2>3
<1>6. Forward(w) = [m |-> sent, at |-> NextHop(sent), visited |-> Append(w.visited, w.at)]
  BY DEF Forward, popped, m
<1> HIDE DEF sent
<1>7. NextHop(sent) \in Addresses /\ Append(w.visited, w.at) \in Seq(Addresses)
  BY <1>1, <1>5, NextHopType
<1> QED
  BY <1>5, <1>6, <1>7 DEF Walks

LEMMA PathType ==
  ASSUME NEW m \in Requests, chain \in Seq(Addresses)
  PROVE  Path(m) \in Walks
<1> DEFINE N == Len(chain) + 1
<1>0. Len(chain) \in Nat /\ N \in Nat
  OBVIOUS
<1>1. PICK way : /\ way = [k \in 0 .. N |->
                              IF k = 0 THEN [m |-> m, at |-> NextHop(m), visited |-> <<>>]
                              ELSE LET w == way[k-1] IN IF w.at.host \in User THEN w ELSE Forward(w)]
                 /\ Path(m) = way[N]
  BY WayIs
<1> DEFINE G == {k \in Nat : k <= N => way[k] \in Walks}
<1>2. 0 \in G
  <2>1. way[0] = [m |-> m, at |-> NextHop(m), visited |-> <<>>]
    BY <1>0, <1>1
  <2>2. NextHop(m) \in Addresses
    BY NextHopType
  <2>3. <<>> \in Seq(Addresses)
    OBVIOUS
  <2>4. way[0] \in Walks
    BY <2>1, <2>2, <2>3 DEF Walks
  <2> QED
    BY <2>4
<1>3. ASSUME NEW k \in Nat, k \in G PROVE k + 1 \in G
  <2>1. SUFFICES ASSUME k + 1 <= N PROVE way[k + 1] \in Walks
    OBVIOUS
  <2>2. way[k] \in Walks
    BY <1>0, <1>3, <2>1
  <2>3. way[k + 1] = IF way[k].at.host \in User THEN way[k] ELSE Forward(way[k])
    <3>1. k + 1 \in 0 .. N /\ k + 1 # 0 /\ (k + 1) - 1 = k
      BY <1>0, <2>1
    <3> QED
      BY <1>1, <3>1
  <2> QED
    BY <2>2, <2>3, ForwardType
<1> HIDE DEF G
<1>4. N \in G
  BY <1>0, <1>2, <1>3, Induction
<1> QED
  BY <1>0, <1>1, <1>4 DEF G

LEMMA RecordRouteType ==
  ASSUME NEW m \in Requests, chain \in Seq(Addresses)
  PROVE  RecordRoute(m) \in Seq(Addresses)
<1>1. Path(m).visited \in Seq(Addresses)
  BY PathType DEF Walks
<1> QED
  BY <1>1, Sequences DEF RecordRoute

-----------------------------------------------------------------------------
(* The transactions of a dialog *)

LEMMA NewestFacts ==
  ASSUME NEW d \in Dialogs, NEW dir, NEW method
  PROVE  LET i == Newest(d, dir, method)
         IN /\ i \in 0 .. Len(d.trs)
            /\ i # 0 => i \in DOMAIN d.trs /\ d.trs[i].dir = dir /\ d.trs[i].req.method = method
            /\ \A j \in DOMAIN d.trs : d.trs[j].dir = dir /\ d.trs[j].req.method = method => j <= i
<1> DEFINE S == {0} \cup {i \in DOMAIN d.trs : d.trs[i].dir = dir /\ d.trs[i].req.method = method}
<1>1. Len(d.trs) \in Nat /\ DOMAIN d.trs = 1 .. Len(d.trs)
  BY DEF Dialogs
<1>2. S \subseteq 0 .. Len(d.trs) /\ S # {}
  BY <1>1
<1>3. Max(S) \in S /\ \A x \in S : x <= Max(S)
  BY <1>1, <1>2, MaxIn, Zenon
<1>4. Newest(d, dir, method) = Max(S)
  BY Zenon DEF Newest
<1> DEFINE M == Max(S)
<1> HIDE DEF M
<1>5. M \in S /\ \A x \in S : x <= M
  BY <1>3, Zenon DEF M
<1> QED
  BY <1>1, <1>2, <1>4, <1>5 DEF M

LEMMA NthFacts ==
  ASSUME NEW d \in Dialogs, NEW i \in 0 .. Len(d.trs)
  PROVE  /\ i = 0 => Nth(d, i) = NoTransaction
         /\ i # 0 => i \in DOMAIN d.trs /\ Nth(d, i) = d.trs[i] /\ Nth(d, i) \in Transactions
  BY DEF Nth, Dialogs

\* The newest INVITE of a direction, when it is open.
LEMMA LastInvite ==
  ASSUME NEW d \in Dialogs
  PROVE  /\ LET t == _eXosip_find_last_inc_invite(d) IN
                t.st = "open" => /\ t \in Transactions /\ t.dir = "in" /\ t.req.method = "INVITE"
                                 /\ \E i \in DOMAIN d.trs : /\ t = d.trs[i]
                                        /\ \A j \in DOMAIN d.trs : d.trs[j].dir = "in" /\ d.trs[j].req.method = "INVITE" => j <= i
         /\ LET t == _eXosip_find_last_out_invite(d) IN
                t.st = "open" => /\ t \in Transactions /\ t.dir = "out" /\ t.req.method = "INVITE"
                                 /\ \E i \in DOMAIN d.trs : /\ t = d.trs[i]
                                        /\ \A j \in DOMAIN d.trs : d.trs[j].dir = "out" /\ d.trs[j].req.method = "INVITE" => j <= i
  BY NewestFacts, NthFacts, NothingFacts DEF _eXosip_find_last_inc_invite, _eXosip_find_last_out_invite

\* No INVITE of that direction is the newest one and open: none is open.
LEMMA FinalFacts ==
  ASSUME NEW t \in Transactions, NEW code \in Text
  PROVE  LET f == Final(t, code)
         IN /\ f \in Transactions /\ f.dir = t.dir /\ f.st = "done" /\ f.req.method = t.req.method
            /\ IF code = "401" /\ t.dir = "out" THEN f.req = t.req /\ f.code = "401"
               ELSE f.req = Past(t.req.method) /\ f.code = t.code
<1>1. t.req.method \in Text
  BY DEF Transactions, Requests
<1>2. Past(t.req.method) \in Requests /\ Past(t.req.method).method = t.req.method
  BY <1>1, PastFacts
<1> QED
  BY <1>2 DEF Final, Transactions

LEMMA FinishFacts ==
  ASSUME NEW d \in Dialogs, NEW dir, NEW m, NEW code \in Text
  PROVE  LET e == Finish(d, dir, m, code)
         IN /\ e \in Dialogs
            /\ e = [d EXCEPT !.trs = e.trs]
            /\ Len(e.trs) = Len(d.trs) /\ DOMAIN e.trs = DOMAIN d.trs
            /\ \A i \in DOMAIN d.trs :
                  e.trs[i] = IF Waits(d.trs[i], dir, m) THEN Final(d.trs[i], code) ELSE d.trs[i]
<1> DEFINE s == [i \in DOMAIN d.trs |-> IF Waits(d.trs[i], dir, m) THEN Final(d.trs[i], code) ELSE d.trs[i]]
<1>1. d.trs \in Seq(Transactions)
  BY DEF Dialogs
<1>2. Len(d.trs) \in Nat /\ DOMAIN d.trs = 1 .. Len(d.trs) /\ \A i \in DOMAIN d.trs : d.trs[i] \in Transactions
  BY <1>1
<1>3. \A i \in 1 .. Len(d.trs) : s[i] \in Transactions
  BY <1>2, FinalFacts
<1>4. s \in [1 .. Len(d.trs) -> Transactions]
  BY <1>2, <1>3
<1>5. s \in Seq(Transactions) /\ Len(s) = Len(d.trs) /\ DOMAIN s = DOMAIN d.trs
  BY <1>2, <1>4
<1>6. Finish(d, dir, m, code) = [d EXCEPT !.trs = s]
  BY DEF Finish, Dialogs
<1>7. \A i \in DOMAIN d.trs : s[i] = IF Waits(d.trs[i], dir, m) THEN Final(d.trs[i], code) ELSE d.trs[i]
  OBVIOUS
<1> HIDE DEF s
<1>8. Finish(d, dir, m, code).trs = s /\ Finish(d, dir, m, code) \in Dialogs
  BY <1>5, <1>6 DEF Dialogs
<1> QED
  BY <1>5, <1>6, <1>7, <1>8

LEMMA AddFacts ==
  ASSUME NEW d \in Dialogs, NEW t \in Transactions
  PROVE  LET e == Add(d, t)
         IN /\ e \in Dialogs
            /\ e = [d EXCEPT !.trs = e.trs]
            /\ Len(e.trs) = Len(d.trs) + 1 /\ DOMAIN e.trs = DOMAIN d.trs \cup {Len(e.trs)}
            /\ e.trs[Len(e.trs)] = t /\ Len(e.trs) \notin DOMAIN d.trs
            /\ \A i \in DOMAIN d.trs : e.trs[i] = d.trs[i] /\ i < Len(e.trs)
<1>1. d.trs \in Seq(Transactions)
  BY DEF Dialogs
<1> DEFINE s == Append(d.trs, t)
<1>2. /\ s \in Seq(Transactions) /\ Len(s) = Len(d.trs) + 1 /\ DOMAIN s = DOMAIN d.trs \cup {Len(s)}
      /\ s[Len(s)] = t /\ Len(s) \notin DOMAIN d.trs /\ \A i \in DOMAIN d.trs : s[i] = d.trs[i] /\ i < Len(s)
  BY <1>1
<1>3. Add(d, t) = [d EXCEPT !.trs = s]
  BY DEF Add, Dialogs
<1> HIDE DEF s
<1>4. Add(d, t).trs = s /\ Add(d, t) \in Dialogs
  BY <1>2, <1>3 DEF Dialogs
<1> QED
  BY <1>2, <1>3, <1>4

\* The transactions of a direction that waited for the answer to m are final.
Finished(s2, s, dir, m, code) ==
    /\ Len(s2) = Len(s) /\ DOMAIN s2 = DOMAIN s
    /\ \A i \in DOMAIN s : s2[i] = IF Waits(s[i], dir, m) THEN Final(s[i], code) ELSE s[i]

\* One more transaction.
Added(s2, s, dir, m) ==
    LET n == Len(s) + 1
    IN /\ Len(s2) = n /\ DOMAIN s2 = DOMAIN s \cup {n} /\ n \notin DOMAIN s
       /\ s2[n].dir = dir /\ s2[n].st = "open" /\ s2[n].code = "none" /\ s2[n].req = m
       /\ \A i \in DOMAIN s : s2[i] = s[i] /\ i < n

SameTarget(e, d) == e.routes = d.routes /\ e.target = d.target /\ e.contact = d.contact

LEMMA FinishedFacts ==
  ASSUME NEW d \in Dialogs, NEW dir, NEW m, NEW code \in Text
  PROVE  LET e == Finish(d, dir, m, code)
         IN /\ e \in Dialogs /\ Finished(e.trs, d.trs, dir, m, code)
            /\ e.dlg = d.dlg /\ e.lcseq = d.lcseq /\ e.rcseq = d.rcseq /\ e.refresher = d.refresher
            /\ e.retry = d.retry /\ SameTarget(e, d)
<1> DEFINE e == Finish(d, dir, m, code)
<1>1. /\ e \in Dialogs
      /\ e = [d EXCEPT !.trs = e.trs]
      /\ Len(e.trs) = Len(d.trs) /\ DOMAIN e.trs = DOMAIN d.trs
      /\ \A i \in DOMAIN d.trs :
            e.trs[i] = IF Waits(d.trs[i], dir, m) THEN Final(d.trs[i], code) ELSE d.trs[i]
  BY FinishFacts
<1> HIDE DEF e
<1>2. /\ e.dlg = d.dlg /\ e.lcseq = d.lcseq /\ e.rcseq = d.rcseq /\ e.refresher = d.refresher
      /\ e.retry = d.retry /\ SameTarget(e, d)
  BY <1>1 DEF Dialogs, SameTarget
<1>3. Finished(e.trs, d.trs, dir, m, code)
  BY <1>1 DEF Finished
<1> QED
  BY <1>1, <1>2, <1>3 DEF e

LEMMA AddedFacts ==
  ASSUME NEW d \in Dialogs, NEW dir \in {"in", "out"}, NEW m \in Requests
  PROVE  LET e == Add(d, Transaction(dir, m))
         IN /\ e \in Dialogs /\ Added(e.trs, d.trs, dir, m)
            /\ e.dlg = d.dlg /\ e.lcseq = d.lcseq /\ e.rcseq = d.rcseq /\ e.refresher = d.refresher
            /\ e.retry = d.retry /\ SameTarget(e, d)
<1> DEFINE t == Transaction(dir, m)
<1>1. t \in Transactions /\ t.dir = dir /\ t.st = "open" /\ t.code = "none" /\ t.req = m
  BY TransactionFacts
<1> HIDE DEF t
<1> DEFINE e == Add(d, t)
           n == Len(d.trs) + 1
<1>2. /\ e \in Dialogs
      /\ e = [d EXCEPT !.trs = e.trs]
      /\ Len(e.trs) = n /\ DOMAIN e.trs = DOMAIN d.trs \cup {n} /\ n \notin DOMAIN d.trs
      /\ e.trs[n] = t
      /\ \A i \in DOMAIN d.trs : e.trs[i] = d.trs[i] /\ i < n
  BY <1>1, AddFacts
<1> HIDE DEF e
<1>3. Added(e.trs, d.trs, dir, m)
  BY <1>1, <1>2 DEF Added
<1>4. /\ e.dlg = d.dlg /\ e.lcseq = d.lcseq /\ e.rcseq = d.rcseq /\ e.refresher = d.refresher
      /\ e.retry = d.retry /\ SameTarget(e, d)
  BY <1>2 DEF Dialogs, SameTarget
<1> QED
  BY <1>2, <1>3, <1>4 DEF e, t

-----------------------------------------------------------------------------
(* What each action does, in its types *)

LEMMA PutFacts ==
  ASSUME TypeOK, NEW u \in User, NEW d \in Dialogs, Put(u, d)
  PROVE  /\ user' \in [User -> Dialogs] /\ user'[u] = d
         /\ \A v \in User : v # u => user'[v] = user[v]
  BY DEF TypeOK, Put

LEMMA SeenFacts ==
  ASSUME TypeOK
  PROVE  /\ seen \in Seens /\ seen.requests \in Nat /\ seen.moves \in Nat /\ seen.challenges \in Nat
         /\ seen.retried \subseteq User \X Nat /\ seen.ignored \subseteq Requests
         /\ seen.met \in [User -> Nat] /\ seen.spoilt \in BOOLEAN /\ seen.doubled \in BOOLEAN
  BY DEF TypeOK, Seens

LEMMA DialogFacts ==
  ASSUME TypeOK, NEW u \in User
  PROVE  /\ user[u] \in Dialogs /\ user[u].lcseq \in Nat /\ user[u].rcseq \in Int
         /\ user[u].dlg \in {"none", "early", "confirmed", "gone"}
         /\ user[u].refresher \in {-1, 0, 1} /\ user[u].target \in Addresses
         /\ user[u].routes \in Seq(Addresses) /\ user[u].retry \in Nat /\ user[u].contact \in Nat
         /\ user[u].trs \in Seq(Transactions) /\ Len(user[u].trs) \in Nat
         /\ DOMAIN user[u].trs = 1 .. Len(user[u].trs)
         /\ \A i \in DOMAIN user[u].trs : /\ user[u].trs[i] \in Transactions
                                          /\ user[u].trs[i].req \in Requests
                                          /\ user[u].trs[i].req.cseq \in Nat
                                          /\ user[u].trs[i].req.method \in Text
         /\ built[u] \in Requests /\ built[u].cseq \in Nat
<1>1. user[u] \in Dialogs /\ built[u] \in Requests
  BY DEF TypeOK
<1>2. user[u].trs \in Seq(Transactions)
  BY <1>1 DEF Dialogs
<1>3. \A i \in DOMAIN user[u].trs : user[u].trs[i] \in Transactions
  BY <1>2
<1>4. \A i \in DOMAIN user[u].trs : user[u].trs[i].req \in Requests
  BY <1>3 DEF Transactions
<1> QED
  BY <1>1, <1>2, <1>3, <1>4 DEF Dialogs, Requests

\* Of seen only what is left of a bound changes.
SameHistory == /\ seen'.retried = seen.retried /\ seen'.ignored = seen.ignored /\ seen'.met = seen.met
               /\ seen'.spoilt = seen.spoilt /\ seen'.doubled = seen.doubled

LEMMA BuildEffect ==
  ASSUME TypeOK, NEW u \in User, NEW method \in Methods, Build(u, method, "none")
  PROVE  /\ TypeOK'
         /\ Usable(user[u]) /\ built[u] = Nothing
         /\ user'[u].lcseq = user[u].lcseq + 1 /\ user'[u].trs = user[u].trs
         /\ user'[u].dlg = user[u].dlg /\ user'[u].rcseq = user[u].rcseq
         /\ user'[u].refresher = user[u].refresher /\ SameTarget(user'[u], user[u])
         /\ \A v \in User : v # u => user'[v] = user[v] /\ built'[v] = built[v]
         /\ built'[u] = Within(u, method, user[u].lcseq + 1, "none")
         /\ chain' = chain /\ net' = net
         /\ SameHistory
         /\ \E t \in FindLast(user[u], method) : MayFollow(t)
<1> DEFINE d == [user[u] EXCEPT !.lcseq = user[u].lcseq + 1]
           m == Within(u, method, user[u].lcseq + 1, "none")
<1>1. user[u] \in Dialogs /\ user[u].lcseq \in Nat
  BY DialogFacts
<1>2. d \in Dialogs
  <2>1. user[u].lcseq + 1 \in Nat
    BY <1>1
  <2> QED
    BY <1>1, <2>1, Changed
<1>3. method \in Text /\ "none" \in Text /\ user[u].lcseq + 1 \in Nat
  BY <1>1, ExDialogAssumption DEF Text
<1>4. m \in Requests
  BY <1>3, WithinFacts
<1>5. Put(u, d) /\ built' = [built EXCEPT ![u] = m]
  BY DEF Build
<1> HIDE DEF d, m
<1>6. user' \in [User -> Dialogs] /\ user'[u] = d /\ \A v \in User : v # u => user'[v] = user[v]
  BY <1>2, <1>5, PutFacts
<1>7. built' \in [User -> Requests] /\ built'[u] = m /\ \A v \in User : v # u => built'[v] = built[v]
  BY <1>4, <1>5 DEF TypeOK
<1>8. seen' \in Seens /\ seen' = [seen EXCEPT !.requests = seen.requests - 1]
  BY SeenFacts DEF Build, Seens
<1>9. chain' = chain /\ net' = net /\ Usable(user[u]) /\ built[u] = Nothing
      /\ \E t \in FindLast(user[u], method) : MayFollow(t)
  BY DEF Build
<1>10. TypeOK'
  BY <1>6, <1>7, <1>8, <1>9 DEF TypeOK
<1>11. /\ d.lcseq = user[u].lcseq + 1 /\ d.trs = user[u].trs
       /\ d.dlg = user[u].dlg /\ d.rcseq = user[u].rcseq
       /\ d.refresher = user[u].refresher /\ SameTarget(d, user[u])
  BY <1>1 DEF d, Dialogs, SameTarget
<1>12. SameHistory
  BY <1>8, SeenFacts DEF SameHistory, Seens
<1> QED
  BY <1>6, <1>7, <1>8, <1>9, <1>10, <1>11, <1>12 DEF m

\* A request is appended to the transactions and sent.
Sends(u, lcseq, m) ==
    /\ Added(user'[u].trs, user[u].trs, "out", m)
    /\ user'[u].lcseq = lcseq /\ user'[u].dlg = user[u].dlg /\ user'[u].rcseq = user[u].rcseq
    /\ user'[u].refresher = user[u].refresher /\ SameTarget(user'[u], user[u])
    /\ net' = net \cup {m}

LEMMA SendEffect ==
  ASSUME TypeOK, NEW u \in User, eXosip_call_send_request(u)
  PROVE  /\ TypeOK'
         /\ built[u] # Nothing
         /\ built' = [built EXCEPT ![u] = Nothing]
         /\ \A v \in User : v # u => user'[v] = user[v]
         /\ \/ /\ Sends(u, user[u].lcseq, built[u])
               /\ \E t \in FindLast(user[u], built[u].method) : MayFollow(t)
            \/ user' = user /\ net' = net
         /\ chain' = chain /\ seen' = seen
<1> DEFINE d == Add(user[u], Transaction("out", built[u]))
<1>1. user[u] \in Dialogs /\ built[u] \in Requests
  BY DialogFacts
<1>2. d \in Dialogs
  BY <1>1, AddedFacts
<1>3. built' = [built EXCEPT ![u] = Nothing] /\ chain' = chain /\ seen' = seen /\ built[u] # Nothing
  BY DEF eXosip_call_send_request
<1>4. \/ Put(u, d) /\ net' = net \cup {built[u]} /\ \E t \in FindLast(user[u], built[u].method) : MayFollow(t)
      \/ user' = user /\ net' = net
  BY DEF eXosip_call_send_request
<1> HIDE DEF d
<1>5. built' \in [User -> Requests]
  BY <1>3, NothingFacts DEF TypeOK
<1>6. CASE user' = user /\ net' = net
  BY <1>3, <1>5, <1>6 DEF TypeOK
<1>7. CASE Put(u, d) /\ net' = net \cup {built[u]} /\ \E t \in FindLast(user[u], built[u].method) : MayFollow(t)
  <2>1. user' \in [User -> Dialogs] /\ user'[u] = d /\ \A v \in User : v # u => user'[v] = user[v]
    BY <1>2, <1>7, PutFacts
  <2>2. TypeOK'
    BY <1>1, <1>3, <1>5, <1>7, <2>1 DEF TypeOK
  <2>3. Sends(u, user[u].lcseq, built[u])
    BY <1>1, <1>7, <2>1, AddedFacts DEF Sends, d
  <2> QED
    BY <1>3, <1>7, <2>1, <2>2, <2>3
<1> QED
  BY <1>4, <1>6, <1>7

LEMMA MoveEffect ==
  ASSUME TypeOK, NEW u \in User, eXosip_masquerade_contact(u)
  PROVE  /\ TypeOK'
         /\ user'[u].contact = user[u].contact + 1
         /\ user'[u].lcseq = user[u].lcseq /\ user'[u].trs = user[u].trs
         /\ user'[u].dlg = user[u].dlg /\ user'[u].rcseq = user[u].rcseq
         /\ user'[u].refresher = user[u].refresher /\ user'[u].routes = user[u].routes
         /\ user'[u].target = user[u].target
         /\ \A v \in User : v # u => user'[v] = user[v]
         /\ chain' = chain /\ built' = built /\ net' = net
         /\ SameHistory
<1> DEFINE d == [user[u] EXCEPT !.contact = user[u].contact + 1]
<1>1. user[u] \in Dialogs /\ user[u].contact \in Nat
  BY DialogFacts
<1>2. d \in Dialogs
  <2>1. user[u].contact + 1 \in Nat
    BY <1>1
  <2> QED
    BY <1>1, <2>1, Changed
<1>3. Put(u, d) /\ chain' = chain /\ built' = built /\ net' = net
  BY DEF eXosip_masquerade_contact
<1> HIDE DEF d
<1>4. user' \in [User -> Dialogs] /\ user'[u] = d /\ \A v \in User : v # u => user'[v] = user[v]
  BY <1>2, <1>3, PutFacts
<1>5. seen' \in Seens /\ seen' = [seen EXCEPT !.moves = seen.moves - 1]
  BY SeenFacts DEF eXosip_masquerade_contact, Seens
<1>6. TypeOK'
  BY <1>3, <1>4, <1>5 DEF TypeOK
<1>7. /\ d.contact = user[u].contact + 1 /\ d.trs = user[u].trs /\ d.lcseq = user[u].lcseq
      /\ d.dlg = user[u].dlg /\ d.rcseq = user[u].rcseq
      /\ d.refresher = user[u].refresher /\ d.routes = user[u].routes /\ d.target = user[u].target
  BY <1>1 DEF d, Dialogs
<1>8. SameHistory
  BY <1>5, SeenFacts DEF SameHistory, Seens
<1> QED
  BY <1>3, <1>4, <1>6, <1>7, <1>8

LEMMA TimerEffect ==
  ASSUME TypeOK, NEW u \in User, SessionTimer(u)
  PROVE  LET m == Within(u, "INVITE", user[u].lcseq + 1, "uac")
         IN /\ TypeOK'
            /\ Usable(user[u]) /\ user[u].refresher = 0
            /\ Sends(u, user[u].lcseq + 1, m)
            /\ \A v \in User : v # u => user'[v] = user[v]
            /\ \E t \in FindLast(user[u], "INVITE") : MayFollow(t)
            /\ SameHistory
            /\ chain' = chain /\ built' = built
<1> DEFINE m == Within(u, "INVITE", user[u].lcseq + 1, "uac")
           c == [user[u] EXCEPT !.lcseq = user[u].lcseq + 1]
           d == Add(c, Transaction("out", m))
<1>1. user[u] \in Dialogs /\ user[u].lcseq \in Nat
  BY DialogFacts
<1>2. c \in Dialogs
  <2>1. user[u].lcseq + 1 \in Nat
    BY <1>1
  <2> QED
    BY <1>1, <2>1, Changed
<1>3. m \in Requests
  BY <1>1, WithinFacts DEF Text
<1>4. Put(u, d) /\ net' = net \cup {m} /\ chain' = chain /\ built' = built
      /\ Usable(user[u]) /\ user[u].refresher = 0 /\ \E t \in FindLast(user[u], "INVITE") : MayFollow(t)
  BY DEF SessionTimer
<1>5. seen' \in Seens /\ seen' = [seen EXCEPT !.requests = seen.requests - 1]
  BY SeenFacts DEF SessionTimer, Seens
<1> HIDE DEF c, m
<1>6. d \in Dialogs
  BY <1>2, <1>3, AddedFacts
<1>7. user' \in [User -> Dialogs] /\ user'[u] = d /\ \A v \in User : v # u => user'[v] = user[v]
  BY <1>4, <1>6, PutFacts
<1>8. TypeOK'
  BY <1>3, <1>4, <1>5, <1>7 DEF TypeOK
<1>9. /\ Added(d.trs, c.trs, "out", m)
      /\ d.dlg = c.dlg /\ d.lcseq = c.lcseq /\ d.rcseq = c.rcseq /\ d.refresher = c.refresher
      /\ SameTarget(d, c)
  BY <1>2, <1>3, AddedFacts
<1>10. /\ c.trs = user[u].trs /\ c.lcseq = user[u].lcseq + 1 /\ c.dlg = user[u].dlg
       /\ c.rcseq = user[u].rcseq /\ c.refresher = user[u].refresher /\ SameTarget(c, user[u])
  BY <1>1 DEF c, Dialogs, SameTarget
<1> HIDE DEF d
<1>11. Sends(u, user[u].lcseq + 1, m)
  BY <1>4, <1>7, <1>9, <1>10 DEF Sends, SameTarget
<1>12. SameHistory
  BY <1>5, SeenFacts DEF SameHistory, Seens
<1> QED
  BY <1>4, <1>7, <1>8, <1>11, <1>12 DEF m

LEMMA TerminateEffect ==
  ASSUME TypeOK, NEW u \in User, Terminate(u)
  PROVE  LET bye == Within(u, "BYE", user[u].lcseq + 1, "none")
             waiting == _eXosip_find_last_inc_invite(user[u])
             answer == Respond(u, waiting.req, "4xx", "none", <<>>)
         IN /\ TypeOK'
            /\ user[u].dlg = "confirmed" /\ user'[u].dlg = "gone"
            /\ user'[u].lcseq = user[u].lcseq + 1 /\ user'[u].rcseq = user[u].rcseq
            /\ user'[u].refresher = user[u].refresher /\ SameTarget(user'[u], user[u])
            /\ \A v \in User : v # u => user'[v] = user[v]
            /\ \/ Added(user'[u].trs, user[u].trs, "out", bye) /\ net' = net \cup {bye}
               \/ /\ waiting.st = "open"
                  /\ \E s \in Seq(Transactions) : /\ Finished(s, user[u].trs, "in", waiting.req, "4xx")
                                                  /\ Added(user'[u].trs, s, "out", bye)
                  /\ net' = net \cup {bye} \cup {answer}
            /\ chain' = chain /\ built' = built /\ seen' = seen
<1> DEFINE bye == Within(u, "BYE", user[u].lcseq + 1, "none")
           waiting == _eXosip_find_last_inc_invite(user[u])
           answer == Respond(u, waiting.req, "4xx", "none", <<>>)
           refuses == _eXosip_find_last_out_invite(user[u]) = NoTransaction /\ waiting.st = "open"
           left == IF refuses THEN Finish(user[u], "in", waiting.req, "4xx") ELSE user[u]
           ended == [left EXCEPT !.lcseq = user[u].lcseq + 1, !.dlg = "gone"]
           d == Add(ended, Transaction("out", bye))
<1>1. user[u] \in Dialogs /\ user[u].lcseq \in Nat /\ user[u].lcseq + 1 \in Nat
  BY DialogFacts
<1>2. bye \in Requests
  BY <1>1, WithinFacts DEF Text
<1>3. /\ left \in Dialogs
      /\ left.dlg = user[u].dlg /\ left.lcseq = user[u].lcseq /\ left.rcseq = user[u].rcseq
      /\ left.refresher = user[u].refresher /\ SameTarget(left, user[u])
      /\ refuses => Finished(left.trs, user[u].trs, "in", waiting.req, "4xx")
      /\ ~refuses => left = user[u]
  <2>1. "4xx" \in Text
    BY DEF Text
  <2> QED
    BY <1>1, <2>1, FinishedFacts DEF SameTarget
<1>4. /\ user[u].dlg = "confirmed" /\ chain' = chain /\ built' = built /\ seen' = seen
      /\ net' = net \cup {bye} \cup (IF refuses THEN {answer} ELSE {})
  BY DEF Terminate
<1>5. Put(u, Add([left EXCEPT !.lcseq = left.lcseq + 1, !.dlg = "gone"], Transaction("out", bye)))
  BY DEF Terminate
<1>6. refuses => answer \in Responses
  <2>1. SUFFICES ASSUME refuses PROVE answer \in Responses
    OBVIOUS
  <2>2. waiting.req \in Requests
    BY <1>1, <2>1, LastInvite DEF Transactions
  <2>3. "4xx" \in Text /\ "none" \in Text /\ <<>> \in Seq(Addresses)
    BY DEF Text
  <2> QED
    BY <2>2, <2>3, RespondFacts
<1> HIDE DEF bye, answer, refuses, left
<1>7. Put(u, d)
  BY <1>3, <1>5
<1>8. /\ ended \in Dialogs /\ ended.dlg = "gone" /\ ended.lcseq = user[u].lcseq + 1 /\ ended.rcseq = left.rcseq
      /\ ended.refresher = left.refresher /\ SameTarget(ended, left) /\ ended.trs = left.trs
  BY <1>1, <1>3 DEF Dialogs, SameTarget
<1> HIDE DEF ended
<1>9. /\ d \in Dialogs /\ Added(d.trs, ended.trs, "out", bye)
      /\ d.dlg = ended.dlg /\ d.lcseq = ended.lcseq /\ d.rcseq = ended.rcseq
      /\ d.refresher = ended.refresher /\ SameTarget(d, ended)
  BY <1>2, <1>8, AddedFacts
<1> HIDE DEF d
<1>10. user' \in [User -> Dialogs] /\ user'[u] = d /\ \A v \in User : v # u => user'[v] = user[v]
  BY <1>7, <1>9, PutFacts
<1>11. TypeOK'
  BY <1>2, <1>4, <1>6, <1>10 DEF TypeOK
<1>12. SameTarget(user'[u], user[u])
  BY <1>3, <1>8, <1>9, <1>10 DEF SameTarget
<1>13. left.trs \in Seq(Transactions)
  BY <1>3 DEF Dialogs
<1>14. \/ Added(user'[u].trs, user[u].trs, "out", bye) /\ net' = net \cup {bye}
       \/ /\ waiting.st = "open"
          /\ \E s \in Seq(Transactions) : /\ Finished(s, user[u].trs, "in", waiting.req, "4xx")
                                          /\ Added(user'[u].trs, s, "out", bye)
          /\ net' = net \cup {bye} \cup {answer}
  <2>1. CASE refuses
    BY <1>3, <1>4, <1>8, <1>9, <1>10, <1>13, <2>1 DEF refuses
  <2>2. CASE ~refuses
    BY <1>3, <1>4, <1>8, <1>9, <1>10, <2>2
  <2> QED
    BY <2>1, <2>2
<1> QED
  BY <1>3, <1>4, <1>8, <1>9, <1>10, <1>11, <1>12, <1>14 DEF bye, answer

\* The Session-Expires of an answer.
Kept(t, code, timer) == timer /\ code = "2xx" /\ t.req.se # "none"

LEMMA TimerInAnswerType ==
  ASSUME NEW se \in Text
  PROVE  TimerInAnswer(se).se \in Text /\ TimerInAnswer(se).refresher \in {0, 1}
  BY DEF TimerInAnswer, Text

LEMMA AnswerInviteEffect ==
  ASSUME TypeOK, NEW u \in User, NEW code \in {"1xx", "2xx", "4xx", "401"}, NEW timer \in BOOLEAN,
         AnswerInvite(u, code, timer)
  PROVE  LET t == _eXosip_find_last_inc_invite(user[u])
             kept == Kept(t, code, timer)
             r == Respond(u, t.req, code, IF kept THEN TimerInAnswer(t.req.se).se ELSE "none",
                          IF code \in {"1xx", "2xx"} THEN RecordRoute(t.req) ELSE <<>>)
         IN /\ TypeOK'
            /\ t.st = "open" /\ (timer => kept)
            /\ code = "2xx" => Usable(user[u])
            /\ code = "1xx" => user[u].dlg = "early"
            /\ code = "401" => t.req.tag
            /\ user'[u].dlg = IF code = "2xx" THEN "confirmed" ELSE user[u].dlg
            /\ user'[u].refresher = IF kept THEN TimerInAnswer(t.req.se).refresher ELSE user[u].refresher
            /\ user'[u].lcseq = user[u].lcseq /\ user'[u].rcseq = user[u].rcseq
            /\ SameTarget(user'[u], user[u])
            /\ IF code = "1xx" THEN user'[u].trs = user[u].trs
               ELSE Finished(user'[u].trs, user[u].trs, "in", t.req, code)
            /\ \A v \in User : v # u => user'[v] = user[v]
            /\ r \in Responses
            /\ net' = net \cup {r}
            /\ chain' = chain /\ built' = built
            /\ seen'.retried = seen.retried /\ seen'.ignored = seen.ignored /\ seen'.met = seen.met
            /\ seen'.spoilt = (seen.spoilt \/ code \in {"401", "4xx"}) /\ seen'.doubled = seen.doubled
<1> DEFINE t == _eXosip_find_last_inc_invite(user[u])
           kept == Kept(t, code, timer)
           se == IF kept THEN TimerInAnswer(t.req.se).se ELSE "none"
           rr == IF code \in {"1xx", "2xx"} THEN RecordRoute(t.req) ELSE <<>>
           r == Respond(u, t.req, code, se, rr)
           d == IF code = "1xx" THEN user[u] ELSE Finish(user[u], "in", t.req, code)
           e == [d EXCEPT !.dlg = IF code = "2xx" THEN "confirmed" ELSE d.dlg,
                          !.refresher = IF kept THEN TimerInAnswer(t.req.se).refresher ELSE d.refresher]
<1>1. user[u] \in Dialogs /\ code \in Text /\ chain \in Seq(Addresses)
  BY DialogFacts DEF Text, TypeOK
<1>2. /\ t.st = "open" /\ (timer => kept)
      /\ code = "2xx" => Usable(user[u])
      /\ code = "1xx" => user[u].dlg = "early"
      /\ code = "401" => t.req.tag /\ seen.challenges > 0
      /\ Put(u, e) /\ net' = net \cup {r} /\ chain' = chain /\ built' = built
      /\ seen' = [seen EXCEPT !.spoilt = seen.spoilt \/ code \in {"401", "4xx"},
                              !.challenges = seen.challenges - (IF code = "401" THEN 1 ELSE 0)]
  BY DEF AnswerInvite, Kept
<1>3. t.req \in Requests /\ t.req.se \in Text
  BY <1>1, <1>2, LastInvite DEF Transactions, Requests
<1>4. se \in Text /\ rr \in Seq(Addresses)
  <2>1. "none" \in Text /\ <<>> \in Seq(Addresses)
    BY DEF Text
  <2>2. RecordRoute(t.req) \in Seq(Addresses)
    BY <1>1, <1>3, RecordRouteType
  <2> QED
    BY <1>3, <2>1, <2>2, TimerInAnswerType
<1>5. r \in Responses
  BY <1>1, <1>3, <1>4, RespondFacts
<1>6. /\ d \in Dialogs
      /\ IF code = "1xx" THEN d.trs = user[u].trs ELSE Finished(d.trs, user[u].trs, "in", t.req, code)
      /\ d.dlg = user[u].dlg /\ d.lcseq = user[u].lcseq /\ d.rcseq = user[u].rcseq
      /\ d.refresher = user[u].refresher /\ SameTarget(d, user[u])
  BY <1>1, FinishedFacts DEF SameTarget
<1>7. TimerInAnswer(t.req.se).refresher \in {0, 1}
  BY <1>3, TimerInAnswerType
<1> HIDE DEF d, t, r
<1>8. /\ e \in Dialogs /\ e.trs = d.trs /\ e.lcseq = d.lcseq /\ e.rcseq = d.rcseq
      /\ e.dlg = (IF code = "2xx" THEN "confirmed" ELSE d.dlg) /\ SameTarget(e, d)
      /\ e.refresher = (IF kept THEN TimerInAnswer(t.req.se).refresher ELSE d.refresher)
  BY <1>6, <1>7 DEF Dialogs, SameTarget
<1> HIDE DEF e
<1>9. user' \in [User -> Dialogs] /\ user'[u] = e /\ \A v \in User : v # u => user'[v] = user[v]
  BY <1>2, <1>8, PutFacts
<1>10. /\ seen' \in Seens
       /\ seen'.retried = seen.retried /\ seen'.ignored = seen.ignored /\ seen'.met = seen.met
       /\ seen'.spoilt = (seen.spoilt \/ code \in {"401", "4xx"}) /\ seen'.doubled = seen.doubled
  <2> DEFINE spoilt == seen.spoilt \/ code \in {"401", "4xx"}
             left == seen.challenges - (IF code = "401" THEN 1 ELSE 0)
  <2>1. left \in Nat
    BY <1>2, SeenFacts
  <2>2. spoilt \in BOOLEAN
    OBVIOUS
  <2>3. seen' = [seen EXCEPT !.spoilt = spoilt, !.challenges = left]
    BY <1>2
  <2> HIDE DEF spoilt, left
  <2>4. /\ seen' \in Seens /\ seen'.spoilt = spoilt
        /\ seen'.retried = seen.retried /\ seen'.ignored = seen.ignored /\ seen'.met = seen.met
        /\ seen'.doubled = seen.doubled
    BY <2>1, <2>2, <2>3, SeenFacts DEF Seens
  <2> QED
    BY <2>4 DEF spoilt
<1>11. TypeOK'
  BY <1>2, <1>5, <1>9, <1>10 DEF TypeOK
<1>12. SameTarget(user'[u], user[u])
  BY <1>6, <1>8, <1>9 DEF SameTarget
<1>13. IF code = "1xx" THEN user'[u].trs = user[u].trs
       ELSE Finished(user'[u].trs, user[u].trs, "in", t.req, code)
  BY <1>6, <1>8, <1>9
<1> HIDE DEF kept
<1> QED
  BY <1>2, <1>5, <1>6, <1>8, <1>9, <1>10, <1>11, <1>12, <1>13 DEF t, r, kept

LEMMA AnswerOtherEffect ==
  ASSUME TypeOK, NEW u \in User, NEW code \in {"2xx", "401"}, AnswerOther(u, code)
  PROVE  /\ TypeOK'
         /\ \E i \in DOMAIN user[u].trs :
               LET t == user[u].trs[i]
                   r == Respond(u, t.req, code, "none", <<>>)
               IN /\ t.dir = "in" /\ t.st = "open" /\ t.req.method # "INVITE"
                  /\ Finished(user'[u].trs, user[u].trs, "in", t.req, code)
                  /\ r \in Responses /\ net' = net \cup {r}
         /\ user'[u].dlg = user[u].dlg /\ user'[u].refresher = user[u].refresher
         /\ user'[u].lcseq = user[u].lcseq /\ user'[u].rcseq = user[u].rcseq
         /\ SameTarget(user'[u], user[u])
         /\ \A v \in User : v # u => user'[v] = user[v]
         /\ chain' = chain /\ built' = built
         /\ SameHistory
<1>1. user[u] \in Dialogs /\ code \in Text
  BY DialogFacts DEF Text
<1>2. PICK i \in DOMAIN user[u].trs :
         LET t == user[u].trs[i]
         IN /\ t.dir = "in" /\ t.st = "open" /\ t.req.method # "INVITE"
            /\ Put(u, Finish(user[u], "in", t.req, code))
            /\ net' = net \cup {Respond(u, t.req, code, "none", <<>>)}
  BY DEF AnswerOther
<1> DEFINE t == user[u].trs[i]
           r == Respond(u, t.req, code, "none", <<>>)
           d == Finish(user[u], "in", t.req, code)
<1>3. t.req \in Requests
  BY <1>2, DialogFacts
<1>4. r \in Responses
  <2>1. "none" \in Text /\ <<>> \in Seq(Addresses)
    BY DEF Text
  <2> QED
    BY <1>1, <1>3, <2>1, RespondFacts
<1>5. /\ d \in Dialogs /\ Finished(d.trs, user[u].trs, "in", t.req, code)
      /\ d.dlg = user[u].dlg /\ d.lcseq = user[u].lcseq /\ d.rcseq = user[u].rcseq
      /\ d.refresher = user[u].refresher /\ SameTarget(d, user[u])
  BY <1>1, FinishedFacts
<1>6. Put(u, d) /\ net' = net \cup {r} /\ t.dir = "in" /\ t.st = "open" /\ t.req.method # "INVITE"
  BY <1>2
<1>7. /\ chain' = chain /\ built' = built /\ (code = "401" => seen.challenges > 0)
      /\ seen' = [seen EXCEPT !.challenges = seen.challenges - (IF code = "401" THEN 1 ELSE 0)]
  BY DEF AnswerOther
<1>8. seen' \in Seens /\ SameHistory
  BY <1>7, SeenFacts DEF Seens, SameHistory
<1> HIDE DEF d, r
<1>9. user' \in [User -> Dialogs] /\ user'[u] = d /\ \A v \in User : v # u => user'[v] = user[v]
  BY <1>5, <1>6, PutFacts
<1>10. TypeOK'
  BY <1>4, <1>6, <1>7, <1>8, <1>9 DEF TypeOK
<1> QED
  BY <1>2, <1>4, <1>5, <1>6, <1>7, <1>8, <1>9, <1>10 DEF r

LEMMA CountedFacts ==
  ASSUME NEW d \in Dialogs
  PROVE  Counted(d) \in {d.lcseq, d.lcseq + 1} /\ Counted(d) \in Nat /\ (Usable(d) => Counted(d) = d.lcseq + 1)
  BY DEF Counted, Dialogs

\* What a retry does: the refused request is past, and is sent again as the newest one.
Retries(u, i) ==
    LET t == user[u].trs[i]
        again == [t.req EXCEPT !.cseq = t.req.cseq + 1, !.retry = TRUE]
    IN /\ TypeOK'
       /\ t.st = "done" /\ t.code = "401"
       /\ again \in Requests /\ again.kind = "request" /\ again.from = t.req.from
       /\ again.method = t.req.method /\ again.cseq = t.req.cseq + 1 /\ again.retry
       /\ again.se = t.req.se /\ again.uri = t.req.uri /\ again.routes = t.req.routes
       /\ again.contact = t.req.contact /\ again.tag = t.req.tag
       /\ \E s \in Seq(Transactions) :
             /\ Len(s) = Len(user[u].trs) /\ DOMAIN s = DOMAIN user[u].trs
             /\ s[i].st = "done" /\ s[i].code = "none" /\ s[i].dir = t.dir /\ s[i].req = Past(t.req.method)
             /\ \A j \in DOMAIN s : j # i => s[j] = user[u].trs[j]
             /\ Added(user'[u].trs, s, "out", again)
       /\ user'[u].lcseq = user[u].lcseq + 1 /\ user'[u].dlg = user[u].dlg
       /\ user'[u].rcseq = user[u].rcseq /\ user'[u].refresher = user[u].refresher
       /\ SameTarget(user'[u], user[u])
       /\ \A v \in User : v # u => user'[v] = user[v]
       /\ net' = net \cup {again} /\ chain' = chain /\ built' = built
       /\ seen'.retried = seen.retried \cup {<<u, again.cseq>>} /\ seen'.ignored = seen.ignored
       /\ seen'.met = seen.met /\ seen'.spoilt = seen.spoilt
       /\ seen'.doubled = (seen.doubled \/ Doubles(user[u], t))

LEMMA RetryEffect ==
  ASSUME TypeOK, NEW u \in User, NEW i \in DOMAIN user[u].trs, Usable(user[u]),
         _eXosip_call_retry_request(u, i)
  PROVE  Retries(u, i)
<1> DEFINE t == user[u].trs[i]
           again == [t.req EXCEPT !.cseq = t.req.cseq + 1, !.retry = TRUE]
           f == Final([t EXCEPT !.code = "none"], "none")
           s == [user[u].trs EXCEPT ![i] = f]
           c == [user[u] EXCEPT !.lcseq = Counted(user[u]), !.retry = user[u].retry + 1, !.trs = s]
           d == Add(c, Transaction("out", again))
<1>1. /\ user[u] \in Dialogs /\ user[u].lcseq \in Nat /\ user[u].retry \in Nat
      /\ user[u].trs \in Seq(Transactions)
      /\ t \in Transactions /\ t.req \in Requests /\ t.req.cseq \in Nat
  BY DialogFacts
<1>2. /\ again \in Requests /\ again.kind = "request" /\ again.from = t.req.from
      /\ again.method = t.req.method /\ again.cseq = t.req.cseq + 1 /\ again.retry
      /\ again.se = t.req.se /\ again.uri = t.req.uri /\ again.routes = t.req.routes
      /\ again.contact = t.req.contact /\ again.tag = t.req.tag
  <2> DEFINE q == t.req
             n == q.cseq + 1
  <2>1. n \in Nat /\ q \in Requests
    BY <1>1
  <2>2. again = [q EXCEPT !.cseq = n, !.retry = TRUE] /\ again.cseq = n
    BY <2>1 DEF Requests
  <2> HIDE DEF n, again
  <2>3. n = q.cseq + 1
    BY DEF n
  <2> HIDE DEF q
  <2>4. /\ again \in Requests /\ again.kind = "request" /\ again.from = q.from
        /\ again.method = q.method /\ again.cseq = n /\ again.retry
        /\ again.se = q.se /\ again.uri = q.uri /\ again.routes = q.routes
        /\ again.contact = q.contact /\ again.tag = q.tag
    BY <2>1, <2>2 DEF Requests
  <2> QED
    BY <2>3, <2>4 DEF q
<1>3. /\ t.st = "done" /\ t.code = "401"
      /\ Put(u, Add([user[u] EXCEPT !.lcseq = Counted(user[u]), !.retry = @ + 1, !.trs[i] = f],
                    Transaction("out", again)))
      /\ net' = net \cup {again} /\ chain' = chain /\ built' = built
      /\ seen' = [seen EXCEPT !.retried = @ \cup {<<u, again.cseq>>},
                              !.doubled = @ \/ Doubles(user[u], t)]
  BY DEF _eXosip_call_retry_request
<1>4. f \in Transactions /\ f.st = "done" /\ f.code = "none" /\ f.dir = t.dir /\ f.req = Past(t.req.method)
  <2> DEFINE g == [t EXCEPT !.code = "none"]
  <2>1. g \in Transactions /\ g.code = "none" /\ g.dir = t.dir /\ g.req = t.req
    BY <1>1 DEF Transactions, Text
  <2> HIDE DEF g
  <2>2. "none" \in Text
    BY DEF Text
  <2>3. /\ Final(g, "none") \in Transactions /\ Final(g, "none").dir = g.dir /\ Final(g, "none").st = "done"
        /\ Final(g, "none").req = Past(g.req.method) /\ Final(g, "none").code = g.code
    BY <2>1, <2>2, FinalFacts
  <2> QED
    BY <2>1, <2>3 DEF g
<1> HIDE DEF f
<1>5. /\ s \in Seq(Transactions) /\ Len(s) = Len(user[u].trs) /\ DOMAIN s = DOMAIN user[u].trs
      /\ s[i] = f /\ \A j \in DOMAIN s : j # i => s[j] = user[u].trs[j]
  BY <1>1, <1>4
<1>6. [user[u] EXCEPT !.lcseq = Counted(user[u]), !.retry = @ + 1, !.trs[i] = f] = c
  BY <1>1 DEF Dialogs
<1>7. Counted(user[u]) = user[u].lcseq + 1 /\ Counted(user[u]) \in Nat
  BY <1>1, CountedFacts
<1> HIDE DEF s, again
<1>8. /\ c \in Dialogs /\ c.trs = s /\ c.lcseq = user[u].lcseq + 1 /\ c.dlg = user[u].dlg /\ c.rcseq = user[u].rcseq
      /\ c.refresher = user[u].refresher /\ SameTarget(c, user[u])
  <2> DEFINE n == user[u].retry + 1
             l == Counted(user[u])
             b == user[u]
  <2>1. n \in Nat /\ l \in Nat /\ b \in Dialogs
    BY <1>1, <1>7
  <2>2. c = [b EXCEPT !.lcseq = l, !.retry = n, !.trs = s]
    OBVIOUS
  <2> HIDE DEF n, l, b, c
  <2>3. /\ c \in Dialogs /\ c.trs = s /\ c.lcseq = l /\ c.dlg = b.dlg /\ c.rcseq = b.rcseq
        /\ c.refresher = b.refresher /\ SameTarget(c, b)
    BY <1>5, <2>1, <2>2 DEF Dialogs, SameTarget
  <2> QED
    BY <1>7, <2>3 DEF b, l
<1> HIDE DEF c
<1>9. /\ d \in Dialogs /\ Added(d.trs, c.trs, "out", again)
      /\ d.dlg = c.dlg /\ d.lcseq = c.lcseq /\ d.rcseq = c.rcseq /\ d.refresher = c.refresher
      /\ SameTarget(d, c)
  BY <1>2, <1>8, AddedFacts
<1>10. Put(u, d)
  BY <1>3, <1>6
<1> HIDE DEF d
<1>11. user' \in [User -> Dialogs] /\ user'[u] = d /\ \A v \in User : v # u => user'[v] = user[v]
  BY <1>9, <1>10, PutFacts
<1>12. /\ seen' \in Seens
       /\ seen'.retried = seen.retried \cup {<<u, again.cseq>>} /\ seen'.ignored = seen.ignored
       /\ seen'.met = seen.met /\ seen'.spoilt = seen.spoilt
       /\ seen'.doubled = (seen.doubled \/ Doubles(user[u], t))
  <2> DEFINE retried == seen.retried \cup {<<u, again.cseq>>}
             doubled == seen.doubled \/ Doubles(user[u], t)
  <2>1. retried \subseteq User \X Nat
    BY <1>1, <1>2, SeenFacts
  <2>2. doubled \in BOOLEAN
    BY DEF Doubles
  <2>3. seen' = [seen EXCEPT !.retried = retried, !.doubled = doubled]
    BY <1>3
  <2> HIDE DEF retried, doubled
  <2>4. /\ seen' \in Seens /\ seen'.retried = retried /\ seen'.ignored = seen.ignored
        /\ seen'.met = seen.met /\ seen'.spoilt = seen.spoilt /\ seen'.doubled = doubled
    BY <2>1, <2>2, <2>3, SeenFacts DEF Seens
  <2> QED
    BY <2>4 DEF retried, doubled
<1>13. TypeOK'
  BY <1>2, <1>3, <1>11, <1>12 DEF TypeOK
<1>14. SameTarget(user'[u], user[u])
  BY <1>8, <1>9, <1>11 DEF SameTarget
<1>15. \E s2 \in Seq(Transactions) :
                  /\ Len(s2) = Len(user[u].trs) /\ DOMAIN s2 = DOMAIN user[u].trs
                  /\ s2[i].st = "done" /\ s2[i].code = "none" /\ s2[i].dir = t.dir /\ s2[i].req = Past(t.req.method)
                  /\ \A j \in DOMAIN s2 : j # i => s2[j] = user[u].trs[j]
                  /\ Added(user'[u].trs, s2, "out", again)
  BY <1>4, <1>5, <1>8, <1>9, <1>11
<1>16. /\ user'[u].lcseq = user[u].lcseq + 1 /\ user'[u].dlg = user[u].dlg
       /\ user'[u].rcseq = user[u].rcseq /\ user'[u].refresher = user[u].refresher
       /\ \A v \in User : v # u => user'[v] = user[v]
  BY <1>8, <1>9, <1>11
<1> QED
  BY <1>2, <1>3, <1>12, <1>13, <1>14, <1>15, <1>16 DEF again, Retries

\* Whoever asks for it, a retry is one of a transaction of the dialog.
LEMMA RetriesAre ==
  ASSUME TypeOK, NEW u \in User, eXosip_automatic_action(u) \/ eXosip_default_action(u)
  PROVE  Usable(user[u]) /\ \E i \in DOMAIN user[u].trs : _eXosip_call_retry_request(u, i)
<1>1. CASE eXosip_default_action(u)
  BY <1>1 DEF eXosip_default_action
<1>2. CASE eXosip_automatic_action(u)
  <2> DEFINE outs == {i \in DOMAIN user[u].trs : user[u].trs[i].dir = "out"}
  <2>1. outs # {} /\ Usable(user[u]) /\ _eXosip_call_retry_request(u, Max(outs))
    BY <1>2 DEF eXosip_automatic_action
  <2>2. outs \subseteq 0 .. Len(user[u].trs) /\ Len(user[u].trs) \in Nat
    BY DialogFacts
  <2>3. Max(outs) \in outs
    BY <2>1, <2>2, MaxIn, Zenon
  <2> QED
    BY <2>1, <2>3
<1> QED
  BY <1>1, <1>2

LEMMA NewInviteEffect ==
  ASSUME TypeOK, NEW u \in User, NEW m \in net, m.from = Peer(u), m.kind = "request", RcvNewInvite(u, m)
  PROVE  /\ TypeOK'
         /\ ~m.tag /\ m \in Requests
         /\ Added(user'[u].trs, <<>>, "in", m)
         /\ user'[u].dlg = "early" /\ user'[u].lcseq = m.cseq /\ user'[u].rcseq = m.cseq
         /\ user'[u].refresher = user[u].refresher /\ user'[u].contact = user[u].contact
         /\ user'[u].routes = RecordRoute(m) /\ user'[u].target = m.contact
         /\ \A v \in User : v # u => user'[v] = user[v]
         /\ net' = net \ {m} /\ chain' = chain /\ built' = built /\ seen' = seen
<1> DEFINE t == Transaction("in", m)
           rr == RecordRoute(m)
           e == [osip_dialog_init_as_uas(user[u], m) EXCEPT !.trs = <<t>>]
<1>1. user[u] \in Dialogs /\ m \in Requests
  BY DialogFacts DEF TypeOK, Requests, Responses
<1>2. t \in Transactions /\ t.dir = "in" /\ t.st = "open" /\ t.code = "none" /\ t.req = m
  BY <1>1, TransactionFacts
<1>3. rr \in Seq(Addresses)
  BY <1>1, RecordRouteType DEF TypeOK
<1>4. m.cseq \in Nat /\ m.contact \in Addresses
  BY <1>1 DEF Requests
<1>5. /\ ~m.tag /\ Put(u, e)
      /\ net' = net \ {m} /\ chain' = chain /\ built' = built /\ seen' = seen
  BY DEF RcvNewInvite
<1>6. osip_dialog_init_as_uas(user[u], m) =
         [user[u] EXCEPT !.dlg = "early", !.lcseq = m.cseq, !.rcseq = m.cseq, !.routes = rr, !.target = m.contact]
  BY DEF osip_dialog_init_as_uas
<1> HIDE DEF t, rr
<1>7. <<t>> \in Seq(Transactions) /\ Added(<<t>>, <<>>, "in", m)
  BY <1>2 DEF Added
<1>8. /\ e \in Dialogs /\ e.trs = <<t>> /\ e.dlg = "early" /\ e.lcseq = m.cseq /\ e.rcseq = m.cseq
      /\ e.refresher = user[u].refresher /\ e.contact = user[u].contact
      /\ e.routes = rr /\ e.target = m.contact
  <2> DEFINE b == user[u]
             n == m.cseq
             a == m.contact
             s == <<t>>
  <2>1. e = [b EXCEPT !.dlg = "early", !.lcseq = n, !.rcseq = n, !.routes = rr, !.target = a, !.trs = s]
    BY <1>1, <1>6 DEF Dialogs
  <2>2. b \in Dialogs /\ n \in Nat /\ n \in Int /\ a \in Addresses /\ s \in Seq(Transactions)
    BY <1>1, <1>4, <1>7
  <2> HIDE DEF b, n, a, s, e
  <2>3. /\ e \in Dialogs /\ e.trs = s /\ e.dlg = "early" /\ e.lcseq = n /\ e.rcseq = n
        /\ e.refresher = b.refresher /\ e.contact = b.contact
        /\ e.routes = rr /\ e.target = a
    BY <1>3, <2>1, <2>2 DEF Dialogs
  <2> QED
    BY <2>3 DEF b, n, a, s
<1> HIDE DEF e
<1>9. user' \in [User -> Dialogs] /\ user'[u] = e /\ \A v \in User : v # u => user'[v] = user[v]
  BY <1>5, <1>8, PutFacts
<1>10. TypeOK'
  BY <1>5, <1>9 DEF TypeOK
<1> QED
  BY <1>1, <1>5, <1>7, <1>8, <1>9, <1>10 DEF rr

LEMMA NumberedFacts ==
  ASSUME NEW d \in Dialogs, NEW m \in Requests
  PROVE  LET e == Numbered(d, m)
         IN /\ e \in Dialogs /\ e.trs = d.trs /\ e.dlg = d.dlg /\ e.lcseq = d.lcseq
            /\ e.refresher = d.refresher /\ SameTarget(e, d)
            /\ e.rcseq = IF Usable(d) /\ m.cseq > d.rcseq THEN m.cseq ELSE d.rcseq
<1>1. m.cseq \in Nat /\ m.cseq \in Int
  BY DEF Requests
<1> QED
  BY <1>1 DEF Numbered, Dialogs, SameTarget

LEMMA RequestEffect ==
  ASSUME TypeOK, NEW u \in User, NEW m \in net, m.from = Peer(u), m.kind = "request", RcvRequest(u, m)
  PROVE  LET d == user[u]
             e == user'[u]
             verdict == Verdict(d, m)
         IN /\ TypeOK'
            /\ m \in Requests /\ m.tag
            /\ e.lcseq = d.lcseq /\ e.refresher = d.refresher /\ e.routes = d.routes /\ e.contact = d.contact
            /\ e.rcseq = IF Usable(d) /\ m.cseq > d.rcseq THEN m.cseq ELSE d.rcseq
            /\ \A v \in User : v # u => user'[v] = user[v]
            /\ chain' = chain /\ built' = built
            /\ \/ /\ verdict \in {"4xx", "ignored"} /\ e.trs = d.trs /\ e.dlg = d.dlg /\ e.target = d.target
                  /\ net' = (net \ {m}) \cup (IF verdict = "4xx" THEN {Respond(u, m, "4xx", "none", <<>>)} ELSE {})
               \/ /\ verdict = "taken" /\ m.method # "BYE" /\ Added(e.trs, d.trs, "in", m) /\ e.dlg = d.dlg
                  /\ e.target = IF m.method = "INVITE" THEN m.contact ELSE d.target
                  /\ net' = net \ {m}
               \/ /\ verdict = "taken" /\ m.method = "BYE" /\ e.dlg = "gone" /\ e.target = d.target
                  /\ \E s \in Seq(Transactions) : /\ Added(s, d.trs, "in", m)
                                                  /\ Finished(e.trs, s, "in", m, "2xx")
                  /\ net' = (net \ {m}) \cup {Respond(u, m, "2xx", "none", <<>>)}
            /\ seen'.ignored = (IF verdict = "ignored" THEN seen.ignored \cup {m} ELSE seen.ignored)
            /\ seen'.retried = seen.retried /\ seen'.met = seen.met
            /\ seen'.spoilt = seen.spoilt /\ seen'.doubled = seen.doubled
<1> DEFINE verdict == Verdict(user[u], m)
           d == Numbered(user[u], m)
           c == [d EXCEPT !.target = IF m.method = "INVITE" THEN m.contact ELSE d.target]
           taken == Add(c, Transaction("in", m))
           bye == verdict = "taken" /\ m.method = "BYE"
           over == [Finish(taken, "in", m, "2xx") EXCEPT !.dlg = "gone"]
           e == IF bye THEN over ELSE IF verdict = "taken" THEN taken ELSE d
           r4 == Respond(u, m, "4xx", "none", <<>>)
           r2 == Respond(u, m, "2xx", "none", <<>>)
<1>1. user[u] \in Dialogs /\ m \in Requests
  BY DialogFacts DEF TypeOK, Requests, Responses
<1>2. /\ m.tag /\ Put(u, e) /\ chain' = chain /\ built' = built
      /\ net' = (net \ {m}) \cup
            (CASE verdict = "4xx" -> {r4} [] bye -> {r2} [] OTHER -> {})
      /\ seen' = [seen EXCEPT !.ignored = IF verdict = "ignored" THEN @ \cup {m} ELSE @]
  BY DEF RcvRequest
<1>3. /\ d \in Dialogs /\ d.trs = user[u].trs /\ d.dlg = user[u].dlg /\ d.lcseq = user[u].lcseq
      /\ d.refresher = user[u].refresher /\ SameTarget(d, user[u])
      /\ d.rcseq = IF Usable(user[u]) /\ m.cseq > user[u].rcseq THEN m.cseq ELSE user[u].rcseq
  BY <1>1, NumberedFacts
<1> HIDE DEF d
<1>4. /\ c \in Dialogs /\ c.trs = d.trs /\ c.dlg = d.dlg /\ c.lcseq = d.lcseq /\ c.rcseq = d.rcseq
      /\ c.refresher = d.refresher /\ c.routes = d.routes /\ c.contact = d.contact
      /\ c.target = IF m.method = "INVITE" THEN m.contact ELSE d.target
  <2> DEFINE a == IF m.method = "INVITE" THEN m.contact ELSE d.target
  <2>1. a \in Addresses
    BY <1>1, <1>3 DEF Requests, Dialogs
  <2>2. c = [d EXCEPT !.target = a]
    OBVIOUS
  <2> HIDE DEF a, c
  <2>3. /\ c \in Dialogs /\ c.trs = d.trs /\ c.dlg = d.dlg /\ c.lcseq = d.lcseq /\ c.rcseq = d.rcseq
        /\ c.refresher = d.refresher /\ c.routes = d.routes /\ c.contact = d.contact /\ c.target = a
    BY <1>3, <2>1, <2>2 DEF Dialogs
  <2> QED
    BY <2>3 DEF a
<1> HIDE DEF c
<1>5. /\ taken \in Dialogs /\ Added(taken.trs, c.trs, "in", m)
      /\ taken.dlg = c.dlg /\ taken.lcseq = c.lcseq /\ taken.rcseq = c.rcseq /\ taken.refresher = c.refresher
      /\ SameTarget(taken, c)
  BY <1>1, <1>4, AddedFacts
<1> HIDE DEF taken
<1>6. /\ over \in Dialogs /\ Finished(over.trs, taken.trs, "in", m, "2xx") /\ over.dlg = "gone"
      /\ over.lcseq = taken.lcseq /\ over.rcseq = taken.rcseq /\ over.refresher = taken.refresher
      /\ SameTarget(over, taken)
  <2> DEFINE f == Finish(taken, "in", m, "2xx")
  <2>1. "2xx" \in Text
    BY DEF Text
  <2>2. /\ f \in Dialogs /\ Finished(f.trs, taken.trs, "in", m, "2xx")
        /\ f.lcseq = taken.lcseq /\ f.rcseq = taken.rcseq /\ f.refresher = taken.refresher
        /\ SameTarget(f, taken)
    BY <1>5, <2>1, FinishedFacts
  <2> HIDE DEF f
  <2>3. over = [f EXCEPT !.dlg = "gone"]
    BY DEF f
  <2> HIDE DEF over
  <2>4. /\ over \in Dialogs /\ over.trs = f.trs /\ over.dlg = "gone"
        /\ over.lcseq = f.lcseq /\ over.rcseq = f.rcseq /\ over.refresher = f.refresher
        /\ SameTarget(over, f)
    BY <2>2, <2>3 DEF Dialogs, SameTarget
  <2> QED
    BY <2>2, <2>4 DEF SameTarget
<1> HIDE DEF over
<1>7. r4 \in Responses /\ r2 \in Responses
  <2>1. "4xx" \in Text /\ "2xx" \in Text /\ "none" \in Text /\ <<>> \in Seq(Addresses)
    BY DEF Text
  <2> QED
    BY <1>1, <2>1, RespondFacts
<1>8. verdict \in {"4xx", "ignored", "taken"}
  BY DEF Verdict
<1> HIDE DEF verdict, r4, r2
<1>9. e \in Dialogs
  BY <1>3, <1>5, <1>6
<1>10. /\ seen' \in Seens
       /\ seen'.ignored = (IF verdict = "ignored" THEN seen.ignored \cup {m} ELSE seen.ignored)
       /\ seen'.retried = seen.retried /\ seen'.met = seen.met
       /\ seen'.spoilt = seen.spoilt /\ seen'.doubled = seen.doubled
  <2> DEFINE ig == IF verdict = "ignored" THEN seen.ignored \cup {m} ELSE seen.ignored
  <2>1. ig \subseteq Requests
    BY <1>1, SeenFacts
  <2>2. seen' = [seen EXCEPT !.ignored = ig]
    BY <1>2
  <2> HIDE DEF ig
  <2>3. /\ seen' \in Seens /\ seen'.ignored = ig
        /\ seen'.retried = seen.retried /\ seen'.met = seen.met
        /\ seen'.spoilt = seen.spoilt /\ seen'.doubled = seen.doubled
    BY <2>1, <2>2, SeenFacts DEF Seens
  <2> QED
    BY <2>3 DEF ig
<1>11. user' \in [User -> Dialogs] /\ user'[u] = e /\ \A v \in User : v # u => user'[v] = user[v]
  <2> HIDE DEF e
  <2> QED
    BY <1>2, <1>9, PutFacts
<1>12. net' \subseteq Requests \cup Responses
  BY <1>2, <1>7, <1>8 DEF TypeOK
<1>13. TypeOK'
  BY <1>2, <1>10, <1>11, <1>12 DEF TypeOK
<1>14. CASE verdict \in {"4xx", "ignored"}
  <2>1. user'[u] = d /\ net' = (net \ {m}) \cup (IF verdict = "4xx" THEN {r4} ELSE {})
    BY <1>2, <1>11, <1>14
  <2> QED
    BY <1>1, <1>2, <1>3, <1>10, <1>11, <1>13, <1>14, <2>1 DEF verdict, r4, SameTarget
<1>15. CASE verdict = "taken" /\ m.method # "BYE"
  <2>1. user'[u] = taken /\ net' = net \ {m}
    BY <1>2, <1>11, <1>15
  <2> QED
    BY <1>1, <1>2, <1>3, <1>4, <1>5, <1>10, <1>11, <1>13, <1>15, <2>1 DEF verdict, SameTarget
<1>16. CASE verdict = "taken" /\ m.method = "BYE"
  <2>1. user'[u] = over /\ net' = (net \ {m}) \cup {r2} /\ taken.trs \in Seq(Transactions)
    BY <1>2, <1>5, <1>11, <1>16 DEF Dialogs
  <2>2. \E s \in Seq(Transactions) : /\ Added(s, user[u].trs, "in", m)
                                     /\ Finished(user'[u].trs, s, "in", m, "2xx")
    BY <1>3, <1>4, <1>5, <1>6, <2>1
  <2> QED
    BY <1>1, <1>2, <1>3, <1>4, <1>5, <1>6, <1>10, <1>11, <1>13, <1>16, <2>1, <2>2 DEF verdict, r2, SameTarget
<1> QED
  BY <1>8, <1>14, <1>15, <1>16

LEMMA InviteAnsweredFacts ==
  ASSUME NEW d \in Dialogs, NEW r \in Responses
  PROVE  LET e == InviteAnswered(d, r)
             new == r.code \notin {"4xx", "401"} /\ d.dlg # "gone"
         IN /\ e \in Dialogs /\ e.trs = d.trs /\ e.contact = d.contact /\ e.retry = d.retry
            /\ e.dlg = IF r.code \in {"4xx", "401"} THEN IF d.dlg = "early" THEN "gone" ELSE d.dlg
                       ELSE IF d.dlg = "gone" THEN "gone"
                       ELSE IF r.code = "2xx" THEN "confirmed"
                       ELSE IF d.dlg = "none" THEN "early" ELSE d.dlg
            /\ e.refresher = IF new /\ r.code = "2xx" /\ r.se # "none" THEN TimerAgreed(r.se) ELSE d.refresher
            /\ e.target = IF new THEN r.contact ELSE d.target
            /\ e.routes = IF new /\ d.dlg \in {"none", "early"} THEN Reverse(r.rr) ELSE d.routes
            /\ e.lcseq = IF new /\ d.dlg = "none" THEN r.cseq ELSE d.lcseq
            /\ e.rcseq = IF new /\ d.dlg = "none" THEN -1 ELSE d.rcseq
<1> DEFINE e == InviteAnswered(d, r)
           n == r.cseq
           a == r.contact
           rs == Reverse(r.rr)
           known == IF d.dlg = "none"
                    THEN [d EXCEPT !.dlg = IF r.code = "2xx" THEN "confirmed" ELSE "early", !.lcseq = n,
                                   !.rcseq = -1, !.routes = rs, !.target = a]
                    ELSE [d EXCEPT !.target = a, !.routes = IF d.dlg = "early" THEN rs ELSE d.routes,
                                   !.dlg = IF r.code = "2xx" THEN "confirmed" ELSE d.dlg]
<1>1. n \in Nat /\ a \in Addresses /\ rs \in Seq(Addresses)
  <2>1. n \in Nat /\ a \in Addresses /\ r.rr \in Seq(Addresses)
    BY DEF Responses
  <2> QED
    BY <2>1, Sequences
<1>2. e = IF r.code \in {"4xx", "401"} THEN [d EXCEPT !.dlg = IF d.dlg = "early" THEN "gone" ELSE d.dlg]
          ELSE IF d.dlg = "gone" THEN d
          ELSE IF r.code = "2xx" /\ r.se # "none" THEN [known EXCEPT !.refresher = TimerAgreed(r.se)]
          ELSE known
  BY DEF InviteAnswered, osip_dialog_init_as_uac, osip_dialog_update_route_set_as_uac, Refilled, RouteSet
<1> HIDE DEF n, a, rs, e
<1>3. d.dlg \in {"none", "early", "confirmed", "gone"} /\ d.routes \in Seq(Addresses)
  BY DEF Dialogs
<1>4. d.dlg # "gone" =>
         /\ known \in Dialogs /\ known.trs = d.trs /\ known.contact = d.contact /\ known.retry = d.retry
         /\ known.dlg = IF r.code = "2xx" THEN "confirmed" ELSE IF d.dlg = "none" THEN "early" ELSE d.dlg
         /\ known.refresher = d.refresher /\ known.target = a
         /\ known.routes = IF d.dlg \in {"none", "early"} THEN rs ELSE d.routes
         /\ known.lcseq = IF d.dlg = "none" THEN n ELSE d.lcseq
         /\ known.rcseq = IF d.dlg = "none" THEN -1 ELSE d.rcseq
  <2>1. CASE d.dlg = "none"
    <3> DEFINE k == IF r.code = "2xx" THEN "confirmed" ELSE "early"
    <3>1. k \in {"none", "early", "confirmed", "gone"} /\ -1 \in Int
      OBVIOUS
    <3>2. known = [d EXCEPT !.dlg = k, !.lcseq = n, !.rcseq = -1, !.routes = rs, !.target = a]
      BY <2>1
    <3> HIDE DEF known, k
    <3>3. /\ known \in Dialogs /\ known.trs = d.trs /\ known.contact = d.contact /\ known.retry = d.retry
          /\ known.dlg = k /\ known.refresher = d.refresher /\ known.target = a
          /\ known.routes = rs /\ known.lcseq = n /\ known.rcseq = -1
      BY <1>1, <3>1, <3>2 DEF Dialogs
    <3> QED
      BY <2>1, <3>3 DEF k
  <2>2. CASE d.dlg = "early"
    BY <1>1, <2>2 DEF Dialogs
  <2>3. CASE d.dlg = "confirmed"
    <3>1. known = [d EXCEPT !.target = a]
      BY <1>3, <2>3 DEF Dialogs
    <3> HIDE DEF known
    <3> QED
      BY <1>1, <1>3, <2>3, <3>1 DEF Dialogs
  <2> QED
    BY <1>3, <2>1, <2>2, <2>3
<1> HIDE DEF known
<1>5. TimerAgreed(r.se) \in {0, 1}
  BY DEF TimerAgreed
<1>6. CASE r.code \in {"4xx", "401"}
  <2>1. e = [d EXCEPT !.dlg = IF d.dlg = "early" THEN "gone" ELSE d.dlg]
    BY <1>2, <1>6
  <2> QED
    BY <1>3, <1>6, <2>1 DEF Dialogs, e
<1>7. CASE r.code \notin {"4xx", "401"} /\ d.dlg = "gone"
  <2>1. e = d
    BY <1>2, <1>7
  <2> QED
    BY <1>7, <2>1 DEF e
<1>8. CASE r.code \notin {"4xx", "401"} /\ d.dlg # "gone"
  <2>1. e = IF r.code = "2xx" /\ r.se # "none" THEN [known EXCEPT !.refresher = TimerAgreed(r.se)] ELSE known
    BY <1>2, <1>8
  <2>2. CASE r.code = "2xx" /\ r.se # "none"
    <3> DEFINE f == TimerAgreed(r.se)
    <3>1. e = [known EXCEPT !.refresher = f] /\ f \in {-1, 0, 1}
      BY <1>5, <2>1, <2>2
    <3> HIDE DEF f
    <3>2. /\ e \in Dialogs /\ e.trs = known.trs /\ e.contact = known.contact /\ e.retry = known.retry
          /\ e.dlg = known.dlg /\ e.refresher = f /\ e.target = known.target /\ e.routes = known.routes
          /\ e.lcseq = known.lcseq /\ e.rcseq = known.rcseq
      BY <1>4, <1>8, <3>1 DEF Dialogs
    <3> QED
      BY <1>4, <1>8, <2>2, <3>2 DEF e, n, a, rs, f
  <2>3. CASE ~(r.code = "2xx" /\ r.se # "none")
    <3>1. e = known
      BY <2>1, <2>3
    <3> QED
      BY <1>4, <1>8, <2>3, <3>1 DEF e, n, a, rs
  <2> QED
    BY <2>2, <2>3
<1> QED
  BY <1>6, <1>7, <1>8

\* What a response makes of the dialog whose transaction waits for it.
Answered(d, r) == IF r.method = "INVITE" THEN InviteAnswered(d, r) ELSE d

LEMMA ResponseEffect ==
  ASSUME TypeOK, NEW u \in User, NEW r \in net, r.from = Peer(u), r.kind = "response", RcvResponse(u, r)
  PROVE  LET d == user[u]
             e == user'[u]
             a == Answered(d, r)
             waiting == {i \in DOMAIN d.trs : Waits(d.trs[i], "out", r)}
         IN /\ TypeOK'
            /\ r \in Responses /\ net' = net \ {r} /\ chain' = chain /\ built' = built
            /\ seen'.retried = seen.retried /\ seen'.ignored = seen.ignored /\ seen'.doubled = seen.doubled
            /\ \A v \in User : v # u => user'[v] = user[v]
            /\ \/ /\ waiting = {} /\ user' = user /\ seen' = seen
               \/ /\ waiting # {}
                  /\ a \in Dialogs
                  /\ e.dlg = a.dlg /\ e.lcseq = a.lcseq /\ e.rcseq = a.rcseq /\ e.refresher = a.refresher
                  /\ SameTarget(e, a)
                  /\ IF r.code = "1xx" THEN e.trs = d.trs ELSE Finished(e.trs, d.trs, "out", r, r.code)
                  /\ IF r.method = "INVITE" /\ r.code = "2xx" /\ d.dlg # "gone"
                     THEN /\ ~seen'.spoilt
                          /\ \E i \in waiting : seen'.met[u] = d.trs[i].req.contact.n
                          /\ seen'.met[Peer(u)] = r.contact.n
                     ELSE seen' = seen
<1> DEFINE d == user[u]
           waiting == {i \in DOMAIN d.trs : Waits(d.trs[i], "out", r)}
           a == Answered(d, r)
           ended == IF r.code = "1xx" THEN a ELSE Finish(a, "out", r, r.code)
           e == [ended EXCEPT !.retry = IF r.code = "2xx" THEN 0 ELSE ended.retry]
<1>1. d \in Dialogs /\ r \in Responses
  BY DialogFacts DEF TypeOK, Requests, Responses
<1>2. net' = net \ {r} /\ chain' = chain /\ built' = built
  BY DEF RcvResponse
<1>3. CASE waiting = {}
  <2>1. user' = user /\ seen' = seen
    BY <1>3 DEF RcvResponse
  <2>2. TypeOK'
    BY <1>2, <2>1 DEF TypeOK
  <2> QED
    BY <1>1, <1>2, <1>3, <2>1, <2>2
<1>4. CASE waiting # {}
  <2>1. /\ Put(u, e)
        /\ seen' = IF r.method = "INVITE" /\ r.code = "2xx" /\ d.dlg # "gone"
                   THEN [seen EXCEPT !.spoilt = FALSE,
                                     !.met[u] = d.trs[Max(waiting)].req.contact.n,
                                     !.met[Peer(u)] = r.contact.n]
                   ELSE seen
    BY <1>4 DEF RcvResponse, Answered
  <2>2. a \in Dialogs /\ a.trs = d.trs
    BY <1>1, InviteAnsweredFacts DEF Answered
  <2> HIDE DEF a
  <2>3. /\ ended \in Dialogs
        /\ IF r.code = "1xx" THEN ended.trs = d.trs ELSE Finished(ended.trs, d.trs, "out", r, r.code)
        /\ ended.dlg = a.dlg /\ ended.lcseq = a.lcseq /\ ended.rcseq = a.rcseq
        /\ ended.refresher = a.refresher /\ SameTarget(ended, a)
    <3>1. r.code \in Text
      BY <1>1 DEF Responses
    <3> QED
      BY <2>2, <3>1, FinishedFacts DEF SameTarget
  <2> HIDE DEF ended
  <2>4. /\ e \in Dialogs /\ e.trs = ended.trs /\ e.dlg = ended.dlg /\ e.lcseq = ended.lcseq
        /\ e.rcseq = ended.rcseq /\ e.refresher = ended.refresher /\ SameTarget(e, ended)
    BY <2>3 DEF Dialogs, SameTarget
  <2> HIDE DEF e
  <2>5. user' \in [User -> Dialogs] /\ user'[u] = e /\ \A v \in User : v # u => user'[v] = user[v]
    BY <2>1, <2>4, PutFacts
  <2>6. Max(waiting) \in waiting
    <3>1. waiting \subseteq 0 .. Len(d.trs) /\ Len(d.trs) \in Nat
      BY DialogFacts
    <3> QED
      BY <1>4, <3>1, MaxIn, Zenon
  <2>7. /\ seen' \in Seens
        /\ seen'.retried = seen.retried /\ seen'.ignored = seen.ignored /\ seen'.doubled = seen.doubled
        /\ IF r.method = "INVITE" /\ r.code = "2xx" /\ d.dlg # "gone"
           THEN /\ ~seen'.spoilt
                /\ \E i \in waiting : seen'.met[u] = d.trs[i].req.contact.n
                /\ seen'.met[Peer(u)] = r.contact.n
           ELSE seen' = seen
    <3>1. CASE r.method = "INVITE" /\ r.code = "2xx" /\ d.dlg # "gone"
      <4> DEFINE x == d.trs[Max(waiting)].req.contact.n
                 y == r.contact.n
                 p == Peer(u)
                 met == [[seen.met EXCEPT ![u] = x] EXCEPT ![p] = y]
      <4>1. x \in Nat /\ y \in Nat
        <5>1. d.trs[Max(waiting)].req \in Requests
          BY <2>6, DialogFacts
        <5> QED
          BY <1>1, <5>1 DEF Requests, Responses, Addresses
      <4>2. p \in User /\ p # u
        BY Sides
      <4>3. seen' = [seen EXCEPT !.spoilt = FALSE, !.met = met]
        BY <2>1, <3>1
      <4> HIDE DEF x, y, p
      <4>4. met \in [User -> Nat] /\ met[u] = x /\ met[p] = y
        BY <4>1, <4>2, SeenFacts
      <4> HIDE DEF met
      <4>5. /\ seen' \in Seens /\ ~seen'.spoilt /\ seen'.met = met
            /\ seen'.retried = seen.retried /\ seen'.ignored = seen.ignored /\ seen'.doubled = seen.doubled
        BY <4>3, <4>4, SeenFacts DEF Seens
      <4> QED
        BY <2>6, <3>1, <4>4, <4>5 DEF x, y, p
    <3>2. CASE ~(r.method = "INVITE" /\ r.code = "2xx" /\ d.dlg # "gone")
      <4>1. seen' = seen
        BY <2>1, <3>2
      <4> QED
        BY <3>2, <4>1, SeenFacts
    <3> QED
      BY <3>1, <3>2
  <2>8. TypeOK'
    BY <1>2, <2>5, <2>7 DEF TypeOK
  <2>9. SameTarget(e, a)
    BY <2>3, <2>4 DEF SameTarget
  <2>10. IF r.code = "1xx" THEN e.trs = d.trs ELSE Finished(e.trs, d.trs, "out", r, r.code)
    BY <2>3, <2>4
  <2> HIDE DEF waiting
  <2> QED
    BY <1>1, <1>2, <1>4, <2>2, <2>3, <2>4, <2>5, <2>7, <2>8, <2>9, <2>10 DEF a, waiting
<1> QED
  BY <1>3, <1>4

-----------------------------------------------------------------------------
(* Types *)

\* What a step is.
LEMMA Steps ==
  ASSUME TypeOK, Next
  PROVE  \E u \in User :
            \/ \E method \in Methods : Build(u, method, "none")
            \/ eXosip_call_send_request(u)
            \/ Terminate(u)
            \/ eXosip_masquerade_contact(u)
            \/ \E code \in {"1xx", "2xx", "4xx", "401"}, timer \in BOOLEAN : AnswerInvite(u, code, timer)
            \/ \E code \in {"2xx", "401"} : AnswerOther(u, code)
            \/ /\ Usable(user[u])
               /\ \E i \in DOMAIN user[u].trs : _eXosip_call_retry_request(u, i)
            \/ SessionTimer(u)
            \/ \E m \in net : m.from = Peer(u) /\ m.kind = "request" /\ RcvNewInvite(u, m)
            \/ \E m \in net : m.from = Peer(u) /\ m.kind = "request" /\ RcvRequest(u, m)
            \/ \E m \in net : m.from = Peer(u) /\ m.kind = "response" /\ RcvResponse(u, m)
  BY RetriesAre, Zenon DEF Next, Arrives

\* The state a call starts in.
LEMMA InitFacts ==
  ASSUME Init
  PROVE  \E m \in Requests :
            /\ TypeOK
            /\ m.kind = "request" /\ m.from = "caller" /\ m.method = "INVITE" /\ m.cseq = 20 /\ ~m.retry
            /\ ~m.tag /\ m.contact = Address("caller", 0) /\ m.uri = Address("callee", 0) /\ m.routes = <<>>
            /\ net = {m}
            /\ user["callee"] = NoDialog
            /\ Added(user["caller"].trs, <<>>, "out", m) /\ Len(user["caller"].trs) = 1
            /\ user["caller"].dlg = "none" /\ user["caller"].lcseq = 0 /\ user["caller"].rcseq = -1
            /\ user["caller"].refresher = -1 /\ user["caller"].contact = 0
            /\ built = [u \in User |-> Nothing]
            /\ seen.retried = {} /\ seen.ignored = {} /\ seen.met = [u \in User |-> 0]
            /\ ~seen.spoilt /\ ~seen.doubled
<1>1. PICK c \in Calls :
         LET invite == [Request("caller", "INVITE", 20, c.se, Address("callee", 0), <<>>,
                                Address("caller", 0)) EXCEPT !.tag = FALSE]
         IN /\ chain = Proxies(c.chain)
            /\ user = [u \in User |-> IF u = "callee" THEN NoDialog
                                      ELSE [NoDialog EXCEPT !.trs = <<Transaction("out", invite)>>]]
            /\ built = [u \in User |-> Nothing]
            /\ net = {invite}
            /\ seen = [requests |-> c.requests, moves |-> c.moves, challenges |-> c.challenges, retried |-> {},
                       ignored |-> {}, met |-> [u \in User |-> 0], spoilt |-> FALSE, doubled |-> FALSE]
  BY DEF Init
<1>2. /\ c.chain \in Seq(STRING) /\ c.se \in STRING
      /\ c.requests \in Nat /\ c.moves \in Nat /\ c.challenges \in Nat
  BY ExDialogAssumption
<1> DEFINE r == Request("caller", "INVITE", 20, c.se, Address("callee", 0), <<>>, Address("caller", 0))
           m == [r EXCEPT !.tag = FALSE]
           t == Transaction("out", m)
           d == [NoDialog EXCEPT !.trs = <<t>>]
<1>3. Address("callee", 0) \in Addresses /\ Address("caller", 0) \in Addresses
  BY AddressFacts DEF Text
<1>4. /\ r \in Requests /\ r.kind = "request" /\ r.from = "caller" /\ r.method = "INVITE" /\ r.cseq = 20 /\ ~r.retry
      /\ r.contact = Address("caller", 0) /\ r.uri = Address("callee", 0) /\ r.routes = <<>>
  BY <1>2, <1>3 DEF Request, Requests, Text, User
<1> HIDE DEF r
<1>5. /\ m \in Requests /\ m.kind = "request" /\ m.from = "caller" /\ m.method = "INVITE" /\ m.cseq = 20 /\ ~m.retry
      /\ m.contact = Address("caller", 0) /\ m.uri = Address("callee", 0) /\ m.routes = <<>> /\ ~m.tag
  BY <1>4 DEF Requests
<1>6. /\ chain = Proxies(c.chain) /\ net = {m} /\ built = [u \in User |-> Nothing]
      /\ user = [u \in User |-> IF u = "callee" THEN NoDialog ELSE d]
      /\ seen = [requests |-> c.requests, moves |-> c.moves, challenges |-> c.challenges, retried |-> {},
                 ignored |-> {}, met |-> [u \in User |-> 0], spoilt |-> FALSE, doubled |-> FALSE]
  BY <1>1 DEF r
<1> HIDE DEF m
<1>7. t \in Transactions /\ t.dir = "out" /\ t.st = "open" /\ t.code = "none" /\ t.req = m
  BY <1>5, TransactionFacts
<1> HIDE DEF t
<1>8. <<t>> \in Seq(Transactions) /\ Added(<<t>>, <<>>, "out", m) /\ Len(<<t>>) = 1
  BY <1>7 DEF Added
<1>9. /\ d \in Dialogs /\ d.trs = <<t>> /\ d.dlg = "none" /\ d.lcseq = 0 /\ d.rcseq = -1 /\ d.refresher = -1
      /\ d.contact = 0
  BY <1>8, NewDialog DEF Dialogs
<1> HIDE DEF d
<1>10. chain \in Seq(Addresses)
  <2> DEFINE s == c.chain
  <2>1. s \in Seq(STRING) /\ DOMAIN s = 1 .. Len(s) /\ Len(s) \in Nat
    BY <1>2
  <2>2. \A i \in 1 .. Len(s) : s[i] \in Text
    BY <2>1 DEF Text
  <2>3. \A i \in 1 .. Len(s) : Address(s[i], 0) \in Addresses
    BY <2>2, AddressFacts
  <2>4. [i \in DOMAIN s |-> Address(s[i], 0)] \in Seq(Addresses)
    BY <2>1, <2>3
  <2> QED
    BY <1>6, <2>4 DEF Proxies
<1>11. user \in [User -> Dialogs] /\ user["callee"] = NoDialog /\ user["caller"] = d
  BY <1>6, <1>9, NewDialog DEF User
<1>12. built \in [User -> Requests]
  BY <1>6, NothingFacts
<1>13. seen \in Seens /\ seen.retried = {} /\ seen.ignored = {} /\ seen.met = [u \in User |-> 0]
       /\ ~seen.spoilt /\ ~seen.doubled
  <2>1. [u \in User |-> 0] \in [User -> Nat]
    OBVIOUS
  <2> QED
    BY <1>2, <1>6, <2>1 DEF Seens
<1>14. TypeOK
  BY <1>5, <1>6, <1>10, <1>11, <1>12, <1>13 DEF TypeOK
<1> QED
  BY <1>5, <1>6, <1>8, <1>9, <1>11, <1>13, <1>14

LEMMA RetryType ==
  ASSUME TypeOK, NEW u \in User, NEW i \in DOMAIN user[u].trs, Usable(user[u]),
         _eXosip_call_retry_request(u, i)
  PROVE  TypeOK'
  BY RetryEffect, Zenon DEF Retries

LEMMA TypeStep ==
  ASSUME TypeOK, [Next]_vars
  PROVE  TypeOK'
<1>1. CASE UNCHANGED vars
  BY <1>1 DEF vars, TypeOK
<1>2. CASE Next
  BY <1>2, Steps, RetryType, BuildEffect, SendEffect, TerminateEffect, MoveEffect, AnswerInviteEffect,
     AnswerOtherEffect, TimerEffect, NewInviteEffect, RequestEffect, ResponseEffect, Zenon
<1> QED
  BY <1>1, <1>2

\* The state of both sides, of what is on its way and of the history is of its types.
THEOREM Types == Spec => []TypeOK
<1>1. Init => TypeOK
  BY InitFacts
<1>2. TypeOK /\ [Next]_vars => TypeOK'
  BY TypeStep
<1> QED
  BY <1>1, <1>2, PTL DEF Spec

-----------------------------------------------------------------------------
(* The numbers of the requests *)

\* The highest number a side has used: the dialog counts from that of the first INVITE.
Top(u) == IF user[u].dlg = "none" THEN 20 ELSE user[u].lcseq

\* The requests of a side that have not come in yet.
Asks(u) == {m \in net : m.kind = "request" /\ m.from = u}
Pending(u) == Asks(u) \cup ({built[u]} \ {Nothing})

\* A transaction that still has its request.
Live(t) == t.st = "open" \/ t.code = "401"

\* The first INVITE has the number 20, all that follow have a higher one.
Twenty(m) == IF m.tag THEN m.cseq > 20 ELSE m.cseq = 20 /\ m.method = "INVITE"

Entry(u, t, top) ==
    /\ t.code = "none" \/ (t.code = "401" /\ t.dir = "out" /\ t.st = "done" /\ t.req.method # "BYE" /\ t.req.tag)
    /\ t.dir = "out" /\ Live(t) => t.req.from = u /\ t.req.cseq <= top /\ Twenty(t.req)
    /\ t.dir = "in" /\ t.st = "open" => t.req.from = Peer(u) /\ t.req.method # "BYE" /\ Twenty(t.req)

Entries == \A u \in User : \A i \in DOMAIN user[u].trs : Entry(u, user[u].trs[i], Top(u))

Counts == \A u \in User :
    /\ user[u].dlg = "none" => user[u].rcseq = -1 /\ built[u] = Nothing
    /\ user[u].dlg # "none" => user[u].lcseq >= 20
    /\ user[u].rcseq <= Top(Peer(u))
    /\ built[u] # Nothing => built[u].from = u /\ built[u].tag /\ ~built[u].retry /\ built[u].method # "BYE"

BuiltAbove == \A u \in User : built[u] # Nothing => built[u].cseq > 20

\* What is on its way.
Carried == \A m \in net :
    IF m.kind = "request" THEN m.tag => m.cseq > 20
    ELSE m.code = "401" => m.cseq > 20 /\ m.method # "BYE"

\* A number that is in use twice, or was used before, is that of a retry.
Ordered(u) ==
    /\ built[u] # Nothing => built[u] \notin net
    /\ \A m \in Pending(u) :
          /\ m.cseq <= Top(u)
          /\ m.cseq = user[Peer(u)].rcseq => <<u, m.cseq>> \in seen.retried
          /\ \A x \in Pending(u) : x # m /\ x.cseq = m.cseq => <<u, m.cseq>> \in seen.retried

\* A BYE is the last request.
ByeLast(u) == \A m \in Asks(u) : m.method = "BYE" =>
    /\ user[u].dlg = "gone"
    /\ m.cseq > user[Peer(u)].rcseq
    /\ \A x \in Pending(u) : x # m => x.cseq < m.cseq

\* Until the first INVITE has come in nothing else happens.
Pristine == \A m \in net : m.kind = "request" /\ ~m.tag =>
    /\ net = {m} /\ m.from = "caller" /\ m.method = "INVITE" /\ m.cseq = 20 /\ ~m.retry
    /\ m.contact = Address("caller", 0)
    /\ user["callee"] = NoDialog
    /\ Added(user["caller"].trs, <<>>, "out", m) /\ Len(user["caller"].trs) = 1
    /\ user["caller"].dlg = "none" /\ user["caller"].lcseq = 0 /\ user["caller"].rcseq = -1
    /\ user["caller"].refresher = -1 /\ user["caller"].contact = 0
    /\ built = [u \in User |-> Nothing]
    /\ seen.retried = {} /\ seen.met = [u \in User |-> 0] /\ ~seen.spoilt /\ ~seen.doubled

Numbers == Entries /\ Counts /\ Carried /\ (\A u \in User : Ordered(u) /\ ByeLast(u)) /\ Pristine
           /\ BuiltAbove /\ IgnoredOnlyByRetry

LEMMA EntryFinal ==
  ASSUME NEW u \in User, NEW t \in Transactions, NEW top \in Int, Entry(u, t, top), t.st = "open",
         NEW code \in Text, code = "401" /\ t.dir = "out" => t.req.method # "BYE" /\ t.req.tag
  PROVE  Entry(u, Final(t, code), top)
<1>1. LET f == Final(t, code)
      IN /\ f \in Transactions /\ f.dir = t.dir /\ f.st = "done" /\ f.req.method = t.req.method
         /\ IF code = "401" /\ t.dir = "out" THEN f.req = t.req /\ f.code = "401"
            ELSE f.req = Past(t.req.method) /\ f.code = t.code
  BY FinalFacts
<1>2. t.code = "none"
  BY DEF Entry
<1> QED
  BY <1>1, <1>2 DEF Entry, Live

LEMMA EntryMono ==
  ASSUME NEW u \in User, NEW t \in Transactions, NEW top \in Int, NEW top2 \in Int, top <= top2, Entry(u, t, top)
  PROVE  Entry(u, t, top2)
<1>1. t.req.cseq \in Int
  BY DEF Transactions, Requests
<1> QED
  BY <1>1 DEF Entry

LEMMA TopInt ==
  ASSUME TypeOK, NEW u \in User
  PROVE  Top(u) \in Nat
  BY DialogFacts DEF Top

LEMMA TopIntNext ==
  ASSUME TypeOK', NEW u \in User
  PROVE  Top(u)' \in Nat
<1>1. user'[u].lcseq \in Nat
  BY DEF TypeOK, Dialogs
<1> QED
  BY <1>1 DEF Top

\* What an answer makes of the transactions.
LEMMA EntriesFinished ==
  ASSUME NEW u \in User, NEW s \in Seq(Transactions), NEW s2, NEW top \in Int, NEW top2 \in Int, top <= top2,
         NEW dir, NEW m, NEW code \in Text,
         Finished(s2, s, dir, m, code),
         \A i \in DOMAIN s : Entry(u, s[i], top),
         \A i \in DOMAIN s : Waits(s[i], dir, m) /\ code = "401" /\ s[i].dir = "out" => s[i].req.method # "BYE" /\ s[i].req.tag
  PROVE  \A i \in DOMAIN s2 : Entry(u, s2[i], top2)
<1> TAKE i \in DOMAIN s2
<1>1. i \in DOMAIN s /\ s[i] \in Transactions /\ s2[i] = IF Waits(s[i], dir, m) THEN Final(s[i], code) ELSE s[i]
  BY DEF Finished
<1>2. Entry(u, s[i], top2)
  BY <1>1, EntryMono
<1>3. CASE Waits(s[i], dir, m)
  <2>1. s[i].st = "open" /\ (code = "401" /\ s[i].dir = "out" => s[i].req.method # "BYE" /\ s[i].req.tag)
    BY <1>1, <1>3 DEF Waits
  <2> QED
    BY <1>1, <1>2, <1>3, <2>1, EntryFinal
<1> QED
  BY <1>1, <1>2, <1>3

\* What EntriesFinished needs of the transactions of u, and says of them.
EntriesUpTo(u, trs, top) == \A i \in DOMAIN trs : Entry(u, trs[i], top)

Acceptable(trs, dir, m, code) ==
  \A i \in DOMAIN trs : Waits(trs[i], dir, m) /\ code = "401" /\ trs[i].dir = "out"
                          => trs[i].req.method # "BYE" /\ trs[i].req.tag

\* The same with the two conditions by name.
LEMMA EntriesStay ==
  ASSUME NEW u \in User, NEW old \in Seq(Transactions), NEW trs, NEW top \in Int, NEW dir, NEW m, NEW code \in Text,
         Finished(trs, old, dir, m, code), EntriesUpTo(u, old, top), Acceptable(old, dir, m, code)
  PROVE  EntriesUpTo(u, trs, top)
<1>1. top <= top
  OBVIOUS
<1>2. \A i \in DOMAIN old : Entry(u, old[i], top)
  BY DEF EntriesUpTo
<1>3. \A i \in DOMAIN old : Waits(old[i], dir, m) /\ code = "401" /\ old[i].dir = "out"
                                => old[i].req.method # "BYE" /\ old[i].req.tag
  BY DEF Acceptable
<1>4. \A i \in DOMAIN trs : Entry(u, trs[i], top)
  BY <1>1, <1>2, <1>3, EntriesFinished
<1> QED
  BY <1>4 DEF EntriesUpTo

LEMMA EntriesAdded ==
  ASSUME NEW u \in User, NEW s \in Seq(Transactions), NEW s2, NEW top \in Int, NEW top2 \in Int, top <= top2,
         NEW dir \in {"in", "out"}, NEW m,
         Added(s2, s, dir, m),
         \A i \in DOMAIN s : Entry(u, s[i], top),
         Twenty(m), IF dir = "out" THEN m.from = u /\ m.cseq <= top2 ELSE m.from = Peer(u) /\ m.method # "BYE"
  PROVE  \A i \in DOMAIN s2 : Entry(u, s2[i], top2)
<1> TAKE i \in DOMAIN s2
<1>1. CASE i \in DOMAIN s
  <2>1. s[i] \in Transactions /\ s2[i] = s[i]
    BY <1>1 DEF Added
  <2> QED
    BY <1>1, <2>1, EntryMono
<1>2. CASE i \notin DOMAIN s
  BY <1>2 DEF Added, Entry, Live
<1> QED
  BY <1>1, <1>2

AllTagged == \A m \in net : m.kind = "request" => m.tag

LEMMA Started ==
  ASSUME TypeOK, Pristine, NEW u \in User,
         \/ user[u].dlg # "none" \/ built[u] # Nothing
         \/ \E i \in DOMAIN user[u].trs : user[u].trs[i].dir = "in"
         \/ \E m \in net : m.kind # "request" \/ m.tag
  PROVE  AllTagged
<1> SUFFICES ASSUME NEW m \in net, m.kind = "request", ~m.tag PROVE FALSE
  BY DEF AllTagged
<1>1. /\ net = {m} /\ user["callee"] = NoDialog
      /\ Added(user["caller"].trs, <<>>, "out", m) /\ Len(user["caller"].trs) = 1
      /\ user["caller"].dlg = "none" /\ built = [v \in User |-> Nothing]
  BY DEF Pristine
<1>2. u = "caller" \/ u = "callee"
  BY DEF User
<1>3. user[u].dlg = "none" /\ built[u] = Nothing
  BY <1>1, <1>2, NewDialog
<1>4. \A i \in DOMAIN user[u].trs : user[u].trs[i].dir = "out"
  <2>1. DOMAIN <<>> = {} /\ Len(<<>>) = 0
    OBVIOUS
  <2>2. CASE u = "caller"
    BY <1>1, <2>1, <2>2 DEF Added
  <2>3. CASE u = "callee"
    BY <1>1, <2>1, <2>3, NewDialog
  <2> QED
    BY <1>2, <2>2, <2>3
<1> QED
  BY <1>1, <1>3, <1>4

LEMMA PristineAfter ==
  ASSUME AllTagged, \A m \in net' \ net : m.kind = "request" => m.tag
  PROVE  Pristine' /\ AllTagged'
  BY DEF AllTagged, Pristine

\* Nothing new of this side is on its way, and the other one has taken nothing in.
LEMMA OrderedKept ==
  ASSUME TypeOK, TypeOK', NEW v \in User, Ordered(v), ByeLast(v),
         seen.retried \subseteq seen'.retried, Top(v) <= Top(v)',
         user'[Peer(v)].rcseq = user[Peer(v)].rcseq,
         user[v].dlg = "gone" => user'[v].dlg = "gone",
         Pending(v)' \subseteq Pending(v),
         \A m \in Asks(v)' : m \in Asks(v) \/ m.method # "BYE",
         built'[v] # Nothing => built'[v] = built[v] /\ (built'[v] \in net' => built'[v] \in net)
  PROVE  Ordered(v)' /\ ByeLast(v)'
<1>1. Top(v) \in Nat /\ Top(v)' \in Nat
  BY TopInt, TopIntNext
<1>2. \A m \in Pending(v) : m.cseq \in Nat
  BY DialogFacts DEF Pending, Asks, TypeOK, Requests, Responses
<1>3. Ordered(v)'
  BY <1>1, <1>2 DEF Ordered
<1>4. Asks(v)' \subseteq Pending(v)'
  BY DEF Pending
<1>5. ByeLast(v)'
  BY <1>4 DEF ByeLast
<1> QED
  BY <1>3, <1>5

\* A request with the next number, or a retry.
LEMMA OrderedAdd ==
  ASSUME TypeOK, TypeOK', NEW v \in User, Ordered(v), ByeLast(v), Counts, NEW m \in Requests,
         user[v].dlg # "gone",
         seen.retried \subseteq seen'.retried, Top(v) <= Top(v)',
         user'[Peer(v)].rcseq = user[Peer(v)].rcseq,
         Pending(v)' \subseteq Pending(v) \cup {m},
         m.cseq <= Top(v)',
         m.cseq > Top(v) \/ (<<v, m.cseq>> \in seen'.retried /\ m.method # "BYE"),
         m.method = "BYE" => user'[v].dlg = "gone",
         built'[v] # Nothing => built'[v] \notin net'
  PROVE  Ordered(v)' /\ ByeLast(v)'
<1>1. Top(v) \in Nat /\ Top(v)' \in Nat
  BY TopInt, TopIntNext
<1>2. \A x \in Pending(v) \cup {m} : x.cseq \in Nat
  BY DialogFacts DEF Pending, Asks, TypeOK, Requests, Responses
<1>3. Peer(v) \in User /\ Peer(Peer(v)) = v
  BY Sides
<1>4. user[Peer(v)].rcseq <= Top(v) /\ user[Peer(v)].rcseq \in Int
  BY <1>3, DialogFacts DEF Counts
<1>5. ASSUME NEW x \in Pending(v)'
      PROVE  /\ x.cseq <= Top(v)'
             /\ x.cseq = user[Peer(v)].rcseq => <<v, x.cseq>> \in seen'.retried
             /\ \A y \in Pending(v)' : y # x /\ y.cseq = x.cseq => <<v, x.cseq>> \in seen'.retried
  <2>1. x \in Pending(v) \/ x = m
    BY <1>5
  <2>2. x.cseq <= Top(v)'
    <3>1. CASE x = m
      BY <3>1
    <3>2. CASE x \in Pending(v)
      <4>1. x.cseq <= Top(v) /\ x.cseq \in Nat
        BY <1>2, <3>2 DEF Ordered
      <4> QED
        BY <1>1, <4>1
    <3> QED
      BY <2>1, <3>1, <3>2
  <2>3. x.cseq = user[Peer(v)].rcseq => <<v, x.cseq>> \in seen'.retried
    BY <1>1, <1>2, <1>4, <2>1 DEF Ordered
  <2>4. ASSUME NEW y \in Pending(v)', y # x, y.cseq = x.cseq PROVE <<v, x.cseq>> \in seen'.retried
    <3>1. y \in Pending(v) \/ y = m
      BY <2>4
    <3>2. CASE x \in Pending(v) /\ y \in Pending(v)
      BY <2>4, <3>2 DEF Ordered
    <3>3. CASE x = m \/ y = m
      BY <1>1, <1>2, <2>1, <2>4, <3>1, <3>3 DEF Ordered
    <3> QED
      BY <2>1, <3>1, <3>2, <3>3
  <2> QED
    BY <2>2, <2>3, <2>4
<1>6. Ordered(v)'
  BY <1>5 DEF Ordered
<1>7. Asks(v) \subseteq Pending(v) /\ Asks(v)' \subseteq Pending(v)'
  BY DEF Pending
<1>8. ASSUME NEW x \in Asks(v)', x.method = "BYE"
      PROVE  user'[v].dlg = "gone" /\ x.cseq > user'[Peer(v)].rcseq /\ \A y \in Pending(v)' : y # x => y.cseq < x.cseq
  <2>1. x \in Pending(v) => x \in Asks(v)
    BY <1>8 DEF Pending, Asks, Counts
  <2>2. x = m
    BY <1>7, <1>8, <2>1 DEF ByeLast
  <2>3. m.cseq > Top(v) /\ user'[v].dlg = "gone"
    BY <1>8, <2>2
  <2>4. ASSUME NEW y \in Pending(v)', y # x PROVE y.cseq < x.cseq
    <3>1. y \in Pending(v)
      BY <2>2, <2>4
    <3>2. y.cseq <= Top(v) /\ y.cseq \in Nat /\ m.cseq \in Nat
      BY <1>2, <3>1 DEF Ordered
    <3> QED
      BY <1>1, <2>2, <2>3, <3>2
  <2>5. x.cseq > user'[Peer(v)].rcseq
    BY <1>1, <1>2, <1>4, <2>2, <2>3
  <2> QED
    BY <2>3, <2>4, <2>5
<1> QED
  BY <1>6, <1>8 DEF ByeLast

\* One of them has come in at the other side.
LEMMA OrderedTaken ==
  ASSUME TypeOK, TypeOK', NEW v \in User, Ordered(v), ByeLast(v), NEW m \in Asks(v),
         seen.retried \subseteq seen'.retried, Top(v) <= Top(v)',
         user'[Peer(v)].rcseq \in {user[Peer(v)].rcseq, m.cseq},
         user[v].dlg = "gone" => user'[v].dlg = "gone",
         m \notin Asks(v)', Asks(v)' \subseteq Asks(v), built' = built,
         built'[v] # Nothing => built'[v] \notin net'
  PROVE  Ordered(v)' /\ ByeLast(v)'
<1>1. Top(v) \in Nat /\ Top(v)' \in Nat
  BY TopInt, TopIntNext
<1>2. \A x \in Pending(v) : x.cseq \in Nat
  BY DialogFacts DEF Pending, Asks, TypeOK, Requests, Responses
<1>3. Pending(v)' \subseteq Pending(v) \ {m} /\ m \in Pending(v)
  BY DEF Pending, Asks, Ordered
<1>5. Ordered(v)'
  BY <1>1, <1>2, <1>3 DEF Ordered
<1>6. Asks(v)' \subseteq Pending(v)' /\ Asks(v) \subseteq Pending(v)
  BY DEF Pending
<1>7. ByeLast(v)'
  <2> SUFFICES ASSUME NEW x \in Asks(v)', x.method = "BYE"
               PROVE  user'[v].dlg = "gone" /\ x.cseq > user'[Peer(v)].rcseq /\ \A y \in Pending(v)' : y # x => y.cseq < x.cseq
    BY DEF ByeLast
  <2>1. x \in Asks(v) /\ x # m
    OBVIOUS
  <2>2. user[v].dlg = "gone" /\ x.cseq > user[Peer(v)].rcseq /\ \A y \in Pending(v) : y # x => y.cseq < x.cseq
    BY <2>1 DEF ByeLast
  <2>3. m.cseq < x.cseq
    BY <1>3, <2>1, <2>2
  <2> QED
    BY <1>2, <1>3, <1>6, <2>1, <2>2, <2>3
<1> QED
  BY <1>5, <1>7

LEMMA EntriesStep ==
  ASSUME NEW u \in User, \A v \in User : v # u => user'[v] = user[v], Entries,
         \A i \in DOMAIN user'[u].trs : Entry(u, user'[u].trs[i], Top(u)')
  PROVE  Entries'
<1> SUFFICES ASSUME NEW v \in User, NEW i \in DOMAIN user'[v].trs PROVE Entry(v, user'[v].trs[i], Top(v)')
  BY DEF Entries
<1>1. CASE v = u
  BY <1>1
<1>2. CASE v # u
  <2>1. user'[v] = user[v] /\ Top(v)' = Top(v)
    BY <1>2 DEF Top
  <2> QED
    BY <2>1 DEF Entries
<1> QED
  BY <1>1, <1>2

LEMMA CountsStep ==
  ASSUME TypeOK, TypeOK', NEW u \in User, \A v \in User : v # u => user'[v] = user[v] /\ built'[v] = built[v],
         Counts, Top(u) <= Top(u)',
         user'[u].dlg = "none" => user'[u].rcseq = -1 /\ built'[u] = Nothing,
         user'[u].dlg # "none" => user'[u].lcseq >= 20,
         user'[u].rcseq <= Top(Peer(u)),
         built'[u] # Nothing => built'[u].from = u /\ built'[u].tag /\ ~built'[u].retry /\ built'[u].method # "BYE"
  PROVE  Counts'
<1>1. Peer(u) \in User /\ Peer(u) # u /\ Peer(Peer(u)) = u /\ \A v \in User : v = u \/ v = Peer(u)
  BY Sides
<1>2. user'[Peer(u)] = user[Peer(u)] /\ built'[Peer(u)] = built[Peer(u)] /\ Top(Peer(u))' = Top(Peer(u))
  BY <1>1 DEF Top
<1>3. user[Peer(u)].rcseq <= Top(u) /\ user[Peer(u)].rcseq \in Int /\ Top(u) \in Nat /\ Top(u)' \in Nat
  BY <1>1, TopInt, TopIntNext, DialogFacts DEF Counts
<1>4. user'[Peer(u)].rcseq <= Top(u)'
  BY <1>2, <1>3
<1> HIDE DEF Top
<1> SUFFICES ASSUME NEW v \in User
             PROVE  /\ user'[v].dlg = "none" => user'[v].rcseq = -1 /\ built'[v] = Nothing
                    /\ user'[v].dlg # "none" => user'[v].lcseq >= 20
                    /\ user'[v].rcseq <= Top(Peer(v))'
                    /\ built'[v] # Nothing => built'[v].from = v /\ built'[v].tag /\ ~built'[v].retry /\ built'[v].method # "BYE"
  BY DEF Counts
<1>5. CASE v = u
  BY <1>2, <1>5
<1>6. CASE v = Peer(u)
  BY <1>1, <1>2, <1>4, <1>6 DEF Counts
<1> QED
  BY <1>1, <1>5, <1>6

LEMMA CarriedStep ==
  ASSUME Carried, \A m \in net' \ net : IF m.kind = "request" THEN m.tag => m.cseq > 20
                                        ELSE m.code = "401" => m.cseq > 20 /\ m.method # "BYE"
  PROVE  Carried'
  BY DEF Carried

LEMMA IgnoredStep ==
  ASSUME IgnoredOnlyByRetry, seen.retried \subseteq seen'.retried, seen'.ignored = seen.ignored
  PROVE  IgnoredOnlyByRetry'
  BY DEF IgnoredOnlyByRetry

\* What is on its way and built of a side that nothing is added for.
LEMMA PendingSame ==
  ASSUME TypeOK, TypeOK', NEW v \in User, Ordered(v), built'[v] = built[v],
         \A m \in net' : m \in net \/ m.kind = "response" \/ m.from # v,
         built[v] # Nothing => built[v].from = v
  PROVE  /\ Pending(v)' \subseteq Pending(v) /\ Asks(v)' \subseteq Asks(v)
         /\ built'[v] # Nothing => built'[v] = built[v] /\ built'[v] \notin net'
<1>1. built[v].kind = "request"
  BY DEF TypeOK, Requests
<1>2. built[v] # Nothing => built[v] \notin net
  BY DEF Ordered
<1> QED
  BY <1>1, <1>2 DEF Pending, Asks

LEMMA OrderedSame ==
  ASSUME TypeOK, TypeOK', NEW v \in User, Ordered(v), ByeLast(v), built'[v] = built[v],
         seen.retried \subseteq seen'.retried, Top(v) <= Top(v)',
         user'[Peer(v)].rcseq = user[Peer(v)].rcseq,
         user[v].dlg = "gone" => user'[v].dlg = "gone",
         \A m \in net' : m \in net \/ m.kind = "response" \/ m.from # v,
         built[v] # Nothing => built[v].from = v
  PROVE  Ordered(v)' /\ ByeLast(v)'
<1>1. /\ Pending(v)' \subseteq Pending(v) /\ Asks(v)' \subseteq Asks(v)
      /\ built'[v] # Nothing => built'[v] = built[v] /\ built'[v] \notin net'
  BY PendingSame
<1> QED
  BY <1>1, OrderedKept

LEMMA NumbersBuild ==
  ASSUME TypeOK, Numbers, NEW u \in User, NEW method \in Methods, Build(u, method, "none")
  PROVE  Numbers'
<1> DEFINE m == Within(u, method, user[u].lcseq + 1, "none")
<1>1. /\ TypeOK'
      /\ Usable(user[u]) /\ built[u] = Nothing
      /\ user'[u].lcseq = user[u].lcseq + 1 /\ user'[u].trs = user[u].trs
      /\ user'[u].dlg = user[u].dlg /\ user'[u].rcseq = user[u].rcseq
      /\ \A v \in User : v # u => user'[v] = user[v] /\ built'[v] = built[v]
      /\ built'[u] = m
      /\ net' = net /\ SameHistory
  BY BuildEffect
<1>2. user[u].dlg # "none" /\ user[u].lcseq \in Nat
  BY <1>1, DialogFacts DEF Usable
<1>3. Top(u) = user[u].lcseq /\ Top(u)' = user[u].lcseq + 1
  BY <1>1, <1>2 DEF Top
<1>4. /\ m \in Requests /\ m.kind = "request" /\ m.from = u /\ m.cseq = user[u].lcseq + 1
      /\ ~m.retry /\ m.tag /\ m.method = method
  <2>1. method \in Text /\ "none" \in Text /\ user[u].lcseq + 1 \in Nat
    BY <1>2, ExDialogAssumption DEF Text
  <2> QED
    BY <2>1, WithinFacts
<1> HIDE DEF m
<1>5. Peer(u) \in User /\ Peer(u) # u /\ Peer(Peer(u)) = u /\ \A v \in User : v = u \/ v = Peer(u)
  BY Sides
<1>6. Entries'
  <2>1. \A i \in DOMAIN user[u].trs : user[u].trs[i] \in Transactions /\ Entry(u, user[u].trs[i], Top(u))
    BY DialogFacts DEF Numbers, Entries
  <2>2. Top(u) \in Int /\ Top(u)' \in Int /\ Top(u) <= Top(u)'
    BY <1>2, <1>3
  <2>3. \A i \in DOMAIN user[u].trs : Entry(u, user[u].trs[i], Top(u)')
    BY <2>1, <2>2, EntryMono
  <2> QED
    BY <1>1, <2>3, EntriesStep DEF Numbers
<1>7. Counts'
  <2>1. "BYE" # method
    BY ExDialogAssumption
  <2>2. user[u].rcseq <= Top(Peer(u)) /\ user[u].lcseq >= 20
    BY <1>2 DEF Numbers, Counts
  <2>3. Top(u) <= Top(u)'
    BY <1>2, <1>3
  <2>4. user'[u].lcseq >= 20
    BY <1>1, <1>2, <2>2
  <2> QED
    BY <1>1, <1>2, <1>4, <2>1, <2>2, <2>3, <2>4, CountsStep DEF Numbers
<1>8. Carried' /\ IgnoredOnlyByRetry' /\ Pristine' /\ BuiltAbove'
  <2>1. AllTagged
    BY <1>2, Started DEF Numbers
  <2>2. m.cseq > 20
    BY <1>2, <1>4 DEF Numbers, Counts
  <2> QED
    BY <1>1, <2>1, <2>2, CarriedStep, IgnoredStep, PristineAfter DEF Numbers, SameHistory, BuiltAbove
<1>9. Ordered(u)' /\ ByeLast(u)'
  <2>1. m \notin net
    <3>1. m \in net => m \in Pending(u)
      BY <1>4 DEF Pending, Asks
    <3>2. \A x \in Pending(u) : x.cseq <= user[u].lcseq
      BY <1>3 DEF Numbers, Ordered
    <3> QED
      BY <1>2, <1>4, <3>1, <3>2
  <2>2. Pending(u)' \subseteq Pending(u) \cup {m}
    BY <1>1 DEF Pending, Asks
  <2>3. m.cseq <= Top(u)' /\ m.cseq > Top(u) /\ Top(u) <= Top(u)'
    BY <1>2, <1>3, <1>4
  <2>4. m.method # "BYE" /\ user[u].dlg # "gone"
    BY <1>1, <1>4, ExDialogAssumption DEF Usable
  <2> QED
    BY <1>1, <1>4, <1>5, <2>1, <2>2, <2>3, <2>4, OrderedAdd DEF Numbers, SameHistory
<1>10. Ordered(Peer(u))' /\ ByeLast(Peer(u))'
  <2>1. Top(Peer(u))' = Top(Peer(u)) /\ Top(Peer(u)) \in Nat
    BY <1>1, <1>5, TopInt DEF Top
  <2> QED
    BY <1>1, <1>5, <2>1, OrderedSame DEF Numbers, SameHistory, Counts
<1> QED
  BY <1>5, <1>6, <1>7, <1>8, <1>9, <1>10 DEF Numbers

\* A step that sends no request and takes none in.
LEMMA NumbersQuiet ==
  ASSUME TypeOK, TypeOK', Numbers, NEW u \in User, \A v \in User : v # u => user'[v] = user[v],
         built' = built, user'[u].rcseq = user[u].rcseq, Top(u) <= Top(u)',
         user[u].dlg = "gone" => user'[u].dlg = "gone",
         user'[u].dlg = "none" => user[u].dlg = "none",
         user'[u].dlg # "none" => user'[u].lcseq >= 20,
         seen'.retried = seen.retried, seen'.ignored = seen.ignored,
         \A m \in net' : m \in net \/ (m.kind = "response" /\ (m.code = "401" => m.cseq > 20 /\ m.method # "BYE")),
         AllTagged,
         \A i \in DOMAIN user'[u].trs : Entry(u, user'[u].trs[i], Top(u)')
  PROVE  Numbers'
<1>1. Peer(u) \in User /\ Peer(u) # u /\ Peer(Peer(u)) = u /\ \A v \in User : v = u \/ v = Peer(u)
  BY Sides
<1>2. Entries'
  BY EntriesStep DEF Numbers
<1>3. Counts'
  BY CountsStep DEF Numbers, Counts
<1>4. Carried' /\ IgnoredOnlyByRetry' /\ Pristine' /\ BuiltAbove'
  BY CarriedStep, IgnoredStep, PristineAfter DEF Numbers, BuiltAbove
<1>5. ASSUME NEW v \in User PROVE Ordered(v)' /\ ByeLast(v)'
  <2>1. Top(v) <= Top(v)'
    <3>1. CASE v = u
      BY <3>1
    <3>2. CASE v # u
      BY <3>2, TopInt DEF Top
    <3> QED
      BY <3>1, <3>2
  <2>2. user'[Peer(v)].rcseq = user[Peer(v)].rcseq
    BY <1>1
  <2>3. user[v].dlg = "gone" => user'[v].dlg = "gone"
    BY <1>1
  <2> QED
    BY <2>1, <2>2, <2>3, OrderedSame DEF Numbers, Counts
<1> QED
  BY <1>2, <1>3, <1>4, <1>5 DEF Numbers

\* A step that sends one request: with the next number, or a retry.
LEMMA NumbersSends ==
  ASSUME TypeOK, TypeOK', Numbers, NEW u \in User, \A v \in User : v # u => user'[v] = user[v],
         NEW m \in Requests, m.from = u, m.tag, m.cseq > 20, m.cseq <= Top(u)',
         m.cseq > Top(u) \/ (<<u, m.cseq>> \in seen'.retried /\ m.method # "BYE" /\ m.retry),
         user[u].dlg # "none", user[u].dlg # "gone", user'[u].dlg # "none",
         m.method = "BYE" => user'[u].dlg = "gone",
         built' = built, user'[u].rcseq = user[u].rcseq,
         user'[u].lcseq = user[u].lcseq + 1,
         seen.retried \subseteq seen'.retried, seen'.ignored = seen.ignored,
         \A x \in net' : x \in net \cup {m} \/ (x.kind = "response" /\ x.code # "401"),
         NEW s \in Seq(Transactions), \A i \in DOMAIN s : Entry(u, s[i], Top(u)),
         Added(user'[u].trs, s, "out", m)
  PROVE  Numbers'
<1>1. Peer(u) \in User /\ Peer(u) # u /\ Peer(Peer(u)) = u /\ \A v \in User : v = u \/ v = Peer(u)
  BY Sides
<1>2. /\ Top(u) \in Int /\ Top(u)' \in Int /\ Top(u) <= Top(u)' /\ user[u].lcseq >= 20 /\ user'[u].lcseq >= 20
      /\ m.kind = "request" /\ m.cseq \in Nat
  <2>1. user[u].lcseq \in Nat /\ user[u].lcseq >= 20
    BY DialogFacts DEF Numbers, Counts
  <2>2. Top(u) = user[u].lcseq /\ Top(u)' = user[u].lcseq + 1
    BY DEF Top
  <2> QED
    BY <2>1, <2>2 DEF Requests
<1>3. Entries'
  <2>1. \A i \in DOMAIN user'[u].trs : Entry(u, user'[u].trs[i], Top(u)')
    BY <1>2, EntriesAdded DEF Twenty
  <2> QED
    BY <2>1, EntriesStep DEF Numbers
<1>4. Counts'
  BY <1>2, CountsStep DEF Numbers, Counts
<1>5. Carried' /\ IgnoredOnlyByRetry' /\ Pristine' /\ BuiltAbove'
  <2>1. AllTagged
    BY Started DEF Numbers
  <2> QED
    BY <1>2, <2>1, CarriedStep, IgnoredStep, PristineAfter DEF Numbers, BuiltAbove
<1>6. Ordered(u)' /\ ByeLast(u)'
  <2>1. Pending(u)' \subseteq Pending(u) \cup {m}
    BY DEF Pending, Asks
  <2>2. built'[u] # Nothing => built'[u] \notin net'
    <3>1. SUFFICES ASSUME built[u] # Nothing, built[u] \in net' PROVE FALSE
      OBVIOUS
    <3>2. built[u].kind = "request" /\ built[u].cseq \in Nat
      BY DEF TypeOK, Requests
    <3>3. built[u] \notin net /\ built[u].cseq <= Top(u) /\ ~built[u].retry /\ built[u].method # "BYE"
      BY <3>1 DEF Numbers, Ordered, Pending, Counts
    <3>4. built[u] = m
      BY <3>1, <3>2, <3>3
    <3> QED
      BY <1>2, <3>2, <3>3, <3>4
  <2>3. Ordered(u) /\ ByeLast(u) /\ Counts
    BY DEF Numbers
  <2>4. user'[Peer(u)].rcseq = user[Peer(u)].rcseq
    BY <1>1
  <2>5. m.cseq > Top(u) \/ (<<u, m.cseq>> \in seen'.retried /\ m.method # "BYE")
    OBVIOUS
  <2> HIDE DEF Ordered, ByeLast, Counts
  <2> QED
    BY <1>2, <2>1, <2>2, <2>3, <2>4, <2>5, OrderedAdd
<1>7. Ordered(Peer(u))' /\ ByeLast(Peer(u))'
  <2>1. Top(Peer(u))' = Top(Peer(u)) /\ Top(Peer(u)) \in Nat
    BY <1>1, TopInt DEF Top
  <2> QED
    BY <1>1, <2>1, OrderedSame DEF Numbers, Counts
<1> QED
  BY <1>1, <1>3, <1>4, <1>5, <1>6, <1>7 DEF Numbers

LEMMA NumbersMove ==
  ASSUME TypeOK, Numbers, NEW u \in User, eXosip_masquerade_contact(u)
  PROVE  Numbers'
<1>1. /\ TypeOK' /\ user'[u].lcseq = user[u].lcseq /\ user'[u].trs = user[u].trs
      /\ user'[u].dlg = user[u].dlg /\ user'[u].rcseq = user[u].rcseq
      /\ \A v \in User : v # u => user'[v] = user[v]
      /\ built' = built /\ net' = net /\ SameHistory
  BY MoveEffect
<1>2. user[u].dlg # "none"
  BY DEF eXosip_masquerade_contact, Usable
<1>3. AllTagged
  BY <1>2, Started DEF Numbers
<1>4. Top(u)' = Top(u) /\ Top(u) \in Nat
  BY <1>1, TopInt DEF Top
<1>5. \A i \in DOMAIN user'[u].trs : Entry(u, user'[u].trs[i], Top(u)')
  BY <1>1, <1>4 DEF Numbers, Entries
<1>6. user'[u].lcseq >= 20
  BY <1>1, <1>2 DEF Numbers, Counts
<1> HIDE DEF Top
<1> QED
  BY <1>1, <1>2, <1>3, <1>4, <1>5, <1>6, NumbersQuiet DEF SameHistory

LEMMA NumbersTimer ==
  ASSUME TypeOK, Numbers, NEW u \in User, SessionTimer(u)
  PROVE  Numbers'
<1> DEFINE m == Within(u, "INVITE", user[u].lcseq + 1, "uac")
<1>1. /\ TypeOK' /\ Usable(user[u])
      /\ Sends(u, user[u].lcseq + 1, m)
      /\ \A v \in User : v # u => user'[v] = user[v]
      /\ SameHistory /\ built' = built
  BY TimerEffect
<1>2. user[u].dlg # "none" /\ user[u].dlg # "gone" /\ user[u].lcseq \in Nat /\ user[u].lcseq >= 20
  BY <1>1, DialogFacts DEF Usable, Numbers, Counts
<1>3. Top(u) = user[u].lcseq /\ Top(u)' = user[u].lcseq + 1
  BY <1>1, <1>2 DEF Top, Sends
<1>4. m \in Requests /\ m.from = u /\ m.cseq = user[u].lcseq + 1 /\ m.tag /\ m.method = "INVITE"
  BY <1>2, WithinFacts DEF Text
<1> HIDE DEF m
<1>5. user[u].trs \in Seq(Transactions) /\ \A i \in DOMAIN user[u].trs : Entry(u, user[u].trs[i], Top(u))
  BY DialogFacts DEF Numbers, Entries
<1>6. m.cseq > 20 /\ m.cseq <= Top(u)' /\ m.cseq > Top(u) /\ m.method # "BYE"
  BY <1>2, <1>3, <1>4
<1> QED
  BY <1>1, <1>2, <1>4, <1>5, <1>6, NumbersSends DEF Sends, SameHistory

LEMMA NumbersSend ==
  ASSUME TypeOK, Numbers, NEW u \in User, eXosip_call_send_request(u)
  PROVE  Numbers'
<1> DEFINE m == built[u]
<1>1. /\ TypeOK' /\ m # Nothing
      /\ built' = [built EXCEPT ![u] = Nothing]
      /\ \A v \in User : v # u => user'[v] = user[v]
      /\ \/ Sends(u, user[u].lcseq, m)
         \/ user' = user /\ net' = net
      /\ chain' = chain /\ seen' = seen
  BY SendEffect
<1>2. Peer(u) \in User /\ Peer(u) # u /\ Peer(Peer(u)) = u /\ \A v \in User : v = u \/ v = Peer(u)
  BY Sides
<1>3. /\ m.from = u /\ m.tag /\ ~m.retry /\ m.method # "BYE" /\ m \in Requests /\ m.kind = "request"
      /\ user[u].dlg # "none" /\ m.cseq \in Nat /\ m.cseq <= Top(u) /\ user[u].lcseq >= 20 /\ m \notin net
  <2>1. m \in Pending(u)
    BY <1>1 DEF Pending
  <2>2. m \in Requests /\ m.kind = "request" /\ m.cseq \in Nat
    BY DialogFacts DEF Requests
  <2> QED
    BY <1>1, <2>1, <2>2 DEF Numbers, Counts, Ordered
<1>4. m.cseq > 20
  BY <1>1, <1>3 DEF Numbers, BuiltAbove
<1>5. built'[u] = Nothing /\ \A v \in User : v # u => built'[v] = built[v]
  BY <1>1 DEF TypeOK
<1>6. AllTagged
  BY <1>1, Started DEF Numbers
<1>7. /\ user'[u].lcseq = user[u].lcseq /\ user'[u].dlg = user[u].dlg /\ user'[u].rcseq = user[u].rcseq
      /\ \A x \in net' : x \in net \cup {m}
      /\ user'[u].trs = user[u].trs \/ Added(user'[u].trs, user[u].trs, "out", m)
  BY <1>1 DEF Sends
<1>8. /\ Top(u)' = Top(u) /\ Top(u) \in Nat /\ Top(Peer(u))' = Top(Peer(u)) /\ Top(Peer(u)) \in Nat
  BY <1>2, <1>1, <1>7, TopInt DEF Top
<1> HIDE DEF m
<1>9. Entries'
  <2>1. \A i \in DOMAIN user'[u].trs : Entry(u, user'[u].trs[i], Top(u)')
    <3>1. CASE user'[u].trs = user[u].trs
      BY <1>8, <3>1 DEF Numbers, Entries
    <3>2. CASE Added(user'[u].trs, user[u].trs, "out", m)
      <4>1. user[u].trs \in Seq(Transactions) /\ \A i \in DOMAIN user[u].trs : Entry(u, user[u].trs[i], Top(u))
        BY DialogFacts DEF Numbers, Entries
      <4>2. Twenty(m) /\ Top(u) \in Int /\ m.cseq <= Top(u)
        BY <1>3, <1>4, <1>8 DEF Twenty
      <4>3. \A i \in DOMAIN user'[u].trs : Entry(u, user'[u].trs[i], Top(u))
        BY <1>3, <3>2, <4>1, <4>2, EntriesAdded
      <4> QED
        BY <1>8, <4>3
    <3> QED
      BY <1>7, <3>1, <3>2
  <2> QED
    BY <1>1, <2>1, EntriesStep DEF Numbers
<1>10. Counts'
  <2>1. user[u].rcseq <= Top(Peer(u)) /\ Counts
    BY DEF Numbers, Counts
  <2>2. Top(u) <= Top(u)'
    BY <1>8
  <2> QED
    BY <1>1, <1>3, <1>5, <1>7, <2>1, <2>2, CountsStep
<1>11. Carried' /\ IgnoredOnlyByRetry' /\ Pristine' /\ BuiltAbove'
  BY <1>1, <1>3, <1>4, <1>5, <1>6, <1>7, CarriedStep, IgnoredStep, PristineAfter DEF Numbers, BuiltAbove
<1>12. Ordered(u)' /\ ByeLast(u)'
  <2>1. Pending(u)' \subseteq Pending(u)
    BY <1>1, <1>5, <1>7 DEF Pending, Asks, m
  <2>2. \A x \in Asks(u)' : x \in Asks(u) \/ x.method # "BYE"
    BY <1>3, <1>7 DEF Asks
  <2>3. Ordered(u) /\ ByeLast(u) /\ Top(u) <= Top(u)' /\ user'[Peer(u)].rcseq = user[Peer(u)].rcseq
    BY <1>1, <1>2, <1>8 DEF Numbers
  <2> QED
    BY <1>1, <1>5, <1>7, <2>1, <2>2, <2>3, OrderedKept
<1>13. Ordered(Peer(u))' /\ ByeLast(Peer(u))'
  <2>1. \A x \in net' : x \in net \/ x.from # Peer(u)
    BY <1>2, <1>3, <1>7
  <2>2. /\ Ordered(Peer(u)) /\ ByeLast(Peer(u)) /\ Top(Peer(u)) <= Top(Peer(u))'
        /\ user'[u].rcseq = user[u].rcseq /\ user'[Peer(u)] = user[Peer(u)] /\ built'[Peer(u)] = built[Peer(u)]
        /\ built[Peer(u)] # Nothing => built[Peer(u)].from = Peer(u)
    BY <1>1, <1>2, <1>5, <1>7, <1>8 DEF Numbers, Counts
  <2> QED
    BY <1>1, <1>2, <2>1, <2>2, OrderedSame
<1> QED
  BY <1>2, <1>9, <1>10, <1>11, <1>12, <1>13 DEF Numbers

LEMMA NumbersTerminate ==
  ASSUME TypeOK, Numbers, NEW u \in User, Terminate(u)
  PROVE  Numbers'
<1> DEFINE bye == Within(u, "BYE", user[u].lcseq + 1, "none")
           waiting == _eXosip_find_last_inc_invite(user[u])
           answer == Respond(u, waiting.req, "4xx", "none", <<>>)
<1>1. /\ TypeOK'
      /\ user[u].dlg = "confirmed" /\ user'[u].dlg = "gone"
      /\ user'[u].lcseq = user[u].lcseq + 1 /\ user'[u].rcseq = user[u].rcseq
      /\ \A v \in User : v # u => user'[v] = user[v]
      /\ \/ Added(user'[u].trs, user[u].trs, "out", bye) /\ net' = net \cup {bye}
         \/ /\ waiting.st = "open"
            /\ \E s \in Seq(Transactions) : /\ Finished(s, user[u].trs, "in", waiting.req, "4xx")
                                            /\ Added(user'[u].trs, s, "out", bye)
            /\ net' = net \cup {bye} \cup {answer}
      /\ chain' = chain /\ built' = built /\ seen' = seen
  BY TerminateEffect
<1>2. user[u] \in Dialogs /\ user[u].lcseq \in Nat /\ user[u].lcseq >= 20 /\ user[u].trs \in Seq(Transactions)
      /\ "4xx" \in Text /\ "none" \in Text
  BY <1>1, DialogFacts DEF Numbers, Counts, Text
<1>3. Top(u) = user[u].lcseq /\ Top(u)' = user[u].lcseq + 1
  BY <1>1 DEF Top
<1>4. bye \in Requests /\ bye.from = u /\ bye.cseq = user[u].lcseq + 1 /\ bye.tag /\ bye.method = "BYE"
  BY <1>2, WithinFacts DEF Text
<1>5. waiting.st = "open" => answer.kind = "response" /\ answer.code = "4xx"
  BY DEF Respond
<1>6. \A i \in DOMAIN user[u].trs : Entry(u, user[u].trs[i], Top(u))
  BY DEF Numbers, Entries
<1> HIDE DEF bye, answer
<1>7. PICK s \in Seq(Transactions) : (\A i \in DOMAIN s : Entry(u, s[i], Top(u))) /\ Added(user'[u].trs, s, "out", bye)
  <2>1. CASE Added(user'[u].trs, user[u].trs, "out", bye)
    BY <1>2, <1>6, <2>1
  <2>2. CASE \E s \in Seq(Transactions) : /\ Finished(s, user[u].trs, "in", waiting.req, "4xx")
                                          /\ Added(user'[u].trs, s, "out", bye)
    <3>1. PICK s \in Seq(Transactions) : /\ Finished(s, user[u].trs, "in", waiting.req, "4xx")
                                         /\ Added(user'[u].trs, s, "out", bye)
      BY <2>2
    <3> DEFINE top == Top(u)
               old == user[u].trs
               req == waiting.req
               code == "4xx"
    <3>2. /\ top \in Int /\ old \in Seq(Transactions) /\ code \in Text
          /\ EntriesUpTo(u, old, top) /\ Finished(s, old, "in", req, code)
      BY <1>2, <1>3, <1>6, <3>1 DEF EntriesUpTo
    <3>3. Acceptable(old, "in", req, code)
      BY DEF Acceptable
    <3> HIDE DEF top, old, req, code
    <3>4. EntriesUpTo(u, s, top)
      BY <3>2, <3>3, EntriesStay
    <3>5. \A i \in DOMAIN s : Entry(u, s[i], top)
      BY <3>4 DEF EntriesUpTo
    <3> QED
      BY <3>1, <3>5 DEF top
  <2> QED
    BY <1>1, <2>1, <2>2
<1>8. bye.cseq > 20 /\ bye.cseq <= Top(u)' /\ bye.cseq > Top(u)
  BY <1>2, <1>3, <1>4
<1>9. \A x \in net' : x \in net \cup {bye} \/ (x.kind = "response" /\ x.code # "401")
  BY <1>1, <1>5
<1> QED
  BY <1>1, <1>4, <1>7, <1>8, <1>9, NumbersSends

LEMMA NumbersRetry ==
  ASSUME TypeOK, Numbers, NEW u \in User, NEW i \in DOMAIN user[u].trs, Usable(user[u]),
         _eXosip_call_retry_request(u, i)
  PROVE  Numbers'
<1> DEFINE t == user[u].trs[i]
           again == [t.req EXCEPT !.cseq = t.req.cseq + 1, !.retry = TRUE]
<1>0. Retries(u, i)
  BY RetryEffect
<1>1. /\ TypeOK'
      /\ t.st = "done" /\ t.code = "401"
      /\ again \in Requests /\ again.kind = "request" /\ again.from = t.req.from
      /\ again.method = t.req.method /\ again.cseq = t.req.cseq + 1 /\ again.retry /\ again.tag = t.req.tag
      /\ \E s \in Seq(Transactions) :
            /\ Len(s) = Len(user[u].trs) /\ DOMAIN s = DOMAIN user[u].trs
            /\ s[i].st = "done" /\ s[i].code = "none" /\ s[i].dir = t.dir /\ s[i].req = Past(t.req.method)
            /\ \A j \in DOMAIN s : j # i => s[j] = user[u].trs[j]
            /\ Added(user'[u].trs, s, "out", again)
      /\ user'[u].lcseq = user[u].lcseq + 1 /\ user'[u].dlg = user[u].dlg
      /\ user'[u].rcseq = user[u].rcseq
      /\ \A v \in User : v # u => user'[v] = user[v]
      /\ net' = net \cup {again} /\ built' = built
      /\ seen'.retried = seen.retried \cup {<<u, again.cseq>>} /\ seen'.ignored = seen.ignored
  BY <1>0, Zenon DEF Retries
<1>2. user[u].dlg # "none" /\ user[u].dlg # "gone" /\ user[u].lcseq \in Nat /\ user[u].lcseq >= 20
  BY DialogFacts DEF Usable, Numbers, Counts
<1>3. Top(u) = user[u].lcseq /\ Top(u)' = user[u].lcseq + 1
  BY <1>1, <1>2 DEF Top
<1>4. \A j \in DOMAIN user[u].trs : Entry(u, user[u].trs[j], Top(u))
  BY DEF Numbers, Entries
<1>5. t.dir = "out" /\ t.req.method # "BYE" /\ t.req.tag /\ t.req.from = u /\ t.req.cseq <= Top(u) /\ t.req.cseq > 20
      /\ t.req.cseq \in Nat
  BY <1>1, <1>4, DialogFacts DEF Entry, Live, Twenty
<1>6. PICK s \in Seq(Transactions) :
            /\ Len(s) = Len(user[u].trs) /\ DOMAIN s = DOMAIN user[u].trs
            /\ s[i].st = "done" /\ s[i].code = "none" /\ s[i].dir = t.dir /\ s[i].req = Past(t.req.method)
            /\ \A j \in DOMAIN s : j # i => s[j] = user[u].trs[j]
            /\ Added(user'[u].trs, s, "out", again)
  BY <1>1
<1> HIDE DEF again
<1>7. \A j \in DOMAIN s : Entry(u, s[j], Top(u))
  <2> TAKE j \in DOMAIN s
  <2>1. CASE j = i
    BY <1>6, <2>1 DEF Entry, Live
  <2>2. CASE j # i
    BY <1>4, <1>6, <2>2
  <2> QED
    BY <2>1, <2>2
<1>8. again.cseq > 20 /\ again.cseq <= Top(u)' /\ again.from = u /\ again.tag /\ again.method # "BYE"
  BY <1>1, <1>2, <1>3, <1>5
<1> HIDE DEF t
<1> QED
  BY <1>1, <1>2, <1>6, <1>7, <1>8, NumbersSends

LEMMA NumbersAnswerInvite ==
  ASSUME TypeOK, Numbers, NEW u \in User, NEW code \in {"1xx", "2xx", "4xx", "401"}, NEW timer \in BOOLEAN,
         AnswerInvite(u, code, timer)
  PROVE  Numbers'
<1> DEFINE t == _eXosip_find_last_inc_invite(user[u])
           kept == Kept(t, code, timer)
           r == Respond(u, t.req, code, IF kept THEN TimerInAnswer(t.req.se).se ELSE "none",
                        IF code \in {"1xx", "2xx"} THEN RecordRoute(t.req) ELSE <<>>)
<1>1. /\ TypeOK'
      /\ t.st = "open"
      /\ code = "2xx" => Usable(user[u])
      /\ code = "401" => t.req.tag
      /\ user'[u].dlg = IF code = "2xx" THEN "confirmed" ELSE user[u].dlg
      /\ user'[u].lcseq = user[u].lcseq /\ user'[u].rcseq = user[u].rcseq
      /\ IF code = "1xx" THEN user'[u].trs = user[u].trs
         ELSE Finished(user'[u].trs, user[u].trs, "in", t.req, code)
      /\ \A v \in User : v # u => user'[v] = user[v]
      /\ r \in Responses
      /\ net' = net \cup {r}
      /\ built' = built
      /\ seen'.retried = seen.retried /\ seen'.ignored = seen.ignored
  BY AnswerInviteEffect
<1>2. /\ user[u] \in Dialogs /\ user[u].trs \in Seq(Transactions)
      /\ code \in Text
  BY DialogFacts DEF Text
<1>3. PICK i \in DOMAIN user[u].trs : t = user[u].trs[i] /\ t.dir = "in" /\ t.req.method = "INVITE"
  BY <1>1, <1>2, LastInvite
<1>4. AllTagged
  BY <1>3, Started DEF Numbers
<1>5. \A j \in DOMAIN user[u].trs : Entry(u, user[u].trs[j], Top(u))
  BY DEF Numbers, Entries
<1>6. t.req \in Requests /\ Twenty(t.req)
  <2>1. user[u].trs[i].req \in Requests /\ Entry(u, user[u].trs[i], Top(u))
    BY <1>5, DialogFacts
  <2> HIDE DEF t
  <2> QED
    BY <1>1, <1>3, <2>1 DEF Entry
<1>7. r.kind = "response" /\ r.code = code /\ r.cseq = t.req.cseq /\ r.method = "INVITE"
  BY <1>1, <1>3 DEF Respond, Responses
<1>8. r.code = "401" => r.cseq > 20 /\ r.method # "BYE"
  BY <1>1, <1>6, <1>7 DEF Twenty
<1>9. Top(u)' = Top(u) /\ Top(u) \in Nat
  BY <1>1, TopInt DEF Top, Usable
<1>10. \A j \in DOMAIN user'[u].trs : Entry(u, user'[u].trs[j], Top(u)')
  <2>1. CASE code = "1xx"
    BY <1>1, <1>5, <1>9, <2>1
  <2>2. CASE code # "1xx"
    <3> DEFINE top == Top(u)
               old == user[u].trs
               trs == user'[u].trs
               req == t.req
    <3>1. /\ top \in Int /\ old \in Seq(Transactions) /\ code \in Text
          /\ EntriesUpTo(u, old, top) /\ Finished(trs, old, "in", req, code)
      BY <1>1, <1>2, <1>5, <1>9, <2>2 DEF EntriesUpTo
    <3>2. Acceptable(old, "in", req, code)
      BY DEF Acceptable, Waits
    <3> HIDE DEF top, old, trs, req
    <3>3. EntriesUpTo(u, trs, top)
      BY <3>1, <3>2, EntriesStay
    <3>4. \A j \in DOMAIN trs : Entry(u, trs[j], top)
      BY <3>3 DEF EntriesUpTo
    <3> QED
      BY <1>9, <3>4 DEF top, trs
  <2> QED
    BY <2>1, <2>2
<1>11. user'[u].dlg # "none" => user'[u].lcseq >= 20
  BY <1>1 DEF Numbers, Counts, Usable
<1>12. /\ user[u].dlg = "gone" => user'[u].dlg = "gone"
       /\ user'[u].dlg = "none" => user[u].dlg = "none"
  BY <1>1 DEF Usable
<1> HIDE DEF t, r
<1>13. Top(u) <= Top(u)'
  BY <1>9
<1> QED
  BY <1>1, <1>4, <1>7, <1>8, <1>10, <1>11, <1>12, <1>13, NumbersQuiet

LEMMA NumbersAnswerOther ==
  ASSUME TypeOK, Numbers, NEW u \in User, NEW code \in {"2xx", "401"}, AnswerOther(u, code)
  PROVE  Numbers'
<1>1. /\ TypeOK'
      /\ user'[u].dlg = user[u].dlg
      /\ user'[u].lcseq = user[u].lcseq /\ user'[u].rcseq = user[u].rcseq
      /\ \A v \in User : v # u => user'[v] = user[v]
      /\ built' = built
      /\ SameHistory
  BY AnswerOtherEffect
<1>2. PICK i \in DOMAIN user[u].trs :
               LET t == user[u].trs[i]
                   r == Respond(u, t.req, code, "none", <<>>)
               IN /\ t.dir = "in" /\ t.st = "open" /\ t.req.method # "INVITE"
                  /\ Finished(user'[u].trs, user[u].trs, "in", t.req, code)
                  /\ r \in Responses /\ net' = net \cup {r}
  BY AnswerOtherEffect
<1> DEFINE t == user[u].trs[i]
           r == Respond(u, t.req, code, "none", <<>>)
<1>3. /\ user[u].trs \in Seq(Transactions) /\ t.req \in Requests
      /\ code \in Text
  BY DialogFacts DEF Text
<1>4. AllTagged
  BY <1>2, Started DEF Numbers
<1>5. \A j \in DOMAIN user[u].trs : Entry(u, user[u].trs[j], Top(u))
  BY DEF Numbers, Entries
<1>6. t.req.cseq > 20 /\ t.req.method # "BYE"
  BY <1>2, <1>5 DEF Entry, Twenty
<1>7. r.kind = "response" /\ r.cseq = t.req.cseq /\ r.method = t.req.method
  BY DEF Respond
<1>8. Top(u)' = Top(u) /\ Top(u) \in Nat
  BY <1>1, TopInt DEF Top
<1>9. \A j \in DOMAIN user'[u].trs : Entry(u, user'[u].trs[j], Top(u)')
  <2> DEFINE top == Top(u)
             old == user[u].trs
             trs == user'[u].trs
  <2>1. /\ top \in Int /\ top <= top /\ old \in Seq(Transactions)
        /\ \A j \in DOMAIN old : Entry(u, old[j], top)
        /\ Finished(trs, old, "in", t.req, code)
        /\ \A j \in DOMAIN old : Waits(old[j], "in", t.req) /\ code = "401" /\ old[j].dir = "out"
                                   => old[j].req.method # "BYE" /\ old[j].req.tag
    BY <1>2, <1>3, <1>5, <1>8 DEF Waits
  <2> HIDE DEF top, old, trs
  <2>2. \A j \in DOMAIN trs : Entry(u, trs[j], top)
    BY <1>3, <2>1, EntriesFinished
  <2> QED
    BY <1>8, <2>2 DEF top, trs
<1>10. user'[u].dlg # "none" => user'[u].lcseq >= 20
  BY <1>1 DEF Numbers, Counts
<1>11. net' = net \cup {r}
  BY <1>2
<1> HIDE DEF t, r
<1>12. Top(u) <= Top(u)'
  BY <1>8
<1> QED
  BY <1>1, <1>4, <1>6, <1>7, <1>9, <1>10, <1>11, <1>12, NumbersQuiet DEF SameHistory

\* The first INVITE comes in: what Pristine says of the state before.
LEMMA FirstInvite ==
  ASSUME TypeOK, Pristine, NEW u \in User, NEW m \in net, m.from = Peer(u), m.kind = "request", ~m.tag
  PROVE  /\ u = "callee" /\ Peer(u) = "caller"
         /\ net = {m} /\ m.from = "caller" /\ m.method = "INVITE" /\ m.cseq = 20 /\ ~m.retry
         /\ m.contact = Address("caller", 0)
         /\ user["callee"] = NoDialog
         /\ Added(user["caller"].trs, <<>>, "out", m) /\ Len(user["caller"].trs) = 1
         /\ user["caller"].dlg = "none" /\ user["caller"].lcseq = 0 /\ user["caller"].rcseq = -1
         /\ user["caller"].refresher = -1 /\ user["caller"].contact = 0
         /\ built = [v \in User |-> Nothing]
         /\ seen.retried = {} /\ seen.met = [v \in User |-> 0] /\ ~seen.spoilt /\ ~seen.doubled
<1>1. /\ net = {m} /\ m.from = "caller" /\ m.method = "INVITE" /\ m.cseq = 20 /\ ~m.retry
      /\ m.contact = Address("caller", 0)
      /\ user["callee"] = NoDialog
      /\ Added(user["caller"].trs, <<>>, "out", m) /\ Len(user["caller"].trs) = 1
      /\ user["caller"].dlg = "none" /\ user["caller"].lcseq = 0 /\ user["caller"].rcseq = -1
      /\ user["caller"].refresher = -1 /\ user["caller"].contact = 0
      /\ built = [v \in User |-> Nothing]
      /\ seen.retried = {} /\ seen.met = [v \in User |-> 0] /\ ~seen.spoilt /\ ~seen.doubled
  BY DEF Pristine
<1>2. u = "callee" /\ Peer(u) = "caller"
  BY <1>1 DEF User, Peer
<1> QED
  BY <1>1, <1>2

LEMMA NumbersNewInvite ==
  ASSUME TypeOK, Numbers, NEW u \in User, NEW m \in net, m.from = Peer(u), m.kind = "request", RcvNewInvite(u, m)
  PROVE  Numbers'
<1>1. /\ TypeOK'
      /\ ~m.tag /\ m \in Requests
      /\ Added(user'[u].trs, <<>>, "in", m)
      /\ user'[u].dlg = "early" /\ user'[u].lcseq = m.cseq /\ user'[u].rcseq = m.cseq
      /\ \A v \in User : v # u => user'[v] = user[v]
      /\ net' = net \ {m} /\ chain' = chain /\ built' = built /\ seen' = seen
  BY NewInviteEffect
<1>2. /\ u = "callee" /\ Peer(u) = "caller" /\ net = {m} /\ m.method = "INVITE" /\ m.cseq = 20
      /\ user["callee"] = NoDialog /\ user["caller"].dlg = "none"
      /\ built = [v \in User |-> Nothing]
  BY <1>1, FirstInvite DEF Numbers
<1>3. Peer(u) \in User /\ Peer(u) # u /\ Peer(Peer(u)) = u /\ \A v \in User : v = u \/ v = Peer(u)
  BY Sides
<1>4. Top(u) = 20 /\ Top(u)' = 20 /\ Top(Peer(u)) = 20
  BY <1>1, <1>2, NewDialog DEF Top
<1>5. Entries'
  <2>1. \A i \in DOMAIN user'[u].trs : Entry(u, user'[u].trs[i], 20)
    <3> TAKE i \in DOMAIN user'[u].trs
    <3>1. DOMAIN <<>> = {} /\ Len(<<>>) = 0
      OBVIOUS
    <3>2. user'[u].trs[i].dir = "in" /\ user'[u].trs[i].code = "none" /\ user'[u].trs[i].req = m
      BY <1>1, <3>1 DEF Added
    <3> QED
      BY <1>1, <1>2, <3>2 DEF Entry, Live, Twenty
  <2> QED
    BY <1>1, <1>4, <2>1, EntriesStep DEF Numbers
<1>6. Counts'
  <2>1. Top(u) <= Top(u)' /\ user'[u].rcseq <= Top(Peer(u)) /\ user'[u].lcseq >= 20 /\ built'[u] = Nothing
    BY <1>1, <1>2, <1>4
  <2> QED
    BY <1>1, <2>1, CountsStep DEF Numbers
<1>7. net' = {} /\ \A v \in User : built'[v] = Nothing
  BY <1>1, <1>2
<1>8. Carried' /\ Pristine' /\ BuiltAbove' /\ IgnoredOnlyByRetry'
  BY <1>1, <1>7, IgnoredStep DEF Carried, Pristine, BuiltAbove, Numbers
<1>9. \A v \in User : Ordered(v)' /\ ByeLast(v)'
  BY <1>7 DEF Ordered, ByeLast, Pending, Asks
<1> QED
  BY <1>5, <1>6, <1>8, <1>9 DEF Numbers

LEMMA NumbersRequest ==
  ASSUME TypeOK, Numbers, NEW u \in User, NEW m \in net, m.from = Peer(u), m.kind = "request", RcvRequest(u, m)
  PROVE  Numbers'
<1> DEFINE d == user[u]
           e == user'[u]
           verdict == Verdict(d, m)
           r4 == Respond(u, m, "4xx", "none", <<>>)
           r2 == Respond(u, m, "2xx", "none", <<>>)
<1>1. /\ TypeOK'
      /\ m \in Requests /\ m.tag
      /\ e.lcseq = d.lcseq
      /\ e.rcseq = IF Usable(d) /\ m.cseq > d.rcseq THEN m.cseq ELSE d.rcseq
      /\ \A v \in User : v # u => user'[v] = user[v]
      /\ chain' = chain /\ built' = built
      /\ \/ /\ verdict \in {"4xx", "ignored"} /\ e.trs = d.trs /\ e.dlg = d.dlg
            /\ net' = (net \ {m}) \cup (IF verdict = "4xx" THEN {r4} ELSE {})
         \/ /\ verdict = "taken" /\ m.method # "BYE" /\ Added(e.trs, d.trs, "in", m) /\ e.dlg = d.dlg
            /\ net' = net \ {m}
         \/ /\ verdict = "taken" /\ m.method = "BYE" /\ e.dlg = "gone"
            /\ \E s \in Seq(Transactions) : /\ Added(s, d.trs, "in", m)
                                            /\ Finished(e.trs, s, "in", m, "2xx")
            /\ net' = (net \ {m}) \cup {r2}
      /\ seen'.ignored = (IF verdict = "ignored" THEN seen.ignored \cup {m} ELSE seen.ignored)
      /\ seen'.retried = seen.retried
  BY RequestEffect, Zenon
<1>2. Peer(u) \in User /\ Peer(u) # u /\ Peer(Peer(u)) = u /\ \A v \in User : v = u \/ v = Peer(u)
  BY Sides
<1>3. /\ d \in Dialogs /\ d.trs \in Seq(Transactions) /\ d.rcseq \in Int /\ d.lcseq \in Nat
      /\ m.cseq \in Nat
  BY <1>1, DialogFacts DEF Requests
<1>4. r4.kind = "response" /\ r4.code = "4xx" /\ r2.kind = "response" /\ r2.code = "2xx"
  BY DEF Respond
<1>5. m.cseq > 20 /\ m.cseq <= Top(Peer(u))
  BY <1>1, <1>2 DEF Numbers, Carried, Ordered, Pending, Asks
<1>6. AllTagged
  BY <1>1, Started DEF Numbers
<1>7. verdict = "taken" \/ verdict = "ignored" => Usable(d)
  BY DEF Verdict
<1>8. verdict = "ignored" => m.cseq = d.rcseq
  BY <1>3 DEF Verdict
<1> HIDE DEF verdict, r4, r2
<1>9. \A x \in net' : x \in net \/ (x.kind = "response" /\ x.code # "401")
  BY <1>1, <1>4
<1>10. m \notin net'
  BY <1>1, <1>4
<1>11. Top(u)' = Top(u) /\ Top(u) \in Nat /\ Top(Peer(u))' = Top(Peer(u)) /\ Top(Peer(u)) \in Nat
  BY <1>1, <1>2, <1>7, TopInt DEF Top, Usable
<1>12. Entries'
  <2>1. \A i \in DOMAIN d.trs : Entry(u, d.trs[i], Top(u))
    BY DEF Numbers, Entries
  <2>2. \A i \in DOMAIN e.trs : Entry(u, e.trs[i], Top(u))
    <3>1. CASE e.trs = d.trs
      BY <2>1, <3>1
    <3> DEFINE top == Top(u)
               old == d.trs
    <3>2. /\ top \in Int /\ top <= top /\ old \in Seq(Transactions) /\ Twenty(m)
          /\ \A i \in DOMAIN old : Entry(u, old[i], top)
      BY <1>1, <1>3, <1>5, <1>11, <2>1 DEF Twenty
    <3>3. CASE m.method # "BYE" /\ Added(e.trs, d.trs, "in", m)
      <4> DEFINE trs == e.trs
      <4>1. Added(trs, old, "in", m)
        BY <3>3
      <4> HIDE DEF top, old, trs
      <4>2. \A i \in DOMAIN trs : Entry(u, trs[i], top)
        BY <3>2, <3>3, <4>1, EntriesAdded
      <4> QED
        BY <4>2 DEF top, trs
    <3>4. CASE m.method = "BYE" /\ \E s \in Seq(Transactions) : /\ Added(s, d.trs, "in", m)
                                                                /\ Finished(e.trs, s, "in", m, "2xx")
      <4>1. PICK s \in Seq(Transactions) : Added(s, d.trs, "in", m) /\ Finished(e.trs, s, "in", m, "2xx")
        BY <3>4
      <4> DEFINE trs == e.trs
                 n == Len(old) + 1
      <4>2. Added(s, old, "in", m) /\ Finished(trs, s, "in", m, "2xx")
        BY <4>1
      <4> HIDE DEF top, old, trs
      <4>3. ASSUME NEW i \in DOMAIN trs PROVE Entry(u, trs[i], top)
        <5>1. i \in DOMAIN s /\ trs[i] = IF Waits(s[i], "in", m) THEN Final(s[i], "2xx") ELSE s[i]
          BY <4>2, <4>3 DEF Finished
        <5>2. "2xx" \in Text /\ s[i] \in Transactions
          BY <5>1 DEF Text
        <5>3. CASE i \in DOMAIN old
          <6>1. s[i] = old[i] /\ Entry(u, s[i], top)
            BY <3>2, <4>2, <5>3 DEF Added
          <6>2. Waits(s[i], "in", m) => Entry(u, Final(s[i], "2xx"), top)
            <7>1. SUFFICES ASSUME Waits(s[i], "in", m) PROVE Entry(u, Final(s[i], "2xx"), top)
              OBVIOUS
            <7>2. s[i].st = "open" /\ s[i].dir = "in"
              BY <7>1 DEF Waits
            <7> QED
              BY <3>2, <5>2, <6>1, <7>2, EntryFinal
          <6> QED
            BY <5>1, <6>1, <6>2
        <5>4. CASE i \notin DOMAIN old
          <6>1. s[i].dir = "in" /\ s[i].st = "open" /\ s[i].code = "none" /\ s[i].req = m
            BY <4>2, <5>1, <5>4 DEF Added
          <6>2. trs[i] = Final(s[i], "2xx")
            BY <5>1, <6>1 DEF Waits
          <6>3. Final(s[i], "2xx").dir = "in" /\ Final(s[i], "2xx").st = "done" /\ Final(s[i], "2xx").code = "none"
            BY <5>2, <6>1, FinalFacts
          <6> QED
            BY <6>2, <6>3 DEF Entry, Live
        <5> QED
          BY <5>3, <5>4
      <4> QED
        BY <4>3 DEF top, trs
    <3> QED
      BY <1>1, <3>1, <3>3, <3>4
  <2>3. \A i \in DOMAIN user'[u].trs : Entry(u, user'[u].trs[i], Top(u)')
    BY <1>11, <2>2
  <2> QED
    BY <1>1, <2>3, EntriesStep DEF Numbers
<1>13. Counts'
  <2>1. /\ d.dlg = "none" => d.rcseq = -1 /\ built[u] = Nothing
        /\ d.dlg # "none" => d.lcseq >= 20
        /\ d.rcseq <= Top(Peer(u))
        /\ built[u] # Nothing => built[u].from = u /\ built[u].tag /\ ~built[u].retry /\ built[u].method # "BYE"
    BY DEF Numbers, Counts
  <2>2. e.dlg = "none" <=> d.dlg = "none"
    BY <1>1, <1>7 DEF Usable
  <2>3. e.rcseq <= Top(Peer(u)) /\ (e.dlg = "none" => e.rcseq = -1)
    BY <1>1, <1>5, <2>1, <2>2 DEF Usable
  <2>4. Top(u) <= Top(u)'
    BY <1>11
  <2> QED
    BY <1>1, <2>1, <2>2, <2>3, <2>4, CountsStep DEF Numbers
<1>14. Carried' /\ Pristine' /\ BuiltAbove'
  <2>1. \A x \in net' \ net : x.kind = "response" /\ x.code # "401"
    BY <1>9
  <2> QED
    BY <1>1, <1>6, <2>1, CarriedStep, PristineAfter DEF Numbers, BuiltAbove
<1>15. Ordered(u)' /\ ByeLast(u)'
  <2>1. Ordered(u) /\ ByeLast(u) /\ Top(u) <= Top(u)' /\ user'[Peer(u)].rcseq = user[Peer(u)].rcseq
        /\ (d.dlg = "gone" => e.dlg = "gone") /\ built'[u] = built[u]
        /\ (built[u] # Nothing => built[u].from = u)
    BY <1>1, <1>2, <1>11 DEF Numbers, Counts
  <2> QED
    BY <1>1, <1>9, <2>1, OrderedSame
<1>16. Ordered(Peer(u))' /\ ByeLast(Peer(u))'
  <2> DEFINE v == Peer(u)
  <2>1. /\ Ordered(v) /\ ByeLast(v) /\ Top(v) <= Top(v)' /\ v \in User
        /\ user'[Peer(v)].rcseq \in {user[Peer(v)].rcseq, m.cseq}
        /\ user'[v].dlg = user[v].dlg
    BY <1>1, <1>2, <1>11 DEF Numbers
  <2>2. m \in Asks(v) /\ m \notin Asks(v)' /\ Asks(v)' \subseteq Asks(v)
    BY <1>9, <1>10 DEF Asks
  <2>3. built'[v] # Nothing => built'[v] \notin net'
    <3>1. built[v].kind = "request"
      BY <1>2 DEF TypeOK, Requests
    <3>2. built[v] # Nothing => built[v] \notin net
      BY <2>1 DEF Ordered
    <3> QED
      BY <1>1, <1>9, <3>1, <3>2
  <2> HIDE DEF v
  <2> QED
    BY <1>1, <2>1, <2>2, <2>3, OrderedTaken DEF v
<1>17. IgnoredOnlyByRetry'
  <2>1. CASE verdict # "ignored"
    BY <1>1, <2>1, IgnoredStep DEF Numbers
  <2>2. CASE verdict = "ignored"
    <3> DEFINE v == Peer(u)
    <3>1. m \in Asks(v) /\ m \in Pending(v) /\ m.cseq = user[Peer(v)].rcseq
      BY <1>2, <1>8, <2>2 DEF Pending, Asks
    <3>2. <<v, m.cseq>> \in seen.retried
      BY <1>2, <3>1 DEF Numbers, Ordered
    <3>3. m.method # "BYE"
      <4>1. ByeLast(v) /\ user[Peer(v)].rcseq \in Int
        BY <1>2, <1>3 DEF Numbers
      <4> QED
        BY <1>3, <3>1, <4>1 DEF ByeLast
    <3> QED
      BY <1>1, <2>2, <3>2, <3>3 DEF Numbers, IgnoredOnlyByRetry
  <2> QED
    BY <2>1, <2>2
<1> QED
  BY <1>2, <1>12, <1>13, <1>14, <1>15, <1>16, <1>17 DEF Numbers

LEMMA NumbersResponse ==
  ASSUME TypeOK, Numbers, NEW u \in User, NEW r \in net, r.from = Peer(u), r.kind = "response", RcvResponse(u, r)
  PROVE  Numbers'
<1> DEFINE d == user[u]
           e == user'[u]
           a == Answered(d, r)
           waiting == {i \in DOMAIN d.trs : Waits(d.trs[i], "out", r)}
<1>1. /\ TypeOK'
      /\ r \in Responses /\ net' = net \ {r} /\ chain' = chain /\ built' = built
      /\ seen'.retried = seen.retried /\ seen'.ignored = seen.ignored
      /\ \A v \in User : v # u => user'[v] = user[v]
      /\ \/ /\ waiting = {} /\ user' = user
         \/ /\ waiting # {}
            /\ e.dlg = a.dlg /\ e.lcseq = a.lcseq /\ e.rcseq = a.rcseq
            /\ IF r.code = "1xx" THEN e.trs = d.trs ELSE Finished(e.trs, d.trs, "out", r, r.code)
  BY ResponseEffect
<1>2. /\ d \in Dialogs /\ d.trs \in Seq(Transactions) /\ r.code \in Text /\ r.cseq \in Nat
      /\ \A i \in DOMAIN d.trs : d.trs[i].req.cseq \in Nat
  BY <1>1, DialogFacts DEF Responses
<1>3. \A i \in DOMAIN d.trs : Entry(u, d.trs[i], Top(u))
  BY DEF Numbers, Entries
<1>4. AllTagged
  BY Started DEF Numbers
<1>5. Top(u) \in Nat
  BY TopInt
<1>6. /\ d.dlg = "none" => d.rcseq = -1
      /\ d.dlg # "none" => d.lcseq >= 20
  BY DEF Numbers, Counts
<1>7. CASE waiting = {} /\ user' = user
  <2>1. Top(u)' = Top(u)
    BY <1>7 DEF Top
  <2>2. Top(u) <= Top(u)' /\ \A i \in DOMAIN user'[u].trs : Entry(u, user'[u].trs[i], Top(u)')
    BY <1>3, <1>5, <1>7, <2>1
  <2> QED
    BY <1>1, <1>4, <1>6, <1>7, <2>2, NumbersQuiet
<1>8. CASE /\ waiting # {}
           /\ e.dlg = a.dlg /\ e.lcseq = a.lcseq /\ e.rcseq = a.rcseq
           /\ IF r.code = "1xx" THEN e.trs = d.trs ELSE Finished(e.trs, d.trs, "out", r, r.code)
  <2>1. PICK i \in DOMAIN d.trs : Waits(d.trs[i], "out", r)
    BY <1>8
  <2>2. d.trs[i].req.cseq = r.cseq /\ d.trs[i].req.cseq <= Top(u) /\ Twenty(d.trs[i].req)
    BY <1>3, <2>1 DEF Entry, Waits, Live
  <2>3. d.dlg = "none" => r.cseq = 20
    BY <1>2, <2>2 DEF Twenty, Top
  <2>4. /\ a.dlg = "none" => d.dlg = "none"
        /\ d.dlg = "gone" => a.dlg = "gone"
        /\ d.dlg # "none" => a.lcseq = d.lcseq /\ a.dlg # "none"
        /\ d.dlg = "none" => a.lcseq \in {d.lcseq, r.cseq} /\ (a.dlg # "none" => a.lcseq = r.cseq)
        /\ a.rcseq = IF d.dlg = "none" THEN IF a.rcseq = -1 THEN -1 ELSE d.rcseq ELSE d.rcseq
    <3>1. CASE r.method # "INVITE"
      <4>1. a = d
        BY <3>1 DEF Answered
      <4> HIDE DEF a
      <4> QED
        BY <4>1
    <3>2. CASE r.method = "INVITE"
      <4>1. a = InviteAnswered(d, r)
        BY <3>2 DEF Answered
      <4> HIDE DEF a, d
      <4> QED
        BY <1>1, <1>2, <4>1, InviteAnsweredFacts
    <3> QED
      BY <3>1, <3>2
  <2> HIDE DEF a
  <2>5. Top(u)' = Top(u)
    BY <1>8, <2>3, <2>4 DEF Top
  <2>6. e.rcseq = d.rcseq
    BY <1>6, <1>8, <2>4
  <2>7. \A j \in DOMAIN e.trs : Entry(u, e.trs[j], Top(u))
    <3>1. CASE r.code = "1xx"
      BY <1>3, <1>8, <3>1
    <3>2. CASE r.code # "1xx"
      <4>1. \A j \in DOMAIN d.trs : Waits(d.trs[j], "out", r) /\ r.code = "401" /\ d.trs[j].dir = "out"
                                    => d.trs[j].req.method # "BYE" /\ d.trs[j].req.tag
        <5> TAKE j \in DOMAIN d.trs
        <5> HAVE Waits(d.trs[j], "out", r) /\ r.code = "401" /\ d.trs[j].dir = "out"
        <5>1. r.cseq > 20 /\ r.method # "BYE"
          BY DEF Numbers, Carried
        <5>2. d.trs[j].req.cseq = r.cseq /\ d.trs[j].req.method = r.method /\ Twenty(d.trs[j].req)
          BY <1>3 DEF Entry, Waits, Live
        <5> QED
          BY <1>2, <5>1, <5>2 DEF Twenty
      <4> DEFINE top == Top(u)
                 old == d.trs
                 trs == e.trs
                 code == r.code
      <4>2. /\ top \in Int /\ top <= top /\ old \in Seq(Transactions) /\ code \in Text
            /\ \A j \in DOMAIN old : Entry(u, old[j], top)
            /\ Finished(trs, old, "out", r, code)
            /\ \A j \in DOMAIN old : Waits(old[j], "out", r) /\ code = "401" /\ old[j].dir = "out"
                                     => old[j].req.method # "BYE" /\ old[j].req.tag
        BY <1>2, <1>3, <1>5, <1>8, <3>2, <4>1
      <4> HIDE DEF top, old, trs, code
      <4>3. \A j \in DOMAIN trs : Entry(u, trs[j], top)
        BY <4>2, EntriesFinished
      <4> QED
        BY <4>3 DEF top, trs
    <3> QED
      BY <3>1, <3>2
  <2>8. Top(u) <= Top(u)' /\ \A j \in DOMAIN user'[u].trs : Entry(u, user'[u].trs[j], Top(u)')
    BY <1>5, <2>5, <2>7
  <2>9. /\ user[u].dlg = "gone" => user'[u].dlg = "gone"
        /\ user'[u].dlg = "none" => user[u].dlg = "none"
        /\ user'[u].dlg # "none" => user'[u].lcseq >= 20
        /\ user'[u].rcseq = user[u].rcseq
    BY <1>6, <1>8, <2>3, <2>4, <2>6
  <2>10. \A m \in net' : m \in net
    BY <1>1
  <2> HIDE DEF d, e, waiting
  <2> QED
    BY <1>1, <1>4, <2>8, <2>9, <2>10, NumbersQuiet
<1> QED
  BY <1>1, <1>7, <1>8

LEMMA NumbersStep ==
  ASSUME TypeOK, Numbers, [Next]_vars
  PROVE  Numbers'
<1>1. CASE UNCHANGED vars
  BY <1>1 DEF vars, Numbers, Entries, Counts, BuiltAbove, Carried, Ordered, ByeLast, Pristine, Pending, Asks,
              IgnoredOnlyByRetry, Top
<1>2. CASE Next
  BY <1>2, Steps, NumbersBuild, NumbersSend, NumbersTerminate, NumbersMove, NumbersAnswerInvite,
     NumbersAnswerOther, NumbersRetry, NumbersTimer, NumbersNewInvite, NumbersRequest, NumbersResponse, Zenon
<1> QED
  BY <1>1, <1>2

LEMMA NumbersInit ==
  ASSUME Init
  PROVE  Numbers
<1>1. PICK m \in Requests :
            /\ TypeOK
            /\ m.kind = "request" /\ m.from = "caller" /\ m.method = "INVITE" /\ m.cseq = 20 /\ ~m.retry
            /\ ~m.tag /\ m.contact = Address("caller", 0) /\ m.uri = Address("callee", 0) /\ m.routes = <<>>
            /\ net = {m}
            /\ user["callee"] = NoDialog
            /\ Added(user["caller"].trs, <<>>, "out", m) /\ Len(user["caller"].trs) = 1
            /\ user["caller"].dlg = "none" /\ user["caller"].lcseq = 0 /\ user["caller"].rcseq = -1
            /\ user["caller"].refresher = -1 /\ user["caller"].contact = 0
            /\ built = [u \in User |-> Nothing]
            /\ seen.retried = {} /\ seen.ignored = {} /\ seen.met = [u \in User |-> 0]
            /\ ~seen.spoilt /\ ~seen.doubled
  BY InitFacts
<1>2. \A u \in User : user[u].dlg = "none" /\ user[u].rcseq = -1 /\ built[u] = Nothing /\ Top(u) = 20
  BY <1>1, NewDialog DEF User, Top
<1>3. Entries
  <2> SUFFICES ASSUME NEW u \in User, NEW i \in DOMAIN user[u].trs PROVE Entry(u, user[u].trs[i], 20)
    BY <1>2 DEF Entries
  <2>1. DOMAIN <<>> = {} /\ Len(<<>>) = 0
    OBVIOUS
  <2>2. CASE u = "caller"
    BY <1>1, <2>1, <2>2 DEF Added, Entry, Live, Twenty
  <2>3. CASE u = "callee"
    BY <1>1, <2>1, <2>3, NewDialog
  <2> QED
    BY <2>2, <2>3 DEF User
<1>4. Counts /\ BuiltAbove
  <2>1. \A u \in User : Peer(u) \in User
    BY Sides
  <2> QED
    BY <1>2, <2>1 DEF Counts, BuiltAbove
<1>5. \A u \in User : Pending(u) \subseteq {m} /\ Asks(u) \subseteq {m}
  BY <1>1, <1>2 DEF Pending, Asks
<1>6. \A u \in User : Ordered(u) /\ ByeLast(u)
  <2> TAKE u \in User
  <2>1. user[Peer(u)].rcseq = -1
    BY <1>2, Sides
  <2> QED
    BY <1>1, <1>2, <1>5, <2>1 DEF Ordered, ByeLast
<1>7. Carried /\ Pristine /\ IgnoredOnlyByRetry
  BY <1>1 DEF Carried, Pristine, IgnoredOnlyByRetry
<1> QED
  BY <1>3, <1>4, <1>6, <1>7 DEF Numbers

\* A request is dropped as a copy only when a retry with credentials carries its number,
\* and a BYE never, however many requests are built, refused and sent again.
THEOREM OnlyRetriesIgnored == Spec => []IgnoredOnlyByRetry
<1>1. Init => TypeOK /\ Numbers
  BY InitFacts, NumbersInit
<1>2. TypeOK /\ Numbers /\ [Next]_vars => TypeOK' /\ Numbers'
  BY TypeStep, NumbersStep
<1>3. Numbers => IgnoredOnlyByRetry
  BY DEF Numbers
<1> QED
  BY <1>1, <1>2, <1>3, PTL DEF Spec

-----------------------------------------------------------------------------
(* One INVITE of each side at a time *)

Inviting(t, dir) == t.dir = dir /\ t.st = "open" /\ t.req.method = "INVITE"
Opens(s, dir) == {i \in DOMAIN s : Inviting(s[i], dir)}

\* The INVITEs of a side that have not come in yet, and the final answers to them.
Asked(u) == {m \in net : m.kind = "request" /\ m.from = u /\ m.method = "INVITE"}
Finals(u) == {r \in net : r.kind = "response" /\ r.from = Peer(u) /\ r.method = "INVITE" /\ r.code # "1xx"}

\* An INVITE is on its way, or waits at the other side, or its answer is on its way; its
\* sender waits for it all the time.
Stage(u) ==
    LET outs == Opens(user[u].trs, "out")
        ins == Opens(user[Peer(u)].trs, "in")
    IN /\ \A m \in Asked(u) : \E i \in outs : user[u].trs[i].req = m
       /\ \A j \in ins : \E i \in outs : user[u].trs[i].req = user[Peer(u)].trs[j].req
       /\ \A r \in Finals(u) : \E i \in outs : user[u].trs[i].req.cseq = r.cseq /\ user[u].trs[i].req.retry = r.retry
       /\ \A m \in Asked(u) : ins = {} /\ Finals(u) = {} /\ \A x \in Asked(u) : x = m
       /\ \A j \in ins : Finals(u) = {} /\ \A k \in ins : k = j
       /\ \A r \in Finals(u) : \A x \in Finals(u) : x = r

\* An open INVITE that went out is the newest one of either direction.
Latest(u) == \A i \in Opens(user[u].trs, "out"), j \in DOMAIN user[u].trs :
                user[u].trs[j].req.method = "INVITE" => j <= i

\* The other side has taken the INVITE, and refuses it not.
Taken(u) == \/ Opens(user[Peer(u)].trs, "in") # {}
            \/ \E r \in Finals(u) : r.code = "2xx"

Exchange == ~seen.doubled => \A u \in User : Stage(u) /\ Latest(u) /\ ~(Taken(u) /\ Taken(Peer(u)))

SameOpens(s2, s) ==
    /\ \A dir \in {"in", "out"} : /\ Opens(s2, dir) = Opens(s, dir)
                                  /\ \A i \in Opens(s, dir) : s2[i].req = s[i].req
    /\ \A j \in DOMAIN s2 : s2[j].req.method = "INVITE" => j \in DOMAIN s /\ s[j].req.method = "INVITE"

LEMMA FinishedOpens ==
  ASSUME NEW s \in Seq(Transactions), NEW s2, NEW dir \in {"in", "out"}, NEW m, NEW code \in Text, Finished(s2, s, dir, m, code)
  PROVE  /\ \A j \in DOMAIN s2 : j \in DOMAIN s /\ s2[j].dir = s[j].dir /\ s2[j].req.method = s[j].req.method
         /\ \A d \in {"in", "out"} : /\ Opens(s2, d) = {i \in Opens(s, d) : ~Waits(s[i], dir, m)}
                                     /\ \A i \in Opens(s2, d) : s2[i] = s[i]
         /\ m.method # "INVITE" => SameOpens(s2, s)
<1>1. \A j \in DOMAIN s : /\ s[j] \in Transactions
                          /\ s2[j] = IF Waits(s[j], dir, m) THEN Final(s[j], code) ELSE s[j]
                          /\ Final(s[j], code).dir = s[j].dir /\ Final(s[j], code).st = "done"
                          /\ Final(s[j], code).req.method = s[j].req.method
  BY FinalFacts DEF Finished
<1>2. \A j \in DOMAIN s2 : j \in DOMAIN s /\ s2[j].dir = s[j].dir /\ s2[j].req.method = s[j].req.method
  BY <1>1 DEF Finished
<1>3. ASSUME NEW d \in {"in", "out"}
      PROVE  /\ Opens(s2, d) = {i \in Opens(s, d) : ~Waits(s[i], dir, m)}
             /\ \A i \in Opens(s2, d) : s2[i] = s[i]
  <2>1. DOMAIN s2 = DOMAIN s
    BY DEF Finished
  <2>2. \A j \in DOMAIN s : Inviting(s2[j], d) <=> Inviting(s[j], d) /\ ~Waits(s[j], dir, m)
    BY <1>1 DEF Inviting, Waits
  <2>3. \A j \in DOMAIN s : Inviting(s2[j], d) => s2[j] = s[j]
    BY <1>1 DEF Inviting
  <2> QED
    BY <2>1, <2>2, <2>3 DEF Opens
<1>4. m.method # "INVITE" => \A d \in {"in", "out"} : \A i \in Opens(s, d) : ~Waits(s[i], dir, m)
  BY DEF Waits, Opens, Inviting
<1> QED
  BY <1>2, <1>3, <1>4 DEF SameOpens

LEMMA AddedOpens ==
  ASSUME NEW s \in Seq(Transactions), NEW s2, NEW dir \in {"in", "out"}, NEW m, Added(s2, s, dir, m)
  PROVE  LET n == Len(s) + 1
         IN /\ \A d \in {"in", "out"} :
                  /\ Opens(s2, d) = Opens(s, d) \cup (IF d = dir /\ m.method = "INVITE" THEN {n} ELSE {})
                  /\ \A i \in Opens(s, d) : s2[i] = s[i]
            /\ n \in DOMAIN s2 /\ s2[n].req = m /\ n \notin DOMAIN s
            /\ \A j \in DOMAIN s2 : j = n \/ (j \in DOMAIN s /\ s2[j] = s[j] /\ j < n)
            /\ m.method # "INVITE" => SameOpens(s2, s)
<1> DEFINE n == Len(s) + 1
<1>1. /\ DOMAIN s2 = DOMAIN s \cup {n} /\ n \notin DOMAIN s
      /\ s2[n].dir = dir /\ s2[n].st = "open" /\ s2[n].req = m
      /\ \A i \in DOMAIN s : s2[i] = s[i] /\ i < n
  BY DEF Added
<1> HIDE DEF n
<1>2. \A d \in {"in", "out"} :
         /\ Opens(s2, d) = Opens(s, d) \cup (IF d = dir /\ m.method = "INVITE" THEN {n} ELSE {})
         /\ \A i \in Opens(s, d) : s2[i] = s[i]
  BY <1>1 DEF Opens, Inviting
<1>3. m.method # "INVITE" => SameOpens(s2, s)
  BY <1>1, <1>2 DEF SameOpens
<1> QED
  BY <1>1, <1>2, <1>3 DEF n

LEMMA SameOpensTrans ==
  ASSUME NEW s, NEW s2, NEW s3, SameOpens(s2, s), SameOpens(s3, s2)
  PROVE  SameOpens(s3, s)
  BY DEF SameOpens

LEMMA SameOpensRefl ==
  ASSUME NEW s
  PROVE  SameOpens(s, s)
  BY DEF SameOpens

\* Nothing happens to an INVITE, but that one may be dropped, or a final answer.
LEMMA ExchangeQuiet ==
  ASSUME Exchange, ~seen'.doubled => ~seen.doubled,
         \A v \in User : SameOpens(user'[v].trs, user[v].trs),
         \A m \in net' : m.method = "INVITE" /\ (m.kind = "request" \/ m.code # "1xx") => m \in net
  PROVE  Exchange'
<1> SUFFICES ASSUME ~seen'.doubled, NEW u \in User
             PROVE  Stage(u)' /\ Latest(u)' /\ ~(Taken(u)' /\ Taken(Peer(u))')
  BY DEF Exchange
<1>1. Stage(u) /\ Latest(u) /\ ~(Taken(u) /\ Taken(Peer(u)))
  BY DEF Exchange
<1>2. Peer(u) \in User /\ Peer(Peer(u)) = u
  BY Sides
<1>3. \A v \in User : Asked(v)' \subseteq Asked(v) /\ Finals(v)' \subseteq Finals(v)
  BY DEF Asked, Finals
<1>4. \A v \in User : \A dir \in {"in", "out"} :
          /\ Opens(user'[v].trs, dir) = Opens(user[v].trs, dir)
          /\ \A i \in Opens(user[v].trs, dir) : user'[v].trs[i].req = user[v].trs[i].req
  BY DEF SameOpens
<1>5. /\ Opens(user'[u].trs, "out") = Opens(user[u].trs, "out")
      /\ \A i \in Opens(user[u].trs, "out") : user'[u].trs[i].req = user[u].trs[i].req
      /\ Opens(user'[Peer(u)].trs, "in") = Opens(user[Peer(u)].trs, "in")
      /\ \A i \in Opens(user[Peer(u)].trs, "in") : user'[Peer(u)].trs[i].req = user[Peer(u)].trs[i].req
      /\ Opens(user'[u].trs, "in") = Opens(user[u].trs, "in")
  BY <1>2, <1>4
<1>6. Stage(u)'
  BY <1>1, <1>2, <1>3, <1>5 DEF Stage
<1>7. Latest(u)'
  BY <1>1, <1>5 DEF Latest, SameOpens
<1>8. (Taken(u)' => Taken(u)) /\ (Taken(Peer(u))' => Taken(Peer(u)))
  BY <1>2, <1>3, <1>5 DEF Taken
<1> QED
  BY <1>1, <1>6, <1>7, <1>8

\* A side with an INVITE out: it is the last one.
LEMMA OutIsNewest ==
  ASSUME TypeOK, NEW u \in User, Latest(u), NEW i \in Opens(user[u].trs, "out")
  PROVE  /\ Newest(user[u], "out", "INVITE") = i /\ i # 0
         /\ Newest(user[u], "in", "INVITE") <= i
         /\ _eXosip_find_last_out_invite(user[u]) = user[u].trs[i]
         /\ user[u].trs[i].st = "open"
<1> DEFINE d == user[u]
           n == Newest(d, "out", "INVITE")
           k == Newest(d, "in", "INVITE")
<1>1. d \in Dialogs /\ Len(d.trs) \in Nat /\ DOMAIN d.trs = 1 .. Len(d.trs)
  BY DialogFacts
<1>2. i \in DOMAIN d.trs /\ d.trs[i].dir = "out" /\ d.trs[i].req.method = "INVITE" /\ d.trs[i].st = "open"
  BY DEF Opens, Inviting
<1>3. /\ n \in 0 .. Len(d.trs)
      /\ n # 0 => n \in DOMAIN d.trs /\ d.trs[n].dir = "out" /\ d.trs[n].req.method = "INVITE"
      /\ \A j \in DOMAIN d.trs : d.trs[j].dir = "out" /\ d.trs[j].req.method = "INVITE" => j <= n
  BY <1>1, NewestFacts
<1>4. /\ k \in 0 .. Len(d.trs)
      /\ k # 0 => k \in DOMAIN d.trs /\ d.trs[k].req.method = "INVITE"
  BY <1>1, NewestFacts
<1>5. \A j \in DOMAIN d.trs : d.trs[j].req.method = "INVITE" => j <= i
  BY DEF Latest
<1>6. _eXosip_find_last_out_invite(d) = Nth(d, n)
  BY DEF _eXosip_find_last_out_invite
<1> HIDE DEF n, k
<1>7. n = i /\ i # 0 /\ k <= i
  BY <1>1, <1>2, <1>3, <1>4, <1>5
<1>8. Nth(d, i) = d.trs[i]
  BY <1>7 DEF Nth
<1> QED
  BY <1>2, <1>6, <1>7, <1>8 DEF n, k

\* What is looked at before an INVITE is built or sent: none of this side is open.
LEMMA MayInvite ==
  ASSUME TypeOK, NEW u \in User, Latest(u), \E t \in FindLast(user[u], "INVITE") : MayFollow(t)
  PROVE  Opens(user[u].trs, "out") = {}
<1> SUFFICES ASSUME NEW i \in Opens(user[u].trs, "out") PROVE FALSE
  OBVIOUS
<1> DEFINE n == Newest(user[u], "out", "INVITE")
           k == Newest(user[u], "in", "INVITE")
<1>1. n = i /\ i # 0 /\ k <= i /\ user[u].trs[i].st = "open"
  BY OutIsNewest
<1>2. Nth(user[u], n) = user[u].trs[i]
  BY <1>1 DEF Nth
<1>3. i \in Nat /\ k \in Nat
  <2>1. i \in DOMAIN user[u].trs /\ DOMAIN user[u].trs = 1 .. Len(user[u].trs) /\ user[u] \in Dialogs
        /\ Len(user[u].trs) \in Nat
    BY DialogFacts DEF Opens
  <2>2. k \in 0 .. Len(user[u].trs)
    BY <2>1, NewestFacts
  <2> HIDE DEF k
  <2> QED
    BY <2>1, <2>2
<1>4. FindLast(user[u], "INVITE") =
        IF n = 0 THEN {Nth(user[u], k)}
        ELSE {Nth(user[u], n)} \cup {Nth(user[u], x) : x \in {k} \cap {j \in DOMAIN user[u].trs : j > n}}
  BY DEF FindLast
<1> HIDE DEF n, k
<1>5. ~(k > n)
  BY <1>1, <1>3
<1>6. FindLast(user[u], "INVITE") = {user[u].trs[i]}
  BY <1>1, <1>2, <1>4, <1>5
<1> QED
  BY <1>1, <1>6 DEF MayFollow

\* An INVITE is sent by a side that has none open.
LEMMA ExchangeAsk ==
  ASSUME TypeOK, Exchange, NEW u \in User, NEW m \in Requests, m.method = "INVITE", m.from = u, m.kind = "request",
         net' = net \cup {m}, \A v \in User : v # u => user'[v] = user[v],
         NEW s \in Seq(Transactions), SameOpens(s, user[u].trs), Added(user'[u].trs, s, "out", m),
         ~seen'.doubled => ~seen.doubled /\ Opens(user[u].trs, "out") = {}
  PROVE  Exchange'
<1> SUFFICES ASSUME ~seen'.doubled
             PROVE  \A v \in User : Stage(v)' /\ Latest(v)' /\ ~(Taken(v)' /\ Taken(Peer(v))')
  BY DEF Exchange
<1> DEFINE w == Peer(u)
           n == Len(s) + 1
<1>1. w \in User /\ w # u /\ Peer(w) = u /\ User = {u, w} /\ user'[w] = user[w]
  BY Sides
<1>2. Stage(u) /\ Stage(w) /\ Latest(w)
  BY <1>1 DEF Exchange
<1>3. Opens(user[u].trs, "out") = {}
  OBVIOUS
<1>4. Asked(u) = {} /\ Finals(u) = {} /\ Opens(user[w].trs, "in") = {}
  BY <1>2, <1>3 DEF Stage
<1>5. /\ \A d \in {"in", "out"} :
            /\ Opens(user'[u].trs, d) = Opens(s, d) \cup (IF d = "out" /\ m.method = "INVITE" THEN {n} ELSE {})
            /\ \A i \in Opens(s, d) : user'[u].trs[i] = s[i]
      /\ n \in DOMAIN user'[u].trs /\ user'[u].trs[n].req = m /\ n \notin DOMAIN s
      /\ \A j \in DOMAIN user'[u].trs : j = n \/ (j \in DOMAIN s /\ user'[u].trs[j] = s[j] /\ j < n)
  BY AddedOpens
<1>6. n \in Nat
  OBVIOUS
<1> HIDE DEF n
<1>7. Opens(user'[u].trs, "out") = {n}
  BY <1>3, <1>5 DEF SameOpens
<1>8. Opens(user'[u].trs, "in") = Opens(user[u].trs, "in")
      /\ \A i \in Opens(user[u].trs, "in") : user'[u].trs[i].req = user[u].trs[i].req
  BY <1>5 DEF SameOpens
<1>9. Asked(u)' = {m} /\ Asked(w)' = Asked(w) /\ Finals(u)' = {} /\ Finals(w)' = Finals(w)
  BY <1>1, <1>4 DEF Asked, Finals
<1>10. Stage(u)'
  BY <1>1, <1>4, <1>5, <1>7, <1>9 DEF Stage
<1>11. Stage(w)'
  BY <1>1, <1>2, <1>8, <1>9 DEF Stage
<1>12. Latest(u)'
  BY <1>5, <1>6, <1>7 DEF Latest
<1>13. Latest(w)'
  BY <1>1, <1>2 DEF Latest
<1>14. ~Taken(u)'
  BY <1>1, <1>4, <1>9 DEF Taken
<1> QED
  BY <1>1, <1>10, <1>11, <1>12, <1>13, <1>14

\* An INVITE is taken by a side that has none out.
LEMMA ExchangeTake ==
  ASSUME TypeOK, Exchange, NEW u \in User, NEW m \in net, m.method = "INVITE", m.from = Peer(u), m.kind = "request",
         net' = net \ {m}, \A v \in User : v # u => user'[v] = user[v],
         Added(user'[u].trs, user[u].trs, "in", m), seen'.doubled = seen.doubled,
         ~seen.doubled => Opens(user[u].trs, "out") = {}
  PROVE  Exchange'
<1> SUFFICES ASSUME ~seen.doubled
             PROVE  \A v \in User : Stage(v)' /\ Latest(v)' /\ ~(Taken(v)' /\ Taken(Peer(v))')
  BY DEF Exchange
<1> DEFINE w == Peer(u)
           n == Len(user[u].trs) + 1
<1>1. w \in User /\ w # u /\ Peer(w) = u /\ User = {u, w} /\ user'[w] = user[w]
  BY Sides
<1>2. Stage(u) /\ Stage(w) /\ Latest(w)
  BY <1>1 DEF Exchange
<1>3. Opens(user[u].trs, "out") = {}
  OBVIOUS
<1>4. Asked(u) = {} /\ Finals(u) = {} /\ Opens(user[w].trs, "in") = {}
  BY <1>2, <1>3 DEF Stage
<1>5. m \in Asked(w)
  BY <1>1 DEF Asked
<1>6. /\ \E i \in Opens(user[w].trs, "out") : user[w].trs[i].req = m
      /\ Opens(user[u].trs, "in") = {} /\ Finals(w) = {} /\ \A x \in Asked(w) : x = m
  BY <1>1, <1>2, <1>5 DEF Stage
<1>7. user[u].trs \in Seq(Transactions)
  BY DialogFacts
<1>8. /\ \A d \in {"in", "out"} :
            Opens(user'[u].trs, d) = Opens(user[u].trs, d) \cup (IF d = "in" /\ m.method = "INVITE" THEN {n} ELSE {})
      /\ n \in DOMAIN user'[u].trs /\ user'[u].trs[n].req = m
  BY <1>7, AddedOpens
<1> HIDE DEF n
<1>9. Opens(user'[u].trs, "out") = {} /\ Opens(user'[u].trs, "in") = {n}
  BY <1>3, <1>6, <1>8
<1>10. Asked(u)' = {} /\ Asked(w)' = {} /\ Finals(u)' = {} /\ Finals(w)' = {}
  <2>1. Asked(u)' \subseteq Asked(u) /\ Finals(u)' \subseteq Finals(u) /\ Finals(w)' \subseteq Finals(w)
        /\ Asked(w)' \subseteq Asked(w) /\ m \notin Asked(w)'
    BY DEF Asked, Finals
  <2> QED
    BY <1>4, <1>6, <2>1
<1>11. Stage(u)' /\ Latest(u)'
  BY <1>1, <1>4, <1>9, <1>10 DEF Stage, Latest
<1>12. Stage(w)'
  BY <1>1, <1>6, <1>8, <1>9, <1>10 DEF Stage
<1>13. Latest(w)'
  BY <1>1, <1>2 DEF Latest
<1>14. ~Taken(u)'
  BY <1>1, <1>4, <1>10 DEF Taken
<1> QED
  BY <1>1, <1>11, <1>12, <1>13, <1>14

\* An INVITE is refused when it comes in.
LEMMA ExchangeRefuse ==
  ASSUME TypeOK, Exchange, NEW u \in User, NEW m \in net, m.method = "INVITE", m.from = Peer(u), m.kind = "request",
         NEW r, r.kind = "response", r.from = u, r.method = "INVITE", r.code = "4xx", r.cseq = m.cseq, r.retry = m.retry,
         net' = (net \ {m}) \cup {r}, \A v \in User : user'[v].trs = user[v].trs,
         seen'.doubled = seen.doubled
  PROVE  Exchange'
<1> SUFFICES ASSUME ~seen.doubled
             PROVE  \A v \in User : Stage(v)' /\ Latest(v)' /\ ~(Taken(v)' /\ Taken(Peer(v))')
  BY DEF Exchange
<1> DEFINE w == Peer(u)
<1>1. w \in User /\ w # u /\ Peer(w) = u /\ User = {u, w} /\ user'[w].trs = user[w].trs /\ user'[u].trs = user[u].trs
  BY Sides
<1>2. Stage(u) /\ Stage(w) /\ Latest(w) /\ Latest(u)
  BY <1>1 DEF Exchange
<1>3. m \in Asked(w)
  BY <1>1 DEF Asked
<1>4. /\ \E i \in Opens(user[w].trs, "out") : user[w].trs[i].req = m
      /\ Opens(user[u].trs, "in") = {} /\ Finals(w) = {} /\ \A x \in Asked(w) : x = m
  BY <1>1, <1>2, <1>3 DEF Stage
<1>5. Asked(u)' = Asked(u) /\ Finals(u)' = Finals(u)
  BY <1>1 DEF Asked, Finals
<1>6. Asked(w)' = {} /\ Finals(w)' = {r}
  <2>1. Asked(w)' = Asked(w) \ {m}
    BY <1>1 DEF Asked
  <2>2. Finals(w)' = Finals(w) \cup {r}
    BY <1>1 DEF Finals
  <2> QED
    BY <1>4, <2>1, <2>2
<1>7. Stage(u)' /\ Latest(u)' /\ Latest(w)'
  BY <1>1, <1>2, <1>5 DEF Stage, Latest
<1>8. Stage(w)'
  BY <1>1, <1>4, <1>6 DEF Stage
<1>9. ~Taken(w)'
  BY <1>1, <1>4, <1>6 DEF Taken
<1> QED
  BY <1>1, <1>7, <1>8, <1>9

\* The INVITE that waits is answered.
LEMMA ExchangeAnswer ==
  ASSUME TypeOK, Exchange, NEW u \in User, NEW i \in Opens(user[u].trs, "in"), NEW code \in Text, code # "1xx",
         NEW r, r.kind = "response", r.from = u, r.method = "INVITE", r.code = code,
         r.cseq = user[u].trs[i].req.cseq, r.retry = user[u].trs[i].req.retry,
         NEW s \in Seq(Transactions), Finished(s, user[u].trs, "in", user[u].trs[i].req, code), SameOpens(user'[u].trs, s),
         net \cup {r} \subseteq net', \A x \in net' : x.method = "INVITE" => x \in net \cup {r},
         \A v \in User : v # u => user'[v] = user[v], seen'.doubled = seen.doubled
  PROVE  Exchange'
<1> SUFFICES ASSUME ~seen.doubled
             PROVE  \A v \in User : Stage(v)' /\ Latest(v)' /\ ~(Taken(v)' /\ Taken(Peer(v))')
  BY DEF Exchange
<1> DEFINE w == Peer(u)
           q == user[u].trs[i].req
<1>1. w \in User /\ w # u /\ Peer(w) = u /\ User = {u, w} /\ user'[w] = user[w]
  BY Sides
<1>2. Stage(u) /\ Stage(w) /\ Latest(w) /\ Latest(u) /\ ~(Taken(u) /\ Taken(w))
  BY <1>1 DEF Exchange
<1>3. /\ \E k \in Opens(user[w].trs, "out") : user[w].trs[k].req = q
      /\ Finals(w) = {} /\ Asked(w) = {} /\ \A k \in Opens(user[u].trs, "in") : k = i
  BY <1>1, <1>2 DEF Stage
<1>4. Asked(u)' = Asked(u) /\ Finals(u)' = Finals(u)
  BY <1>1 DEF Asked, Finals
<1>5. Asked(w)' = {} /\ Finals(w)' = {r}
  BY <1>1, <1>3 DEF Asked, Finals
<1>6. user[u].trs \in Seq(Transactions)
  BY DialogFacts
<1>7. /\ \A j \in DOMAIN s : j \in DOMAIN user[u].trs /\ s[j].req.method = user[u].trs[j].req.method
      /\ \A d \in {"in", "out"} : /\ Opens(s, d) = {k \in Opens(user[u].trs, d) : ~Waits(user[u].trs[k], "in", q)}
                                  /\ \A k \in Opens(s, d) : s[k] = user[u].trs[k]
  BY <1>6, FinishedOpens
<1>8. Opens(user'[u].trs, "in") = {}
  <2>1. Waits(user[u].trs[i], "in", q)
    BY DEF Waits, Opens, Inviting
  <2>2. Opens(s, "in") = {}
    BY <1>3, <1>7, <2>1
  <2> QED
    BY <2>2 DEF SameOpens
<1>9. Opens(user'[u].trs, "out") = Opens(user[u].trs, "out")
      /\ \A k \in Opens(user[u].trs, "out") : user'[u].trs[k].req = user[u].trs[k].req
  <2>1. \A k \in Opens(user[u].trs, "out") : ~Waits(user[u].trs[k], "in", q)
    BY DEF Waits, Opens, Inviting
  <2>2. Opens(s, "out") = Opens(user[u].trs, "out") /\ \A k \in Opens(s, "out") : s[k] = user[u].trs[k]
    BY <1>7, <2>1
  <2> QED
    BY <2>2 DEF SameOpens
<1>10. Stage(u)'
  BY <1>1, <1>2, <1>4, <1>9 DEF Stage
<1>11. Stage(w)'
  BY <1>1, <1>3, <1>5, <1>8 DEF Stage
<1>12. Latest(w)'
  BY <1>1, <1>2 DEF Latest
<1>13. Latest(u)'
  <2>1. \A j \in DOMAIN user'[u].trs : user'[u].trs[j].req.method = "INVITE" =>
            j \in DOMAIN user[u].trs /\ user[u].trs[j].req.method = "INVITE"
    BY <1>7 DEF SameOpens
  <2> QED
    BY <1>2, <1>9, <2>1 DEF Latest
<1>14. ~Taken(u)'
  <2>1. Taken(w)
    BY <1>1 DEF Taken
  <2> QED
    BY <1>1, <1>2, <1>4, <2>1 DEF Taken
<1> QED
  BY <1>1, <1>10, <1>11, <1>12, <1>13, <1>14

\* The final answer comes in.
LEMMA ExchangeEnd ==
  ASSUME TypeOK, Exchange, NEW u \in User, NEW r \in net, r.kind = "response", r.from = Peer(u), r.method = "INVITE",
         r.code \in Text, r.code # "1xx", net' = net \ {r},
         Finished(user'[u].trs, user[u].trs, "out", r, r.code),
         \A v \in User : v # u => user'[v] = user[v], seen'.doubled = seen.doubled
  PROVE  Exchange'
<1> SUFFICES ASSUME ~seen.doubled
             PROVE  \A v \in User : Stage(v)' /\ Latest(v)' /\ ~(Taken(v)' /\ Taken(Peer(v))')
  BY DEF Exchange
<1> DEFINE w == Peer(u)
<1>1. w \in User /\ w # u /\ Peer(w) = u /\ User = {u, w} /\ user'[w] = user[w]
  BY Sides
<1>2. Stage(u) /\ Stage(w) /\ Latest(w) /\ Latest(u)
  BY <1>1 DEF Exchange
<1>3. r \in Finals(u)
  BY DEF Finals
<1>4. Asked(u) = {} /\ Opens(user[w].trs, "in") = {} /\ \A x \in Finals(u) : x = r
  BY <1>2, <1>3 DEF Stage
<1>5. Asked(u)' = {} /\ Finals(u)' = {} /\ Asked(w)' = Asked(w) /\ Finals(w)' = Finals(w)
  <2>1. Asked(u)' = Asked(u) /\ Finals(u)' = Finals(u) \ {r} /\ Asked(w)' = Asked(w) /\ Finals(w)' = Finals(w)
    BY <1>1 DEF Asked, Finals
  <2> QED
    BY <1>4, <2>1
<1>6. user[u].trs \in Seq(Transactions)
  BY DialogFacts
<1>7. /\ \A j \in DOMAIN user'[u].trs : j \in DOMAIN user[u].trs /\ user'[u].trs[j].req.method = user[u].trs[j].req.method
      /\ \A d \in {"in", "out"} : /\ Opens(user'[u].trs, d) = {k \in Opens(user[u].trs, d) : ~Waits(user[u].trs[k], "out", r)}
                                  /\ \A k \in Opens(user'[u].trs, d) : user'[u].trs[k] = user[u].trs[k]
  BY <1>6, FinishedOpens
<1>8. Opens(user'[u].trs, "in") = Opens(user[u].trs, "in")
      /\ \A k \in Opens(user[u].trs, "in") : user'[u].trs[k].req = user[u].trs[k].req
  <2>1. \A k \in Opens(user[u].trs, "in") : ~Waits(user[u].trs[k], "out", r)
    BY DEF Waits, Opens, Inviting
  <2> QED
    BY <1>7, <2>1
<1>9. Stage(u)' /\ ~Taken(u)'
  BY <1>1, <1>4, <1>5 DEF Stage, Taken
<1>10. Stage(w)'
  BY <1>1, <1>2, <1>5, <1>8 DEF Stage
<1>11. Latest(w)'
  BY <1>1, <1>2 DEF Latest
<1>12. Latest(u)'
  BY <1>2, <1>7 DEF Latest
<1> QED
  BY <1>1, <1>9, <1>10, <1>11, <1>12

LEMMA ExchangeBuild ==
  ASSUME TypeOK, Exchange, NEW u \in User, NEW method \in Methods, Build(u, method, "none")
  PROVE  Exchange'
<1>1. /\ user'[u].trs = user[u].trs /\ net' = net /\ SameHistory
      /\ \A v \in User : v # u => user'[v] = user[v]
  BY BuildEffect
<1>2. \A v \in User : user'[v].trs = user[v].trs
  BY <1>1
<1>3. seen'.doubled = seen.doubled
  BY <1>1 DEF SameHistory
<1> QED
  BY <1>1, <1>2, <1>3, SameOpensRefl, ExchangeQuiet

LEMMA ExchangeMove ==
  ASSUME TypeOK, Exchange, NEW u \in User, eXosip_masquerade_contact(u)
  PROVE  Exchange'
<1>1. /\ user'[u].trs = user[u].trs /\ net' = net /\ SameHistory
      /\ \A v \in User : v # u => user'[v] = user[v]
  BY MoveEffect
<1>2. \A v \in User : user'[v].trs = user[v].trs
  BY <1>1
<1>3. seen'.doubled = seen.doubled
  BY <1>1 DEF SameHistory
<1> QED
  BY <1>1, <1>2, <1>3, SameOpensRefl, ExchangeQuiet

\* What is sent is no INVITE.
LEMMA ExchangeOther ==
  ASSUME TypeOK, Exchange, NEW u \in User, NEW m, m.method # "INVITE", net' = net \cup {m},
         \A v \in User : v # u => user'[v] = user[v], ~seen'.doubled => ~seen.doubled,
         SameOpens(user'[u].trs, user[u].trs)
  PROVE  Exchange'
<1>1. \A v \in User : SameOpens(user'[v].trs, user[v].trs)
  BY SameOpensRefl
<1> QED
  BY <1>1, ExchangeQuiet

LEMMA ExchangeSend ==
  ASSUME TypeOK, Numbers, Exchange, NEW u \in User, eXosip_call_send_request(u)
  PROVE  Exchange'
<1>1. /\ built[u] # Nothing /\ seen' = seen
      /\ \A v \in User : v # u => user'[v] = user[v]
      /\ \/ /\ Sends(u, user[u].lcseq, built[u])
            /\ \E t \in FindLast(user[u], built[u].method) : MayFollow(t)
         \/ user' = user /\ net' = net
  BY SendEffect
<1>2. CASE user' = user /\ net' = net
  BY <1>1, <1>2, SameOpensRefl, ExchangeQuiet
<1>3. CASE /\ Sends(u, user[u].lcseq, built[u])
           /\ \E t \in FindLast(user[u], built[u].method) : MayFollow(t)
  <2>1. Added(user'[u].trs, user[u].trs, "out", built[u]) /\ net' = net \cup {built[u]}
    BY <1>3 DEF Sends
  <2>2. built[u] \in Requests /\ user[u].trs \in Seq(Transactions)
    BY DialogFacts
  <2>3. built[u].from = u /\ built[u].kind = "request"
    BY <1>1, <2>2 DEF Numbers, Counts, Requests
  <2>4. CASE built[u].method = "INVITE"
    <3>1. ~seen'.doubled => ~seen.doubled /\ Opens(user[u].trs, "out") = {}
      BY <1>1, <1>3, <2>4, MayInvite DEF Exchange
    <3>2. SameOpens(user[u].trs, user[u].trs)
      BY SameOpensRefl
    <3> QED
      BY <1>1, <2>1, <2>2, <2>3, <2>4, <3>1, <3>2, ExchangeAsk
  <2>5. CASE built[u].method # "INVITE"
    <3>1. SameOpens(user'[u].trs, user[u].trs)
      BY <2>1, <2>2, <2>5, AddedOpens
    <3> QED
      BY <1>1, <2>1, <2>5, <3>1, ExchangeOther
  <2> QED
    BY <2>4, <2>5
<1> QED
  BY <1>1, <1>2, <1>3

LEMMA ExchangeTimer ==
  ASSUME TypeOK, Exchange, NEW u \in User, SessionTimer(u)
  PROVE  Exchange'
<1> DEFINE m == Within(u, "INVITE", user[u].lcseq + 1, "uac")
<1>1. /\ Sends(u, user[u].lcseq + 1, m)
      /\ \A v \in User : v # u => user'[v] = user[v]
      /\ \E t \in FindLast(user[u], "INVITE") : MayFollow(t)
      /\ SameHistory
  BY TimerEffect
<1>2. m \in Requests /\ m.method = "INVITE" /\ m.from = u /\ m.kind = "request"
  <2>1. user[u] \in Dialogs /\ user[u].lcseq + 1 \in Nat /\ "INVITE" \in Text /\ "uac" \in Text
    BY DialogFacts DEF Text
  <2> QED
    BY <2>1, WithinFacts
<1> HIDE DEF m
<1>3. Added(user'[u].trs, user[u].trs, "out", m) /\ net' = net \cup {m}
  BY <1>1 DEF Sends
<1>4. ~seen'.doubled => ~seen.doubled /\ Opens(user[u].trs, "out") = {}
  BY <1>1, MayInvite DEF Exchange, SameHistory
<1>5. user[u].trs \in Seq(Transactions) /\ SameOpens(user[u].trs, user[u].trs)
  BY DialogFacts, SameOpensRefl
<1> QED
  BY <1>1, <1>2, <1>3, <1>4, <1>5, ExchangeAsk

LEMMA ExchangeRetry ==
  ASSUME TypeOK, Numbers, Exchange, NEW u \in User, NEW i \in DOMAIN user[u].trs, Usable(user[u]),
         _eXosip_call_retry_request(u, i)
  PROVE  Exchange'
<1> DEFINE t == user[u].trs[i]
           again == [t.req EXCEPT !.cseq = t.req.cseq + 1, !.retry = TRUE]
<1>0. Retries(u, i)
  BY RetryEffect
<1>1. /\ t.st = "done" /\ t.code = "401"
      /\ again \in Requests /\ again.kind = "request" /\ again.from = t.req.from
      /\ again.method = t.req.method
      /\ \A v \in User : v # u => user'[v] = user[v]
      /\ net' = net \cup {again}
      /\ seen'.doubled = (seen.doubled \/ Doubles(user[u], t))
  BY <1>0, Zenon DEF Retries
<1>2. \E s \in Seq(Transactions) :
             /\ Len(s) = Len(user[u].trs) /\ DOMAIN s = DOMAIN user[u].trs
             /\ s[i].st = "done" /\ s[i].code = "none" /\ s[i].dir = t.dir /\ s[i].req = Past(t.req.method)
             /\ \A j \in DOMAIN s : j # i => s[j] = user[u].trs[j]
             /\ Added(user'[u].trs, s, "out", again)
  BY <1>0, Zenon DEF Retries
<1>3. t.req.from = u
  <2>1. Entry(u, t, Top(u))
    BY DEF Numbers, Entries
  <2>2. "401" # "none"
    OBVIOUS
  <2> QED
    BY <1>1, <2>1, <2>2 DEF Entry, Live
<1>4. Past(t.req.method).method = t.req.method
  BY DialogFacts, PastFacts
<1> HIDE DEF again
<1>5. PICK s \in Seq(Transactions) :
             /\ Len(s) = Len(user[u].trs) /\ DOMAIN s = DOMAIN user[u].trs
             /\ s[i].st = "done" /\ s[i].code = "none" /\ s[i].dir = t.dir /\ s[i].req = Past(t.req.method)
             /\ \A j \in DOMAIN s : j # i => s[j] = user[u].trs[j]
             /\ Added(user'[u].trs, s, "out", again)
  BY <1>2
<1>6. SameOpens(s, user[u].trs)
  <2>1. \A j \in DOMAIN s : j \in DOMAIN user[u].trs /\ s[j].dir = user[u].trs[j].dir /\ s[j].st = user[u].trs[j].st
                            /\ s[j].req.method = user[u].trs[j].req.method
    BY <1>1, <1>4, <1>5
  <2>2. \A dir \in {"in", "out"} : Opens(s, dir) = Opens(user[u].trs, dir)
    BY <1>5, <2>1 DEF Opens, Inviting
  <2>3. \A dir \in {"in", "out"} : \A j \in Opens(s, dir) : s[j] = user[u].trs[j]
    BY <1>5 DEF Opens, Inviting
  <2> QED
    BY <2>1, <2>2, <2>3 DEF SameOpens
<1>7. ~seen'.doubled => ~seen.doubled
  BY <1>1
<1>8. CASE t.req.method = "INVITE"
  <2>1. ~seen'.doubled => Opens(user[u].trs, "out") = {}
    BY <1>1, <1>8 DEF Doubles, Opens, Inviting
  <2> HIDE DEF t
  <2> QED
    BY <1>1, <1>3, <1>5, <1>6, <1>7, <1>8, <2>1, ExchangeAsk
<1>9. CASE t.req.method # "INVITE"
  <2>1. SameOpens(user'[u].trs, s)
    BY <1>1, <1>5, <1>9, AddedOpens
  <2>2. SameOpens(user'[u].trs, user[u].trs)
    BY <1>6, <2>1, SameOpensTrans
  <2> QED
    BY <1>1, <1>7, <1>9, <2>2, ExchangeOther
<1> QED
  BY <1>8, <1>9

LEMMA ExchangeAnswerInvite ==
  ASSUME TypeOK, Exchange, NEW u \in User, NEW code \in {"1xx", "2xx", "4xx", "401"}, NEW timer \in BOOLEAN,
         AnswerInvite(u, code, timer)
  PROVE  Exchange'
<1> DEFINE t == _eXosip_find_last_inc_invite(user[u])
           kept == Kept(t, code, timer)
           r == Respond(u, t.req, code, IF kept THEN TimerInAnswer(t.req.se).se ELSE "none",
                        IF code \in {"1xx", "2xx"} THEN RecordRoute(t.req) ELSE <<>>)
<1>1. /\ t.st = "open"
      /\ IF code = "1xx" THEN user'[u].trs = user[u].trs
         ELSE Finished(user'[u].trs, user[u].trs, "in", t.req, code)
      /\ \A v \in User : v # u => user'[v] = user[v]
      /\ r \in Responses
      /\ net' = net \cup {r}
      /\ seen'.doubled = seen.doubled
  BY AnswerInviteEffect
<1>2. /\ r.kind = "response" /\ r.from = u /\ r.method = t.req.method /\ r.code = code
      /\ r.cseq = t.req.cseq /\ r.retry = t.req.retry
  BY DEF Respond
<1>3. user[u] \in Dialogs /\ user[u].trs \in Seq(Transactions)
  BY DialogFacts
<1>4. /\ t.dir = "in" /\ t.req.method = "INVITE" /\ \E i \in DOMAIN user[u].trs : t = user[u].trs[i]
  BY <1>1, <1>3, LastInvite
<1> HIDE DEF r, t
<1>5. PICK i \in DOMAIN user[u].trs : t = user[u].trs[i]
  BY <1>4
<1>6. i \in Opens(user[u].trs, "in")
  BY <1>1, <1>4, <1>5 DEF Opens, Inviting
<1>7. CASE code = "1xx"
  <2>1. \A v \in User : user'[v].trs = user[v].trs
    BY <1>1, <1>7
  <2> QED
    BY <1>1, <1>2, <1>7, <2>1, SameOpensRefl, ExchangeQuiet
<1>8. CASE code # "1xx"
  <2>1. user'[u].trs \in Seq(Transactions)
    <3>1. TypeOK'
      BY AnswerInviteEffect, Zenon
    <3> QED
      BY <3>1 DEF TypeOK, Dialogs
  <2>2. Finished(user'[u].trs, user[u].trs, "in", user[u].trs[i].req, code)
    BY <1>1, <1>5, <1>8
  <2>3. code \in Text
    BY DEF Text
  <2>4. SameOpens(user'[u].trs, user'[u].trs)
    BY SameOpensRefl
  <2>5. net \cup {r} \subseteq net' /\ \A x \in net' : x.method = "INVITE" => x \in net \cup {r}
    BY <1>1
  <2>6. r.cseq = user[u].trs[i].req.cseq /\ r.retry = user[u].trs[i].req.retry /\ r.method = "INVITE"
    BY <1>2, <1>4, <1>5
  <2> QED
    BY <1>1, <1>2, <1>6, <1>8, <2>1, <2>2, <2>3, <2>4, <2>5, <2>6, ExchangeAnswer
<1> QED
  BY <1>7, <1>8

LEMMA ExchangeTerminate ==
  ASSUME TypeOK, Exchange, NEW u \in User, Terminate(u)
  PROVE  Exchange'
<1> DEFINE bye == Within(u, "BYE", user[u].lcseq + 1, "none")
           t == _eXosip_find_last_inc_invite(user[u])
           r == Respond(u, t.req, "4xx", "none", <<>>)
<1>1. /\ \A v \in User : v # u => user'[v] = user[v]
      /\ \/ Added(user'[u].trs, user[u].trs, "out", bye) /\ net' = net \cup {bye}
         \/ /\ t.st = "open"
            /\ \E s \in Seq(Transactions) : /\ Finished(s, user[u].trs, "in", t.req, "4xx")
                                            /\ Added(user'[u].trs, s, "out", bye)
            /\ net' = net \cup {bye} \cup {r}
      /\ seen' = seen
  BY TerminateEffect, Zenon
<1>2. bye.method = "BYE"
  BY DEF Within, Request
<1>3. /\ r.kind = "response" /\ r.from = u /\ r.method = t.req.method /\ r.code = "4xx"
      /\ r.cseq = t.req.cseq /\ r.retry = t.req.retry
  BY DEF Respond
<1>4. user[u] \in Dialogs /\ user[u].trs \in Seq(Transactions)
  BY DialogFacts
<1>5. t.st = "open" => t.dir = "in" /\ t.req.method = "INVITE" /\ \E i \in DOMAIN user[u].trs : t = user[u].trs[i]
  BY <1>4, LastInvite
<1> HIDE DEF bye, t, r
<1>6. CASE Added(user'[u].trs, user[u].trs, "out", bye) /\ net' = net \cup {bye}
  <2>1. SameOpens(user'[u].trs, user[u].trs)
    BY <1>2, <1>4, <1>6, AddedOpens
  <2> QED
    BY <1>1, <1>2, <1>6, <2>1, ExchangeOther
<1>7. CASE /\ t.st = "open"
           /\ \E s \in Seq(Transactions) : /\ Finished(s, user[u].trs, "in", t.req, "4xx")
                                           /\ Added(user'[u].trs, s, "out", bye)
           /\ net' = net \cup {bye} \cup {r}
  <2>1. PICK s \in Seq(Transactions) : /\ Finished(s, user[u].trs, "in", t.req, "4xx")
                                       /\ Added(user'[u].trs, s, "out", bye)
    BY <1>7
  <2>2. PICK i \in DOMAIN user[u].trs : t = user[u].trs[i]
    BY <1>5, <1>7
  <2>3. i \in Opens(user[u].trs, "in")
    BY <1>5, <1>7, <2>2 DEF Opens, Inviting
  <2>4. SameOpens(user'[u].trs, s)
    BY <1>2, <2>1, AddedOpens
  <2>5. net \cup {r} \subseteq net' /\ \A x \in net' : x.method = "INVITE" => x \in net \cup {r}
    BY <1>2, <1>7
  <2>6. r.cseq = user[u].trs[i].req.cseq /\ r.retry = user[u].trs[i].req.retry /\ r.method = "INVITE"
    BY <1>3, <1>5, <1>7, <2>2
  <2>7. Finished(s, user[u].trs, "in", user[u].trs[i].req, "4xx") /\ "4xx" \in Text /\ "4xx" # "1xx"
    BY <2>1, <2>2 DEF Text
  <2> QED
    BY <1>1, <1>3, <2>1, <2>3, <2>4, <2>5, <2>6, <2>7, ExchangeAnswer
<1> QED
  BY <1>1, <1>6, <1>7

LEMMA ExchangeAnswerOther ==
  ASSUME TypeOK, Exchange, NEW u \in User, NEW code \in {"2xx", "401"}, AnswerOther(u, code)
  PROVE  Exchange'
<1>1. /\ \E i \in DOMAIN user[u].trs :
               LET t == user[u].trs[i]
                   r == Respond(u, t.req, code, "none", <<>>)
               IN /\ t.dir = "in" /\ t.st = "open" /\ t.req.method # "INVITE"
                  /\ Finished(user'[u].trs, user[u].trs, "in", t.req, code)
                  /\ r \in Responses /\ net' = net \cup {r}
      /\ \A v \in User : v # u => user'[v] = user[v]
      /\ SameHistory
  BY AnswerOtherEffect
<1>2. PICK i \in DOMAIN user[u].trs :
               LET t == user[u].trs[i]
                   r == Respond(u, t.req, code, "none", <<>>)
               IN /\ t.dir = "in" /\ t.st = "open" /\ t.req.method # "INVITE"
                  /\ Finished(user'[u].trs, user[u].trs, "in", t.req, code)
                  /\ r \in Responses /\ net' = net \cup {r}
  BY <1>1
<1> DEFINE r == Respond(u, user[u].trs[i].req, code, "none", <<>>)
<1>3. r.method # "INVITE" /\ net' = net \cup {r}
  BY <1>2 DEF Respond
<1> HIDE DEF r
<1>4. code \in Text /\ user[u].trs \in Seq(Transactions)
  BY DialogFacts DEF Text
<1>5. SameOpens(user'[u].trs, user[u].trs)
  BY <1>2, <1>4, FinishedOpens
<1>6. seen'.doubled = seen.doubled
  BY <1>1 DEF SameHistory
<1> QED
  BY <1>1, <1>3, <1>5, <1>6, ExchangeOther

LEMMA ExchangeNewInvite ==
  ASSUME TypeOK, Numbers, Exchange, NEW u \in User, NEW m \in net, m.from = Peer(u), m.kind = "request", RcvNewInvite(u, m)
  PROVE  Exchange'
<1>1. /\ ~m.tag /\ Added(user'[u].trs, <<>>, "in", m)
      /\ \A v \in User : v # u => user'[v] = user[v]
      /\ net' = net \ {m} /\ seen' = seen
  BY NewInviteEffect
<1>2. u = "callee" /\ m.method = "INVITE" /\ user["callee"] = NoDialog
  BY <1>1, FirstInvite DEF Numbers
<1>3. user[u].trs = <<>>
  BY <1>2, NewDialog
<1>4. Opens(<<>>, "out") = {}
  BY DEF Opens
<1> QED
  BY <1>1, <1>2, <1>3, <1>4, ExchangeTake

LEMMA ExchangeRequest ==
  ASSUME TypeOK, Exchange, NEW u \in User, NEW m \in net, m.from = Peer(u), m.kind = "request", RcvRequest(u, m)
  PROVE  Exchange'
<1> DEFINE verdict == Verdict(user[u], m)
           no == Respond(u, m, "4xx", "none", <<>>)
           yes == Respond(u, m, "2xx", "none", <<>>)
<1>1. /\ m \in Requests
      /\ \A v \in User : v # u => user'[v] = user[v]
      /\ \/ /\ verdict \in {"4xx", "ignored"} /\ user'[u].trs = user[u].trs
            /\ net' = (net \ {m}) \cup (IF verdict = "4xx" THEN {no} ELSE {})
         \/ /\ verdict = "taken" /\ m.method # "BYE" /\ Added(user'[u].trs, user[u].trs, "in", m)
            /\ net' = net \ {m}
         \/ /\ verdict = "taken" /\ m.method = "BYE"
            /\ \E s \in Seq(Transactions) : /\ Added(s, user[u].trs, "in", m)
                                            /\ Finished(user'[u].trs, s, "in", m, "2xx")
            /\ net' = (net \ {m}) \cup {yes}
      /\ seen'.doubled = seen.doubled
  BY RequestEffect, Zenon
<1>2. /\ no.kind = "response" /\ no.from = u /\ no.method = m.method /\ no.code = "4xx" /\ no.cseq = m.cseq
      /\ no.retry = m.retry /\ yes.method = m.method
  BY DEF Respond
<1>3. user[u].trs \in Seq(Transactions)
  BY DialogFacts
<1>4. verdict = "taken" /\ m.method = "INVITE" => _eXosip_find_last_out_invite(user[u]).st # "open"
  BY DEF Verdict
<1> HIDE DEF verdict, no, yes
<1>5. CASE /\ verdict \in {"4xx", "ignored"} /\ user'[u].trs = user[u].trs
           /\ net' = (net \ {m}) \cup (IF verdict = "4xx" THEN {no} ELSE {})
  <2>1. \A v \in User : user'[v].trs = user[v].trs
    BY <1>1, <1>5
  <2>2. CASE verdict = "4xx" /\ m.method = "INVITE"
    <3>1. net' = (net \ {m}) \cup {no}
      BY <1>5, <2>2
    <3> QED
      BY <1>1, <1>2, <2>1, <2>2, <3>1, ExchangeRefuse
  <2>3. CASE ~(verdict = "4xx" /\ m.method = "INVITE")
    <3>1. \A x \in net' : x.method = "INVITE" /\ (x.kind = "request" \/ x.code # "1xx") => x \in net
      BY <1>2, <1>5, <2>3
    <3> QED
      BY <1>1, <2>1, <3>1, SameOpensRefl, ExchangeQuiet
  <2> QED
    BY <2>2, <2>3
<1>6. CASE /\ verdict = "taken" /\ m.method # "BYE" /\ Added(user'[u].trs, user[u].trs, "in", m)
           /\ net' = net \ {m}
  <2>1. CASE m.method = "INVITE"
    <3>1. ~seen.doubled => Opens(user[u].trs, "out") = {}
      <4> SUFFICES ASSUME ~seen.doubled, NEW i \in Opens(user[u].trs, "out") PROVE FALSE
        OBVIOUS
      <4>1. Latest(u)
        BY DEF Exchange
      <4>2. _eXosip_find_last_out_invite(user[u]) = user[u].trs[i] /\ user[u].trs[i].st = "open"
        BY <4>1, OutIsNewest
      <4> QED
        BY <1>4, <1>6, <2>1, <4>2
    <3> QED
      BY <1>1, <1>6, <2>1, <3>1, ExchangeTake
  <2>2. CASE m.method # "INVITE"
    <3>1. SameOpens(user'[u].trs, user[u].trs)
      BY <1>3, <1>6, <2>2, AddedOpens
    <3>2. \A v \in User : SameOpens(user'[v].trs, user[v].trs)
      BY <1>1, <3>1, SameOpensRefl
    <3> QED
      BY <1>1, <1>6, <3>2, ExchangeQuiet
  <2> QED
    BY <2>1, <2>2
<1>7. CASE /\ verdict = "taken" /\ m.method = "BYE"
           /\ \E s \in Seq(Transactions) : /\ Added(s, user[u].trs, "in", m)
                                           /\ Finished(user'[u].trs, s, "in", m, "2xx")
           /\ net' = (net \ {m}) \cup {yes}
  <2>1. PICK s \in Seq(Transactions) : /\ Added(s, user[u].trs, "in", m)
                                       /\ Finished(user'[u].trs, s, "in", m, "2xx")
    BY <1>7
  <2>2. m.method # "INVITE" /\ "2xx" \in Text
    BY <1>7 DEF Text
  <2>3. SameOpens(s, user[u].trs)
    BY <1>3, <2>1, <2>2, AddedOpens
  <2>4. SameOpens(user'[u].trs, s)
    BY <2>1, <2>2, FinishedOpens
  <2>5. \A v \in User : SameOpens(user'[v].trs, user[v].trs)
    BY <1>1, <2>3, <2>4, SameOpensTrans, SameOpensRefl
  <2>6. \A x \in net' : x.method = "INVITE" => x \in net
    BY <1>2, <1>7, <2>2
  <2> QED
    BY <1>1, <2>5, <2>6, ExchangeQuiet
<1> QED
  BY <1>1, <1>5, <1>6, <1>7

LEMMA ExchangeResponse ==
  ASSUME TypeOK, Exchange, NEW u \in User, NEW r \in net, r.from = Peer(u), r.kind = "response", RcvResponse(u, r)
  PROVE  Exchange'
<1> DEFINE waiting == {i \in DOMAIN user[u].trs : Waits(user[u].trs[i], "out", r)}
<1>1. /\ r \in Responses /\ net' = net \ {r}
      /\ seen'.doubled = seen.doubled
      /\ \A v \in User : v # u => user'[v] = user[v]
      /\ \/ waiting = {} /\ user' = user
         \/ IF r.code = "1xx" THEN user'[u].trs = user[u].trs
            ELSE Finished(user'[u].trs, user[u].trs, "out", r, r.code)
  BY ResponseEffect, Zenon
<1>2. r.code \in Text /\ user[u].trs \in Seq(Transactions)
  BY <1>1, DialogFacts DEF Responses
<1>3. CASE \A v \in User : user'[v].trs = user[v].trs
  BY <1>1, <1>3, SameOpensRefl, ExchangeQuiet
<1>4. CASE r.code # "1xx" /\ Finished(user'[u].trs, user[u].trs, "out", r, r.code)
  <2>1. CASE r.method = "INVITE"
    BY <1>1, <1>2, <1>4, <2>1, ExchangeEnd
  <2>2. CASE r.method # "INVITE"
    <3>1. SameOpens(user'[u].trs, user[u].trs)
      BY <1>2, <1>4, <2>2, FinishedOpens
    <3>2. \A v \in User : SameOpens(user'[v].trs, user[v].trs)
      BY <1>1, <3>1, SameOpensRefl
    <3> QED
      BY <1>1, <3>2, ExchangeQuiet
  <2> QED
    BY <2>1, <2>2
<1> QED
  BY <1>1, <1>3, <1>4

LEMMA ExchangeStep ==
  ASSUME TypeOK, Numbers, Exchange, [Next]_vars
  PROVE  Exchange'
<1>1. CASE UNCHANGED vars
  BY <1>1, SameOpensRefl, ExchangeQuiet DEF vars
<1>2. CASE Next
  BY <1>2, Steps, ExchangeBuild, ExchangeSend, ExchangeTerminate, ExchangeMove, ExchangeAnswerInvite,
     ExchangeAnswerOther, ExchangeRetry, ExchangeTimer, ExchangeNewInvite, ExchangeRequest, ExchangeResponse, Zenon
<1> QED
  BY <1>1, <1>2

LEMMA ExchangeInit ==
  ASSUME Init
  PROVE  Exchange
<1>1. PICK m \in Requests :
            /\ m.kind = "request" /\ m.from = "caller" /\ m.method = "INVITE" /\ net = {m}
            /\ user["callee"] = NoDialog
            /\ Added(user["caller"].trs, <<>>, "out", m)
  BY InitFacts, Zenon
<1> DEFINE e == <<>>
           n == Len(e) + 1
<1>2. user["callee"].trs = e /\ Opens(e, "in") = {} /\ Opens(e, "out") = {} /\ e \in Seq(Transactions)
      /\ DOMAIN e = {} /\ Added(user["caller"].trs, e, "out", m)
  BY <1>1, NewDialog DEF Opens
<1> HIDE DEF e
<1>3. /\ Opens(user["caller"].trs, "out") = {n} /\ Opens(user["caller"].trs, "in") = {}
      /\ user["caller"].trs[n].req = m
      /\ (\A j \in DOMAIN user["caller"].trs : j = n) /\ n \in Nat
  <2> DEFINE f == user["caller"].trs
  <2>0. Added(f, e, "out", m) /\ e \in Seq(Transactions) /\ "out" \in {"in", "out"} /\ n \in Nat
    BY <1>2
  <2> HIDE DEF f
  <2>1. /\ \A d \in {"in", "out"} :
                  /\ Opens(f, d) = Opens(e, d) \cup (IF d = "out" /\ m.method = "INVITE" THEN {n} ELSE {})
                  /\ \A i \in Opens(e, d) : f[i] = e[i]
        /\ n \in DOMAIN f /\ f[n].req = m
        /\ \A j \in DOMAIN f : j = n \/ (j \in DOMAIN e /\ f[j] = e[j] /\ j < n)
    BY <2>0, AddedOpens
  <2> HIDE DEF n
  <2>2. Opens(f, "out") = {n} /\ Opens(f, "in") = {}
    BY <1>1, <1>2, <2>1
  <2> QED
    BY <1>2, <2>0, <2>1, <2>2 DEF f
<1> HIDE DEF n
<1>4. \A v \in User : Finals(v) = {}
  BY <1>1 DEF Finals
<1>5. Asked("caller") = {m} /\ Asked("callee") = {}
  BY <1>1 DEF Asked
<1>6. Peer("caller") = "callee" /\ Peer("callee") = "caller" /\ User = {"caller", "callee"}
  BY DEF Peer, User
<1>7. Stage("caller")
  BY <1>2, <1>3, <1>4, <1>5, <1>6 DEF Stage
<1>8. Stage("callee")
  BY <1>2, <1>3, <1>4, <1>5, <1>6 DEF Stage
<1>9. Latest("callee")
  BY <1>2 DEF Latest
<1>10. Latest("caller")
  BY <1>3 DEF Latest
<1>11. ~Taken("caller")
  BY <1>2, <1>4, <1>6 DEF Taken
<1> QED
  BY <1>6, <1>7, <1>8, <1>9, <1>10, <1>11 DEF Exchange

\* Of INVITEs that cross one is refused, as long as no side has an INVITE sent again while
\* another one of its own is open.
THEOREM OneTaken == Spec => []NoGlare
<1>1. Init => TypeOK /\ Numbers /\ Exchange
  BY InitFacts, NumbersInit, ExchangeInit
<1>2. TypeOK /\ Numbers /\ Exchange /\ [Next]_vars => TypeOK' /\ Numbers' /\ Exchange'
  BY TypeStep, NumbersStep, ExchangeStep
<1>3. TypeOK /\ Exchange => NoGlare
  <2> SUFFICES ASSUME TypeOK, Exchange, ~seen.doubled,
                      \A u \in User : _eXosip_find_last_inc_invite(user[u]).st = "open"
               PROVE  FALSE
    BY DEF NoGlare
  <2>1. \A u \in User : Opens(user[u].trs, "in") # {}
    <3> TAKE u \in User
    <3>1. user[u] \in Dialogs
      BY DialogFacts
    <3>2. LET t == _eXosip_find_last_inc_invite(user[u])
          IN t.st = "open" /\ t.dir = "in" /\ t.req.method = "INVITE" /\ \E i \in DOMAIN user[u].trs : t = user[u].trs[i]
      BY <3>1, LastInvite
    <3> QED
      BY <3>2 DEF Opens, Inviting
  <2>2. "caller" \in User /\ Peer("caller") = "callee" /\ Peer("callee") = "caller" /\ "callee" \in User
    BY DEF User, Peer
  <2>3. Taken("caller") /\ Taken("callee")
    BY <2>1, <2>2 DEF Taken
  <2> QED
    BY <2>2, <2>3 DEF Exchange
<1> QED
  BY <1>1, <1>2, <1>3, PTL DEF Spec

-----------------------------------------------------------------------------
(* Who refreshes the session *)

\* The INVITE that starts the call.
First == user["caller"].trs[1]
FirstOpen == First.st = "open"
HasFirst == 1 \in DOMAIN user["caller"].trs /\ First.dir = "out" /\ First.req.method = "INVITE"

\* As long as it is open the caller has no other INVITE, and refuses those of the callee,
\* which has settled who refreshes once its 2xx is on its way.
WhileFirst == FirstOpen =>
    /\ First.req.cseq = 20 /\ ~First.req.retry /\ ~First.req.tag
    /\ user["caller"].dlg # "confirmed" /\ user["caller"].refresher = -1 /\ ~seen.doubled
    /\ \A i \in DOMAIN user["caller"].trs : user["caller"].trs[i].req.method = "INVITE" => i = 1
    /\ \A i \in DOMAIN user["callee"].trs : user["callee"].trs[i].req.method = "INVITE" => user["callee"].trs[i].code # "401"
    /\ \A r \in Finals("callee") : r.code = "4xx"
    /\ (\A r \in Finals("caller") : r.code # "2xx") => user["callee"].refresher = -1
    /\ \A r \in Finals("caller") : r.code = "2xx" =>
           user["callee"].refresher = IF r.se = "none" THEN -1 ELSE 1 - TimerAgreed(r.se)

Pair == <<user["caller"].refresher, user["callee"].refresher>>

\* After it the two agree, unless the caller was gone before the answer came in.
AfterFirst == ~FirstOpen => \/ Pair \in {<<-1, -1>>, <<0, 1>>, <<1, 0>>}
                            \/ user["caller"].dlg = "gone" /\ user["caller"].refresher = -1

\* The first INVITE and its final answer are only there as long as it is open.
OnlyFirst ==
    /\ \A j \in Opens(user["callee"].trs, "in") : user["callee"].trs[j].req.tag \/ FirstOpen
    /\ \A j \in Opens(user["caller"].trs, "in") : user["caller"].trs[j].req.tag
    /\ \A r \in Finals("caller") : r.cseq # 20 \/ FirstOpen
    /\ \A r \in Finals("callee") : r.cseq # 20

\* Who asks for the timer in the dialog is the refresher, and stays it.
Asks0(u, m) == m.tag /\ m.se # "none" => m.se = "uac" /\ user[u].refresher = 0
SaysIn(u, s) == \A i \in DOMAIN s : Live(s[i]) => Asks0(IF s[i].dir = "out" THEN u ELSE Peer(u), s[i].req)
Says(u) == /\ \A m \in Pending(u) : Asks0(u, m)
           /\ SaysIn(u, user[u].trs)
           /\ \A r \in Finals(u) : r.se # "none" /\ r.cseq # 20 => r.se = "uac" /\ user[u].refresher = 0

Refresh == /\ HasFirst /\ WhileFirst /\ AfterFirst /\ OnlyFirst
           /\ \A u \in User : Says(u)

\* No open transaction has been refused.
Fresh(s) == \A i \in DOMAIN s : s[i].st = "open" => s[i].code # "401"

LEMMA FreshNow ==
  ASSUME Numbers, NEW u \in User
  PROVE  Fresh(user[u].trs)
<1>1. \A i \in DOMAIN user[u].trs : Entry(u, user[u].trs[i], Top(u))
  BY DEF Numbers, Entries
<1> QED
  BY <1>1 DEF Fresh, Entry

LEMMA SaysFinished ==
  ASSUME NEW u \in User, NEW s \in Seq(Transactions), Fresh(s), SaysIn(u, s),
         NEW s2, NEW dir, NEW m, NEW code \in Text, Finished(s2, s, dir, m, code)
  PROVE  SaysIn(u, s2) /\ Fresh(s2)
<1> SUFFICES ASSUME NEW i \in DOMAIN s2
             PROVE  /\ Live(s2[i]) => Asks0(IF s2[i].dir = "out" THEN u ELSE Peer(u), s2[i].req)
                    /\ s2[i].st = "open" => s2[i].code # "401"
  BY DEF SaysIn, Fresh
<1>1. /\ i \in DOMAIN s /\ s[i] \in Transactions
      /\ s2[i] = IF Waits(s[i], dir, m) THEN Final(s[i], code) ELSE s[i]
  BY DEF Finished
<1>2. CASE ~Waits(s[i], dir, m)
  BY <1>1, <1>2 DEF SaysIn, Fresh
<1>3. CASE Waits(s[i], dir, m)
  <2>1. s[i].st = "open" /\ s[i].code # "401" /\ s2[i] = Final(s[i], code)
    BY <1>1, <1>3 DEF Waits, Fresh
  <2>2. Live(s[i])
    BY <2>1 DEF Live
  <2>3. /\ s2[i].dir = s[i].dir /\ s2[i].st = "done"
        /\ (code = "401" /\ s[i].dir = "out") => s2[i].req = s[i].req
        /\ ~(code = "401" /\ s[i].dir = "out") => s2[i].code = s[i].code
    BY <1>1, <2>1, FinalFacts
  <2> QED
    BY <1>1, <2>1, <2>2, <2>3 DEF Live, SaysIn
<1> QED
  BY <1>2, <1>3

LEMMA SaysAdded ==
  ASSUME NEW u \in User, NEW s, Fresh(s), SaysIn(u, s),
         NEW s2, NEW dir \in {"in", "out"}, NEW m, Added(s2, s, dir, m), Asks0(IF dir = "out" THEN u ELSE Peer(u), m)
  PROVE  SaysIn(u, s2) /\ Fresh(s2)
<1>1. /\ DOMAIN s2 = DOMAIN s \cup {Len(s) + 1}
      /\ s2[Len(s) + 1].dir = dir /\ s2[Len(s) + 1].req = m /\ s2[Len(s) + 1].code = "none"
      /\ \A i \in DOMAIN s : s2[i] = s[i]
  BY DEF Added
<1> QED
  BY <1>1 DEF SaysIn, Fresh

\* A message as Says wants it.
Fits(x) == IF x.kind = "request" THEN Asks0(x.from, x)
           ELSE x.method = "INVITE" /\ x.code # "1xx" /\ x.se # "none" /\ x.cseq # 20 =>
                    x.se = "uac" /\ user[Peer(x.from)].refresher = 0

LEMMA SaysStep ==
  ASSUME \A v \in User : Says(v),
         \A v \in User : user[v].refresher = 0 => user'[v].refresher = 0,
         \A v \in User : SaysIn(v, user'[v].trs),
         \A v \in User : built'[v] = built[v] \/ Asks0(v, built'[v]),
         \A x \in net' : x \in net \/ Fits(x)
  PROVE  \A v \in User : Says(v)'
<1> SUFFICES ASSUME NEW v \in User PROVE Says(v)'
  OBVIOUS
<1>0. \A w \in User : \A m : Asks0(w, m) => Asks0(w, m)'
  BY DEF Asks0
<1>1. \A m \in Pending(v)' : m \in Pending(v) \/ Asks0(v, m)
  BY DEF Pending, Asks, Fits
<1>2. \A m \in Pending(v)' : Asks0(v, m)'
  BY <1>0, <1>1 DEF Says
<1>3. SaysIn(v, user[v].trs)'
  <2>1. Peer(v) \in User
    BY Sides
  <2> QED
    BY <1>0, <2>1 DEF SaysIn
<1>4. \A r \in Finals(v)' : r.se # "none" /\ r.cseq # 20 => r.se = "uac" /\ user[v].refresher = 0
  <2>1. Peer(Peer(v)) = v
    BY Sides
  <2>2. \A r \in Finals(v)' : r.kind = "response" /\ r.from = Peer(v) /\ r.method = "INVITE" /\ r.code # "1xx" /\ r \in net'
    BY DEF Finals
  <2>3. \A r \in Finals(v)' : r \in net => r \in Finals(v)
    BY <2>2 DEF Finals
  <2>4. \A r \in Finals(v)' : Fits(r) => (r.se # "none" /\ r.cseq # 20 => r.se = "uac" /\ user[v].refresher = 0)
    BY <2>1, <2>2 DEF Fits
  <2> QED
    BY <2>2, <2>3, <2>4 DEF Says
<1> QED
  BY <1>2, <1>3, <1>4 DEF Says

LEMMA FirstKept ==
  ASSUME Refresh, \A v \in User : user'[v].refresher = user[v].refresher,
         FirstOpen => user'["caller"].dlg # "confirmed", user["caller"].dlg = "gone" => user'["caller"].dlg = "gone",
         HasFirst', FirstOpen' <=> FirstOpen,
         FirstOpen => user'["caller"].trs[1].req = First.req /\ ~seen'.doubled,
         FirstOpen => \A i \in DOMAIN user'["caller"].trs : user'["caller"].trs[i].req.method = "INVITE" => i = 1,
         FirstOpen => \A i \in DOMAIN user'["callee"].trs : user'["callee"].trs[i].req.method = "INVITE" => user'["callee"].trs[i].code # "401",
         \A r \in Finals("caller")' : r \in Finals("caller") \/ r.cseq # 20,
         FirstOpen => Finals("caller")' = Finals("caller"),
         \A r \in Finals("callee")' : r \in Finals("callee") \/ ((r.code = "4xx" \/ ~FirstOpen) /\ r.cseq # 20),
         \A v \in User : \A j \in Opens(user'[v].trs, "in") :
             \/ j \in Opens(user[v].trs, "in") /\ user'[v].trs[j].req = user[v].trs[j].req
             \/ user'[v].trs[j].req.tag
             \/ v = "callee" /\ FirstOpen
  PROVE  HasFirst' /\ WhileFirst' /\ AfterFirst' /\ OnlyFirst'
<1>1. WhileFirst'
  <2> SUFFICES ASSUME FirstOpen
               PROVE  /\ First'.req.cseq = 20 /\ ~First'.req.retry /\ ~First'.req.tag
                      /\ user'["caller"].dlg # "confirmed" /\ user'["caller"].refresher = -1 /\ ~seen'.doubled
                      /\ \A i \in DOMAIN user'["caller"].trs : user'["caller"].trs[i].req.method = "INVITE" => i = 1
                      /\ \A i \in DOMAIN user'["callee"].trs : user'["callee"].trs[i].req.method = "INVITE" => user'["callee"].trs[i].code # "401"
                      /\ \A r \in Finals("callee")' : r.code = "4xx"
                      /\ (\A r \in Finals("caller")' : r.code # "2xx") => user'["callee"].refresher = -1
                      /\ \A r \in Finals("caller")' : r.code = "2xx" =>
                             user'["callee"].refresher = IF r.se = "none" THEN -1 ELSE 1 - TimerAgreed(r.se)
    BY DEF WhileFirst
  <2>1. /\ First.req.cseq = 20 /\ ~First.req.retry /\ ~First.req.tag
        /\ user["caller"].refresher = -1
        /\ \A r \in Finals("callee") : r.code = "4xx"
        /\ (\A r \in Finals("caller") : r.code # "2xx") => user["callee"].refresher = -1
        /\ \A r \in Finals("caller") : r.code = "2xx" =>
               user["callee"].refresher = IF r.se = "none" THEN -1 ELSE 1 - TimerAgreed(r.se)
    BY DEF Refresh, WhileFirst
  <2>2. "caller" \in User /\ "callee" \in User
    BY DEF User
  <2>3. First'.req = First.req
    BY DEF First
  <2> QED
    BY <2>1, <2>2, <2>3
<1>2. AfterFirst'
  <2>1. "caller" \in User /\ "callee" \in User
    BY DEF User
  <2> QED
    BY <2>1 DEF Refresh, AfterFirst, Pair
<1>3. OnlyFirst'
  <2>1. "caller" \in User /\ "callee" \in User /\ "caller" # "callee"
    BY DEF User
  <2>2. OnlyFirst
    BY DEF Refresh
  <2>3. \A j \in Opens(user'["callee"].trs, "in") : user'["callee"].trs[j].req.tag \/ FirstOpen'
    BY <2>1, <2>2 DEF OnlyFirst
  <2>4. \A j \in Opens(user'["caller"].trs, "in") : user'["caller"].trs[j].req.tag
    BY <2>1, <2>2 DEF OnlyFirst
  <2> QED
    BY <2>2, <2>3, <2>4 DEF OnlyFirst
<1> QED
  BY <1>1, <1>2, <1>3

\* Of the INVITEs none is new, and none is closed.
Quiet(s2, s) ==
    /\ SameOpens(s2, s)
    /\ \A i \in DOMAIN s : i \in DOMAIN s2 /\ s2[i].dir = s[i].dir /\ s2[i].req.method = s[i].req.method
    /\ \A i \in DOMAIN s2 : s2[i].code = "401" /\ s2[i].req.method = "INVITE" => i \in DOMAIN s /\ s[i].code = "401"

LEMMA QuietRefl ==
  ASSUME NEW s
  PROVE  Quiet(s, s)
  BY SameOpensRefl DEF Quiet

LEMMA QuietTrans ==
  ASSUME NEW s, NEW s2, NEW s3, Quiet(s2, s), Quiet(s3, s2)
  PROVE  Quiet(s3, s)
<1>1. SameOpens(s3, s)
  BY SameOpensTrans DEF Quiet
<1> QED
  BY <1>1 DEF Quiet

LEMMA QuietFinished ==
  ASSUME NEW s \in Seq(Transactions), NEW s2, NEW dir \in {"in", "out"}, NEW m, NEW code \in Text, Finished(s2, s, dir, m, code),
         m.method # "INVITE"
  PROVE  Quiet(s2, s)
<1>1. /\ \A j \in DOMAIN s2 : j \in DOMAIN s /\ s2[j].dir = s[j].dir /\ s2[j].req.method = s[j].req.method
      /\ SameOpens(s2, s)
  BY FinishedOpens
<1>2. DOMAIN s2 = DOMAIN s /\ \A j \in DOMAIN s : ~Waits(s[j], dir, m) => s2[j] = s[j]
  BY DEF Finished
<1>3. \A j \in DOMAIN s : s[j].req.method = "INVITE" => ~Waits(s[j], dir, m)
  BY DEF Waits
<1> QED
  BY <1>1, <1>2, <1>3 DEF Quiet

LEMMA QuietAdded ==
  ASSUME NEW s \in Seq(Transactions), NEW s2, NEW dir \in {"in", "out"}, NEW m, Added(s2, s, dir, m), m.method # "INVITE"
  PROVE  Quiet(s2, s)
<1>1. SameOpens(s2, s)
  BY AddedOpens
<1>2. DOMAIN s2 = DOMAIN s \cup {Len(s) + 1} /\ s2[Len(s) + 1].req = m /\ \A i \in DOMAIN s : s2[i] = s[i]
  BY DEF Added
<1> QED
  BY <1>1, <1>2 DEF Quiet

LEMMA FirstQuiet ==
  ASSUME TypeOK, Refresh, \A v \in User : user'[v].refresher = user[v].refresher,
         user'["caller"].dlg = user["caller"].dlg \/ (user["caller"].dlg # "gone" /\ user'["caller"].dlg # "confirmed"),
         FirstOpen => ~seen'.doubled, \A v \in User : Quiet(user'[v].trs, user[v].trs),
         \A v \in User : Finals(v)' \subseteq Finals(v),
         FirstOpen => Finals("caller") \subseteq Finals("caller")'
  PROVE  HasFirst' /\ WhileFirst' /\ AfterFirst' /\ OnlyFirst'
<1>0. "caller" \in User /\ "callee" \in User
  BY DEF User
<1>1. Quiet(user'["caller"].trs, user["caller"].trs) /\ Quiet(user'["callee"].trs, user["callee"].trs)
  BY <1>0
<1>2. HasFirst /\ WhileFirst
  BY DEF Refresh
<1>3. HasFirst'
  BY <1>1, <1>2 DEF HasFirst, First, Quiet
<1>4. /\ FirstOpen <=> 1 \in Opens(user["caller"].trs, "out")
      /\ FirstOpen' <=> 1 \in Opens(user'["caller"].trs, "out")
  BY <1>2, <1>3 DEF HasFirst, First, FirstOpen, Opens, Inviting
<1>5. FirstOpen' <=> FirstOpen
  BY <1>1, <1>4 DEF Quiet, SameOpens
<1>6. FirstOpen => user'["caller"].trs[1].req = First.req
  BY <1>1, <1>4 DEF Quiet, SameOpens, First
<1>7. FirstOpen => \A i \in DOMAIN user'["caller"].trs : user'["caller"].trs[i].req.method = "INVITE" => i = 1
  BY <1>1, <1>2 DEF Quiet, SameOpens, WhileFirst
<1>8. FirstOpen => \A i \in DOMAIN user'["callee"].trs : user'["callee"].trs[i].req.method = "INVITE" => user'["callee"].trs[i].code # "401"
  BY <1>1, <1>2 DEF Quiet, SameOpens, WhileFirst
<1>9. \A v \in User : \A j \in Opens(user'[v].trs, "in") :
             j \in Opens(user[v].trs, "in") /\ user'[v].trs[j].req = user[v].trs[j].req
  BY DEF Quiet, SameOpens
<1>10. FirstOpen => user'["caller"].dlg # "confirmed"
  BY <1>2 DEF WhileFirst
<1>11. user["caller"].dlg = "gone" => user'["caller"].dlg = "gone"
  OBVIOUS
<1>12. FirstOpen => Finals("caller")' = Finals("caller")
  BY <1>0
<1>13. /\ \A r \in Finals("caller")' : r \in Finals("caller") \/ r.cseq # 20
       /\ \A r \in Finals("callee")' : r \in Finals("callee") \/ ((r.code = "4xx" \/ ~FirstOpen) /\ r.cseq # 20)
  BY <1>0
<1> QED
  BY <1>3, <1>5, <1>6, <1>7, <1>8, <1>9, <1>10, <1>11, <1>12, <1>13, FirstKept

LEMMA RefreshQuiet ==
  ASSUME TypeOK, Refresh, \A v \in User : user'[v].refresher = user[v].refresher,
         user'["caller"].dlg = user["caller"].dlg \/ (user["caller"].dlg # "gone" /\ user'["caller"].dlg # "confirmed"),
         FirstOpen => ~seen'.doubled, \A v \in User : Quiet(user'[v].trs, user[v].trs),
         \A v \in User : SaysIn(v, user'[v].trs),
         \A v \in User : built'[v] = built[v] \/ Asks0(v, built'[v]),
         \A x \in net' : x \in net \/ Fits(x),
         \A x \in net' : x \in net \/ x.kind = "request" \/ x.method # "INVITE" \/ x.code = "1xx",
         FirstOpen => Finals("caller") \subseteq net'
  PROVE  Refresh'
<1>1. \A v \in User : Says(v)'
  BY SaysStep DEF Refresh
<1>2. \A x \in net' \ net : x.kind # "request" => x.method # "INVITE" \/ x.code = "1xx"
  OBVIOUS
<1>3. \A v \in User : Finals(v)' \subseteq Finals(v)
  <2> SUFFICES ASSUME NEW v \in User, NEW r \in Finals(v)' PROVE r \in Finals(v)
    OBVIOUS
  <2>1. r \in net' /\ r.kind = "response" /\ r.from = Peer(v) /\ r.method = "INVITE" /\ r.code # "1xx"
    BY DEF Finals
  <2>2. r \in net
    BY <2>1
  <2> QED
    BY <2>1, <2>2 DEF Finals
<1>4. FirstOpen => Finals("caller") \subseteq Finals("caller")'
  BY DEF Finals
<1>5. HasFirst' /\ WhileFirst' /\ AfterFirst' /\ OnlyFirst'
  BY <1>3, <1>4, FirstQuiet
<1> QED
  BY <1>1, <1>5 DEF Refresh

\* An INVITE is sent.
LEMMA RefreshAsk ==
  ASSUME TypeOK, Numbers, Refresh, NEW u \in User, NEW m \in Requests, m.method = "INVITE", m.from = u, m.kind = "request",
         Asks0(u, m), net' = net \cup {m}, \A v \in User : v # u => user'[v] = user[v],
         user'[u].refresher = user[u].refresher, user'[u].dlg = user[u].dlg,
         NEW s \in Seq(Transactions), Quiet(s, user[u].trs), SaysIn(u, s), Fresh(s), Added(user'[u].trs, s, "out", m),
         \A v \in User : built'[v] = built[v] \/ Asks0(v, built'[v]),
         u = "caller" => ~FirstOpen, FirstOpen => ~seen'.doubled
  PROVE  Refresh'
<1>0. "caller" \in User /\ "callee" \in User /\ "caller" # "callee"
  BY DEF User
<1>1. SaysIn(u, user'[u].trs)
  BY SaysAdded
<1>2. \A v \in User : Says(v)'
  <2>1. \A v \in User : SaysIn(v, user'[v].trs)
    BY <1>1 DEF Refresh, Says
  <2>2. Fits(m)
    BY DEF Fits
  <2>3. \A v \in User : user[v].refresher = 0 => user'[v].refresher = 0
    OBVIOUS
  <2> QED
    BY <2>1, <2>2, <2>3, SaysStep DEF Refresh
<1>3. /\ \A d \in {"in", "out"} :
            /\ Opens(user'[u].trs, d) = Opens(s, d) \cup (IF d = "out" /\ m.method = "INVITE" THEN {Len(s) + 1} ELSE {})
            /\ \A i \in Opens(s, d) : user'[u].trs[i] = s[i]
  BY AddedOpens
<1>4. /\ DOMAIN user'[u].trs = DOMAIN s \cup {Len(s) + 1} /\ user'[u].trs[Len(s) + 1].code = "none"
      /\ \A i \in DOMAIN s : user'[u].trs[i] = s[i]
  BY DEF Added
<1>5. HasFirst /\ WhileFirst
  BY DEF Refresh
<1>6. /\ HasFirst' /\ (FirstOpen' <=> FirstOpen) /\ (FirstOpen => user'["caller"].trs[1].req = First.req)
      /\ FirstOpen => \A i \in DOMAIN user'["caller"].trs : user'["caller"].trs[i].req.method = "INVITE" => i = 1
  <2>1. CASE u = "caller"
    <3>1. 1 \in DOMAIN s /\ s[1].dir = "out" /\ s[1].req.method = "INVITE" /\ user'[u].trs[1] = s[1]
      BY <1>4, <1>5, <2>1 DEF Quiet, HasFirst, First
    <3>2. 1 \notin Opens(user[u].trs, "out")
      BY <2>1 DEF FirstOpen, First, Opens, Inviting
    <3>3. 1 \notin Opens(s, "out")
      BY <3>2 DEF Quiet, SameOpens
    <3>4. s[1].st # "open"
      BY <3>1, <3>3 DEF Opens, Inviting
    <3> QED
      BY <1>4, <2>1, <3>1, <3>4 DEF HasFirst, First, FirstOpen
  <2>2. CASE u # "caller"
    <3>1. user'["caller"] = user["caller"]
      BY <1>0, <2>2
    <3> QED
      BY <1>5, <3>1 DEF HasFirst, First, FirstOpen, WhileFirst
  <2> QED
    BY <2>1, <2>2
<1>7. FirstOpen => \A i \in DOMAIN user'["callee"].trs : user'["callee"].trs[i].req.method = "INVITE" => user'["callee"].trs[i].code # "401"
  <2> SUFFICES ASSUME FirstOpen, NEW i \in DOMAIN user'["callee"].trs, user'["callee"].trs[i].req.method = "INVITE",
                      user'["callee"].trs[i].code = "401"
               PROVE  FALSE
    OBVIOUS
  <2>1. u = "callee"
    BY DEF User
  <2>2. i \in DOMAIN s /\ s[i].req.method = "INVITE" /\ s[i].code = "401"
    BY <1>4, <2>1
  <2>3. i \in DOMAIN user[u].trs /\ user[u].trs[i].req.method = "INVITE" /\ user[u].trs[i].code = "401"
    BY <2>2 DEF Quiet, SameOpens
  <2> QED
    BY <1>5, <2>1, <2>3 DEF WhileFirst
<1>8. \A v \in User : \A j \in Opens(user'[v].trs, "in") :
             j \in Opens(user[v].trs, "in") /\ user'[v].trs[j].req = user[v].trs[j].req
  <2> SUFFICES ASSUME NEW v \in User, NEW j \in Opens(user'[v].trs, "in")
               PROVE  j \in Opens(user[v].trs, "in") /\ user'[v].trs[j].req = user[v].trs[j].req
    OBVIOUS
  <2>1. CASE v = u
    <3>1. Opens(user'[u].trs, "in") = Opens(s, "in") /\ \A i \in Opens(s, "in") : user'[u].trs[i] = s[i]
      BY <1>3
    <3> QED
      BY <2>1, <3>1 DEF Quiet, SameOpens
  <2>2. CASE v # u
    BY <2>2
  <2> QED
    BY <2>1, <2>2
<1>9. FirstOpen => user'["caller"].dlg # "confirmed"
  BY <1>0, <1>5 DEF WhileFirst
<1>10. user["caller"].dlg = "gone" => user'["caller"].dlg = "gone"
  BY <1>0
<1>11. \A v \in User : Finals(v)' = Finals(v)
  BY DEF Finals
<1>12. \A v \in User : user'[v].refresher = user[v].refresher
  OBVIOUS
<1>13. /\ \A r \in Finals("caller")' : r \in Finals("caller") \/ r.cseq # 20
       /\ FirstOpen => Finals("caller")' = Finals("caller")
       /\ \A r \in Finals("callee")' : r \in Finals("callee") \/ ((r.code = "4xx" \/ ~FirstOpen) /\ r.cseq # 20)
  BY <1>0, <1>11
<1>14. HasFirst' /\ WhileFirst' /\ AfterFirst' /\ OnlyFirst'
  BY <1>6, <1>7, <1>8, <1>9, <1>10, <1>12, <1>13, FirstKept
<1> QED
  BY <1>2, <1>14 DEF Refresh

LEMMA SilentAsks0 ==
  ASSUME NEW u, NEW m, m.se = "none"
  PROVE  Asks0(u, m)
  BY DEF Asks0

LEMMA WhileOpen ==
  ASSUME TypeOK, Exchange, Refresh, FirstOpen
  PROVE  /\ 1 \in Opens(user["caller"].trs, "out") /\ Opens(user["caller"].trs, "out") = {1}
         /\ Opens(user["caller"].trs, "in") = {}
         /\ Stage("caller") /\ Latest("caller") /\ ~seen.doubled
         /\ First.req.cseq = 20 /\ ~First.req.retry /\ ~First.req.tag
         /\ \A j \in Opens(user["callee"].trs, "in") : user["callee"].trs[j].req = First.req
         /\ \A m \in Asked("caller") : m = First.req
         /\ \A r \in Finals("caller") : r.cseq = 20 /\ r.retry = First.req.retry
<1>1. HasFirst /\ WhileFirst
  BY DEF Refresh
<1>2. "caller" \in User /\ Peer("caller") = "callee" /\ ~seen.doubled
  BY <1>1 DEF User, Peer, WhileFirst
<1>3. Stage("caller") /\ Latest("caller")
  BY <1>2 DEF Exchange
<1>4. 1 \in Opens(user["caller"].trs, "out") /\ Opens(user["caller"].trs, "out") = {1}
  BY <1>1 DEF HasFirst, WhileFirst, FirstOpen, First, Opens, Inviting
<1>5. Opens(user["caller"].trs, "in") = {}
  BY <1>1 DEF HasFirst, WhileFirst, FirstOpen, First, Opens, Inviting
<1>6. First.req.cseq = 20 /\ ~First.req.retry /\ ~First.req.tag
  BY <1>1 DEF WhileFirst
<1>7. /\ \A j \in Opens(user["callee"].trs, "in") : user["callee"].trs[j].req = First.req
      /\ \A m \in Asked("caller") : m = First.req
      /\ \A r \in Finals("caller") : r.cseq = 20 /\ r.retry = First.req.retry
  BY <1>2, <1>3, <1>4, <1>6 DEF Stage, First
<1> QED
  BY <1>2, <1>3, <1>4, <1>5, <1>6, <1>7

LEMMA RefreshBuild ==
  ASSUME TypeOK, Refresh, NEW u \in User, NEW method \in Methods, Build(u, method, "none")
  PROVE  Refresh'
<1>1. /\ user'[u].trs = user[u].trs /\ user'[u].dlg = user[u].dlg /\ user'[u].refresher = user[u].refresher
      /\ \A v \in User : v # u => user'[v] = user[v] /\ built'[v] = built[v]
      /\ built'[u] = Within(u, method, user[u].lcseq + 1, "none")
      /\ net' = net /\ SameHistory
  BY BuildEffect
<1>2. \A v \in User : user'[v].trs = user[v].trs /\ user'[v].dlg = user[v].dlg /\ user'[v].refresher = user[v].refresher
  BY <1>1
<1>3. built'[u].se = "none"
  BY <1>1 DEF Within, Request
<1>4. \A v \in User : built'[v] = built[v] \/ Asks0(v, built'[v])
  BY <1>1, <1>3, SilentAsks0
<1>5. (FirstOpen => ~seen'.doubled) /\ "caller" \in User
  BY <1>1 DEF SameHistory, Refresh, WhileFirst, User
<1>6. \A v \in User : Quiet(user'[v].trs, user[v].trs) /\ SaysIn(v, user'[v].trs)
  BY <1>2, QuietRefl DEF Refresh, Says
<1>7. Finals("caller") \subseteq net
  BY DEF Finals
<1> QED
  BY <1>1, <1>2, <1>4, <1>5, <1>6, <1>7, RefreshQuiet

LEMMA RefreshMove ==
  ASSUME TypeOK, Refresh, NEW u \in User, eXosip_masquerade_contact(u)
  PROVE  Refresh'
<1>1. /\ user'[u].trs = user[u].trs /\ user'[u].dlg = user[u].dlg /\ user'[u].refresher = user[u].refresher
      /\ \A v \in User : v # u => user'[v] = user[v]
      /\ built' = built /\ net' = net /\ SameHistory
  BY MoveEffect
<1>2. \A v \in User : user'[v].trs = user[v].trs /\ user'[v].dlg = user[v].dlg /\ user'[v].refresher = user[v].refresher
  BY <1>1
<1>5. (FirstOpen => ~seen'.doubled) /\ "caller" \in User
  BY <1>1 DEF SameHistory, Refresh, WhileFirst, User
<1>6. \A v \in User : Quiet(user'[v].trs, user[v].trs) /\ SaysIn(v, user'[v].trs)
  BY <1>2, QuietRefl DEF Refresh, Says
<1>7. Finals("caller") \subseteq net
  BY DEF Finals
<1> QED
  BY <1>1, <1>2, <1>5, <1>6, <1>7, RefreshQuiet

\* What is sent is no INVITE.
LEMMA RefreshOther ==
  ASSUME TypeOK, Refresh, NEW u \in User, NEW m, m.method # "INVITE", Fits(m), net' = net \cup {m},
         \A v \in User : v # u => user'[v] = user[v], user'[u].refresher = user[u].refresher,
         user'[u].dlg = user[u].dlg \/ (user[u].dlg # "gone" /\ user'[u].dlg # "confirmed"),
         FirstOpen => ~seen'.doubled,
         Quiet(user'[u].trs, user[u].trs), SaysIn(u, user'[u].trs),
         \A v \in User : built'[v] = built[v] \/ Asks0(v, built'[v])
  PROVE  Refresh'
<1>1. \A v \in User : Quiet(user'[v].trs, user[v].trs) /\ SaysIn(v, user'[v].trs)
  BY QuietRefl DEF Refresh, Says
<1>2. \A v \in User : user'[v].refresher = user[v].refresher
  OBVIOUS
<1>3. "caller" \in User
  BY DEF User
<1>4. user'["caller"].dlg = user["caller"].dlg \/ (user["caller"].dlg # "gone" /\ user'["caller"].dlg # "confirmed")
  BY <1>3
<1>5. Finals("caller") \subseteq net'
  BY DEF Finals
<1> QED
  BY <1>1, <1>2, <1>4, <1>5, RefreshQuiet

LEMMA SilentNothing ==
  ASSUME NEW u
  PROVE  Asks0(u, Nothing)
<1>1. Nothing.se = "none"
  BY PastFacts DEF Nothing, Text
<1> QED
  BY <1>1, SilentAsks0

LEMMA RefreshSend ==
  ASSUME TypeOK, Numbers, Exchange, Refresh, NEW u \in User, eXosip_call_send_request(u)
  PROVE  Refresh'
<1>1. /\ built[u] # Nothing /\ seen' = seen
      /\ built' = [built EXCEPT ![u] = Nothing]
      /\ \A v \in User : v # u => user'[v] = user[v]
      /\ \/ /\ Sends(u, user[u].lcseq, built[u])
            /\ \E t \in FindLast(user[u], built[u].method) : MayFollow(t)
         \/ user' = user /\ net' = net
  BY SendEffect
<1>2. \A v \in User : built'[v] = built[v] \/ Asks0(v, built'[v])
  BY <1>1, SilentNothing DEF TypeOK
<1>3. FirstOpen => ~seen'.doubled
  BY <1>1 DEF Refresh, WhileFirst
<1>4. CASE user' = user /\ net' = net
  <2>1. \A v \in User : Quiet(user'[v].trs, user[v].trs) /\ SaysIn(v, user'[v].trs)
    BY <1>4, QuietRefl DEF Refresh, Says
  <2>2. Finals("caller") \subseteq net
    BY DEF Finals
  <2> QED
    BY <1>2, <1>3, <1>4, <2>1, <2>2, RefreshQuiet
<1>5. CASE /\ Sends(u, user[u].lcseq, built[u])
           /\ \E t \in FindLast(user[u], built[u].method) : MayFollow(t)
  <2>1. /\ Added(user'[u].trs, user[u].trs, "out", built[u]) /\ net' = net \cup {built[u]}
        /\ user'[u].dlg = user[u].dlg /\ user'[u].refresher = user[u].refresher
    BY <1>5 DEF Sends
  <2>2. built[u] \in Requests /\ user[u].trs \in Seq(Transactions)
    BY DialogFacts
  <2>3. built[u].from = u /\ built[u].kind = "request"
    BY <1>1, <2>2 DEF Numbers, Counts, Requests
  <2>4. Asks0(u, built[u]) /\ SaysIn(u, user[u].trs) /\ Fresh(user[u].trs)
    BY <1>1, FreshNow DEF Refresh, Says, Pending
  <2>5. CASE built[u].method = "INVITE"
    <3>1. Quiet(user[u].trs, user[u].trs)
      BY QuietRefl
    <3>2. u = "caller" => ~FirstOpen
      <4> SUFFICES ASSUME u = "caller", FirstOpen PROVE FALSE
        OBVIOUS
      <4>1. Latest(u) /\ 1 \in Opens(user[u].trs, "out")
        BY WhileOpen
      <4> QED
        BY <1>5, <2>5, <4>1, MayInvite
    <3> QED
      BY <1>1, <1>2, <1>3, <2>1, <2>2, <2>3, <2>4, <2>5, <3>1, <3>2, RefreshAsk
  <2>6. CASE built[u].method # "INVITE"
    <3>1. Quiet(user'[u].trs, user[u].trs)
      BY <2>1, <2>2, <2>6, QuietAdded
    <3>2. SaysIn(u, user'[u].trs)
      BY <2>1, <2>4, SaysAdded
    <3>3. Fits(built[u])
      BY <2>3, <2>4 DEF Fits
    <3> QED
      BY <1>1, <1>2, <1>3, <2>1, <2>6, <3>1, <3>2, <3>3, RefreshOther
  <2> QED
    BY <2>5, <2>6
<1> QED
  BY <1>1, <1>4, <1>5

LEMMA RefreshTimer ==
  ASSUME TypeOK, Numbers, Exchange, Refresh, NEW u \in User, SessionTimer(u)
  PROVE  Refresh'
<1> DEFINE m == Within(u, "INVITE", user[u].lcseq + 1, "uac")
<1>1. /\ Sends(u, user[u].lcseq + 1, m) /\ user[u].refresher = 0
      /\ \A v \in User : v # u => user'[v] = user[v]
      /\ \E t \in FindLast(user[u], "INVITE") : MayFollow(t)
      /\ SameHistory /\ built' = built
  BY TimerEffect
<1>2. m \in Requests /\ m.method = "INVITE" /\ m.from = u /\ m.kind = "request" /\ m.se = "uac"
  <2>1. user[u] \in Dialogs /\ user[u].lcseq + 1 \in Nat /\ "INVITE" \in Text /\ "uac" \in Text
    BY DialogFacts DEF Text
  <2>2. m.se = "uac"
    BY DEF Within, Request
  <2> QED
    BY <2>1, <2>2, WithinFacts
<1> HIDE DEF m
<1>3. /\ Added(user'[u].trs, user[u].trs, "out", m) /\ net' = net \cup {m}
      /\ user'[u].dlg = user[u].dlg /\ user'[u].refresher = user[u].refresher
  BY <1>1 DEF Sends
<1>4. Asks0(u, m) /\ SaysIn(u, user[u].trs) /\ Fresh(user[u].trs)
  BY <1>1, <1>2, FreshNow DEF Refresh, Says, Asks0
<1>5. user[u].trs \in Seq(Transactions) /\ Quiet(user[u].trs, user[u].trs)
  BY DialogFacts, QuietRefl
<1>6. u = "caller" => ~FirstOpen
  <2> SUFFICES ASSUME u = "caller", FirstOpen PROVE FALSE
    OBVIOUS
  <2>1. Latest(u) /\ 1 \in Opens(user[u].trs, "out")
    BY WhileOpen
  <2> QED
    BY <1>1, <2>1, MayInvite
<1>7. FirstOpen => ~seen'.doubled
  BY <1>1 DEF SameHistory, Refresh, WhileFirst
<1> QED
  BY <1>1, <1>2, <1>3, <1>4, <1>5, <1>6, <1>7, RefreshAsk

LEMMA RefreshRetry ==
  ASSUME TypeOK, Numbers, Exchange, Refresh, NEW u \in User, NEW i \in DOMAIN user[u].trs, Usable(user[u]),
         _eXosip_call_retry_request(u, i)
  PROVE  Refresh'
<1> DEFINE t == user[u].trs[i]
           again == [t.req EXCEPT !.cseq = t.req.cseq + 1, !.retry = TRUE]
<1>0. Retries(u, i)
  BY RetryEffect
<1>1. /\ t.st = "done" /\ t.code = "401"
      /\ again \in Requests /\ again.kind = "request" /\ again.from = t.req.from
      /\ again.method = t.req.method /\ again.se = t.req.se /\ again.tag = t.req.tag
      /\ user'[u].dlg = user[u].dlg /\ user'[u].refresher = user[u].refresher
      /\ \A v \in User : v # u => user'[v] = user[v]
      /\ net' = net \cup {again} /\ built' = built
      /\ seen'.doubled = (seen.doubled \/ Doubles(user[u], t))
  BY <1>0, Zenon DEF Retries
<1>2. \E s \in Seq(Transactions) :
             /\ Len(s) = Len(user[u].trs) /\ DOMAIN s = DOMAIN user[u].trs
             /\ s[i].st = "done" /\ s[i].code = "none" /\ s[i].dir = t.dir /\ s[i].req = Past(t.req.method)
             /\ \A j \in DOMAIN s : j # i => s[j] = user[u].trs[j]
             /\ Added(user'[u].trs, s, "out", again)
  BY <1>0, Zenon DEF Retries
<1>3. t.req.from = u /\ t.dir = "out"
  <2>1. Entry(u, t, Top(u))
    BY DEF Numbers, Entries
  <2>2. "401" # "none"
    OBVIOUS
  <2> QED
    BY <1>1, <2>1, <2>2 DEF Entry, Live
<1>4. Past(t.req.method).method = t.req.method
  BY DialogFacts, PastFacts
<1>5. Asks0(u, again)
  <2>1. SaysIn(u, user[u].trs)
    BY DEF Refresh, Says
  <2>2. Asks0(u, t.req)
    BY <1>1, <1>3, <2>1 DEF SaysIn, Live
  <2> QED
    BY <1>1, <2>2 DEF Asks0
<1> HIDE DEF again
<1>6. PICK s \in Seq(Transactions) :
             /\ Len(s) = Len(user[u].trs) /\ DOMAIN s = DOMAIN user[u].trs
             /\ s[i].st = "done" /\ s[i].code = "none" /\ s[i].dir = t.dir /\ s[i].req = Past(t.req.method)
             /\ \A j \in DOMAIN s : j # i => s[j] = user[u].trs[j]
             /\ Added(user'[u].trs, s, "out", again)
  BY <1>2
<1>7. Quiet(s, user[u].trs)
  <2>1. \A j \in DOMAIN s : j \in DOMAIN user[u].trs /\ s[j].dir = user[u].trs[j].dir /\ s[j].st = user[u].trs[j].st
                            /\ s[j].req.method = user[u].trs[j].req.method
    BY <1>1, <1>4, <1>6
  <2>2. \A dir \in {"in", "out"} : Opens(s, dir) = Opens(user[u].trs, dir)
    BY <1>6, <2>1 DEF Opens, Inviting
  <2>3. \A dir \in {"in", "out"} : \A j \in Opens(s, dir) : s[j] = user[u].trs[j]
    BY <1>6 DEF Opens, Inviting
  <2>4. SameOpens(s, user[u].trs)
    BY <2>1, <2>2, <2>3 DEF SameOpens
  <2>5. \A j \in DOMAIN s : s[j].code = "401" => user[u].trs[j].code = "401"
    BY <1>6
  <2> QED
    BY <1>6, <2>1, <2>4, <2>5 DEF Quiet
<1>8. SaysIn(u, s) /\ Fresh(s)
  <2>1. SaysIn(u, user[u].trs) /\ Fresh(user[u].trs)
    BY FreshNow DEF Refresh, Says
  <2>2. ~Live(s[i])
    BY <1>6 DEF Live
  <2> QED
    BY <1>6, <2>1, <2>2 DEF SaysIn, Fresh
<1>9. t.req.method = "INVITE" => ~FirstOpen
  <2> SUFFICES ASSUME t.req.method = "INVITE", FirstOpen PROVE FALSE
    OBVIOUS
  <2>1. WhileFirst
    BY DEF Refresh
  <2>2. CASE u = "caller"
    <3>1. i = 1
      BY <2>1, <2>2 DEF WhileFirst
    <3> QED
      BY <1>1, <2>2, <3>1 DEF FirstOpen, First
  <2>3. CASE u = "callee"
    BY <1>1, <2>1, <2>3 DEF WhileFirst
  <2> QED
    BY <2>2, <2>3 DEF User
<1>10. FirstOpen => ~seen'.doubled
  BY <1>1, <1>9 DEF Doubles, Refresh, WhileFirst
<1>11. CASE t.req.method = "INVITE"
  <2> HIDE DEF t
  <2> QED
    BY <1>1, <1>3, <1>5, <1>6, <1>7, <1>8, <1>9, <1>10, <1>11, RefreshAsk
<1>12. CASE t.req.method # "INVITE"
  <2>1. Quiet(user'[u].trs, s)
    BY <1>1, <1>6, <1>12, QuietAdded
  <2>2. Quiet(user'[u].trs, user[u].trs)
    BY <1>7, <2>1, QuietTrans
  <2>3. SaysIn(u, user'[u].trs)
    BY <1>5, <1>6, <1>8, SaysAdded
  <2>4. Fits(again)
    BY <1>1, <1>3, <1>5 DEF Fits
  <2> QED
    BY <1>1, <1>10, <1>12, <2>2, <2>3, <2>4, RefreshOther
<1> QED
  BY <1>11, <1>12

LEMMA RefreshAnswerOther ==
  ASSUME TypeOK, Numbers, Refresh, NEW u \in User, NEW code \in {"2xx", "401"}, AnswerOther(u, code)
  PROVE  Refresh'
<1>1. /\ \E i \in DOMAIN user[u].trs :
               LET t == user[u].trs[i]
                   r == Respond(u, t.req, code, "none", <<>>)
               IN /\ t.dir = "in" /\ t.st = "open" /\ t.req.method # "INVITE"
                  /\ Finished(user'[u].trs, user[u].trs, "in", t.req, code)
                  /\ r \in Responses /\ net' = net \cup {r}
      /\ user'[u].dlg = user[u].dlg /\ user'[u].refresher = user[u].refresher
      /\ \A v \in User : v # u => user'[v] = user[v]
      /\ built' = built
      /\ SameHistory
  BY AnswerOtherEffect
<1>2. PICK i \in DOMAIN user[u].trs :
               LET t == user[u].trs[i]
                   r == Respond(u, t.req, code, "none", <<>>)
               IN /\ t.dir = "in" /\ t.st = "open" /\ t.req.method # "INVITE"
                  /\ Finished(user'[u].trs, user[u].trs, "in", t.req, code)
                  /\ r \in Responses /\ net' = net \cup {r}
  BY <1>1
<1> DEFINE r == Respond(u, user[u].trs[i].req, code, "none", <<>>)
<1>3. r.method # "INVITE" /\ net' = net \cup {r} /\ r.kind = "response"
  BY <1>2 DEF Respond
<1>4. Fits(r)
  BY <1>3 DEF Fits
<1> HIDE DEF r
<1>5. code \in Text /\ user[u].trs \in Seq(Transactions)
  BY DialogFacts DEF Text
<1>6. Quiet(user'[u].trs, user[u].trs)
  BY <1>2, <1>5, QuietFinished
<1>7. SaysIn(u, user[u].trs) /\ Fresh(user[u].trs)
  BY FreshNow DEF Refresh, Says
<1>8. SaysIn(u, user'[u].trs)
  BY <1>2, <1>5, <1>7, SaysFinished
<1>9. FirstOpen => ~seen'.doubled
  BY <1>1 DEF SameHistory, Refresh, WhileFirst
<1> QED
  BY <1>1, <1>3, <1>4, <1>6, <1>8, <1>9, RefreshOther

\* The INVITE that waits gets its final answer.
Replies(u, i, code, kept, r, s) ==
    /\ kept => code = "2xx" /\ user[u].trs[i].req.se # "none" /\ Usable(user[u])
    /\ r.kind = "response" /\ r.from = u /\ r.method = "INVITE" /\ r.code = code
    /\ r.cseq = user[u].trs[i].req.cseq /\ r.retry = user[u].trs[i].req.retry
    /\ r.se = (IF kept THEN TimerInAnswer(user[u].trs[i].req.se).se ELSE "none")
    /\ Finished(s, user[u].trs, "in", user[u].trs[i].req, code) /\ Quiet(user'[u].trs, s)
    /\ SaysIn(u, user'[u].trs)
    /\ net \cup {r} \subseteq net' /\ \A x \in net' : x \in net \/ x = r \/ (x.method # "INVITE" /\ Fits(x))
    /\ user'[u].refresher = (IF kept THEN TimerInAnswer(user[u].trs[i].req.se).refresher ELSE user[u].refresher)
    /\ user[u].dlg = "gone" => user'[u].dlg = "gone"

LEMMA RefreshAnswer ==
  ASSUME TypeOK, Numbers, Exchange, Refresh, NEW u \in User, NEW i \in Opens(user[u].trs, "in"),
         NEW code \in Text, code # "1xx", NEW kept \in BOOLEAN, NEW r, NEW s \in Seq(Transactions),
         Replies(u, i, code, kept, r, s),
         \A v \in User : v # u => user'[v] = user[v],
         built' = built, FirstOpen => ~seen'.doubled
  PROVE  Refresh'
<1>20. /\ kept => code = "2xx" /\ user[u].trs[i].req.se # "none" /\ Usable(user[u])
       /\ r.kind = "response" /\ r.from = u /\ r.method = "INVITE" /\ r.code = code
       /\ r.cseq = user[u].trs[i].req.cseq /\ r.retry = user[u].trs[i].req.retry
       /\ r.se = (IF kept THEN TimerInAnswer(user[u].trs[i].req.se).se ELSE "none")
       /\ Finished(s, user[u].trs, "in", user[u].trs[i].req, code) /\ Quiet(user'[u].trs, s)
       /\ SaysIn(u, user'[u].trs)
       /\ net \cup {r} \subseteq net' /\ \A x \in net' : x \in net \/ x = r \/ (x.method # "INVITE" /\ Fits(x))
       /\ user'[u].refresher = (IF kept THEN TimerInAnswer(user[u].trs[i].req.se).refresher ELSE user[u].refresher)
       /\ user[u].dlg = "gone" => user'[u].dlg = "gone"
  BY DEF Replies
<1> USE <1>20
<1> DEFINE w == Peer(u)
           q == user[u].trs[i].req
<1>0. "caller" \in User /\ "callee" \in User /\ "caller" # "callee" /\ Peer("callee") = "caller" /\ Peer("caller") = "callee"
  BY DEF User, Peer
<1>1. w \in User /\ w # u /\ Peer(w) = u /\ User = {u, w} /\ user'[w] = user[w]
  BY Sides
<1>2. /\ i \in DOMAIN user[u].trs /\ user[u].trs[i].dir = "in" /\ user[u].trs[i].st = "open"
      /\ user[u].trs[i].req.method = "INVITE"
  BY DEF Opens, Inviting
<1>3. Twenty(q)
  BY <1>2 DEF Numbers, Entries, Entry
<1>4. Asks0(w, q)
  <2>1. SaysIn(u, user[u].trs)
    BY DEF Refresh, Says
  <2> QED
    BY <1>2, <2>1 DEF SaysIn, Live
<1>5. q.tag /\ q.se # "none" => q.se = "uac" /\ user[w].refresher = 0
  BY <1>4 DEF Asks0
<1>6. ~q.tag => q.cseq = 20
  BY <1>3 DEF Twenty
<1>7. q.tag => q.cseq # 20
  <2>1. q.cseq \in Nat
    BY <1>2, DialogFacts
  <2> QED
    BY <1>3, <2>1 DEF Twenty
<1>8. Fits(r)
  <2>1. Peer(r.from) = w
    OBVIOUS
  <2>2. r.se # "none" /\ r.cseq # 20 => r.se = "uac" /\ user[w].refresher = 0
    BY <1>5, <1>6 DEF TimerInAnswer
  <2> HIDE DEF w
  <2> QED
    BY <2>1, <2>2 DEF Fits
<1>9. \A x \in net' : x \in net \/ Fits(x)
  BY <1>8
<1>10. /\ HasFirst /\ WhileFirst /\ AfterFirst /\ OnlyFirst
       /\ \A v \in User : Says(v)
  BY DEF Refresh
<1>11. user[u].trs \in Seq(Transactions)
  BY DialogFacts
<1>12. /\ \A j \in DOMAIN s : j \in DOMAIN user[u].trs /\ s[j].dir = user[u].trs[j].dir /\ s[j].req.method = user[u].trs[j].req.method
       /\ \A d \in {"in", "out"} : /\ Opens(s, d) = {k \in Opens(user[u].trs, d) : ~Waits(user[u].trs[k], "in", q)}
                                   /\ \A k \in Opens(s, d) : s[k] = user[u].trs[k]
  BY <1>11, FinishedOpens
<1>13. \A j \in DOMAIN s : s[j].code = user[u].trs[j].code
  <2> SUFFICES ASSUME NEW j \in DOMAIN s PROVE s[j].code = user[u].trs[j].code
    OBVIOUS
  <2>1. j \in DOMAIN user[u].trs /\ user[u].trs[j] \in Transactions
        /\ s[j] = IF Waits(user[u].trs[j], "in", q) THEN Final(user[u].trs[j], code) ELSE user[u].trs[j]
    BY <1>12, DialogFacts DEF Finished
  <2>2. Waits(user[u].trs[j], "in", q) => Final(user[u].trs[j], code).code = user[u].trs[j].code
    <3> SUFFICES ASSUME Waits(user[u].trs[j], "in", q) PROVE Final(user[u].trs[j], code).code = user[u].trs[j].code
      OBVIOUS
    <3>1. user[u].trs[j].dir # "out"
      BY DEF Waits
    <3> QED
      BY <2>1, <3>1, FinalFacts
  <2> QED
    BY <2>1, <2>2
<1>14. \A v \in User : \A j \in Opens(user'[v].trs, "in") :
             j \in Opens(user[v].trs, "in") /\ user'[v].trs[j].req = user[v].trs[j].req
  <2> SUFFICES ASSUME NEW v \in User, NEW j \in Opens(user'[v].trs, "in")
               PROVE  j \in Opens(user[v].trs, "in") /\ user'[v].trs[j].req = user[v].trs[j].req
    OBVIOUS
  <2>1. CASE v = u
    <3>1. j \in Opens(s, "in") /\ user'[u].trs[j].req = s[j].req
      BY <2>1 DEF Quiet, SameOpens
    <3> QED
      BY <1>12, <2>1, <3>1
  <2>2. CASE v # u
    BY <2>2
  <2> QED
    BY <2>1, <2>2
<1>15. /\ HasFirst' /\ (FirstOpen' <=> FirstOpen) /\ (FirstOpen => user'["caller"].trs[1].req = First.req)
       /\ (FirstOpen => \A j \in DOMAIN user'["caller"].trs : user'["caller"].trs[j].req.method = "INVITE" => j = 1)
  <2>1. CASE u = "caller"
    <3>1. ~FirstOpen
      BY <2>1, WhileOpen
    <3>2. 1 \in DOMAIN s /\ s[1].dir = "out" /\ s[1].req.method = "INVITE" /\ 1 \in DOMAIN user[u].trs
          /\ (s[1].st = "open" => user[u].trs[1].st = "open")
      <4>1. 1 \in DOMAIN user[u].trs /\ user[u].trs[1].dir = "out" /\ user[u].trs[1].req.method = "INVITE"
        BY <1>10, <2>1 DEF HasFirst, First
      <4>2. ~Waits(user[u].trs[1], "in", q)
        BY <4>1 DEF Waits
      <4> QED
        BY <4>1, <4>2 DEF Finished
    <3>3. 1 \notin Opens(s, "out")
      BY <2>1, <3>1, <3>2 DEF FirstOpen, First, Opens, Inviting
    <3>4. 1 \in DOMAIN user'[u].trs /\ user'[u].trs[1].dir = "out" /\ user'[u].trs[1].req.method = "INVITE"
          /\ 1 \notin Opens(user'[u].trs, "out")
      BY <3>2, <3>3 DEF Quiet, SameOpens
    <3>5. user'[u].trs[1].st # "open"
      BY <3>4 DEF Opens, Inviting
    <3> QED
      BY <2>1, <3>1, <3>4, <3>5 DEF HasFirst, First, FirstOpen
  <2>2. CASE u # "caller"
    <3>1. user'["caller"] = user["caller"]
      BY <1>0, <2>2
    <3> QED
      BY <1>10, <3>1 DEF HasFirst, First, FirstOpen, WhileFirst
  <2> QED
    BY <2>1, <2>2
<1>16. Finals(u)' = Finals(u)
  BY <1>1 DEF Finals
<1>17. \A x \in Finals(w)' : x \in Finals(w) \/ x = r
  BY <1>1 DEF Finals
<1>18. CASE ~FirstOpen
  <2>1. q.tag
    BY <1>10, <1>18, <1>0 DEF OnlyFirst, User
  <2>2. user'[u].refresher = user[u].refresher
    <3>1. CASE ~kept
      BY <3>1
    <3>2. CASE kept
      <4>1. q.se = "uac" /\ user[w].refresher = 0 /\ Usable(user[u])
        BY <1>5, <2>1, <3>2
      <4>2. user'[u].refresher = 1
        BY <3>2, <4>1 DEF TimerInAnswer
      <4>3. user["caller"].dlg = "gone" /\ user["caller"].refresher = -1 => FALSE
        BY <1>0, <1>1, <4>1 DEF Usable, User
      <4>4. Pair \in {<<-1, -1>>, <<0, 1>>, <<1, 0>>}
        BY <1>10, <1>18, <4>3 DEF AfterFirst
      <4>5. CASE u = "caller"
        BY <1>0, <4>1, <4>2, <4>4, <4>5 DEF Pair
      <4>6. CASE u = "callee"
        BY <1>0, <4>1, <4>2, <4>4, <4>6 DEF Pair
      <4> QED
        BY <4>5, <4>6 DEF User
    <3> QED
      BY <3>1, <3>2
  <2>3. \A v \in User : user'[v].refresher = user[v].refresher
    BY <2>2
  <2>4. \A v \in User : Says(v)'
    <3>1. \A v \in User : SaysIn(v, user'[v].trs)
      BY <1>10 DEF Says
    <3>2. \A v \in User : user[v].refresher = 0 => user'[v].refresher = 0
      BY <2>3
    <3> QED
      BY <1>9, <1>10, <3>1, <3>2, SaysStep
  <2>5. /\ \A x \in Finals("caller")' : x \in Finals("caller") \/ x.cseq # 20
        /\ \A x \in Finals("callee")' : x \in Finals("callee") \/ ((x.code = "4xx" \/ ~FirstOpen) /\ x.cseq # 20)
    <3>1. r.cseq # 20
      BY <1>7, <2>1
    <3>2. \A v \in User : \A x \in Finals(v)' : x \in Finals(v) \/ x.cseq # 20
      BY <1>1, <1>16, <1>17, <3>1
    <3> QED
      BY <1>0, <1>18, <3>2
  <2>6. user["caller"].dlg = "gone" => user'["caller"].dlg = "gone"
    BY <1>0
  <2>7. HasFirst' /\ WhileFirst' /\ AfterFirst' /\ OnlyFirst'
    BY <1>14, <1>15, <1>18, <2>3, <2>5, <2>6, FirstKept
  <2> QED
    BY <2>4, <2>7 DEF Refresh
<1>19. CASE FirstOpen
  <2>1. u = "callee" /\ w = "caller" /\ q = First.req /\ ~q.tag /\ Stage("caller") /\ Peer("caller") = u
    BY <1>19, <1>0, <1>1, WhileOpen DEF User
  <2>2. Finals("caller") = {}
    BY <2>1 DEF Stage
  <2>3. Finals("caller")' = {r}
    <3>1. r \in Finals("caller")'
      BY <2>1 DEF Finals
    <3> QED
      BY <1>17, <2>1, <2>2, <3>1
  <2>4. user["callee"].refresher = -1
    BY <1>10, <1>19, <2>2 DEF WhileFirst
  <2>5. user'["caller"] = user["caller"]
    BY <1>1, <2>1
  <2>6. WhileFirst'
    <3> SUFFICES  /\ First'.req.cseq = 20 /\ ~First'.req.retry /\ ~First'.req.tag
                  /\ user'["caller"].dlg # "confirmed" /\ user'["caller"].refresher = -1 /\ ~seen'.doubled
                  /\ \A j \in DOMAIN user'["caller"].trs : user'["caller"].trs[j].req.method = "INVITE" => j = 1
                  /\ \A j \in DOMAIN user'["callee"].trs : user'["callee"].trs[j].req.method = "INVITE" => user'["callee"].trs[j].code # "401"
                  /\ \A x \in Finals("callee")' : x.code = "4xx"
                  /\ (\A x \in Finals("caller")' : x.code # "2xx") => user'["callee"].refresher = -1
                  /\ \A x \in Finals("caller")' : x.code = "2xx" =>
                         user'["callee"].refresher = IF x.se = "none" THEN -1 ELSE 1 - TimerAgreed(x.se)
      BY DEF WhileFirst
    <3>1. /\ First'.req.cseq = 20 /\ ~First'.req.retry /\ ~First'.req.tag
          /\ user'["caller"].dlg # "confirmed" /\ user'["caller"].refresher = -1 /\ ~seen'.doubled
          /\ \A j \in DOMAIN user'["caller"].trs : user'["caller"].trs[j].req.method = "INVITE" => j = 1
      BY <1>10, <1>19, <2>5 DEF WhileFirst, First
    <3>2. \A j \in DOMAIN user'["callee"].trs : user'["callee"].trs[j].req.method = "INVITE" => user'["callee"].trs[j].code # "401"
      <4> SUFFICES ASSUME NEW j \in DOMAIN user'["callee"].trs, user'["callee"].trs[j].req.method = "INVITE",
                          user'["callee"].trs[j].code = "401"
                   PROVE  FALSE
        OBVIOUS
      <4>1. j \in DOMAIN s /\ s[j].code = "401" /\ s[j].req.method = "INVITE"
        BY <2>1 DEF Quiet, SameOpens
      <4>2. j \in DOMAIN user[u].trs /\ user[u].trs[j].code = "401" /\ user[u].trs[j].req.method = "INVITE"
        BY <1>12, <1>13, <4>1
      <4> QED
        BY <1>10, <1>19, <2>1, <4>2 DEF WhileFirst
    <3>3. \A x \in Finals("callee")' : x.code = "4xx"
      BY <1>10, <1>16, <1>19, <2>1 DEF WhileFirst
    <3>4. (\A x \in Finals("caller")' : x.code # "2xx") => user'["callee"].refresher = -1
      BY <2>1, <2>3, <2>4
    <3>5. r.code = "2xx" => user'["callee"].refresher = IF r.se = "none" THEN -1 ELSE 1 - TimerAgreed(r.se)
      <4>1. CASE ~kept
        BY <2>1, <2>4, <4>1
      <4>2. CASE kept
        <5>1. q.se # "none" /\ r.se = TimerInAnswer(q.se).se /\ user'["callee"].refresher = TimerInAnswer(q.se).refresher
          BY <2>1, <4>2
        <5>2. CASE q.se = "bare"
          BY <5>1, <5>2 DEF TimerInAnswer, TimerAgreed
        <5>3. CASE q.se # "bare"
          BY <5>1, <5>3 DEF TimerInAnswer, TimerAgreed
        <5> QED
          BY <5>2, <5>3
      <4> QED
        BY <4>1, <4>2
    <3> QED
      BY <2>3, <3>1, <3>2, <3>3, <3>4, <3>5
  <2>7. AfterFirst'
    BY <1>15, <1>19 DEF AfterFirst
  <2>8. OnlyFirst'
    <3>1. \A x \in Finals("callee")' : x.cseq # 20
      BY <1>10, <1>16, <2>1 DEF OnlyFirst
    <3>2. \A j \in Opens(user'["caller"].trs, "in") : user'["caller"].trs[j].req.tag
      BY <1>10, <2>5 DEF OnlyFirst
    <3> QED
      BY <1>15, <1>19, <3>1, <3>2 DEF OnlyFirst
  <2>9. \A v \in User : Says(v)'
    <3>1. \A v \in User : SaysIn(v, user'[v].trs)
      BY <1>10 DEF Says
    <3>2. \A v \in User : user[v].refresher = 0 => user'[v].refresher = 0
      <4>1. user[u].refresher # 0
        BY <2>1, <2>4
      <4> QED
        BY <4>1
    <3> QED
      BY <1>9, <1>10, <3>1, <3>2, SaysStep
  <2> QED
    BY <1>15, <2>6, <2>7, <2>8, <2>9 DEF Refresh
<1> QED
  BY <1>18, <1>19

LEMMA RefreshAnswerInvite ==
  ASSUME TypeOK, Numbers, Exchange, Refresh, NEW u \in User, NEW code \in {"1xx", "2xx", "4xx", "401"}, NEW timer \in BOOLEAN,
         AnswerInvite(u, code, timer)
  PROVE  Refresh'
<1> DEFINE t == _eXosip_find_last_inc_invite(user[u])
           kept == Kept(t, code, timer)
           r == Respond(u, t.req, code, IF kept THEN TimerInAnswer(t.req.se).se ELSE "none",
                        IF code \in {"1xx", "2xx"} THEN RecordRoute(t.req) ELSE <<>>)
<1>1. /\ TypeOK'
      /\ t.st = "open"
      /\ code = "2xx" => Usable(user[u])
      /\ user'[u].dlg = IF code = "2xx" THEN "confirmed" ELSE user[u].dlg
      /\ user'[u].refresher = IF kept THEN TimerInAnswer(t.req.se).refresher ELSE user[u].refresher
      /\ IF code = "1xx" THEN user'[u].trs = user[u].trs
         ELSE Finished(user'[u].trs, user[u].trs, "in", t.req, code)
      /\ \A v \in User : v # u => user'[v] = user[v]
      /\ net' = net \cup {r}
      /\ built' = built
      /\ seen'.doubled = seen.doubled
  BY AnswerInviteEffect
<1>2. /\ r.kind = "response" /\ r.from = u /\ r.method = t.req.method /\ r.code = code
      /\ r.cseq = t.req.cseq /\ r.retry = t.req.retry
      /\ r.se = IF kept THEN TimerInAnswer(t.req.se).se ELSE "none"
  BY DEF Respond
<1>3. user[u] \in Dialogs /\ user[u].trs \in Seq(Transactions)
  BY DialogFacts
<1>4. t.dir = "in" /\ t.req.method = "INVITE" /\ \E i \in DOMAIN user[u].trs : t = user[u].trs[i]
  BY <1>1, <1>3, LastInvite
<1>5. kept \in BOOLEAN /\ (kept => code = "2xx" /\ t.req.se # "none" /\ Usable(user[u]))
  BY <1>1 DEF Kept
<1> HIDE DEF r, t, kept
<1>6. PICK i \in DOMAIN user[u].trs : t = user[u].trs[i]
  BY <1>4
<1>7. i \in Opens(user[u].trs, "in")
  BY <1>1, <1>4, <1>6 DEF Opens, Inviting
<1>8. SaysIn(u, user[u].trs) /\ Fresh(user[u].trs) /\ \A v \in User : SaysIn(v, user[v].trs)
  BY FreshNow DEF Refresh, Says
<1>9. FirstOpen => ~seen'.doubled
  BY <1>1 DEF Refresh, WhileFirst
<1>10. CASE code = "1xx"
  <2>1. ~kept /\ user'[u].refresher = user[u].refresher /\ user'[u].dlg = user[u].dlg /\ user'[u].trs = user[u].trs
    BY <1>1, <1>5, <1>10
  <2>2. \A v \in User : user'[v].trs = user[v].trs /\ user'[v].refresher = user[v].refresher /\ user'[v].dlg = user[v].dlg
    BY <1>1, <2>1
  <2>3. \A v \in User : Quiet(user'[v].trs, user[v].trs) /\ SaysIn(v, user'[v].trs)
    BY <1>8, <2>2, QuietRefl
  <2>4. Fits(r)
    BY <1>2, <1>10 DEF Fits
  <2>5. "caller" \in User /\ Finals("caller") \subseteq net
    BY DEF User, Finals
  <2> QED
    BY <1>1, <1>2, <1>9, <1>10, <2>2, <2>3, <2>4, <2>5, RefreshQuiet
<1>11. CASE code # "1xx"
  <2>1. user'[u].trs \in Seq(Transactions)
    BY <1>1 DEF TypeOK, Dialogs
  <2>2. Finished(user'[u].trs, user[u].trs, "in", user[u].trs[i].req, code)
    BY <1>1, <1>6, <1>11
  <2>3. code \in Text
    BY DEF Text
  <2>4. Quiet(user'[u].trs, user'[u].trs)
    BY QuietRefl
  <2>5. SaysIn(u, user'[u].trs)
    BY <1>3, <1>8, <2>2, <2>3, SaysFinished
  <2>6. net \cup {r} \subseteq net' /\ \A x \in net' : x \in net \/ x = r
    BY <1>1
  <2>7. /\ r.cseq = user[u].trs[i].req.cseq /\ r.retry = user[u].trs[i].req.retry /\ r.method = "INVITE"
        /\ r.se = (IF kept THEN TimerInAnswer(user[u].trs[i].req.se).se ELSE "none")
        /\ user'[u].refresher = (IF kept THEN TimerInAnswer(user[u].trs[i].req.se).refresher ELSE user[u].refresher)
        /\ (kept => code = "2xx" /\ user[u].trs[i].req.se # "none" /\ Usable(user[u]))
    BY <1>1, <1>2, <1>4, <1>5, <1>6
  <2>8. user[u].dlg = "gone" => user'[u].dlg = "gone"
    BY <1>1 DEF Usable
  <2> QED
    <3>1. Replies(u, i, code, kept, r, user'[u].trs)
      BY <1>2, <2>2, <2>4, <2>5, <2>6, <2>7, <2>8 DEF Replies
    <3> QED
      BY <1>1, <1>5, <1>7, <1>9, <1>11, <2>1, <2>3, <3>1, RefreshAnswer
<1> QED
  BY <1>10, <1>11

LEMMA RefreshTerminate ==
  ASSUME TypeOK, Numbers, Exchange, Refresh, NEW u \in User, Terminate(u)
  PROVE  Refresh'
<1> DEFINE bye == Within(u, "BYE", user[u].lcseq + 1, "none")
           t == _eXosip_find_last_inc_invite(user[u])
           r == Respond(u, t.req, "4xx", "none", <<>>)
<1>1. /\ user[u].dlg = "confirmed" /\ user'[u].dlg = "gone" /\ user'[u].refresher = user[u].refresher
      /\ \A v \in User : v # u => user'[v] = user[v]
      /\ \/ Added(user'[u].trs, user[u].trs, "out", bye) /\ net' = net \cup {bye}
         \/ /\ t.st = "open"
            /\ \E s \in Seq(Transactions) : /\ Finished(s, user[u].trs, "in", t.req, "4xx")
                                            /\ Added(user'[u].trs, s, "out", bye)
            /\ net' = net \cup {bye} \cup {r}
      /\ seen' = seen /\ built' = built
  BY TerminateEffect, Zenon
<1>2. bye.method = "BYE" /\ bye.kind = "request" /\ bye.se = "none"
  BY DEF Within, Request
<1>3. Asks0(u, bye) /\ Fits(bye)
  BY <1>2, SilentAsks0 DEF Fits
<1>4. /\ r.kind = "response" /\ r.from = u /\ r.method = t.req.method /\ r.code = "4xx"
      /\ r.cseq = t.req.cseq /\ r.retry = t.req.retry /\ r.se = "none"
  BY DEF Respond
<1>5. user[u] \in Dialogs /\ user[u].trs \in Seq(Transactions)
  BY DialogFacts
<1>6. t.st = "open" => t.dir = "in" /\ t.req.method = "INVITE" /\ \E i \in DOMAIN user[u].trs : t = user[u].trs[i]
  BY <1>5, LastInvite
<1>7. SaysIn(u, user[u].trs) /\ Fresh(user[u].trs)
  BY FreshNow DEF Refresh, Says
<1>8. FirstOpen => ~seen'.doubled
  BY <1>1 DEF Refresh, WhileFirst
<1> HIDE DEF bye, t, r
<1>9. CASE Added(user'[u].trs, user[u].trs, "out", bye) /\ net' = net \cup {bye}
  <2>1. Quiet(user'[u].trs, user[u].trs)
    BY <1>2, <1>5, <1>9, QuietAdded
  <2>2. SaysIn(u, user'[u].trs)
    BY <1>3, <1>7, <1>9, SaysAdded
  <2> QED
    BY <1>1, <1>2, <1>3, <1>8, <1>9, <2>1, <2>2, RefreshOther
<1>10. CASE /\ t.st = "open"
            /\ \E s \in Seq(Transactions) : /\ Finished(s, user[u].trs, "in", t.req, "4xx")
                                            /\ Added(user'[u].trs, s, "out", bye)
            /\ net' = net \cup {bye} \cup {r}
  <2>1. PICK s \in Seq(Transactions) : /\ Finished(s, user[u].trs, "in", t.req, "4xx")
                                       /\ Added(user'[u].trs, s, "out", bye)
    BY <1>10
  <2>2. PICK i \in DOMAIN user[u].trs : t = user[u].trs[i]
    BY <1>6, <1>10
  <2>3. i \in Opens(user[u].trs, "in")
    BY <1>6, <1>10, <2>2 DEF Opens, Inviting
  <2>4. Quiet(user'[u].trs, s)
    BY <1>2, <2>1, QuietAdded
  <2> DEFINE code == "4xx"
  <2>5. Finished(s, user[u].trs, "in", user[u].trs[i].req, code) /\ code \in Text /\ code # "1xx" /\ r.code = code
    BY <1>4, <2>1, <2>2 DEF Text
  <2>6. SaysIn(u, s) /\ Fresh(s)
    BY <1>5, <1>7, <2>5, SaysFinished
  <2>7. SaysIn(u, user'[u].trs)
    BY <1>3, <2>1, <2>6, SaysAdded
  <2>8. net \cup {r} \subseteq net' /\ \A x \in net' : x \in net \/ x = r \/ (x.method # "INVITE" /\ Fits(x))
    BY <1>2, <1>3, <1>10
  <2>9. r.cseq = user[u].trs[i].req.cseq /\ r.retry = user[u].trs[i].req.retry /\ r.method = "INVITE"
    BY <1>4, <1>6, <1>10, <2>2
  <2> DEFINE kept == FALSE
  <2>10. /\ kept \in BOOLEAN
         /\ kept => code = "2xx" /\ user[u].trs[i].req.se # "none" /\ Usable(user[u])
         /\ r.se = (IF kept THEN TimerInAnswer(user[u].trs[i].req.se).se ELSE "none")
         /\ user'[u].refresher = (IF kept THEN TimerInAnswer(user[u].trs[i].req.se).refresher ELSE user[u].refresher)
    BY <1>1, <1>4
  <2>11. user[u].dlg = "gone" => user'[u].dlg = "gone"
    BY <1>1
  <2>12. (\A v \in User : v # u => user'[v] = user[v]) /\ built' = built
         /\ r.kind = "response" /\ r.from = u
    BY <1>1, <1>4
  <2> HIDE DEF kept, code
  <2> QED
    <3>1. Replies(u, i, code, kept, r, s)
      BY <2>4, <2>5, <2>7, <2>8, <2>9, <2>10, <2>11, <2>12 DEF Replies
    <3> QED
      BY <1>8, <2>1, <2>3, <2>5, <2>10, <2>12, <3>1, RefreshAnswer
<1> QED
  BY <1>1, <1>9, <1>10

LEMMA RefreshNewInvite ==
  ASSUME TypeOK, Numbers, Refresh, NEW u \in User, NEW m \in net, m.from = Peer(u), m.kind = "request", RcvNewInvite(u, m)
  PROVE  Refresh'
<1>0. "caller" \in User /\ "callee" \in User /\ "caller" # "callee"
  BY DEF User
<1>1. /\ ~m.tag /\ Added(user'[u].trs, <<>>, "in", m)
      /\ user'[u].refresher = user[u].refresher
      /\ \A v \in User : v # u => user'[v] = user[v]
      /\ net' = net \ {m} /\ built' = built /\ seen' = seen
  BY NewInviteEffect
<1>2. /\ u = "callee" /\ m.method = "INVITE" /\ user["callee"] = NoDialog
      /\ Added(user["caller"].trs, <<>>, "out", m)
  BY <1>1, FirstInvite DEF Numbers
<1> DEFINE e == <<>>
<1>3. e \in Seq(Transactions) /\ Len(e) + 1 = 1 /\ DOMAIN e = {}
  OBVIOUS
<1>4. Added(user'[u].trs, e, "in", m) /\ Added(user["caller"].trs, e, "out", m)
  BY <1>1, <1>2
<1> HIDE DEF e
<1>5. FirstOpen
  BY <1>3, <1>4 DEF Added, FirstOpen, First
<1>6. \A j \in DOMAIN user'[u].trs : j = 1 /\ user'[u].trs[j].code = "none"
  BY <1>3, <1>4 DEF Added
<1>7. SaysIn(u, user'[u].trs)
  <2>1. SaysIn(u, e) /\ Fresh(e)
    BY <1>3 DEF SaysIn, Fresh
  <2>2. Asks0(Peer(u), m)
    BY <1>1 DEF Asks0
  <2> QED
    BY <1>4, <2>1, <2>2, SaysAdded
<1>8. \A v \in User : Says(v)'
  <2>1. \A v \in User : SaysIn(v, user'[v].trs)
    BY <1>1, <1>7 DEF Refresh, Says
  <2>2. \A v \in User : user[v].refresher = 0 => user'[v].refresher = 0
    BY <1>1
  <2>3. \A x \in net' : x \in net
    BY <1>1
  <2> QED
    BY <1>1, <2>1, <2>2, <2>3, SaysStep DEF Refresh
<1>9. user'["caller"] = user["caller"]
  BY <1>0, <1>1, <1>2
<1>10. /\ HasFirst' /\ (FirstOpen' <=> FirstOpen) /\ (FirstOpen => user'["caller"].trs[1].req = First.req /\ ~seen'.doubled)
       /\ FirstOpen => user'["caller"].dlg # "confirmed"
       /\ user["caller"].dlg = "gone" => user'["caller"].dlg = "gone"
       /\ FirstOpen => \A i \in DOMAIN user'["caller"].trs : user'["caller"].trs[i].req.method = "INVITE" => i = 1
  BY <1>1, <1>9 DEF Refresh, HasFirst, WhileFirst, FirstOpen, First
<1>11. FirstOpen => \A i \in DOMAIN user'["callee"].trs : user'["callee"].trs[i].req.method = "INVITE" => user'["callee"].trs[i].code # "401"
  BY <1>2, <1>6
<1>12. \A v \in User : Finals(v)' = Finals(v)
  BY <1>1 DEF Finals
<1>13. \A v \in User : \A j \in Opens(user'[v].trs, "in") :
             \/ j \in Opens(user[v].trs, "in") /\ user'[v].trs[j].req = user[v].trs[j].req
             \/ user'[v].trs[j].req.tag
             \/ v = "callee" /\ FirstOpen
  BY <1>1, <1>2, <1>5
<1>14. /\ \A r \in Finals("caller")' : r \in Finals("caller") \/ r.cseq # 20
       /\ FirstOpen => Finals("caller")' = Finals("caller")
       /\ \A r \in Finals("callee")' : r \in Finals("callee") \/ ((r.code = "4xx" \/ ~FirstOpen) /\ r.cseq # 20)
  BY <1>0, <1>12
<1>15. \A v \in User : user'[v].refresher = user[v].refresher
  BY <1>1
<1>16. HasFirst' /\ WhileFirst' /\ AfterFirst' /\ OnlyFirst'
  BY <1>10, <1>11, <1>13, <1>14, <1>15, FirstKept
<1> QED
  BY <1>8, <1>16 DEF Refresh

\* An INVITE of the dialog is taken, or refused.
LEMMA RefreshTake ==
  ASSUME TypeOK, Numbers, Exchange, Refresh, NEW u \in User, NEW m \in net, m.from = Peer(u), m.kind = "request", m.tag,
         m.method = "INVITE", Verdict(user[u], m) = "taken",
         Added(user'[u].trs, user[u].trs, "in", m), user'[u].dlg = user[u].dlg, user'[u].refresher = user[u].refresher,
         \A v \in User : v # u => user'[v] = user[v], net' = net \ {m}, built' = built, seen'.doubled = seen.doubled
  PROVE  Refresh'
<1>0. "caller" \in User /\ "callee" \in User /\ "caller" # "callee"
  BY DEF User
<1>1. user[u].trs \in Seq(Transactions) /\ Peer(u) \in User
  BY DialogFacts, Sides
<1>2. /\ DOMAIN user'[u].trs = DOMAIN user[u].trs \cup {Len(user[u].trs) + 1} /\ user'[u].trs[Len(user[u].trs) + 1].code = "none"
      /\ user'[u].trs[Len(user[u].trs) + 1].req = m /\ user'[u].trs[Len(user[u].trs) + 1].dir = "in"
      /\ \A i \in DOMAIN user[u].trs : user'[u].trs[i] = user[u].trs[i]
  BY DEF Added
<1>3. SaysIn(u, user'[u].trs)
  <2>1. SaysIn(u, user[u].trs) /\ Fresh(user[u].trs)
    BY FreshNow DEF Refresh, Says
  <2>2. Asks0(Peer(u), m)
    BY <1>1 DEF Refresh, Says, Pending, Asks
  <2> QED
    BY <2>1, <2>2, SaysAdded
<1>4. \A v \in User : Says(v)'
  <2>1. \A v \in User : SaysIn(v, user'[v].trs)
    BY <1>3 DEF Refresh, Says
  <2>2. \A v \in User : user[v].refresher = 0 => user'[v].refresher = 0
    OBVIOUS
  <2> QED
    BY <2>1, <2>2, SaysStep DEF Refresh
<1>5. HasFirst /\ WhileFirst
  BY DEF Refresh
<1>6. u = "caller" => ~FirstOpen
  <2> SUFFICES ASSUME u = "caller", FirstOpen PROVE FALSE
    OBVIOUS
  <2>1. Latest(u) /\ 1 \in Opens(user[u].trs, "out")
    BY WhileOpen
  <2>2. _eXosip_find_last_out_invite(user[u]).st = "open"
    BY <2>1, OutIsNewest
  <2> QED
    BY <2>2 DEF Verdict
<1>7. HasFirst' /\ (FirstOpen' <=> FirstOpen) /\ (FirstOpen => user'["caller"].trs[1].req = First.req)
  <2>1. 1 \in DOMAIN user'["caller"].trs /\ user'["caller"].trs[1] = user["caller"].trs[1]
    BY <1>0, <1>2, <1>5 DEF HasFirst, User
  <2> QED
    BY <1>5, <2>1 DEF HasFirst, FirstOpen, First
<1>8. FirstOpen => \A i \in DOMAIN user'["caller"].trs : user'["caller"].trs[i].req.method = "INVITE" => i = 1
  BY <1>0, <1>5, <1>6 DEF WhileFirst
<1>9. FirstOpen => \A i \in DOMAIN user'["callee"].trs : user'["callee"].trs[i].req.method = "INVITE" => user'["callee"].trs[i].code # "401"
  BY <1>0, <1>2, <1>5 DEF WhileFirst
<1>10. \A v \in User : Finals(v)' = Finals(v)
  BY DEF Finals
<1>11. \A v \in User : \A j \in Opens(user'[v].trs, "in") :
             \/ j \in Opens(user[v].trs, "in") /\ user'[v].trs[j].req = user[v].trs[j].req
             \/ user'[v].trs[j].req.tag
             \/ v = "callee" /\ FirstOpen
  BY <1>2 DEF Opens, Inviting
<1>12. /\ \A r \in Finals("caller")' : r \in Finals("caller") \/ r.cseq # 20
       /\ FirstOpen => Finals("caller")' = Finals("caller")
       /\ \A r \in Finals("callee")' : r \in Finals("callee") \/ ((r.code = "4xx" \/ ~FirstOpen) /\ r.cseq # 20)
  BY <1>0, <1>10
<1>13. /\ FirstOpen => user'["caller"].dlg # "confirmed"
       /\ user["caller"].dlg = "gone" => user'["caller"].dlg = "gone"
       /\ FirstOpen => ~seen'.doubled
       /\ \A v \in User : user'[v].refresher = user[v].refresher
  BY <1>0, <1>5 DEF WhileFirst
<1>14. HasFirst' /\ WhileFirst' /\ AfterFirst' /\ OnlyFirst'
  BY <1>7, <1>8, <1>9, <1>11, <1>12, <1>13, FirstKept
<1> QED
  BY <1>4, <1>14 DEF Refresh

LEMMA RefreshRefuse ==
  ASSUME TypeOK, Numbers, Exchange, Refresh, NEW u \in User, NEW m \in net, m.from = Peer(u), m.kind = "request", m.tag,
         m.method = "INVITE", NEW r, r.kind = "response", r.from = u, r.method = "INVITE", r.code = "4xx",
         r.cseq = m.cseq, r.se = "none",
         user'[u].trs = user[u].trs, user'[u].dlg = user[u].dlg, user'[u].refresher = user[u].refresher,
         \A v \in User : v # u => user'[v] = user[v], net' = (net \ {m}) \cup {r}, built' = built, seen'.doubled = seen.doubled
  PROVE  Refresh'
<1>0. "caller" \in User /\ "callee" \in User /\ "caller" # "callee" /\ Peer("caller") = "callee" /\ Peer("callee") = "caller"
  BY DEF User, Peer
<1>1. r.cseq # 20
  <2>1. m \in Requests
    BY DEF TypeOK, Responses
  <2>2. m.cseq \in Nat /\ m.cseq > 20
    BY <2>1 DEF Requests, Numbers, Carried
  <2> QED
    BY <2>2
<1>2. Fits(r)
  BY DEF Fits
<1>3. \A v \in User : user'[v].trs = user[v].trs /\ user'[v].dlg = user[v].dlg /\ user'[v].refresher = user[v].refresher
  OBVIOUS
<1>4. \A v \in User : Says(v)'
  <2>1. \A v \in User : SaysIn(v, user'[v].trs)
    BY <1>3 DEF Refresh, Says
  <2>2. \A v \in User : user[v].refresher = 0 => user'[v].refresher = 0
    BY <1>3
  <2> QED
    BY <1>2, <2>1, <2>2, SaysStep DEF Refresh
<1>5. FirstOpen => u # "callee"
  <2> SUFFICES ASSUME FirstOpen, u = "callee" PROVE FALSE
    OBVIOUS
  <2>1. m \in Asked("caller")
    BY <1>0 DEF Asked
  <2> QED
    BY <2>1, WhileOpen
<1>6. \A v \in User : \A x \in Finals(v)' : x \in Finals(v) \/ (x = r /\ u = Peer(v))
  BY DEF Finals
<1>7. FirstOpen => Finals("caller")' = Finals("caller")
  <2> SUFFICES ASSUME FirstOpen PROVE Finals("caller")' = Finals("caller")
    OBVIOUS
  <2>1. r.from # Peer("caller")
    BY <1>0, <1>5
  <2> QED
    BY <1>0, <2>1 DEF Finals
<1>8. /\ \A x \in Finals("caller")' : x \in Finals("caller") \/ x.cseq # 20
      /\ \A x \in Finals("callee")' : x \in Finals("callee") \/ ((x.code = "4xx" \/ ~FirstOpen) /\ x.cseq # 20)
  BY <1>0, <1>1, <1>6
<1>9. user'["caller"].trs = user["caller"].trs /\ user'["callee"].trs = user["callee"].trs /\ user'["caller"].dlg = user["caller"].dlg
  BY <1>0, <1>3
<1>10. /\ HasFirst' /\ (FirstOpen' <=> FirstOpen) /\ (FirstOpen => user'["caller"].trs[1].req = First.req /\ ~seen'.doubled)
       /\ FirstOpen => user'["caller"].dlg # "confirmed"
       /\ FirstOpen => \A i \in DOMAIN user'["caller"].trs : user'["caller"].trs[i].req.method = "INVITE" => i = 1
       /\ FirstOpen => \A i \in DOMAIN user'["callee"].trs : user'["callee"].trs[i].req.method = "INVITE" => user'["callee"].trs[i].code # "401"
  BY <1>9 DEF Refresh, HasFirst, WhileFirst, FirstOpen, First
<1>11. \A v \in User : \A j \in Opens(user'[v].trs, "in") :
             j \in Opens(user[v].trs, "in") /\ user'[v].trs[j].req = user[v].trs[j].req
  BY <1>3
<1>12. HasFirst' /\ WhileFirst' /\ AfterFirst' /\ OnlyFirst'
  BY <1>3, <1>7, <1>8, <1>9, <1>10, <1>11, FirstKept
<1> QED
  BY <1>4, <1>12 DEF Refresh

LEMMA RefreshRequest ==
  ASSUME TypeOK, Numbers, Exchange, Refresh, NEW u \in User, NEW m \in net, m.from = Peer(u), m.kind = "request", RcvRequest(u, m)
  PROVE  Refresh'
<1> DEFINE verdict == Verdict(user[u], m)
           no == Respond(u, m, "4xx", "none", <<>>)
           yes == Respond(u, m, "2xx", "none", <<>>)
<1>1. /\ m.tag
      /\ \A v \in User : v # u => user'[v] = user[v]
      /\ user'[u].refresher = user[u].refresher
      /\ \/ /\ verdict \in {"4xx", "ignored"} /\ user'[u].trs = user[u].trs /\ user'[u].dlg = user[u].dlg
            /\ net' = (net \ {m}) \cup (IF verdict = "4xx" THEN {no} ELSE {})
         \/ /\ verdict = "taken" /\ m.method # "BYE" /\ Added(user'[u].trs, user[u].trs, "in", m) /\ user'[u].dlg = user[u].dlg
            /\ net' = net \ {m}
         \/ /\ verdict = "taken" /\ m.method = "BYE" /\ user'[u].dlg = "gone"
            /\ \E s \in Seq(Transactions) : /\ Added(s, user[u].trs, "in", m)
                                            /\ Finished(user'[u].trs, s, "in", m, "2xx")
            /\ net' = (net \ {m}) \cup {yes}
      /\ built' = built
      /\ seen'.doubled = seen.doubled
  BY RequestEffect, Zenon
<1>2. /\ no.kind = "response" /\ no.from = u /\ no.method = m.method /\ no.code = "4xx" /\ no.cseq = m.cseq
      /\ no.se = "none" /\ yes.method = m.method /\ yes.kind = "response" /\ yes.se = "none"
  BY DEF Respond
<1>3. user[u].trs \in Seq(Transactions) /\ Peer(u) \in User
  BY DialogFacts, Sides
<1>4. \A v \in User : user'[v].refresher = user[v].refresher
  BY <1>1
<1>5. FirstOpen => ~seen'.doubled
  BY <1>1 DEF Refresh, WhileFirst
<1>6. Fits(no) /\ Fits(yes)
  BY <1>2 DEF Fits
<1>7. SaysIn(u, user[u].trs) /\ Fresh(user[u].trs) /\ Asks0(Peer(u), m) /\ \A v \in User : SaysIn(v, user[v].trs)
  BY <1>3, FreshNow DEF Refresh, Says, Pending, Asks
<1>8. verdict = Verdict(user[u], m) /\ Finals("caller") \subseteq net \ {m} /\ "caller" \in User
  BY DEF Finals, User
<1> HIDE DEF verdict, no, yes
<1>9. CASE /\ verdict \in {"4xx", "ignored"} /\ user'[u].trs = user[u].trs /\ user'[u].dlg = user[u].dlg
           /\ net' = (net \ {m}) \cup (IF verdict = "4xx" THEN {no} ELSE {})
  <2>1. CASE verdict = "4xx" /\ m.method = "INVITE"
    <3>1. net' = (net \ {m}) \cup {no}
      BY <1>9, <2>1
    <3> QED
      BY <1>1, <1>2, <1>9, <2>1, <3>1, RefreshRefuse
  <2>2. CASE ~(verdict = "4xx" /\ m.method = "INVITE")
    <3>1. \A x \in net' : x \in net \/ (Fits(x) /\ x.method # "INVITE")
      BY <1>2, <1>6, <1>9, <2>2
    <3>2. \A v \in User : user'[v].trs = user[v].trs /\ user'[v].dlg = user[v].dlg
      BY <1>1, <1>9
    <3>3. \A v \in User : Quiet(user'[v].trs, user[v].trs) /\ SaysIn(v, user'[v].trs)
      BY <1>7, <3>2, QuietRefl
    <3>4. Finals("caller") \subseteq net'
      BY <1>8, <1>9
    <3> QED
      BY <1>1, <1>4, <1>5, <1>8, <3>1, <3>2, <3>3, <3>4, RefreshQuiet
  <2> QED
    BY <2>1, <2>2
<1>10. CASE /\ verdict = "taken" /\ m.method # "BYE" /\ Added(user'[u].trs, user[u].trs, "in", m) /\ user'[u].dlg = user[u].dlg
            /\ net' = net \ {m}
  <2>1. CASE m.method = "INVITE"
    BY <1>1, <1>8, <1>10, <2>1, RefreshTake
  <2>2. CASE m.method # "INVITE"
    <3>1. Quiet(user'[u].trs, user[u].trs) /\ SaysIn(u, user'[u].trs)
      BY <1>3, <1>7, <1>10, <2>2, QuietAdded, SaysAdded
    <3>2. \A v \in User : Quiet(user'[v].trs, user[v].trs) /\ SaysIn(v, user'[v].trs) /\ user'[v].dlg = user[v].dlg
      BY <1>1, <1>7, <1>10, <3>1, QuietRefl
    <3> QED
      BY <1>1, <1>4, <1>5, <1>8, <1>10, <3>2, RefreshQuiet
  <2> QED
    BY <2>1, <2>2
<1>11. CASE /\ verdict = "taken" /\ m.method = "BYE" /\ user'[u].dlg = "gone"
            /\ \E s \in Seq(Transactions) : /\ Added(s, user[u].trs, "in", m)
                                            /\ Finished(user'[u].trs, s, "in", m, "2xx")
            /\ net' = (net \ {m}) \cup {yes}
  <2>1. PICK s \in Seq(Transactions) : /\ Added(s, user[u].trs, "in", m)
                                       /\ Finished(user'[u].trs, s, "in", m, "2xx")
    BY <1>11
  <2>2. m.method # "INVITE" /\ "2xx" \in Text
    BY <1>11 DEF Text
  <2>3. Quiet(s, user[u].trs) /\ SaysIn(u, s) /\ Fresh(s)
    BY <1>3, <1>7, <2>1, <2>2, QuietAdded, SaysAdded
  <2>4. Quiet(user'[u].trs, s) /\ SaysIn(u, user'[u].trs)
    BY <2>1, <2>2, <2>3, QuietFinished, SaysFinished
  <2>5. Quiet(user'[u].trs, user[u].trs)
    BY <2>3, <2>4, QuietTrans
  <2>6. \A v \in User : Quiet(user'[v].trs, user[v].trs) /\ SaysIn(v, user'[v].trs)
    BY <1>1, <1>7, <2>4, <2>5, QuietRefl
  <2>7. \A x \in net' : x \in net \/ (Fits(x) /\ x.method # "INVITE")
    BY <1>2, <1>6, <1>11, <2>2
  <2>8. user'["caller"].dlg = user["caller"].dlg \/ (user["caller"].dlg # "gone" /\ user'["caller"].dlg # "confirmed")
    BY <1>1, <1>8, <1>11
  <2>9. Finals("caller") \subseteq net'
    BY <1>8, <1>11
  <2> QED
    BY <1>1, <1>4, <1>5, <1>8, <2>6, <2>7, <2>8, <2>9, RefreshQuiet
<1> QED
  BY <1>1, <1>9, <1>10, <1>11

\* The final answer to the first INVITE comes in.
LEMMA RefreshFirst ==
  ASSUME TypeOK, Numbers, Exchange, Refresh, FirstOpen, NEW r \in net, r \in Finals("caller"), r.code \in Text,
         net' = net \ {r}, Finished(user'["caller"].trs, user["caller"].trs, "out", r, r.code),
         user'["callee"] = user["callee"], built' = built,
         user["caller"].dlg = "gone" => user'["caller"].dlg = "gone",
         user'["caller"].refresher = IF user["caller"].dlg # "gone" /\ r.code = "2xx" /\ r.se # "none"
                                     THEN TimerAgreed(r.se) ELSE user["caller"].refresher
  PROVE  Refresh'
<1>0. "caller" \in User /\ "callee" \in User /\ "caller" # "callee" /\ Peer("caller") = "callee" /\ Peer("callee") = "caller"
      /\ User = {"caller", "callee"}
  BY DEF User, Peer
<1>1. HasFirst /\ WhileFirst /\ OnlyFirst
  BY DEF Refresh
<1>2. /\ Stage("caller") /\ r.cseq = 20 /\ r.retry = First.req.retry /\ First.req.cseq = 20 /\ Opens(user["caller"].trs, "in") = {}
  BY WhileOpen
<1>3. Opens(user["callee"].trs, "in") = {} /\ \A x \in Finals("caller") : x = r
  BY <1>0, <1>2 DEF Stage
<1>4. user["caller"].trs \in Seq(Transactions)
  BY <1>0, DialogFacts
<1>5. 1 \in DOMAIN user["caller"].trs /\ First.dir = "out" /\ First.st = "open" /\ First.req.method = "INVITE"
      /\ First \in Transactions
  BY <1>0, <1>1, DialogFacts DEF HasFirst, FirstOpen, First
<1>6. Waits(First, "out", r)
  BY <1>2, <1>5 DEF Waits, Finals
<1>7. 1 \in DOMAIN user'["caller"].trs /\ user'["caller"].trs[1] = Final(First, r.code)
  BY <1>5, <1>6 DEF Finished, First
<1>8. Final(First, r.code).dir = "out" /\ Final(First, r.code).st = "done" /\ Final(First, r.code).req.method = "INVITE"
  BY <1>5, FinalFacts
<1>9. HasFirst' /\ ~FirstOpen'
  BY <1>7, <1>8 DEF HasFirst, FirstOpen, First
<1>10. Finals("caller")' = {} /\ Finals("callee")' \subseteq Finals("callee")
  <2>1. Finals("caller")' \subseteq Finals("caller") /\ r \notin Finals("caller")'
    BY DEF Finals
  <2>2. Finals("callee")' \subseteq Finals("callee")
    BY DEF Finals
  <2> QED
    BY <1>3, <2>1, <2>2
<1>11. Opens(user'["caller"].trs, "in") = {}
  <2>1. Opens(user'["caller"].trs, "in") \subseteq Opens(user["caller"].trs, "in")
    <3>1. "in" \in {"in", "out"} /\ "out" \in {"in", "out"}
      OBVIOUS
    <3>2. Opens(user'["caller"].trs, "in") = {k \in Opens(user["caller"].trs, "in") : ~Waits(user["caller"].trs[k], "out", r)}
      BY <1>4, <3>1, FinishedOpens
    <3> QED
      BY <3>2
  <2> QED
    BY <1>2, <2>1
<1>12. OnlyFirst'
  BY <1>1, <1>3, <1>10, <1>11 DEF OnlyFirst
<1>13. WhileFirst'
  BY <1>9 DEF WhileFirst
<1>14. /\ user["caller"].refresher = -1
       /\ r.code # "2xx" => user["callee"].refresher = -1
       /\ r.code = "2xx" => user["callee"].refresher = IF r.se = "none" THEN -1 ELSE 1 - TimerAgreed(r.se)
  BY <1>1, <1>3 DEF WhileFirst
<1>15. AfterFirst'
  <2>1. Pair' = <<user'["caller"].refresher, user["callee"].refresher>>
    BY DEF Pair
  <2>2. CASE user["caller"].dlg = "gone"
    BY <1>14, <2>2 DEF AfterFirst
  <2>3. CASE user["caller"].dlg # "gone" /\ ~(r.code = "2xx" /\ r.se # "none")
    BY <1>14, <2>1, <2>3 DEF AfterFirst
  <2>4. CASE user["caller"].dlg # "gone" /\ r.code = "2xx" /\ r.se # "none"
    <3>1. TimerAgreed(r.se) \in {0, 1}
      BY DEF TimerAgreed
    <3>2. user'["caller"].refresher = TimerAgreed(r.se) /\ user["callee"].refresher = 1 - TimerAgreed(r.se)
      BY <1>14, <2>4
    <3>3. Pair' \in {<<0, 1>>, <<1, 0>>}
      BY <2>1, <3>1, <3>2
    <3> QED
      BY <3>3 DEF AfterFirst
  <2> QED
    BY <2>2, <2>3, <2>4
<1>16. \A v \in User : Says(v)'
  <2>1. SaysIn("caller", user["caller"].trs) /\ Fresh(user["caller"].trs)
    BY <1>0, FreshNow DEF Refresh, Says
  <2>2. SaysIn("caller", user'["caller"].trs)
    BY <1>0, <1>4, <2>1, SaysFinished
  <2>3. \A v \in User : SaysIn(v, user'[v].trs)
    BY <1>0, <2>2 DEF Refresh, Says
  <2>4. \A v \in User : user[v].refresher = 0 => user'[v].refresher = 0
    <3>1. user["caller"].refresher # 0
      BY <1>14
    <3> QED
      BY <1>0, <3>1
  <2>5. \A x \in net' : x \in net
    OBVIOUS
  <2> QED
    BY <2>3, <2>4, <2>5, SaysStep DEF Refresh
<1> QED
  BY <1>9, <1>12, <1>13, <1>15, <1>16 DEF Refresh

\* The final answer to an INVITE of the dialog comes in.
LEMMA RefreshEnd ==
  ASSUME TypeOK, Numbers, Exchange, Refresh, NEW u \in User, ~(u = "caller" /\ FirstOpen),
         NEW r \in net, r.kind = "response", r.from = Peer(u), r.method = "INVITE", r.code \in Text, r.code # "1xx",
         net' = net \ {r}, Finished(user'[u].trs, user[u].trs, "out", r, r.code),
         \A v \in User : v # u => user'[v] = user[v], built' = built, seen'.doubled = seen.doubled,
         user[u].dlg = "gone" => user'[u].dlg = "gone",
         user'[u].refresher = IF user[u].dlg # "gone" /\ r.code = "2xx" /\ r.se # "none"
                              THEN TimerAgreed(r.se) ELSE user[u].refresher
  PROVE  Refresh'
<1>0. "caller" \in User /\ "callee" \in User /\ "caller" # "callee" /\ Peer("caller") = "callee" /\ Peer("callee") = "caller"
      /\ User = {"caller", "callee"}
  BY DEF User, Peer
<1>1. HasFirst /\ WhileFirst /\ OnlyFirst /\ SaysIn(u, user[u].trs) /\ Fresh(user[u].trs) /\ \A v \in User : Says(v)
  BY FreshNow DEF Refresh, Says
<1>2. r \in Finals(u)
  BY DEF Finals
<1>3. r.cseq # 20
  BY <1>0, <1>1, <1>2 DEF OnlyFirst
<1>4. r.se # "none" => r.se = "uac" /\ user[u].refresher = 0
  BY <1>1, <1>2, <1>3 DEF Says
<1>5. user'[u].refresher = user[u].refresher
  BY <1>4 DEF TimerAgreed
<1>6. \A v \in User : user'[v].refresher = user[v].refresher
  BY <1>5
<1>7. user[u].trs \in Seq(Transactions)
  BY DialogFacts
<1>8a. /\ \A j \in DOMAIN user'[u].trs : j \in DOMAIN user[u].trs /\ user'[u].trs[j].dir = user[u].trs[j].dir
                                        /\ user'[u].trs[j].req.method = user[u].trs[j].req.method
      /\ \A d \in {"in", "out"} : /\ Opens(user'[u].trs, d) = {k \in Opens(user[u].trs, d) : ~Waits(user[u].trs[k], "out", r)}
                                  /\ \A k \in Opens(user'[u].trs, d) : user'[u].trs[k] = user[u].trs[k]
  BY <1>7, FinishedOpens
<1>8b. DOMAIN user'[u].trs = DOMAIN user[u].trs
  BY DEF Finished
<1>8. /\ \A j \in DOMAIN user'[u].trs : j \in DOMAIN user[u].trs /\ user'[u].trs[j].dir = user[u].trs[j].dir
                                        /\ user'[u].trs[j].req.method = user[u].trs[j].req.method
      /\ \A d \in {"in", "out"} : /\ Opens(user'[u].trs, d) = {k \in Opens(user[u].trs, d) : ~Waits(user[u].trs[k], "out", r)}
                                  /\ \A k \in Opens(user'[u].trs, d) : user'[u].trs[k] = user[u].trs[k]
      /\ DOMAIN user'[u].trs = DOMAIN user[u].trs
  BY <1>8a, <1>8b
<1>9. \A v \in User : Says(v)'
  <2>1. SaysIn(u, user'[u].trs)
    BY <1>1, <1>7, SaysFinished
  <2>2. \A v \in User : SaysIn(v, user'[v].trs)
    BY <1>1, <2>1 DEF Says
  <2>3. \A v \in User : user[v].refresher = 0 => user'[v].refresher = 0
    BY <1>6
  <2>4. \A x \in net' : x \in net
    OBVIOUS
  <2> QED
    BY <1>1, <2>2, <2>3, <2>4, SaysStep
<1>10. /\ HasFirst' /\ (FirstOpen' <=> FirstOpen) /\ (FirstOpen => user'["caller"].trs[1].req = First.req)
       /\ (FirstOpen => \A j \in DOMAIN user'["caller"].trs : user'["caller"].trs[j].req.method = "INVITE" => j = 1)
  <2>1. CASE u = "caller"
    <3>1. 1 \in DOMAIN user'[u].trs /\ user'[u].trs[1].dir = "out" /\ user'[u].trs[1].req.method = "INVITE"
      BY <1>1, <1>8, <2>1 DEF HasFirst, First
    <3>2. 1 \notin Opens(user'[u].trs, "out")
      BY <1>8, <2>1 DEF FirstOpen, First, Opens, Inviting
    <3>3. user'[u].trs[1].st # "open"
      BY <3>1, <3>2 DEF Opens, Inviting
    <3> QED
      BY <2>1, <3>1, <3>3 DEF HasFirst, First, FirstOpen
  <2>2. CASE u # "caller"
    <3>1. user'["caller"] = user["caller"]
      BY <1>0, <2>2
    <3> QED
      BY <1>1, <3>1 DEF HasFirst, First, FirstOpen, WhileFirst
  <2> QED
    BY <2>1, <2>2
<1>11. FirstOpen => \A j \in DOMAIN user'["callee"].trs : user'["callee"].trs[j].req.method = "INVITE" => user'["callee"].trs[j].code # "401"
  <2> SUFFICES ASSUME FirstOpen, NEW j \in DOMAIN user'["callee"].trs, user'["callee"].trs[j].req.method = "INVITE",
                      user'["callee"].trs[j].code = "401"
               PROVE  FALSE
    OBVIOUS
  <2>1. u = "callee" /\ r.code = "4xx"
    BY <1>0, <1>1, <1>2 DEF WhileFirst
  <2>2. j \in DOMAIN user[u].trs /\ user[u].trs[j].req.method = "INVITE" /\ user[u].trs[j] \in Transactions
    BY <1>8, <2>1, DialogFacts
  <2>3. user[u].trs[j].code # "401"
    BY <1>1, <2>1, <2>2 DEF WhileFirst
  <2>4. Final(user[u].trs[j], r.code).code = user[u].trs[j].code
    BY <2>1, <2>2, FinalFacts
  <2> QED
    BY <2>1, <2>2, <2>3, <2>4 DEF Finished
<1>12. \A v \in User : \A j \in Opens(user'[v].trs, "in") :
             j \in Opens(user[v].trs, "in") /\ user'[v].trs[j].req = user[v].trs[j].req
  <2> SUFFICES ASSUME NEW v \in User, NEW j \in Opens(user'[v].trs, "in")
               PROVE  j \in Opens(user[v].trs, "in") /\ user'[v].trs[j].req = user[v].trs[j].req
    OBVIOUS
  <2>1. CASE v = u
    BY <1>8, <2>1
  <2>2. CASE v # u
    BY <2>2
  <2> QED
    BY <2>1, <2>2
<1>13. \A v \in User : Finals(v)' \subseteq Finals(v)
  BY DEF Finals
<1>14. FirstOpen => Finals("caller")' = Finals("caller")
  <2> SUFFICES ASSUME FirstOpen PROVE Finals("caller")' = Finals("caller")
    OBVIOUS
  <2>1. r.from # Peer("caller")
    BY <1>0
  <2> QED
    BY <2>1 DEF Finals
<1>15. /\ \A x \in Finals("caller")' : x \in Finals("caller") \/ x.cseq # 20
       /\ \A x \in Finals("callee")' : x \in Finals("callee") \/ ((x.code = "4xx" \/ ~FirstOpen) /\ x.cseq # 20)
  BY <1>0, <1>13
<1>16. /\ FirstOpen => user'["caller"].dlg # "confirmed"
       /\ user["caller"].dlg = "gone" => user'["caller"].dlg = "gone"
       /\ FirstOpen => ~seen'.doubled
  BY <1>0, <1>1 DEF WhileFirst
<1>17. HasFirst' /\ WhileFirst' /\ AfterFirst' /\ OnlyFirst'
  BY <1>6, <1>10, <1>11, <1>12, <1>14, <1>15, <1>16, FirstKept
<1> QED
  BY <1>9, <1>17 DEF Refresh

LEMMA RefreshResponse ==
  ASSUME TypeOK, Numbers, Exchange, Refresh, NEW u \in User, NEW r \in net, r.from = Peer(u), r.kind = "response", RcvResponse(u, r)
  PROVE  Refresh'
<1> DEFINE waiting == {i \in DOMAIN user[u].trs : Waits(user[u].trs[i], "out", r)}
           a == Answered(user[u], r)
<1>1. /\ r \in Responses /\ net' = net \ {r} /\ built' = built
      /\ seen'.doubled = seen.doubled
      /\ \A v \in User : v # u => user'[v] = user[v]
      /\ \/ waiting = {} /\ user' = user
         \/ /\ waiting # {}
            /\ user'[u].dlg = a.dlg /\ user'[u].refresher = a.refresher
            /\ IF r.code = "1xx" THEN user'[u].trs = user[u].trs
               ELSE Finished(user'[u].trs, user[u].trs, "out", r, r.code)
  BY ResponseEffect, Zenon
<1>2. r.code \in Text /\ user[u].trs \in Seq(Transactions) /\ user[u] \in Dialogs
  BY <1>1, DialogFacts DEF Responses
<1>3. r.method = "INVITE" =>
         /\ a.dlg = IF r.code \in {"4xx", "401"} THEN IF user[u].dlg = "early" THEN "gone" ELSE user[u].dlg
                    ELSE IF user[u].dlg = "gone" THEN "gone"
                    ELSE IF r.code = "2xx" THEN "confirmed"
                    ELSE IF user[u].dlg = "none" THEN "early" ELSE user[u].dlg
         /\ a.refresher = IF user[u].dlg # "gone" /\ r.code = "2xx" /\ r.se # "none" THEN TimerAgreed(r.se) ELSE user[u].refresher
  <2> DEFINE d == user[u]
             e == InviteAnswered(d, r)
             new == r.code \notin {"4xx", "401"} /\ d.dlg # "gone"
  <2>1. /\ e.dlg = IF r.code \in {"4xx", "401"} THEN IF d.dlg = "early" THEN "gone" ELSE d.dlg
                       ELSE IF d.dlg = "gone" THEN "gone"
                       ELSE IF r.code = "2xx" THEN "confirmed"
                       ELSE IF d.dlg = "none" THEN "early" ELSE d.dlg
        /\ e.refresher = IF new /\ r.code = "2xx" /\ r.se # "none" THEN TimerAgreed(r.se) ELSE d.refresher
    BY <1>1, <1>2, InviteAnsweredFacts
  <2>2. r.method = "INVITE" => a = e
    BY DEF Answered
  <2> HIDE DEF e, a
  <2> QED
    BY <2>1, <2>2
<1>4. r.method # "INVITE" => a = user[u]
  BY DEF Answered
<1>5. Finals("caller") \subseteq net /\ "caller" \in User /\ "callee" \in User /\ Peer("caller") = "callee" /\ Peer("callee") = "caller"
  BY DEF Finals, User, Peer
<1>6. (FirstOpen => ~seen'.doubled) /\ \A v \in User : SaysIn(v, user[v].trs)
  BY <1>1 DEF Refresh, WhileFirst, Says
<1>7. FirstOpen /\ r \in Finals("caller") => waiting # {} /\ u = "caller"
  <2> SUFFICES ASSUME FirstOpen, r \in Finals("caller") PROVE waiting # {} /\ u = "caller"
    OBVIOUS
  <2>1. u = "caller"
    BY <1>5 DEF Finals, User
  <2>2. r.cseq = 20 /\ r.retry = First.req.retry /\ First.req.cseq = 20
    BY WhileOpen
  <2>3. 1 \in DOMAIN user[u].trs /\ user[u].trs[1].dir = "out" /\ user[u].trs[1].st = "open" /\ user[u].trs[1].req.method = "INVITE"
    BY <2>1 DEF Refresh, HasFirst, FirstOpen, First
  <2>4. Waits(user[u].trs[1], "out", r)
    BY <2>1, <2>2, <2>3 DEF Waits, First, Finals
  <2> QED
    BY <2>1, <2>3, <2>4
<1> HIDE DEF waiting, a
<1>8. CASE waiting = {} /\ user' = user
  <2>1. FirstOpen => Finals("caller") \subseteq net'
    BY <1>1, <1>5, <1>7, <1>8
  <2>2. \A v \in User : Quiet(user'[v].trs, user[v].trs) /\ SaysIn(v, user'[v].trs)
    BY <1>6, <1>8, QuietRefl
  <2> QED
    BY <1>1, <1>6, <1>8, <2>1, <2>2, RefreshQuiet
<1>9. CASE /\ waiting # {}
           /\ user'[u].dlg = a.dlg /\ user'[u].refresher = a.refresher
           /\ IF r.code = "1xx" THEN user'[u].trs = user[u].trs
              ELSE Finished(user'[u].trs, user[u].trs, "out", r, r.code)
  <2>1. CASE r.method = "INVITE" /\ r.code = "1xx"
    <3>1. /\ user'[u].trs = user[u].trs /\ user'[u].refresher = user[u].refresher
          /\ (user'[u].dlg = user[u].dlg \/ (user[u].dlg # "gone" /\ user'[u].dlg # "confirmed"))
      BY <1>3, <1>9, <2>1
    <3>2. \A v \in User : user'[v].trs = user[v].trs /\ user'[v].refresher = user[v].refresher
      BY <1>1, <3>1
    <3>3. user'["caller"].dlg = user["caller"].dlg \/ (user["caller"].dlg # "gone" /\ user'["caller"].dlg # "confirmed")
      BY <1>1, <1>5, <3>1
    <3>4. \A v \in User : Quiet(user'[v].trs, user[v].trs) /\ SaysIn(v, user'[v].trs)
      BY <1>6, <3>2, QuietRefl
    <3>5. Finals("caller") \subseteq net'
      BY <1>1, <2>1 DEF Finals
    <3> QED
      BY <1>1, <1>6, <3>2, <3>3, <3>4, <3>5, RefreshQuiet
  <2>2. CASE r.method = "INVITE" /\ r.code # "1xx"
    <3>1. /\ Finished(user'[u].trs, user[u].trs, "out", r, r.code)
          /\ user[u].dlg = "gone" => user'[u].dlg = "gone"
          /\ user'[u].refresher = IF user[u].dlg # "gone" /\ r.code = "2xx" /\ r.se # "none" THEN TimerAgreed(r.se) ELSE user[u].refresher
      BY <1>3, <1>9, <2>2
    <3>2. CASE u = "caller" /\ FirstOpen
      <4>1. r \in Finals("caller") /\ user'["callee"] = user["callee"]
        BY <1>1, <1>5, <2>2, <3>2 DEF Finals
      <4> QED
        BY <1>1, <1>2, <3>1, <3>2, <4>1, RefreshFirst
    <3>3. CASE ~(u = "caller" /\ FirstOpen)
      BY <1>1, <1>2, <2>2, <3>1, <3>3, RefreshEnd
    <3> QED
      BY <3>2, <3>3
  <2>3. CASE r.method # "INVITE"
    <3>1. user'[u].dlg = user[u].dlg /\ user'[u].refresher = user[u].refresher
      BY <1>4, <1>9, <2>3
    <3>2. Quiet(user'[u].trs, user[u].trs) /\ SaysIn(u, user'[u].trs)
      <4>1. CASE r.code = "1xx"
        BY <1>6, <1>9, <4>1, QuietRefl
      <4>2. CASE r.code # "1xx"
        <5>1. Fresh(user[u].trs)
          BY FreshNow
        <5> QED
          BY <1>2, <1>6, <1>9, <2>3, <4>2, <5>1, QuietFinished, SaysFinished
      <4> QED
        BY <4>1, <4>2
    <3>3. \A v \in User : /\ Quiet(user'[v].trs, user[v].trs) /\ SaysIn(v, user'[v].trs)
                          /\ user'[v].dlg = user[v].dlg /\ user'[v].refresher = user[v].refresher
      BY <1>1, <1>6, <3>1, <3>2, QuietRefl
    <3>4. Finals("caller") \subseteq net'
      BY <1>1, <2>3 DEF Finals
    <3> QED
      BY <1>1, <1>5, <1>6, <3>3, <3>4, RefreshQuiet
  <2> QED
    BY <2>1, <2>2, <2>3
<1> QED
  BY <1>1, <1>8, <1>9

LEMMA RefreshStep ==
  ASSUME TypeOK, Numbers, Exchange, Refresh, [Next]_vars
  PROVE  Refresh'
<1>1. CASE UNCHANGED vars
  <2>1. \A v \in User : Quiet(user'[v].trs, user[v].trs) /\ SaysIn(v, user'[v].trs)
    BY <1>1, QuietRefl DEF vars, Refresh, Says
  <2>2. Finals("caller") \subseteq net /\ (FirstOpen => ~seen.doubled)
    BY DEF Finals, Refresh, WhileFirst
  <2> QED
    BY <1>1, <2>1, <2>2, RefreshQuiet DEF vars
<1>2. CASE Next
  BY <1>2, Steps, RefreshBuild, RefreshSend, RefreshTerminate, RefreshMove, RefreshAnswerInvite,
     RefreshAnswerOther, RefreshRetry, RefreshTimer, RefreshNewInvite, RefreshRequest, RefreshResponse, Zenon
<1> QED
  BY <1>1, <1>2

LEMMA RefreshInit ==
  ASSUME Init
  PROVE  Refresh
<1>1. PICK m \in Requests :
            /\ TypeOK
            /\ m.kind = "request" /\ m.from = "caller" /\ m.method = "INVITE" /\ m.cseq = 20 /\ ~m.retry
            /\ ~m.tag /\ m.contact = Address("caller", 0) /\ m.uri = Address("callee", 0) /\ m.routes = <<>>
            /\ net = {m}
            /\ user["callee"] = NoDialog
            /\ Added(user["caller"].trs, <<>>, "out", m) /\ Len(user["caller"].trs) = 1
            /\ user["caller"].dlg = "none" /\ user["caller"].lcseq = 0 /\ user["caller"].rcseq = -1
            /\ user["caller"].refresher = -1 /\ user["caller"].contact = 0
            /\ built = [u \in User |-> Nothing]
            /\ seen.retried = {} /\ seen.ignored = {} /\ seen.met = [u \in User |-> 0]
            /\ ~seen.spoilt /\ ~seen.doubled
  BY InitFacts
<1>2. user["callee"].trs = <<>> /\ user["callee"].refresher = -1
  BY <1>1, NewDialog
<1> DEFINE e == <<>>
<1>3. e \in Seq(Transactions) /\ Len(e) + 1 = 1 /\ DOMAIN e = {} /\ user["callee"].trs = e /\ Added(user["caller"].trs, e, "out", m)
  BY <1>1, <1>2
<1> HIDE DEF e
<1>4. /\ DOMAIN user["caller"].trs = {1} /\ First.dir = "out" /\ First.st = "open" /\ First.req = m /\ First.code = "none"
  BY <1>3 DEF Added, First
<1>5. \A v \in User : Finals(v) = {}
  BY <1>1 DEF Finals
<1>6. "caller" \in User /\ "callee" \in User /\ User = {"caller", "callee"}
  BY DEF User
<1>7. HasFirst /\ FirstOpen
  BY <1>1, <1>4 DEF HasFirst, FirstOpen
<1>8. WhileFirst
  BY <1>1, <1>2, <1>3, <1>4, <1>5, <1>6 DEF WhileFirst
<1>9. AfterFirst
  BY <1>7 DEF AfterFirst
<1>10. Opens(user["caller"].trs, "in") = {} /\ Opens(user["callee"].trs, "in") = {}
  BY <1>3, <1>4 DEF Opens, Inviting, First
<1>11. OnlyFirst
  BY <1>5, <1>6, <1>10 DEF OnlyFirst
<1>12. \A v \in User : Says(v)
  <2> TAKE v \in User
  <2>1. Asks0(v, m)
    BY <1>1 DEF Asks0
  <2>2. \A x \in Pending(v) : x = m
    BY <1>1 DEF Pending, Asks
  <2>3. SaysIn(v, user[v].trs)
    <3>1. CASE v = "caller"
      BY <1>1, <1>4, <3>1 DEF SaysIn, First, Asks0
    <3>2. CASE v = "callee"
      BY <1>3, <3>2 DEF SaysIn
    <3> QED
      BY <1>6, <3>1, <3>2
  <2> QED
    BY <1>5, <2>1, <2>2, <2>3 DEF Says
<1> QED
  BY <1>7, <1>8, <1>9, <1>11, <1>12 DEF Refresh

\* In an established call, when no INVITE is under way, either nobody refreshes the
\* session or exactly one side does, whoever asked for it last and whatever crossed.
THEOREM Refreshed == Spec => []OneRefresher
<1>1. Init => TypeOK /\ Numbers /\ Exchange /\ Refresh
  BY InitFacts, NumbersInit, ExchangeInit, RefreshInit
<1>2. TypeOK /\ Numbers /\ Exchange /\ Refresh /\ [Next]_vars => TypeOK' /\ Numbers' /\ Exchange' /\ Refresh'
  BY TypeStep, NumbersStep, ExchangeStep, RefreshStep
<1>3. Refresh => OneRefresher
  <2> SUFFICES ASSUME Refresh, Established PROVE Pair \in {<<-1, -1>>, <<0, 1>>, <<1, 0>>}
    BY DEF OneRefresher, Pair
  <2>1. user["caller"].dlg = "confirmed"
    BY DEF Established, User
  <2> QED
    BY <2>1 DEF Refresh, WhileFirst, AfterFirst
<1> QED
  BY <1>1, <1>2, <1>3, PTL DEF Spec

-----------------------------------------------------------------------------
(* Requests go the way that was recorded *)

\* Every proxy that recorded itself puts ";lr" into its URI.
LooseProxies == \A c \in Calls : \A i \in DOMAIN c.chain : c.chain[i] \notin Strict \cup User

\* The proxies from one side to the other.
Along(u) == IF u = "caller" THEN chain ELSE Reverse(chain)

\* A request of the dialog has the route set and the other side's contact; the first INVITE
\* has no tag, and only the caller sends one.
Straight(m) == /\ m.contact.host = m.from
               /\ IF m.tag THEN m.routes = Along(m.from) /\ m.uri.host = Peer(m.from)
                  ELSE m.from = "caller"

\* An answer to an INVITE says where its sender is and, unless it refuses, which way the
\* request came.
Recorded(r) == r.method = "INVITE" =>
    r.contact.host = r.from /\ (r.code \notin {"4xx", "401"} => r.rr = Along(r.from))

Right(x) == IF x.kind = "request" THEN Straight(x) ELSE Recorded(x)

Heads(u, d) == Usable(d) => d.routes = Along(u) /\ d.target.host = Peer(u)

StraightIn(s) == \A i \in DOMAIN s : Live(s[i]) => Straight(s[i].req)

Routes == /\ \A i \in DOMAIN chain : Loose(chain[i])
          /\ \A u \in User : /\ Heads(u, user[u])
                             /\ StraightIn(user[u].trs)
                             /\ built[u] # Nothing => Straight(built[u])
          /\ \A x \in net : Right(x)

\* A sequence turned twice is the sequence.
LEMMA ReverseTwice ==
  ASSUME NEW T, NEW s \in Seq(T)
  PROVE  /\ Reverse(Reverse(s)) = s /\ Len(Reverse(s)) = Len(s)
         /\ \A i \in DOMAIN Reverse(s) : \E j \in DOMAIN s : Reverse(s)[i] = s[j]
<1> DEFINE r == Reverse(s)
<1>1. /\ r \in Seq(T) /\ Len(r) = Len(s) /\ DOMAIN r = 1 .. Len(s) /\ DOMAIN s = 1 .. Len(s)
      /\ \A i \in 1 .. Len(s) : r[i] = s[(Len(s) - i) + 1]
  BY Sequences DEF Reverse
<1>2. \A i \in 1 .. Len(s) : (Len(s) - i) + 1 \in 1 .. Len(s)
  OBVIOUS
<1> HIDE DEF r
<1>3. /\ Len(Reverse(r)) = Len(s) /\ DOMAIN Reverse(r) = 1 .. Len(s)
      /\ \A i \in 1 .. Len(s) : Reverse(r)[i] = r[(Len(s) - i) + 1]
      /\ Reverse(r) = [i \in 1 .. Len(s) |-> r[(Len(s) - i) + 1]]
  BY <1>1 DEF Reverse
<1>4. \A i \in 1 .. Len(s) : r[(Len(s) - i) + 1] = s[i]
  <2> TAKE i \in 1 .. Len(s)
  <2>1. r[(Len(s) - i) + 1] = s[(Len(s) - ((Len(s) - i) + 1)) + 1]
    BY <1>1, <1>2
  <2>2. (Len(s) - ((Len(s) - i) + 1)) + 1 = i
    OBVIOUS
  <2> QED
    BY <2>1, <2>2
<1>5. Reverse(r) = [i \in 1 .. Len(s) |-> s[i]]
  BY <1>3, <1>4
<1>6. s = [i \in 1 .. Len(s) |-> s[i]]
  OBVIOUS
<1>7. \A i \in DOMAIN r : \E j \in DOMAIN s : r[i] = s[j]
  BY <1>1, <1>2
<1> QED
  BY <1>1, <1>5, <1>6, <1>7 DEF r

LEMMA AlongFacts ==
  ASSUME chain \in Seq(Addresses), \A i \in DOMAIN chain : Loose(chain[i]), NEW u \in User
  PROVE  /\ Along(u) \in Seq(Addresses) /\ Len(Along(u)) = Len(chain)
         /\ \A i \in DOMAIN Along(u) : Loose(Along(u)[i])
         /\ Reverse(Along(u)) = Along(Peer(u)) /\ Reverse(Along(Peer(u))) = Along(u)
<1>1. Reverse(chain) \in Seq(Addresses)
  BY Sequences
<1>2. /\ Reverse(Reverse(chain)) = chain /\ Len(Reverse(chain)) = Len(chain)
      /\ \A i \in DOMAIN Reverse(chain) : \E j \in DOMAIN chain : Reverse(chain)[i] = chain[j]
  BY ReverseTwice
<1> QED
  BY <1>1, <1>2 DEF Along, User, Peer

\* Proxies with ";lr" leave the Request-URI alone: each takes its own Route away, and the
\* request ends where the Request-URI says.
LEMMA StraightPath ==
  ASSUME NEW m \in Requests, chain \in Seq(Addresses), Len(m.routes) = Len(chain),
         \A i \in DOMAIN m.routes : Loose(m.routes[i]), m.uri.host \in User
  PROVE  Path(m).visited = m.routes /\ Path(m).at = m.uri
<1> DEFINE N == Len(chain)
           c == m.routes
           rest(k) == SubSeq(c, k + 1, N)
           here(k) == IF k = N THEN m.uri ELSE c[k + 1]
<1>0. N \in Nat /\ c \in Seq(Addresses) /\ DOMAIN c = 1 .. N
  BY DEF Requests
<1>1. PICK way : /\ way = [k \in 0 .. N + 1 |->
                              IF k = 0 THEN [m |-> m, at |-> NextHop(m), visited |-> <<>>]
                              ELSE LET w == way[k-1] IN IF w.at.host \in User THEN w ELSE Forward(w)]
                 /\ Path(m) = way[N + 1]
  BY WayIs
<1> DEFINE At(k) == /\ way[k].m.routes = rest(k) /\ way[k].m.uri = m.uri
                    /\ way[k].at = here(k) /\ way[k].visited = SubSeq(c, 1, k)
                    /\ way[k] \in Walks
           G == {k \in Nat : k <= N => At(k)}
<1>2. \A k \in 0 .. N : /\ rest(k) \in Seq(Addresses) /\ Len(rest(k)) = N - k
                        /\ k < N => rest(k)[1] = c[k + 1] /\ Tail(rest(k)) = rest(k + 1) /\ rest(k) # <<>>
                        /\ k = N => rest(k) = <<>>
  BY <1>0
<1>2a. \A k \in 0 .. N : /\ k < N => Append(SubSeq(c, 1, k), c[k + 1]) = SubSeq(c, 1, k + 1)
                         /\ SubSeq(c, 1, k) \in Seq(Addresses)
  BY <1>0
<1>2b. rest(0) = c /\ SubSeq(c, 1, N) = c /\ SubSeq(c, 1, 0) = <<>>
  BY <1>0
<1>3. \A k \in 0 .. N : k < N => Loose(c[k + 1]) /\ c[k + 1].host \notin User /\ c[k + 1].host \notin Strict
  BY <1>0 DEF Loose
<1>4. 0 \in G
  <2>1. way[0] = [m |-> m, at |-> NextHop(m), visited |-> <<>>]
    BY <1>0, <1>1
  <2>2. NextHop(m) = here(0)
    BY <1>0, <1>3 DEF NextHop
  <2>3. way[0] \in Walks
    BY <2>1, NextHopType, <1>0 DEF Walks
  <2>4. At(0)
    BY <1>2b, <2>1, <2>2, <2>3
  <2> HIDE DEF At
  <2> QED
    BY <2>4
<1>5. ASSUME NEW k \in Nat, k \in G PROVE k + 1 \in G
  <2> HIDE DEF At
  <2>1. SUFFICES ASSUME k + 1 <= N PROVE At(k + 1)
    OBVIOUS
  <2> DEFINE w == way[k]
  <2>2. k \in 0 .. N /\ k < N /\ At(k)
    BY <1>0, <1>5, <2>1
  <2>3. way[k + 1] = IF w.at.host \in User THEN w ELSE Forward(w)
    <3>1. k + 1 \in 0 .. N + 1 /\ k + 1 # 0 /\ (k + 1) - 1 = k
      BY <1>0, <2>1
    <3> QED
      BY <1>1, <3>1
  <2>4. w.at = c[k + 1] /\ w.m.routes = rest(k) /\ w.m.uri = m.uri /\ w.visited = SubSeq(c, 1, k) /\ w \in Walks
    BY <2>2 DEF At
  <2>5. /\ w.at.host \notin User /\ w.m.uri # w.at
        /\ w.m.routes # <<>> /\ w.m.routes[1] = w.at /\ Tail(w.m.routes) = rest(k + 1)
    BY <1>2, <1>3, <2>2, <2>4
  <2> HIDE DEF w
  <2> DEFINE f == [w.m EXCEPT !.routes = rest(k + 1)]
  <2>6. f.uri = m.uri /\ f.routes = rest(k + 1)
    BY <2>4, <1>2, <2>1 DEF Walks, Requests
  <2>7. f.routes = <<>> \/ Loose(f.routes[1])
    <3>1. k + 1 \in 0 .. N
      BY <1>0, <2>1
    <3>2. CASE k + 1 = N
      BY <1>2, <2>6, <3>1, <3>2
    <3>3. CASE k + 1 < N
      BY <1>2, <1>3, <2>6, <3>1, <3>3
    <3> QED
      BY <1>0, <3>1, <3>2, <3>3
  <2>8. NextHop(f) = here(k + 1)
    <3>1. k + 1 \in 0 .. N
      BY <1>0, <2>1
    <3>2. CASE k + 1 = N
      BY <1>2, <2>6, <3>1, <3>2 DEF NextHop
    <3>3. CASE k + 1 < N
      BY <1>2, <1>3, <2>6, <3>1, <3>3 DEF NextHop
    <3> QED
      BY <1>0, <3>1, <3>2, <3>3
  <2>9. Forward(w) = [m |-> f, at |-> NextHop(f), visited |-> Append(w.visited, w.at)]
    <3> DEFINE popped == IF w.m.routes # <<>> /\ w.m.routes[1] = w.at THEN Tail(w.m.routes) ELSE w.m.routes
               a == IF w.m.uri # w.at \/ popped = <<>> THEN [w.m EXCEPT !.routes = popped]
                    ELSE IF w.at.host \in Strict
                    THEN [w.m EXCEPT !.uri = Head(popped), !.routes = Tail(popped)]
                    ELSE [w.m EXCEPT !.uri = Last(popped), !.routes = Front(popped)]
               sent == IF w.at.host \in Strict \/ a.routes = <<>> \/ Loose(a.routes[1]) THEN a
                       ELSE [a EXCEPT !.uri = Head(a.routes), !.routes = Append(Tail(a.routes), a.uri)]
    <3>1. Forward(w) = [m |-> sent, at |-> NextHop(sent), visited |-> Append(w.visited, w.at)]
      BY DEF Forward
    <3>2. popped = rest(k + 1)
      BY <2>5
    <3> HIDE DEF popped
    <3>3. a = f
      BY <2>5, <3>2
    <3> HIDE DEF a, f
    <3>4. sent = f
      BY <2>7, <3>3
    <3> QED
      BY <3>1, <3>4
  <2>10. way[k + 1] = [m |-> f, at |-> here(k + 1), visited |-> SubSeq(c, 1, k + 1)]
    BY <1>2a, <2>2, <2>3, <2>4, <2>5, <2>8, <2>9
  <2>11. way[k + 1] \in Walks
    BY <2>3, <2>4, <2>5, ForwardType
  <2> HIDE DEF f
  <2> QED
    BY <2>6, <2>10, <2>11 DEF At
<1> HIDE DEF G
<1>6. N \in G
  BY <1>0, <1>4, <1>5, Induction
<1>7. At(N)
  BY <1>0, <1>6 DEF G
<1>8. way[N + 1] = way[N]
  <2>1. N + 1 \in 0 .. N + 1 /\ N + 1 # 0 /\ (N + 1) - 1 = N
    BY <1>0
  <2>2. way[N].at.host \in User
    BY <1>7
  <2> QED
    BY <1>1, <2>1, <2>2
<1> QED
  BY <1>1, <1>2b, <1>7, <1>8

\* So what is recorded on the way of such a request is the way back.
LEMMA RecordedRight ==
  ASSUME TypeOK, Routes, NEW m \in Requests, Straight(m)
  PROVE  RecordRoute(m) = Along(Peer(m.from)) /\ (m.tag => Path(m).visited = Along(m.from) /\ Path(m).at.host = Peer(m.from))
<1>1. m.from \in User /\ Peer(m.from) \in User /\ chain \in Seq(Addresses)
  BY Sides DEF Requests, TypeOK
<1>2. /\ Len(Along(m.from)) = Len(chain)
      /\ \A i \in DOMAIN Along(m.from) : Loose(Along(m.from)[i])
      /\ Reverse(Along(m.from)) = Along(Peer(m.from))
  BY <1>1, AlongFacts DEF Routes
<1>3. CASE m.tag
  <2>1. m.routes = Along(m.from) /\ m.uri.host = Peer(m.from)
    BY <1>3 DEF Straight
  <2>2. Path(m).visited = m.routes /\ Path(m).at = m.uri
    BY <1>1, <1>2, <2>1, StraightPath
  <2> QED
    BY <1>2, <1>3, <2>1, <2>2 DEF RecordRoute
<1>4. CASE ~m.tag
  <2>1. m.from = "caller" /\ Along("caller") = chain
    BY <1>4 DEF Straight, Along
  <2> QED
    BY <1>2, <1>4, <2>1 DEF RecordRoute
<1> QED
  BY <1>3, <1>4

LEMMA StraightInFinished ==
  ASSUME NEW s \in Seq(Transactions), Fresh(s), StraightIn(s),
         NEW s2, NEW dir, NEW m, NEW code \in Text, Finished(s2, s, dir, m, code)
  PROVE  StraightIn(s2) /\ Fresh(s2)
<1> SUFFICES ASSUME NEW i \in DOMAIN s2
             PROVE  (Live(s2[i]) => Straight(s2[i].req)) /\ (s2[i].st = "open" => s2[i].code # "401")
  BY DEF StraightIn, Fresh
<1>1. /\ i \in DOMAIN s /\ s[i] \in Transactions
      /\ s2[i] = IF Waits(s[i], dir, m) THEN Final(s[i], code) ELSE s[i]
  BY DEF Finished
<1>2. CASE ~Waits(s[i], dir, m)
  BY <1>1, <1>2 DEF StraightIn, Fresh
<1>3. CASE Waits(s[i], dir, m)
  <2>1. s[i].st = "open" /\ s[i].code # "401" /\ s2[i] = Final(s[i], code)
    BY <1>1, <1>3 DEF Waits, Fresh
  <2>2. Live(s[i])
    BY <2>1 DEF Live
  <2>3. /\ s2[i].dir = s[i].dir /\ s2[i].st = "done"
        /\ (code = "401" /\ s[i].dir = "out") => s2[i].req = s[i].req
        /\ ~(code = "401" /\ s[i].dir = "out") => s2[i].code = s[i].code
    BY <1>1, <2>1, FinalFacts
  <2> QED
    BY <1>1, <2>1, <2>2, <2>3 DEF Live, StraightIn
<1> QED
  BY <1>2, <1>3

LEMMA StraightInAdded ==
  ASSUME NEW s, Fresh(s), StraightIn(s), NEW s2, NEW dir, NEW m, Added(s2, s, dir, m), Straight(m)
  PROVE  StraightIn(s2) /\ Fresh(s2)
<1>1. /\ DOMAIN s2 = DOMAIN s \cup {Len(s) + 1}
      /\ s2[Len(s) + 1].req = m /\ s2[Len(s) + 1].code = "none"
      /\ \A i \in DOMAIN s : s2[i] = s[i]
  BY DEF Added
<1> QED
  BY <1>1 DEF StraightIn, Fresh

\* What a step of u has to keep.
LEMMA RoutesStep ==
  ASSUME Routes, NEW u \in User, chain' = chain,
         \A v \in User : v # u => user'[v] = user[v],
         Heads(u, user'[u]), StraightIn(user'[u].trs),
         \A v \in User : built'[v] = built[v] \/ built'[v] = Nothing \/ Straight(built'[v]),
         \A x \in net' : x \in net \/ Right(x)
  PROVE  Routes'
<1>1. /\ \A v : Along(v)' = Along(v)
      /\ \A x : (Straight(x)' <=> Straight(x)) /\ (Recorded(x)' <=> Recorded(x))
      /\ \A v, d : (Heads(v, d))' <=> (Usable(d) => d.routes = Along(v) /\ d.target.host = Peer(v))'
  BY DEF Along, Straight, Recorded, Heads
<1>2. \A x \in net' : Right(x)'
  BY <1>1 DEF Right, Routes
<1>3. \A v \in User : Heads(v, user'[v]) /\ StraightIn(user'[v].trs) /\ (built'[v] # Nothing => Straight(built'[v]))
  BY DEF Routes
<1>4. \A v \in User : Heads(v, user[v])' /\ StraightIn(user[v].trs)' /\ (built[v] # Nothing => Straight(built[v]))'
  BY <1>1, <1>3 DEF Heads, StraightIn, Usable, Live
<1>5. \A i \in DOMAIN chain' : Loose(chain'[i])
  BY DEF Routes
<1> QED
  BY <1>2, <1>4, <1>5 DEF Routes

\* The dialog keeps where it goes to.
LEMMA HeadsKept ==
  ASSUME NEW u, NEW d, NEW e, Heads(u, d), SameTarget(e, d), Usable(e) => Usable(d)
  PROVE  Heads(u, e)
  BY DEF Heads, SameTarget

\* A request that is built in a dialog goes straight.
LEMMA WithinStraight ==
  ASSUME TypeOK, Routes, NEW u \in User, Usable(user[u]), NEW method \in Text, NEW cseq \in Nat, NEW se \in Text
  PROVE  Straight(Within(u, method, cseq, se)) /\ Right(Within(u, method, cseq, se))
<1> DEFINE m == Within(u, method, cseq, se)
           d == user[u]
<1>1. /\ m.kind = "request" /\ m.from = u /\ m.tag /\ m.contact.host = u
      /\ m.uri = RequestUri(d).uri /\ m.routes = RequestUri(d).routes
  BY WithinFacts
<1>2. d.routes = Along(u) /\ d.target.host = Peer(u) /\ d.routes \in Seq(Addresses)
  BY DialogFacts DEF Routes, Heads
<1>3. \A i \in DOMAIN d.routes : Loose(d.routes[i])
  BY <1>2, AlongFacts DEF Routes, TypeOK
<1>4. RequestUri(d).uri = d.target /\ RequestUri(d).routes = d.routes
  <2>1. CASE d.routes = <<>>
    BY <2>1 DEF RequestUri
  <2>2. CASE d.routes # <<>>
    <3>1. 1 \in DOMAIN d.routes
      BY <1>2, <2>2
    <3> QED
      BY <1>3, <2>2, <3>1 DEF RequestUri, dialog_fill_route_set
  <2> QED
    BY <2>1, <2>2
<1> QED
  BY <1>1, <1>2, <1>4 DEF Straight, Right

\* A refusal says nothing of the way.
LEMMA RefusalRight ==
  ASSUME TypeOK, NEW u \in User, NEW req \in Requests, NEW code \in Text, code \in {"4xx", "401"}
  PROVE  Right(Respond(u, req, code, "none", <<>>))
<1> DEFINE e == <<>>
<1>1. e \in Seq(Addresses) /\ "none" \in Text
  BY DEF Text
<1> HIDE DEF e
<1>2. LET r == Respond(u, req, code, "none", e)
      IN r.kind = "response" /\ r.from = u /\ r.code = code /\ r.contact.host = u
  BY <1>1, RespondFacts
<1>3. Right(Respond(u, req, code, "none", e))
  BY <1>2 DEF Right, Recorded
<1> QED
  BY <1>3 DEF e

LEMMA OtherRight ==
  ASSUME TypeOK, NEW u \in User, NEW req \in Requests, NEW code \in Text, req.method # "INVITE"
  PROVE  Right(Respond(u, req, code, "none", <<>>))
<1> DEFINE e == <<>>
<1>1. e \in Seq(Addresses) /\ "none" \in Text
  BY DEF Text
<1> HIDE DEF e
<1>2. LET r == Respond(u, req, code, "none", e)
      IN r.kind = "response" /\ r.method = req.method
  BY <1>1, RespondFacts
<1>3. Right(Respond(u, req, code, "none", e))
  BY <1>2 DEF Right, Recorded
<1> QED
  BY <1>3 DEF e

LEMMA RoutesBuild ==
  ASSUME TypeOK, Routes, NEW u \in User, NEW method \in Methods, Build(u, method, "none")
  PROVE  Routes'
<1>1. /\ Usable(user[u]) /\ user'[u].trs = user[u].trs /\ user'[u].dlg = user[u].dlg /\ SameTarget(user'[u], user[u])
      /\ \A v \in User : v # u => user'[v] = user[v] /\ built'[v] = built[v]
      /\ built'[u] = Within(u, method, user[u].lcseq + 1, "none")
      /\ chain' = chain /\ net' = net
  BY BuildEffect
<1>2. Straight(built'[u])
  <2>1. method \in Text /\ "none" \in Text /\ user[u].lcseq + 1 \in Nat
    BY ExDialogAssumption, DialogFacts DEF Text
  <2> QED
    BY <1>1, <2>1, WithinStraight
<1>3. Heads(u, user'[u])
  BY <1>1, HeadsKept DEF Routes, Usable
<1>4. StraightIn(user'[u].trs)
  BY <1>1 DEF Routes
<1> QED
  BY <1>1, <1>2, <1>3, <1>4, RoutesStep

LEMMA RoutesMove ==
  ASSUME TypeOK, Routes, NEW u \in User, eXosip_masquerade_contact(u)
  PROVE  Routes'
<1>1. /\ user'[u].trs = user[u].trs /\ user'[u].dlg = user[u].dlg
      /\ user'[u].routes = user[u].routes /\ user'[u].target = user[u].target
      /\ \A v \in User : v # u => user'[v] = user[v]
      /\ chain' = chain /\ built' = built /\ net' = net
  BY MoveEffect
<1>2. Heads(u, user'[u]) /\ StraightIn(user'[u].trs)
  BY <1>1 DEF Routes, Heads, Usable
<1> QED
  BY <1>1, <1>2, RoutesStep

\* A request that goes straight is added to the transactions and sent.
LEMMA RoutesAsk ==
  ASSUME TypeOK, Routes, Numbers, NEW u \in User, NEW m, Straight(m), Right(m), NEW lcseq, Sends(u, lcseq, m),
         \A v \in User : v # u => user'[v] = user[v], chain' = chain,
         \A v \in User : built'[v] = built[v] \/ built'[v] = Nothing
  PROVE  Routes'
<1>1. /\ Added(user'[u].trs, user[u].trs, "out", m) /\ user'[u].dlg = user[u].dlg
      /\ SameTarget(user'[u], user[u]) /\ net' = net \cup {m}
  BY DEF Sends
<1>2. Heads(u, user'[u])
  BY <1>1, HeadsKept DEF Routes, Usable
<1>3. StraightIn(user'[u].trs)
  BY <1>1, FreshNow, StraightInAdded DEF Routes
<1> QED
  BY <1>1, <1>2, <1>3, RoutesStep

LEMMA RoutesSend ==
  ASSUME TypeOK, Numbers, Routes, NEW u \in User, eXosip_call_send_request(u)
  PROVE  Routes'
<1>1. /\ built[u] # Nothing /\ built' = [built EXCEPT ![u] = Nothing]
      /\ \A v \in User : v # u => user'[v] = user[v]
      /\ \/ Sends(u, user[u].lcseq, built[u])
         \/ user' = user /\ net' = net
      /\ chain' = chain
  BY SendEffect
<1>2. \A v \in User : built'[v] = built[v] \/ built'[v] = Nothing
  BY <1>1 DEF TypeOK
<1>3. Straight(built[u]) /\ Right(built[u])
  BY <1>1, DialogFacts DEF Routes, Right, Requests
<1>4. CASE user' = user /\ net' = net
  BY <1>1, <1>2, <1>4, RoutesStep DEF Routes
<1>5. CASE Sends(u, user[u].lcseq, built[u])
  BY <1>1, <1>2, <1>3, <1>5, RoutesAsk
<1> QED
  BY <1>1, <1>4, <1>5

LEMMA RoutesTimer ==
  ASSUME TypeOK, Numbers, Routes, NEW u \in User, SessionTimer(u)
  PROVE  Routes'
<1> DEFINE m == Within(u, "INVITE", user[u].lcseq + 1, "uac")
<1>1. /\ Usable(user[u]) /\ Sends(u, user[u].lcseq + 1, m)
      /\ \A v \in User : v # u => user'[v] = user[v]
      /\ chain' = chain /\ built' = built
  BY TimerEffect
<1>2. "INVITE" \in Text /\ "uac" \in Text /\ user[u].lcseq + 1 \in Nat
  BY DialogFacts DEF Text
<1>3. Straight(m) /\ Right(m)
  BY <1>1, <1>2, WithinStraight
<1> QED
  BY <1>1, <1>3, RoutesAsk

LEMMA RoutesTerminate ==
  ASSUME TypeOK, Numbers, Routes, NEW u \in User, Terminate(u)
  PROVE  Routes'
<1> DEFINE bye == Within(u, "BYE", user[u].lcseq + 1, "none")
           waiting == _eXosip_find_last_inc_invite(user[u])
           answer == Respond(u, waiting.req, "4xx", "none", <<>>)
<1>1. /\ user[u].dlg = "confirmed" /\ user'[u].dlg = "gone"
      /\ \A v \in User : v # u => user'[v] = user[v]
      /\ \/ Added(user'[u].trs, user[u].trs, "out", bye) /\ net' = net \cup {bye}
         \/ /\ waiting.st = "open"
            /\ \E s \in Seq(Transactions) : /\ Finished(s, user[u].trs, "in", waiting.req, "4xx")
                                            /\ Added(user'[u].trs, s, "out", bye)
            /\ net' = net \cup {bye} \cup {answer}
      /\ chain' = chain /\ built' = built
  BY TerminateEffect
<1>2. Straight(bye) /\ Right(bye)
  <2>1. "BYE" \in Text /\ "none" \in Text /\ user[u].lcseq + 1 \in Nat
    BY DialogFacts DEF Text
  <2> QED
    BY <1>1, <2>1, WithinStraight DEF Usable
<1>3. Heads(u, user'[u])
  BY <1>1 DEF Heads, Usable
<1>4. user[u].trs \in Seq(Transactions) /\ StraightIn(user[u].trs) /\ Fresh(user[u].trs) /\ user[u] \in Dialogs
  BY DialogFacts, FreshNow DEF Routes
<1>5. waiting.st = "open" => Right(answer)
  <2> SUFFICES ASSUME waiting.st = "open" PROVE Right(answer)
    OBVIOUS
  <2>1. waiting.req \in Requests
    BY <1>4, LastInvite DEF Transactions
  <2> QED
    BY <2>1, RefusalRight DEF Text
<1> HIDE DEF bye, waiting, answer
<1>6. StraightIn(user'[u].trs)
  <2>1. CASE Added(user'[u].trs, user[u].trs, "out", bye)
    BY <1>2, <1>4, <2>1, StraightInAdded
  <2>2. ASSUME NEW s \in Seq(Transactions), Finished(s, user[u].trs, "in", waiting.req, "4xx"), Added(user'[u].trs, s, "out", bye)
        PROVE  StraightIn(user'[u].trs)
    <3>1. "4xx" \in Text
      BY DEF Text
    <3>2. StraightIn(s) /\ Fresh(s)
      BY <1>4, <2>2, <3>1, StraightInFinished
    <3> QED
      BY <1>2, <2>2, <3>2, StraightInAdded
  <2> QED
    BY <1>1, <2>1, <2>2
<1>7. \A x \in net' : x \in net \/ Right(x)
  BY <1>1, <1>2, <1>5
<1> QED
  BY <1>1, <1>3, <1>6, <1>7, RoutesStep

LEMMA RoutesRetry ==
  ASSUME TypeOK, Numbers, Routes, NEW u \in User, NEW i \in DOMAIN user[u].trs, Usable(user[u]),
         _eXosip_call_retry_request(u, i)
  PROVE  Routes'
<1> DEFINE t == user[u].trs[i]
           again == [t.req EXCEPT !.cseq = t.req.cseq + 1, !.retry = TRUE]
<1>0. Retries(u, i)
  BY RetryEffect
<1>1. /\ t.st = "done" /\ t.code = "401"
      /\ again.kind = "request" /\ again.from = t.req.from /\ again.uri = t.req.uri /\ again.routes = t.req.routes
      /\ again.contact = t.req.contact /\ again.tag = t.req.tag
      /\ \E s \in Seq(Transactions) :
            /\ Len(s) = Len(user[u].trs) /\ DOMAIN s = DOMAIN user[u].trs
            /\ s[i].st = "done" /\ s[i].code = "none" /\ s[i].dir = t.dir /\ s[i].req = Past(t.req.method)
            /\ \A j \in DOMAIN s : j # i => s[j] = user[u].trs[j]
            /\ Added(user'[u].trs, s, "out", again)
      /\ user'[u].dlg = user[u].dlg /\ SameTarget(user'[u], user[u])
      /\ \A v \in User : v # u => user'[v] = user[v]
      /\ net' = net \cup {again} /\ chain' = chain /\ built' = built
  BY <1>0, Zenon DEF Retries
<1>2. StraightIn(user[u].trs) /\ Fresh(user[u].trs)
  BY FreshNow DEF Routes
<1>3. Straight(t.req)
  BY <1>1, <1>2 DEF StraightIn, Live
<1> HIDE DEF again
<1>4. Straight(again) /\ Right(again)
  BY <1>1, <1>3 DEF Straight, Right
<1>5. PICK s \in Seq(Transactions) :
            /\ DOMAIN s = DOMAIN user[u].trs
            /\ s[i].st = "done" /\ s[i].code = "none"
            /\ \A j \in DOMAIN s : j # i => s[j] = user[u].trs[j]
            /\ Added(user'[u].trs, s, "out", again)
  BY <1>1
<1>6. StraightIn(s) /\ Fresh(s)
  BY <1>2, <1>5 DEF StraightIn, Fresh, Live
<1>7. StraightIn(user'[u].trs)
  BY <1>4, <1>5, <1>6, StraightInAdded
<1>8. Heads(u, user'[u])
  BY <1>1, HeadsKept DEF Routes, Usable
<1> QED
  BY <1>1, <1>4, <1>7, <1>8, RoutesStep

LEMMA RoutesAnswerInvite ==
  ASSUME TypeOK, Numbers, Routes, NEW u \in User, NEW code \in {"1xx", "2xx", "4xx", "401"}, NEW timer \in BOOLEAN,
         AnswerInvite(u, code, timer)
  PROVE  Routes'
<1> DEFINE t == _eXosip_find_last_inc_invite(user[u])
           kept == Kept(t, code, timer)
           se == IF kept THEN TimerInAnswer(t.req.se).se ELSE "none"
           rr == IF code \in {"1xx", "2xx"} THEN RecordRoute(t.req) ELSE <<>>
           r == Respond(u, t.req, code, se, rr)
<1>1. /\ t.st = "open"
      /\ code = "2xx" => Usable(user[u])
      /\ user'[u].dlg = IF code = "2xx" THEN "confirmed" ELSE user[u].dlg
      /\ SameTarget(user'[u], user[u])
      /\ IF code = "1xx" THEN user'[u].trs = user[u].trs
         ELSE Finished(user'[u].trs, user[u].trs, "in", t.req, code)
      /\ \A v \in User : v # u => user'[v] = user[v]
      /\ net' = net \cup {r}
      /\ chain' = chain /\ built' = built
  BY AnswerInviteEffect
<1>2. user[u] \in Dialogs /\ user[u].trs \in Seq(Transactions) /\ StraightIn(user[u].trs) /\ Fresh(user[u].trs) /\ chain \in Seq(Addresses)
  BY DialogFacts, FreshNow DEF Routes, TypeOK
<1>3. t \in Transactions /\ t.dir = "in" /\ t.req.method = "INVITE" /\ \E i \in DOMAIN user[u].trs : t = user[u].trs[i]
  BY <1>1, <1>2, LastInvite
<1>4. t.req \in Requests /\ t.req.from = Peer(u) /\ Straight(t.req) /\ t.req.se \in Text
  BY <1>1, <1>2, <1>3 DEF StraightIn, Live, Transactions, Requests, Numbers, Entries, Entry
<1>5. code \in {"1xx", "2xx"} => rr = Along(u)
  <2>1. RecordRoute(t.req) = Along(Peer(Peer(u)))
    BY <1>4, RecordedRight
  <2> QED
    BY <2>1, Sides
<1>6. rr \in Seq(Addresses) /\ se \in Text /\ code \in Text
  <2>1. RecordRoute(t.req) \in Seq(Addresses)
    BY <1>2, <1>4, RecordRouteType
  <2>2. TimerInAnswer(t.req.se).se \in Text
    BY <1>4, TimerInAnswerType
  <2> QED
    BY <2>1, <2>2 DEF Text
<1> HIDE DEF rr, se, kept, t
<1>7. Right(r)
  <2>1. r.kind = "response" /\ r.from = u /\ r.code = code /\ r.rr = rr /\ r.contact.host = u
    BY <1>4, <1>6, RespondFacts
  <2> QED
    BY <1>5, <2>1 DEF Right, Recorded
<1>8. StraightIn(user'[u].trs)
  BY <1>1, <1>2, <1>6, StraightInFinished
<1>9. Heads(u, user'[u])
  BY <1>1, HeadsKept DEF Routes, Usable
<1> QED
  BY <1>1, <1>7, <1>8, <1>9, RoutesStep

LEMMA RoutesAnswerOther ==
  ASSUME TypeOK, Numbers, Routes, NEW u \in User, NEW code \in {"2xx", "401"}, AnswerOther(u, code)
  PROVE  Routes'
<1>1. /\ \E i \in DOMAIN user[u].trs :
            LET t == user[u].trs[i]
                r == Respond(u, t.req, code, "none", <<>>)
            IN /\ t.req.method # "INVITE"
               /\ Finished(user'[u].trs, user[u].trs, "in", t.req, code)
               /\ net' = net \cup {r}
      /\ user'[u].dlg = user[u].dlg /\ SameTarget(user'[u], user[u])
      /\ \A v \in User : v # u => user'[v] = user[v]
      /\ chain' = chain /\ built' = built
  BY AnswerOtherEffect
<1>2. PICK i \in DOMAIN user[u].trs :
            LET t == user[u].trs[i]
                r == Respond(u, t.req, code, "none", <<>>)
            IN /\ t.req.method # "INVITE"
               /\ Finished(user'[u].trs, user[u].trs, "in", t.req, code)
               /\ net' = net \cup {r}
  BY <1>1
<1> DEFINE req == user[u].trs[i].req
           r == Respond(u, req, code, "none", <<>>)
<1>3. req.method # "INVITE" /\ Finished(user'[u].trs, user[u].trs, "in", req, code) /\ net' = net \cup {r}
  BY <1>2
<1>4. req \in Requests /\ user[u].trs \in Seq(Transactions) /\ StraightIn(user[u].trs) /\ Fresh(user[u].trs) /\ code \in Text
  BY DialogFacts, FreshNow DEF Routes, Text
<1> HIDE DEF req
<1>5. Right(r)
  BY <1>3, <1>4, OtherRight
<1>6. StraightIn(user'[u].trs)
  BY <1>3, <1>4, StraightInFinished
<1>7. Heads(u, user'[u])
  BY <1>1, HeadsKept DEF Routes, Usable
<1> HIDE DEF r
<1> QED
  BY <1>1, <1>3, <1>5, <1>6, <1>7, RoutesStep

LEMMA RoutesNewInvite ==
  ASSUME TypeOK, Numbers, Routes, NEW u \in User, NEW m \in net, m.from = Peer(u), m.kind = "request", RcvNewInvite(u, m)
  PROVE  Routes'
<1>1. /\ ~m.tag /\ m \in Requests
      /\ Added(user'[u].trs, <<>>, "in", m)
      /\ user'[u].routes = RecordRoute(m) /\ user'[u].target = m.contact
      /\ \A v \in User : v # u => user'[v] = user[v]
      /\ net' = net \ {m} /\ chain' = chain /\ built' = built
  BY NewInviteEffect
<1>2. Straight(m)
  BY DEF Routes, Right
<1>3. Heads(u, user'[u])
  <2>1. Peer(Peer(u)) = u
    BY Sides
  <2>2. RecordRoute(m) = Along(u)
    BY <1>1, <1>2, <2>1, RecordedRight
  <2>3. m.contact.host = Peer(u)
    BY <1>2 DEF Straight
  <2> QED
    BY <1>1, <2>2, <2>3 DEF Heads
<1> DEFINE e == <<>>
<1>4. StraightIn(e) /\ Fresh(e) /\ Added(user'[u].trs, e, "in", m)
  BY <1>1 DEF StraightIn, Fresh
<1> HIDE DEF e
<1>5. StraightIn(user'[u].trs)
  BY <1>2, <1>4, StraightInAdded
<1> QED
  BY <1>1, <1>3, <1>5, RoutesStep

LEMMA RoutesRequest ==
  ASSUME TypeOK, Numbers, Routes, NEW u \in User, NEW m \in net, m.from = Peer(u), m.kind = "request", RcvRequest(u, m)
  PROVE  Routes'
<1> DEFINE d == user[u]
           e == user'[u]
           verdict == Verdict(d, m)
<1>1. /\ m \in Requests
      /\ e.routes = d.routes
      /\ \A v \in User : v # u => user'[v] = user[v]
      /\ chain' = chain /\ built' = built
      /\ \/ /\ e.trs = d.trs /\ e.dlg = d.dlg /\ e.target = d.target
            /\ net' = (net \ {m}) \cup (IF verdict = "4xx" THEN {Respond(u, m, "4xx", "none", <<>>)} ELSE {})
         \/ /\ Added(e.trs, d.trs, "in", m) /\ e.dlg = d.dlg
            /\ e.target = IF m.method = "INVITE" THEN m.contact ELSE d.target
            /\ net' = net \ {m}
         \/ /\ m.method = "BYE" /\ e.dlg = "gone"
            /\ \E s \in Seq(Transactions) : Added(s, d.trs, "in", m) /\ Finished(e.trs, s, "in", m, "2xx")
            /\ net' = (net \ {m}) \cup {Respond(u, m, "2xx", "none", <<>>)}
  BY RequestEffect
<1>2. Straight(m) /\ m.contact.host = Peer(u)
  BY DEF Routes, Right, Straight
<1>3. d.trs \in Seq(Transactions) /\ StraightIn(d.trs) /\ Fresh(d.trs) /\ Heads(u, d)
  BY DialogFacts, FreshNow DEF Routes
<1>4. Right(Respond(u, m, "4xx", "none", <<>>)) /\ (m.method = "BYE" => Right(Respond(u, m, "2xx", "none", <<>>)))
  BY <1>1, RefusalRight, OtherRight DEF Text
<1>5. \A x \in net' : x \in net \/ Right(x)
  BY <1>1, <1>4
<1> HIDE DEF verdict
<1>6. CASE e.trs = d.trs /\ e.dlg = d.dlg /\ e.target = d.target
  <2>1. Heads(u, e) /\ StraightIn(e.trs)
    BY <1>1, <1>3, <1>6 DEF Heads, Usable
  <2> QED
    BY <1>1, <1>5, <2>1, RoutesStep
<1>7. CASE Added(e.trs, d.trs, "in", m) /\ e.dlg = d.dlg /\ e.target = IF m.method = "INVITE" THEN m.contact ELSE d.target
  <2>1. Heads(u, e)
    BY <1>1, <1>2, <1>3, <1>7 DEF Heads, Usable
  <2>2. StraightIn(e.trs)
    BY <1>2, <1>3, <1>7, StraightInAdded
  <2> QED
    BY <1>1, <1>5, <2>1, <2>2, RoutesStep
<1>8. ASSUME e.dlg = "gone", NEW s \in Seq(Transactions), Added(s, d.trs, "in", m), Finished(e.trs, s, "in", m, "2xx")
      PROVE  Routes'
  <2>1. Heads(u, e)
    BY <1>8 DEF Heads, Usable
  <2>2. StraightIn(s) /\ Fresh(s)
    BY <1>2, <1>3, <1>8, StraightInAdded
  <2>3. "2xx" \in Text
    BY DEF Text
  <2>4. StraightIn(e.trs)
    BY <1>8, <2>2, <2>3, StraightInFinished
  <2> QED
    BY <1>1, <1>5, <2>1, <2>4, RoutesStep
<1> QED
  BY <1>1, <1>6, <1>7, <1>8

LEMMA RoutesResponse ==
  ASSUME TypeOK, Numbers, Routes, NEW u \in User, NEW r \in net, r.from = Peer(u), r.kind = "response", RcvResponse(u, r)
  PROVE  Routes'
<1> DEFINE d == user[u]
           e == user'[u]
           a == Answered(d, r)
           waiting == {i \in DOMAIN d.trs : Waits(d.trs[i], "out", r)}
<1>1. /\ r \in Responses /\ net' = net \ {r} /\ chain' = chain /\ built' = built
      /\ \A v \in User : v # u => user'[v] = user[v]
      /\ \/ user' = user
         \/ /\ e.dlg = a.dlg /\ SameTarget(e, a)
            /\ IF r.code = "1xx" THEN e.trs = d.trs ELSE Finished(e.trs, d.trs, "out", r, r.code)
  BY ResponseEffect
<1>2. Recorded(r) /\ r.code \in Text
  BY <1>1 DEF Routes, Right, Responses
<1>3. d \in Dialogs /\ d.trs \in Seq(Transactions) /\ StraightIn(d.trs) /\ Fresh(d.trs) /\ Heads(u, d)
  BY DialogFacts, FreshNow DEF Routes
<1>4. CASE user' = user
  BY <1>1, <1>3, <1>4, RoutesStep
<1>5. ASSUME e.dlg = a.dlg, SameTarget(e, a),
             IF r.code = "1xx" THEN e.trs = d.trs ELSE Finished(e.trs, d.trs, "out", r, r.code)
      PROVE  Routes'
  <2>1. StraightIn(e.trs)
    BY <1>2, <1>3, <1>5, StraightInFinished
  <2>2. Heads(u, a)
    <3>1. CASE r.method # "INVITE"
      BY <1>3, <3>1 DEF Answered
    <3>2. CASE r.method = "INVITE"
      <4> DEFINE new == r.code \notin {"4xx", "401"} /\ d.dlg # "gone"
      <4>1. /\ a.dlg = IF r.code \in {"4xx", "401"} THEN IF d.dlg = "early" THEN "gone" ELSE d.dlg
                       ELSE IF d.dlg = "gone" THEN "gone"
                       ELSE IF r.code = "2xx" THEN "confirmed"
                       ELSE IF d.dlg = "none" THEN "early" ELSE d.dlg
            /\ a.target = IF new THEN r.contact ELSE d.target
            /\ a.routes = IF new /\ d.dlg \in {"none", "early"} THEN Reverse(r.rr) ELSE d.routes
        BY <1>1, <1>3, <3>2, InviteAnsweredFacts DEF Answered
      <4>2. r.contact.host = Peer(u) /\ (r.code \notin {"4xx", "401"} => r.rr = Along(Peer(u)))
        BY <1>2, <3>2 DEF Recorded
      <4>3. Reverse(Along(Peer(u))) = Along(u)
        BY AlongFacts DEF Routes, TypeOK
      <4>5. d.dlg \in {"none", "early", "confirmed", "gone"}
        BY DialogFacts
      <4> HIDE DEF a
      <4> QED
        BY <1>3, <4>1, <4>2, <4>3, <4>5 DEF Heads, Usable
    <3> QED
      BY <3>1, <3>2
  <2>3. Heads(u, e)
    BY <1>5, <2>2, HeadsKept DEF Usable
  <2> QED
    BY <1>1, <2>1, <2>3, RoutesStep
<1> QED
  BY <1>1, <1>4, <1>5

LEMMA RoutesNext ==
  ASSUME TypeOK, Numbers, Routes, [Next]_vars
  PROVE  Routes'
<1>1. CASE UNCHANGED vars
  <2>1. "caller" \in User
    BY DEF User
  <2>2. Heads("caller", user'["caller"]) /\ StraightIn(user'["caller"].trs)
    BY <1>1, <2>1 DEF vars, Routes
  <2> QED
    BY <1>1, <2>1, <2>2, RoutesStep DEF vars
<1>2. CASE Next
  BY <1>2, Steps, RoutesBuild, RoutesSend, RoutesTerminate, RoutesMove, RoutesAnswerInvite, RoutesAnswerOther,
     RoutesRetry, RoutesTimer, RoutesNewInvite, RoutesRequest, RoutesResponse, Zenon
<1> QED
  BY <1>1, <1>2

LEMMA RoutesInit ==
  ASSUME LooseProxies, Init
  PROVE  Routes
<1>1. PICK m \in Requests :
            /\ m.kind = "request" /\ m.from = "caller" /\ ~m.tag /\ m.contact = Address("caller", 0)
            /\ net = {m}
            /\ user["callee"] = NoDialog
            /\ Added(user["caller"].trs, <<>>, "out", m)
            /\ user["caller"].dlg = "none"
            /\ built = [u \in User |-> Nothing]
  BY InitFacts
<1>2. PICK c \in Calls : chain = Proxies(c.chain)
  BY DEF Init
<1>3. \A i \in DOMAIN chain : Loose(chain[i])
  BY <1>2 DEF LooseProxies, Proxies, Loose, Address
<1>4. Straight(m) /\ Right(m)
  BY <1>1 DEF Straight, Right, Address
<1> DEFINE e == <<>>
<1>5. StraightIn(e) /\ Fresh(e) /\ Added(user["caller"].trs, e, "out", m) /\ user["callee"].trs = e /\ user["callee"].dlg = "none"
  BY <1>1, NewDialog DEF StraightIn, Fresh
<1> HIDE DEF e
<1>6. StraightIn(user["caller"].trs)
  BY <1>4, <1>5, StraightInAdded
<1>7. \A u \in User : Heads(u, user[u]) /\ StraightIn(user[u].trs) /\ built[u] = Nothing
  BY <1>1, <1>5, <1>6 DEF User, Heads, Usable
<1> QED
  BY <1>1, <1>3, <1>4, <1>7 DEF Routes

\* When every proxy that recorded itself does so with ";lr", every request of the dialog, of
\* either side, goes through all of them, in order, and ends at the other side (osip_dialog.c,
\* dialog_fill_route_set).  Without ";lr" the run ex_strict shows that it does not.
THEOREM RouteKept ==
  ASSUME LooseProxies
  PROVE  Spec => []RouteRetraced
<1>1. Init => TypeOK /\ Numbers /\ Routes
  BY InitFacts, NumbersInit, RoutesInit
<1>2. TypeOK /\ Numbers /\ Routes /\ [Next]_vars => TypeOK' /\ Numbers' /\ Routes'
  BY TypeStep, NumbersStep, RoutesNext
<1>3. TypeOK /\ Routes => RouteRetraced
  <2> SUFFICES ASSUME TypeOK, Routes, NEW m \in net, m.kind = "request", m.tag
               PROVE  /\ Path(m).visited = IF m.from = "caller" THEN chain ELSE Reverse(chain)
                      /\ Path(m).at.host = Peer(m.from)
    BY DEF RouteRetraced
  <2>1. Straight(m) /\ m \in Requests
    BY DEF Routes, Right, TypeOK, Responses
  <2> QED
    BY <2>1, RecordedRight DEF Along
<1> QED
  BY <1>1, <1>2, <1>3, PTL DEF Spec

=============================================================================
