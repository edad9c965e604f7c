---------------------------- MODULE TcpTransport ----------------------------
(***************************************************************************)
(* The TCP transport of libeXosip2, eXtl_tcp.c: its table of connections,  *)
(* the reading of messages from streams, and the choice of a connection    *)
(* for a message to send.                                                  *)
(*                                                                         *)
(* One thread runs eXosip_execute: select, tcp_tl_read_message, and then,  *)
(* with the lock of the library, the state machines, which send.  The      *)
(* application sends too (ACKs, 200s again), with the lock, in a thread of *)
(* its own.  Reading takes no lock, so it runs while the application looks *)
(* up a name or writes.                                                    *)
(*                                                                         *)
(* A message on the wire has its headers, with the empty line that ends    *)
(* them, and, for some, a body, which may come later.  A host and port     *)
(* stand for a peer, who connects from the port he is reached at; DNS      *)
(* records, and the wait for a full send buffer, are left out.             *)
(***************************************************************************)
EXTENDS Integers, Sequences, FiniteSets, SequencesExt

CONSTANTS Peers,
          MaxSockets,    \* EXOSIP_MAX_SOCKETS: 200
          MaxConns,      \* bound: connections, of either side, in all
          MaxSent,       \* bound: messages and pings of the peers, in all
          MaxTogether,   \* bound: connections, messages and pings together
          MaxCalls,      \* bound: messages the application sends
          MaxResets      \* bound: resets of the transport

ASSUME TcpAssumption ==
    /\ MaxSockets \in Nat \ {0} /\ MaxConns \in Nat \ {0}
    /\ MaxSent \in Nat /\ MaxTogether \in Nat
    /\ MaxCalls \in Nat /\ MaxResets \in Nat

Slots == 1 .. MaxSockets
Conns == 1 .. MaxConns

VARIABLES tab,      \* socket_tab
          conn,     \* the connections of the operating system
          fdset,    \* what select has found readable, 0 the listening socket
          pc,       \* where the thread is: at, slot, conn being read, and rest, the buffer that
                    \* handle_messages has yet to go through: its own buf and buflen
          app,      \* where the application is in its call
          owed,     \* responses the state machines will send
          said,     \* how many messages and pings the peers have sent
          calls,    \* how many messages and resets of the application there were
          wrote,    \* history: the message the last step has written
          orphans,  \* history: connections whose slot was written over
          heirs     \* history: connections that got the slot of another, with its buffer

tcpVars == <<tab, conn, fdset, pc, app, owed, said, calls, wrote, orphans, heirs>>

NoPeer == "none"
Empty == [sock |-> 0, peer |-> NoPeer, connecting |-> FALSE, invalid |-> FALSE, buf |-> <<>>]
NoConn == [st |-> "none", peer |-> NoPeer, fd |-> 0, server |-> FALSE,
           in |-> <<>>, rest |-> <<>>, due |-> <<>>]
NoWrite == [by |-> NoPeer, to |-> NoPeer, gone |-> FALSE]

Idle == [at |-> "idle"]
At(place) == [at |-> place, slot |-> 0, conn |-> 0, rest |-> <<>>]

Init == /\ tab = [s \in Slots |-> Empty]
        /\ conn = [c \in Conns |-> NoConn]
        /\ fdset = {}
        /\ pc = At("select") /\ app = Idle
        /\ owed = {} /\ said = 0 /\ calls = [sends |-> 0, resets |-> 0]
        /\ wrote = NoWrite
        /\ orphans = {} /\ heirs = {}

-----------------------------------------------------------------------------
(* Descriptors. *)

Held == {"progress", "open", "eof", "failed"}     \* connections that have a descriptor
HasFd(k, f) == {c \in Conns : k[c].st \in Held /\ k[c].fd = f}
NewFd(k) == CHOOSE f \in 1 .. MaxConns :
               HasFd(k, f) = {} /\ \A g \in 1 .. (f - 1) : HasFd(k, g) # {}
More(k) == said + Cardinality({c \in Conns : k[c].st # "none"}) < MaxTogether
NewConn(k) == {c \in Conns : More(k) /\ k[c].st = "none" /\ \A d \in 1 .. (c - 1) : k[d].st # "none"}

\* Table and connections together, as sending and reading change them.
Both == [t |-> tab, k |-> conn]

CloseFd(k, f) == [c \in Conns |-> IF c \in HasFd(k, f)
                                  THEN [NoConn EXCEPT !.st = "closed"] ELSE k[c]]

_tcp_tl_close_sockinfo(b, s) == [t |-> [b.t EXCEPT ![s] = Empty], k |-> CloseFd(b.k, b.t[s].sock)]

Free(t) == {s \in Slots : t[s].sock = 0}
FirstOf(S) == CHOOSE s \in S : \A r \in S : s <= r

\* Mutant of _tcp_tl_find_socket: any connection will do.
AnyInUse(t, p) == {s \in Slots : t[s].sock # 0}

_tcp_tl_find_socket(t, p) == {s \in Slots : t[s].sock # 0 /\ t[s].peer = p}

\* connected, in progress, or in error.
_tcp_tl_is_connected(k, f) ==
    LET c == CHOOSE x \in HasFd(k, f) : TRUE
    IN IF HasFd(k, f) = {} THEN "failed"
       ELSE IF k[c].st = "eof" THEN "open" ELSE k[c].st

CheckSlot(b, s) ==
    CASE b.t[s].invalid -> _tcp_tl_close_sockinfo(b, s)
      [] ~b.t[s].invalid /\ b.t[s].connecting ->
            CASE _tcp_tl_is_connected(b.k, b.t[s].sock) = "open" ->
                    [b EXCEPT !.t[s].connecting = FALSE]
              [] _tcp_tl_is_connected(b.k, b.t[s].sock) = "failed" -> _tcp_tl_close_sockinfo(b, s)
              [] OTHER -> b
      [] OTHER -> b
KeepAliveSlot(b, s) == IF b.t[s].sock # 0 /\ _tcp_tl_is_connected(b.k, b.t[s].sock) = "failed"
                       THEN _tcp_tl_close_sockinfo(b, s) ELSE b

\* One slot after another is looked at.
EachSlot(b, keepalive) ==
    LET after[s \in 0 .. MaxSockets] == IF s = 0 THEN b
                                        ELSE IF keepalive THEN KeepAliveSlot(after[s-1], s)
                                        ELSE CheckSlot(after[s-1], s)
    IN after[MaxSockets]

_tcp_tl_check_connected(b) == EachSlot(b, FALSE)

-----------------------------------------------------------------------------
(* Sending.  A message has a destination; a response, the descriptor its   *)
(* request came by, and the connection that was.                           *)

\* A new connection to p, which may be there at once, take a while, or fail.
Connected(b, s, c, p, st) ==
    [t |-> [b.t EXCEPT ![s].sock = NewFd(b.k), ![s].peer = p, ![s].connecting = (st = "progress")],
     k |-> [b.k EXCEPT ![c] = [NoConn EXCEPT !.st = st, !.peer = p, !.fd = NewFd(b.k)]]]

\* The connection to p that there is, or else a new one, if p is somebody: the new table and
\* connections, and the slot, 0 if there is none.
_tcp_tl_connect_socket(b, p, s) ==
    IF _tcp_tl_find_socket(b.t, p) # {}
    THEN {[b |-> b, slot |-> FirstOf(_tcp_tl_find_socket(b.t, p))]}
    ELSE {[b |-> Connected(b, s, c, p, st), slot |-> s] :
             c \in {d \in NewConn(b.k) : p # NoPeer}, st \in {"open", "progress"}}
         \cup {[b |-> b, slot |-> 0]}

\* The slot tcp_tl_send_message takes: that of the descriptor the request came by, but
\* rather one with the very port; or what there is; or a new one.
Chosen(b, p, out) ==
    LET came == {s \in Slots : out > 0 /\ b.t[s].sock = out}
        there == _tcp_tl_find_socket(b.t, p)
    IN CASE there # {} -> {[b |-> b, slot |-> FirstOf(there)]}
         [] there = {} /\ came # {} -> {[b |-> b, slot |-> FirstOf(came)]}
         [] there = {} /\ came = {} /\ Free(b.t) = {} -> {[b |-> b, slot |-> 0]}
         [] OTHER -> _tcp_tl_connect_socket(b, p, FirstOf(Free(b.t)))

\* What is written to descriptor f for p, which was meant for connection c, if not 0.
Written(k, f, p, c) ==
    IF f # 0 /\ _tcp_tl_is_connected(k, f) = "open"
    THEN [by |-> k[FirstOf(HasFd(k, f))].peer, to |-> p,
          gone |-> c # 0 /\ k[c].st = "closed"]
    ELSE NoWrite

\* tcp_tl_send_message by the thread, which nothing disturbs.
tcp_tl_send_message(b, p, out, c) ==
    \E r \in Chosen(_tcp_tl_check_connected(b), p, out) :
        LET f == IF r.slot = 0 THEN 0 ELSE r.b.t[r.slot].sock
        IN /\ tab' = r.b.t /\ conn' = r.b.k
           /\ wrote' = Written(r.b.k, f, p, c)

-----------------------------------------------------------------------------
(* The peers and the network. *)

Parts == [request |-> <<"headers", "body">>, late |-> <<"headers">>]
Message(kind, p) == [i \in DOMAIN Parts[kind] |-> [kind |-> kind, part |-> Parts[kind][i], from |-> p]]
Ping == [kind |-> "ping", part |-> "headers", from |-> NoPeer]

Network(k) == conn' = k /\ wrote' = NoWrite
              /\ UNCHANGED <<tab, fdset, pc, app, owed, calls, orphans, heirs>>
Silent(k) == Network(k) /\ UNCHANGED said

PeerConnects(p) == \E c \in NewConn(conn) :
    Silent([conn EXCEPT ![c] = [NoConn EXCEPT !.st = "backlog", !.peer = p, !.server = TRUE]])

\* A connection of ours is taken, or refused.
ConnectEnds(c) == /\ conn[c].st = "progress"
                  /\ \E st \in {"open", "failed"} : Silent([conn EXCEPT ![c].st = st])

\* The next part of what the peer sends.
PeerSends(c) ==
    /\ conn[c].st = "open"
    /\ \/ /\ conn[c].rest # <<>>
          /\ Silent([conn EXCEPT ![c].in = Append(@, Head(conn[c].rest)), ![c].rest = Tail(@)])
       \/ /\ conn[c].rest = <<>> /\ said < MaxSent /\ More(conn) /\ said' = said + 1
          /\ \/ \E kind \in DOMAIN Parts : LET m == Message(kind, conn[c].peer) IN
                  Network([conn EXCEPT ![c].in = Append(@, Head(m)),
                                       ![c].rest = Tail(m),
                                       ![c].due = Append(@, kind)])
             \/ Network([conn EXCEPT ![c].in = Append(@, Ping)])

\* The peer closes when he has said what he had to say; or the connection breaks.
PeerCloses(c) == /\ conn[c].st = "open" /\ conn[c].rest = <<>>
                 /\ Silent([conn EXCEPT ![c].st = "eof"])
Breaks(c) == /\ conn[c].st = "open"
             /\ Silent([conn EXCEPT ![c].st = "failed", ![c].in = <<>>])

-----------------------------------------------------------------------------
(* The thread reads. *)

Quiet == wrote' = NoWrite /\ UNCHANGED said

Backlog == {c \in Conns : conn[c].st = "backlog"}
Readable(f) == \E c \in HasFd(conn, f) : conn[c].in # <<>> \/ conn[c].st \in {"eof", "failed"}

tcp_tl_set_fdset ==
    /\ pc.at = "select" /\ Quiet
    /\ fdset' = {f \in {tab[s].sock : s \in Slots} \ {0} : Readable(f)}
                \cup {f \in {0} : Backlog # {}}
    /\ pc' = CASE fdset' = {} -> At("execute")
                [] 0 \in fdset' -> At("accept")
                [] OTHER -> [At("recv") EXCEPT !.slot = 1]
    /\ UNCHANGED <<tab, conn, app, owed, calls, orphans, heirs>>

\* Mutant of Evicted: the slot is cleared, the socket not closed.
EvictedNotClosed(b, s) == [b EXCEPT !.t[s] = Empty]

Evicted(b, s) == _tcp_tl_close_sockinfo(b, s)

\* A slot for the connection to accept: a free one, or else the first, whose connection
\* is closed.
AcceptSlot ==
    /\ pc.at = "accept" /\ Quiet
    /\ LET s == IF Free(tab) = {} THEN 1 ELSE FirstOf(Free(tab))
           b == IF Free(tab) = {} THEN Evicted(Both, s) ELSE Both
       IN tab' = b.t /\ conn' = b.k /\ pc' = [At("accepting") EXCEPT !.slot = s]
    /\ UNCHANGED <<fdset, app, owed, calls, orphans, heirs>>

\* The connection of slot s when that is written over: it has no slot any more.
Overwritten(s) == IF tab[s].sock = 0 THEN {} ELSE HasFd(conn, tab[s].sock)

Accept ==
    /\ pc.at = "accepting" /\ Quiet
    /\ pc' = [At("recv") EXCEPT !.slot = 1]
    /\ LET c == FirstOf(Backlog) IN
       \/ /\ conn' = [conn EXCEPT ![c].st = "open", ![c].fd = NewFd(conn)]
          /\ tab' = [tab EXCEPT ![pc.slot].sock = NewFd(conn), ![pc.slot].peer = conn[c].peer]
          /\ orphans' = orphans \cup Overwritten(pc.slot)
          /\ heirs' = IF Overwritten(pc.slot) = {} THEN heirs ELSE heirs \cup {c}
       \/ /\ conn' = [conn EXCEPT ![c] = [NoConn EXCEPT !.st = "closed"]]     \* accept fails
          /\ UNCHANGED <<tab, orphans, heirs>>
    /\ UNCHANGED <<fdset, app, owed, calls>>

\* The thread goes on to the next slot, and from the last one to the state machines.
NextSlot == IF pc.slot = MaxSockets THEN pc' = At("execute") /\ fdset' = {}
            ELSE pc' = [At("recv") EXCEPT !.slot = pc.slot + 1] /\ UNCHANGED fdset

\* recv: an accepted connection that has nothing to read is waited for.
_tcp_tl_recv ==
    /\ pc.at = "recv" /\ Quiet
    /\ LET f == tab[pc.slot].sock
           c == CHOOSE x \in HasFd(conn, f) : TRUE
       IN IF f = 0 \/ f \notin fdset
          THEN NextSlot /\ UNCHANGED <<tab, conn>>
          ELSE \/ /\ conn[c].in # <<>>
                  /\ tab' = [tab EXCEPT ![pc.slot].buf = @ \o conn[c].in]
                  /\ conn' = [conn EXCEPT ![c].in = <<>>]
                  /\ pc' = [at |-> "handle", slot |-> pc.slot, conn |-> c,
                            rest |-> tab[pc.slot].buf \o conn[c].in]
                  /\ UNCHANGED fdset
               \/ /\ conn[c].in = <<>> /\ conn[c].st \in {"eof", "failed"}
                  /\ tab' = _tcp_tl_close_sockinfo(Both, pc.slot).t
                  /\ conn' = _tcp_tl_close_sockinfo(Both, pc.slot).k
                  /\ NextSlot
               \/ /\ conn[c].in = <<>> /\ conn[c].st \in {"open", "progress"} /\ ~conn[c].server
                  /\ NextSlot /\ UNCHANGED <<tab, conn>>
    /\ UNCHANGED <<app, owed, calls, orphans, heirs>>

\* How much of buf is a message: up to the empty line, and the body behind it.
Ends(buf) == {i \in DOMAIN buf : buf[i].part = "headers"}
MessageLen(buf) == IF Ends(buf) = {} THEN Len(buf) + 1
                   ELSE LET e == FirstOf(Ends(buf))
                        IN IF buf[e].kind = "request" THEN e + 1 ELSE e

\* Mutant of Consumed: what was read after the message is forgotten.
ConsumedAll(buf, n) == <<>>

\* What handle_messages leaves in the buffer when it has handled n parts.
Consumed(buf, n) == SubSeq(buf, n + 1, Len(buf))

\* The slot was closed since, and its buffer freed under the loop, which goes on.
Freed == tab[pc.slot].buf # pc.rest

\* What the loop finds: the buffer; or, in memory that was freed, what was there, or nothing
\* that ends, or the text of some other message.
Found == IF ~Freed THEN {pc.rest}
         ELSE {m \in {pc.rest, <<>>} \cup {Message(kind, p) : kind \in DOMAIN Parts, p \in Peers} :
                 Len(m) <= Len(pc.rest)}

\* Who is to have the answer to a request: the peer and the socket that the slot names by now,
\* which are nobody's in a slot that was closed.
Asker == LET f == tab[pc.slot].sock
         IN [to |-> tab[pc.slot].peer, fd |-> f, came |-> IF f = 0 THEN 0 ELSE FirstOf(HasFd(conn, f))]

\* One message of the buffer, with the lock: a new request will be answered by the socket of
\* the slot, and a late 200 gets its ACK at once.
handle_messages ==
    /\ pc.at = "handle" /\ UNCHANGED <<app, said, calls, orphans, heirs>>
    /\ \E buf \in Found :
         LET n == MessageLen(buf)
             t == IF Freed THEN tab ELSE [tab EXCEPT ![pc.slot].buf = Consumed(buf, n)]
             b == [t |-> t, k |-> [conn EXCEPT ![pc.conn].due = SubSeq(@, 2, Len(@))]]
         IN \/ /\ n > Len(buf)
               /\ NextSlot /\ wrote' = NoWrite
               /\ UNCHANGED <<tab, conn, owed>>
            \/ /\ n <= Len(buf) /\ pc' = [pc EXCEPT !.rest = Consumed(buf, n)] /\ UNCHANGED fdset
               /\ \/ /\ Head(buf) = Ping
                     /\ tab' = t /\ wrote' = NoWrite /\ UNCHANGED <<conn, owed>>
                  \/ /\ Head(buf) # Ping /\ Head(buf).kind = "late" /\ app.at = "idle"
                     /\ tcp_tl_send_message(b, Head(buf).from, 0, 0) /\ UNCHANGED owed
                  \/ /\ Head(buf) # Ping /\ Head(buf).kind # "late" /\ app.at = "idle"
                     /\ tab' = t /\ conn' = b.k /\ wrote' = NoWrite
                     /\ owed' = owed \cup {Asker}

-----------------------------------------------------------------------------
(* The thread executes, with the lock, and keeps the connections alive. *)

Respond == /\ pc.at = "execute" /\ app.at = "idle"
           /\ \E o \in owed : /\ tcp_tl_send_message(Both, o.to, o.fd, o.came)
                              /\ owed' = owed \ {o}
           /\ UNCHANGED <<fdset, pc, app, said, calls, orphans, heirs>>

\* A request the application has queued.
Request(p) == /\ pc.at = "execute" /\ app.at = "idle" /\ calls.sends < MaxCalls
              /\ calls' = [calls EXCEPT !.sends = @ + 1]
              /\ tcp_tl_send_message(Both, p, 0, 0)
              /\ UNCHANGED <<fdset, pc, app, owed, said, orphans, heirs>>

Executed == /\ pc.at = "execute" /\ app.at = "idle" /\ Quiet
            /\ pc' = At("select")
            /\ UNCHANGED <<tab, conn, fdset, app, owed, calls, orphans, heirs>>

\* Every so often, between two rounds.
tcp_tl_keepalive ==
    /\ pc.at = "select" /\ Quiet
    /\ LET b == EachSlot(Both, TRUE) IN tab' = b.t /\ conn' = b.k
    /\ UNCHANGED <<fdset, pc, app, owed, calls, orphans, heirs>>

-----------------------------------------------------------------------------
(* The application sends an ACK, or a 200 again; or resets the transports. *)

\* The descriptor of slot s, and the connection it is by now.
WriteTo(b, p, s) == [at |-> "write", to |-> p, fd |-> b.t[s].sock,
                     meant |-> FirstOf(HasFd(b.k, b.t[s].sock))]

\* The lock is taken, and a connection or a free slot found.
SendBegins(p) ==
    /\ app.at = "idle" /\ calls.sends < MaxCalls /\ Quiet
    /\ calls' = [calls EXCEPT !.sends = @ + 1]
    /\ LET b == _tcp_tl_check_connected(Both)
           there == _tcp_tl_find_socket(b.t, p)
       IN /\ tab' = b.t /\ conn' = b.k
          /\ app' = CASE there # {} -> WriteTo(b, p, FirstOf(there))
                      [] there = {} /\ Free(b.t) # {} ->
                            [at |-> "resolve", to |-> p, slot |-> FirstOf(Free(b.t))]
                      [] OTHER -> Idle
    /\ UNCHANGED <<fdset, pc, owed, orphans, heirs>>

\* The name is resolved; the slot was chosen before.
SendConnects ==
    /\ app.at = "resolve" /\ Quiet
    /\ \E r \in _tcp_tl_connect_socket(Both, app.to, app.slot) :
          /\ tab' = r.b.t /\ conn' = r.b.k
          /\ app' = IF r.slot = 0 THEN Idle ELSE WriteTo(r.b, app.to, r.slot)
          /\ LET lost == IF r.b.k = conn THEN {} ELSE Overwritten(app.slot)
             IN /\ orphans' = orphans \cup lost
                /\ heirs' = IF lost = {} THEN heirs
                            ELSE heirs \cup HasFd(r.b.k, r.b.t[app.slot].sock)
    /\ UNCHANGED <<fdset, pc, owed, calls>>

\* Whatever connection has the descriptor by now.
SendWrites ==
    /\ app.at = "write" /\ app' = Idle
    /\ wrote' = IF \E s \in Slots : tab[s].sock = app.fd
                THEN Written(conn, app.fd, app.to, app.meant) ELSE NoWrite
    /\ UNCHANGED <<tab, conn, fdset, pc, owed, said, calls, orphans, heirs>>

tcp_tl_reset ==
    /\ calls.resets < MaxResets /\ calls' = [calls EXCEPT !.resets = @ + 1] /\ Quiet
    /\ \E s \in Slots : tab[s].sock # 0
    /\ tab' = [s \in Slots |-> IF tab[s].sock = 0 THEN tab[s] ELSE [tab[s] EXCEPT !.invalid = TRUE]]
    /\ UNCHANGED <<conn, fdset, pc, app, owed, orphans, heirs>>

-----------------------------------------------------------------------------

Reading == tcp_tl_set_fdset \/ AcceptSlot \/ Accept \/ _tcp_tl_recv \/ handle_messages
Executing == Respond \/ (\E p \in Peers : Request(p)) \/ Executed \/ tcp_tl_keepalive
Application == (\E p \in Peers : SendBegins(p)) \/ SendConnects \/ SendWrites \/ tcp_tl_reset
World == \/ \E p \in Peers : PeerConnects(p)
         \/ \E c \in Conns : ConnectEnds(c) \/ PeerSends(c) \/ PeerCloses(c) \/ Breaks(c)

Next == Reading \/ Executing \/ Application \/ World

Spec == Init /\ [][Next]_tcpVars

-----------------------------------------------------------------------------
(* Properties *)

\* What is still to be handed up from a connection is what is left of its stream, beginning
\* with the buffer of its slot: however the stream is cut and whatever pings are between,
\* every message is handed up whole, in order, once; unless the connection got a slot that
\* was written over, with what was in its buffer.
WholeAndInOrder ==
    \A c \in Conns \ heirs : \A s \in Slots :
        (conn[c].st \in {"open", "eof"} /\ tab[s].sock = conn[c].fd) =>
            SelectSeq(tab[s].buf \o conn[c].in \o conn[c].rest, LAMBDA p : p # Ping)
                = FlattenSeq([i \in DOMAIN conn[c].due |-> Message(conn[c].due[i], conn[c].peer)])

\* "consume any complete messages in sockinfo->buf" (eXtl_tcp.c:369): a message that the loop is
\* about to take is in the buffer of its slot.
ConsumesItsBuffer == pc.at = "handle" /\ MessageLen(pc.rest) <= Len(pc.rest) => ~Freed

\* What is written goes to the peer it is for; unless the connection it was meant for is
\* closed, when its descriptor may be another's.
RightPeer == wrote.by = wrote.to \/ wrote.gone

\* A connection that has a descriptor has one slot, so that it is read and closed, whoever
\* accepts, connects, evicts, resets and keeps alive; unless its slot was written over,
\* which an accept and a name lookup that had chosen the same slot may do.
OneSlot ==
    \A c \in Conns \ orphans :
        conn[c].st \in Held => Cardinality({s \in Slots : tab[s].sock = conn[c].fd}) = 1

=============================================================================
