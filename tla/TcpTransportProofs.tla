-------------------------- MODULE TcpTransportProofs --------------------------
(***************************************************************************)
(* Theorems about TcpTransport, for any number of slots, connections,      *)
(* messages and calls: a connection that has a descriptor has one slot,    *)
(* unless its slot was written over; and what is written goes to the peer  *)
(* it is for, unless the connection it was meant for is closed.            *)
(*                                                                         *)
(* The operations take and return the table and the connections; so does   *)
(* the invariant, Table.  It says that descriptors and slots match one     *)
(* another both ways: a slot that is in use has a connection (Backed), to  *)
(* the peer it names (Named), a connection has a slot (Reached), and       *)
(* neither shares with another (Distinct).  A new descriptor is free       *)
(* because there are no more descriptors in use than connections           *)
(* (NewFdFree), and the loops over the slots keep Table by induction       *)
(* (EachSlotTable).  What the buffers hold plays no part, so that records  *)
(* have only their fields, not their types.                                *)
(*                                                                         *)
(* Every step also keeps descriptor and peer of a connection until it is   *)
(* closed, and a closed one stays closed (Stays): an address taken earlier *)
(* and used later is still that of its connection, or that connection is   *)
(* closed (Addressed).                                                     *)
(***************************************************************************)
EXTENDS TcpTransport, FiniteSetTheorems, WellFoundedInduction, TLAPS

SlotFields == {"sock", "peer", "connecting", "invalid", "buf"}
ConnFields == {"st", "peer", "fd", "server", "in", "rest", "due"}

\* Connections that have a descriptor, and slots that have one.
Holds(k, c) == k[c].st \in Held

Shaped(t, k) ==
    /\ DOMAIN t = Slots /\ DOMAIN k = Conns
    /\ \A s \in Slots : DOMAIN t[s] = SlotFields /\ t[s].sock \in 0 .. MaxConns
    /\ \A c \in Conns : /\ DOMAIN k[c] = ConnFields
                        /\ Holds(k, c) => k[c].fd \in 1 .. MaxConns

Distinct(t, k) ==
    /\ \A c, d \in Conns : Holds(k, c) /\ Holds(k, d) /\ k[c].fd = k[d].fd => c = d
    /\ \A r, s \in Slots : t[r].sock # 0 /\ t[r].sock = t[s].sock => r = s

Backed(t, k) ==
    \A s \in Slots : t[s].sock # 0 => \E c \in Conns : Holds(k, c) /\ k[c].fd = t[s].sock

Reached(t, k, lost) ==
    \A c \in Conns \ lost : Holds(k, c) => \E s \in Slots : t[s].sock = k[c].fd

\* A slot has the name of the peer its connection is to.
Named(t, k) ==
    \A s \in Slots, c \in Conns : Holds(k, c) /\ k[c].fd = t[s].sock => k[c].peer = t[s].peer

Table(t, k, lost) == Shaped(t, k) /\ Distinct(t, k) /\ Backed(t, k) /\ Reached(t, k, lost) /\ Named(t, k)

\* Connections keep descriptor and peer until they are closed, and stay closed.
Stays(k, k2) ==
    \A c \in Conns :
        /\ Holds(k, c) => \/ k2[c].st = "closed"
                          \/ Holds(k2, c) /\ k2[c].fd = k[c].fd /\ k2[c].peer = k[c].peer
        /\ k[c].st = "closed" => k2[c].st = "closed"

\* And those that wait to be accepted go on waiting.
Keeps(k, k2) == Stays(k, k2) /\ \A c \in Conns : k[c].st = "backlog" => k2[c].st = "backlog"

\* Where the thread and the application are.
Places ==
    /\ pc.at \in {"accepting", "recv", "handle"} => pc.slot \in Slots
    /\ pc.at \in {"accept", "accepting"} => Backlog # {}
    /\ DOMAIN pc = {"at", "slot", "conn", "rest"}
    /\ app.at = "resolve" => app.slot \in Slots

TcpInv == Table(tab, conn, orphans) /\ Places

\* Descriptor f is that of connection c, to peer p, as long as c is not closed.
Meant(k, c, f, p) ==
    /\ c \in Conns
    /\ \/ k[c].st = "closed"
       \/ Holds(k, c) /\ k[c].fd = f /\ k[c].peer = p

\* What is to be answered and what the application is about to write have such an address, or
\* what is to be answered has none, when its slot was closed under the loop that handed it up.
Addressed == /\ \A o \in owed : o.fd = 0 \/ Meant(conn, o.came, o.fd, o.to)
             /\ app.at = "write" => Meant(conn, app.meant, app.fd, app.to)

RightInv == TcpInv /\ Addressed /\ RightPeer

-----------------------------------------------------------------------------
(* Least elements, and induction *)

LEMMA Least ==
  ASSUME NEW T, T \subseteq Nat, T # {}
  PROVE  \E n \in T : \A m \in T : ~(m < n)
<1>1. IsWellFoundedOn(OpToRel(<, Nat), Nat)
  BY NatLessThanWellFounded, Zenon
<1>2. \E n \in T : \A m \in T : <<m, n>> \notin OpToRel(<, Nat)
  BY <1>1, WFMin, Zenon
<1> QED
  BY <1>2 DEF OpToRel

LEMMA Induction ==
  ASSUME NEW G, 0 \in G, \A n \in Nat : n \in G => n + 1 \in G
  PROVE  Nat \subseteq G
<1> SUFFICES ASSUME ~(Nat \subseteq G) PROVE FALSE
  OBVIOUS
<1> DEFINE T == Nat \ G
<1>1. T \subseteq Nat /\ T # {}
  OBVIOUS
<1>2. PICK n \in T : \A m \in T : ~(m < n)
  BY <1>1, Least
<1>3. n \in Nat /\ n # 0
  BY <1>2
<1>4. n - 1 \in Nat /\ n - 1 < n /\ (n - 1 \in G => n \in G)
  BY <1>3
<1> QED
  BY <1>2, <1>3, <1>4

\* The first slot of a set of slots, or the first connection.
LEMMA FirstOfIn ==
  ASSUME NEW S, S \subseteq Nat, S # {}
  PROVE  FirstOf(S) \in S
<1>1. PICK n \in S : \A m \in S : ~(m < n)
  BY Least
<1>2. n \in S /\ \A m \in S : n <= m
  BY <1>1
<1> HIDE DEF FirstOf
<1>3. \E s \in S : \A r \in S : s <= r
  BY <1>2
<1> QED
  BY <1>3 DEF FirstOf

-----------------------------------------------------------------------------
(* Descriptors *)

LEMMA NotHeld == {"none", "backlog", "closed"} \cap Held = {}
  BY DEF Held

\* If a connection has no descriptor, one of 1 .. MaxConns is free: a map from those
\* that are in use to the other connections would put two into one.
LEMMA NewFdFree ==
  ASSUME NEW k, NEW c \in Conns, ~Holds(k, c),
         \A d, e \in Conns : Holds(k, d) /\ Holds(k, e) /\ k[d].fd = k[e].fd => d = e
  PROVE  NewFd(k) \in 1 .. MaxConns /\ HasFd(k, NewFd(k)) = {}
<1> DEFINE F == {f \in 1 .. MaxConns : HasFd(k, f) = {}}
<1>1. F # {}
  <2> SUFFICES ASSUME F = {} PROVE FALSE
    OBVIOUS
  <2> DEFINE owner == [f \in 1 .. MaxConns |-> CHOOSE d \in Conns : d \in HasFd(k, f)]
             T == Conns \ {c}
  <2>1. \A f \in 1 .. MaxConns : owner[f] \in Conns /\ owner[f] \in HasFd(k, f)
    BY DEF HasFd
  <2>2. \A f \in 1 .. MaxConns : owner[f] \in T
    BY <2>1 DEF HasFd, Holds
  <2>3. IsFiniteSet(1 .. MaxConns) /\ Cardinality(1 .. MaxConns) = MaxConns
    BY TcpAssumption, FS_Interval
  <2>4. IsFiniteSet(T) /\ Cardinality(T) = MaxConns - 1
    BY <2>3, FS_RemoveElement DEF Conns
  <2>5. owner \in [1 .. MaxConns -> T]
    BY <2>2
  <2> HIDE DEF owner, T
  <2>6. \E f, g \in 1 .. MaxConns : f # g /\ owner[f] = owner[g]
    BY <2>3, <2>4, <2>5, FS_PigeonHole, TcpAssumption
  <2> QED
    BY <2>1, <2>6 DEF HasFd
<1>2. PICK f \in F : \A g \in F : ~(g < f)
  <2>1. F \subseteq Nat
    OBVIOUS
  <2> QED
    BY <1>1, <2>1, Least
<1>3. \A g \in 1 .. (f - 1) : HasFd(k, g) # {}
  BY <1>2, TcpAssumption
<1>4. \E g \in 1 .. MaxConns : HasFd(k, g) = {} /\ \A h \in 1 .. (g - 1) : HasFd(k, h) # {}
  BY <1>2, <1>3
<1> QED
  BY <1>4 DEF NewFd

-----------------------------------------------------------------------------
(* What keeps the table *)

\* Nothing changes that the table is about.
LEMMA SameTable ==
  ASSUME NEW t, NEW k, NEW t2, NEW k2, NEW lost, Table(t, k, lost),
         DOMAIN t2 = Slots, DOMAIN k2 = Conns,
         \A s \in Slots : DOMAIN t2[s] = SlotFields /\ t2[s].sock = t[s].sock /\ t2[s].peer = t[s].peer,
         \A c \in Conns : /\ DOMAIN k2[c] = ConnFields
                          /\ Holds(k2, c) <=> Holds(k, c)
                          /\ Holds(k, c) => k2[c].fd = k[c].fd /\ k2[c].peer = k[c].peer
  PROVE  Table(t2, k2, lost)
<1>1. Shaped(t2, k2)
  BY DEF Table, Shaped
<1>2. Distinct(t2, k2)
  BY DEF Table, Distinct
<1>3. Backed(t2, k2)
  BY DEF Table, Backed
<1>4. Reached(t2, k2, lost)
  BY DEF Table, Reached
<1>5. Named(t2, k2)
  BY DEF Table, Named
<1> QED
  BY <1>1, <1>2, <1>3, <1>4, <1>5 DEF Table

\* A slot is closed.
LEMMA CloseTable ==
  ASSUME NEW b, NEW lost, Table(b.t, b.k, lost), NEW s \in Slots
  PROVE  LET z == _tcp_tl_close_sockinfo(b, s) IN Table(z.t, z.k, lost) /\ Keeps(b.k, z.k)
<1> DEFINE t == b.t
           k == b.k
           f == t[s].sock
           t2 == [t EXCEPT ![s] = Empty]
           k2 == CloseFd(k, f)
           z == _tcp_tl_close_sockinfo(b, s)
<1>1. z.t = t2 /\ z.k = k2
  BY DEF _tcp_tl_close_sockinfo
<1>2. /\ DOMAIN t2 = Slots
      /\ t2[s].sock = 0 /\ DOMAIN t2[s] = SlotFields
      /\ \A r \in Slots : r # s => t2[r] = t[r]
  BY DEF Table, Shaped, Empty, SlotFields
<1>3. /\ DOMAIN k2 = Conns
      /\ \A c \in Conns : /\ DOMAIN k2[c] = ConnFields
                          /\ Holds(k2, c) <=> Holds(k, c) /\ k[c].fd # f
                          /\ Holds(k2, c) => k2[c] = k[c]
                          /\ k[c].st \in {"backlog", "closed"} => k2[c].st = k[c].st
                          /\ Holds(k, c) /\ ~Holds(k2, c) => k2[c].st = "closed"
  BY NotHeld DEF Table, Shaped, CloseFd, HasFd, NoConn, ConnFields, Holds
<1> HIDE DEF t2, k2
<1>4. Shaped(t2, k2)
  <2>1. 0 \in 0 .. MaxConns
    BY TcpAssumption
  <2>2. \A r \in Slots : DOMAIN t2[r] = SlotFields /\ t2[r].sock \in 0 .. MaxConns
    BY <1>2, <2>1 DEF Table, Shaped
  <2>3. \A c \in Conns : DOMAIN k2[c] = ConnFields /\ (Holds(k2, c) => k2[c].fd \in 1 .. MaxConns)
    BY <1>3 DEF Table, Shaped
  <2> QED
    BY <1>2, <1>3, <2>2, <2>3 DEF Shaped
<1>5. Distinct(t2, k2)
  BY <1>2, <1>3 DEF Table, Distinct
<1>6. Backed(t2, k2)
  BY <1>2, <1>3 DEF Table, Distinct, Backed
<1>7. Reached(t2, k2, lost)
  BY <1>2, <1>3 DEF Table, Reached
<1>8. Keeps(k, k2)
  BY <1>3 DEF Keeps, Stays
<1>9. Named(t2, k2)
  <2>1. \A c \in Conns : Holds(k2, c) => k2[c].fd # 0
    BY <1>4 DEF Shaped
  <2> QED
    BY <1>2, <1>3, <2>1 DEF Table, Named
<1> QED
  BY <1>1, <1>4, <1>5, <1>6, <1>7, <1>8, <1>9 DEF Table, z

\* A slot gets a new connection; what it had before has no slot any more.
LEMMA OpenTable ==
  ASSUME NEW t, NEW k, NEW t2, NEW k2, NEW lost, Table(t, k, lost),
         NEW s \in Slots, NEW c \in Conns, ~Holds(k, c),
         DOMAIN t2 = Slots, DOMAIN k2 = Conns,
         DOMAIN t2[s] = SlotFields, t2[s].sock = NewFd(k),
         \A r \in Slots : r # s => t2[r] = t[r],
         DOMAIN k2[c] = ConnFields, Holds(k2, c), k2[c].fd = NewFd(k), k2[c].peer = t2[s].peer,
         \A d \in Conns : d # c => k2[d] = k[d]
  PROVE  Table(t2, k2, lost \cup (IF t[s].sock = 0 THEN {} ELSE HasFd(k, t[s].sock)))
<1> DEFINE lost2 == lost \cup (IF t[s].sock = 0 THEN {} ELSE HasFd(k, t[s].sock))
<1>1. /\ NewFd(k) \in 1 .. MaxConns
      /\ \A d \in Conns : Holds(k, d) => k[d].fd # NewFd(k)
  <2>1. NewFd(k) \in 1 .. MaxConns /\ HasFd(k, NewFd(k)) = {}
    BY NewFdFree DEF Table, Distinct
  <2> QED
    BY <2>1 DEF HasFd, Holds
<1>2. \A r \in Slots : t[r].sock # NewFd(k)
  BY <1>1, TcpAssumption DEF Table, Backed
<1>3. \A d \in Conns : d # c => (Holds(k2, d) <=> Holds(k, d))
  BY DEF Holds
<1> HIDE DEF Holds
<1>4. Shaped(t2, k2)
  BY <1>1, <1>3 DEF Table, Shaped
<1>5. Distinct(t2, k2)
  BY <1>1, <1>2, <1>3 DEF Table, Distinct
<1>6. Backed(t2, k2)
  BY <1>3 DEF Table, Backed
<1>7. Reached(t2, k2, lost2)
  <2> SUFFICES ASSUME NEW d \in Conns \ lost2, Holds(k2, d)
               PROVE  \E r \in Slots : t2[r].sock = k2[d].fd
    BY DEF Reached
  <2>1. CASE d = c
    BY <2>1
  <2>2. CASE d # c
    <3>1. PICK r \in Slots : t[r].sock = k[d].fd
      BY <1>3, <2>2 DEF Table, Reached
    <3>2. r # s
      <4>1. k[d].fd \in 1 .. MaxConns /\ Holds(k, d)
        BY <1>3, <2>2 DEF Table, Shaped
      <4> QED
        BY <3>1, <4>1 DEF HasFd, Holds
    <3> QED
      BY <2>2, <3>1, <3>2
  <2> QED
    BY <2>1, <2>2
<1>8. Named(t2, k2)
  BY <1>1, <1>2, <1>3 DEF Table, Named
<1> QED
  BY <1>4, <1>5, <1>6, <1>7, <1>8 DEF Table

-----------------------------------------------------------------------------
(* The loops over the slots *)

LEMMA CheckSlotTable ==
  ASSUME NEW b, NEW lost, Table(b.t, b.k, lost), NEW s \in Slots, DOMAIN b = {"t", "k"}
  PROVE  /\ Table(CheckSlot(b, s).t, CheckSlot(b, s).k, lost)
         /\ Table(KeepAliveSlot(b, s).t, KeepAliveSlot(b, s).k, lost)
         /\ Keeps(b.k, CheckSlot(b, s).k) /\ Keeps(b.k, KeepAliveSlot(b, s).k)
         /\ DOMAIN CheckSlot(b, s) = {"t", "k"} /\ DOMAIN KeepAliveSlot(b, s) = {"t", "k"}
<1> DEFINE z == _tcp_tl_close_sockinfo(b, s)
           u == [b EXCEPT !.t[s].connecting = FALSE]
<1>1. Table(z.t, z.k, lost) /\ Keeps(b.k, z.k) /\ DOMAIN z = {"t", "k"}
  BY CloseTable DEF _tcp_tl_close_sockinfo
<1>2. Table(u.t, u.k, lost) /\ Keeps(b.k, u.k) /\ DOMAIN u = {"t", "k"}
  <2> DEFINE new == [b.t[s] EXCEPT !.connecting = FALSE]
             t2 == [b.t EXCEPT ![s] = new]
  <2>1. DOMAIN new = SlotFields /\ new.sock = b.t[s].sock /\ new.peer = b.t[s].peer
    BY DEF Table, Shaped, SlotFields
  <2>2. u.t = t2 /\ u.k = b.k /\ DOMAIN u = {"t", "k"}
    OBVIOUS
  <2> HIDE DEF new
  <2>3. DOMAIN t2 = Slots /\ \A r \in Slots : /\ DOMAIN t2[r] = SlotFields
                                            /\ t2[r].sock = b.t[r].sock /\ t2[r].peer = b.t[r].peer
    BY <2>1 DEF Table, Shaped
  <2> HIDE DEF t2, u
  <2>4. DOMAIN b.k = Conns /\ \A c \in Conns : DOMAIN b.k[c] = ConnFields
    BY DEF Table, Shaped
  <2>5. Table(t2, b.k, lost)
    BY <2>3, <2>4, SameTable
  <2>6. Keeps(b.k, b.k)
    BY DEF Keeps, Stays
  <2> QED
    BY <2>2, <2>5, <2>6
<1>3. CheckSlot(b, s) \in {z, u, b}
  BY DEF CheckSlot
<1>4. KeepAliveSlot(b, s) \in {z, b}
  BY DEF KeepAliveSlot
<1>5. Keeps(b.k, b.k)
  BY DEF Keeps, Stays
<1> HIDE DEF z, u
<1> QED
  BY <1>1, <1>2, <1>3, <1>4, <1>5

LEMMA EachSlotTable ==
  ASSUME NEW b, NEW lost, Table(b.t, b.k, lost), DOMAIN b = {"t", "k"},
         NEW keepalive \in BOOLEAN
  PROVE  LET z == EachSlot(b, keepalive)
         IN Table(z.t, z.k, lost) /\ Keeps(b.k, z.k) /\ DOMAIN z = {"t", "k"}
<1> DEFINE Look(w, n) == IF keepalive THEN KeepAliveSlot(w, n) ELSE CheckSlot(w, n)
           Step(g, n) == IF n = 0 THEN b ELSE Look(g[n-1], n)
           Built(g, m) == g = [n \in 0 .. m |-> Step(g, n)]
           Fine(w) == Table(w.t, w.k, lost) /\ Keeps(b.k, w.k) /\ DOMAIN w = {"t", "k"}
           Exists == {m \in Nat : \E g : Built(g, m)}
           after[n \in 0 .. MaxSockets] == IF n = 0 THEN b
                                           ELSE IF keepalive THEN KeepAliveSlot(after[n-1], n)
                                           ELSE CheckSlot(after[n-1], n)
<1>1. \A w : \A n \in Slots : Fine(w) => Fine(Look(w, n))
  <2>1. \A k, k2 : Keeps(b.k, k) /\ Keeps(k, k2) => Keeps(b.k, k2)
    BY DEF Keeps, Stays
  <2> QED
    BY <2>1, CheckSlotTable
<1>2. Fine(b)
  BY DEF Keeps, Stays
<1> HIDE DEF Fine, Look
<1>3. 0 \in Exists
  <2> DEFINE g == [n \in 0 .. 0 |-> b]
  <2>1. g = [n \in 0 .. 0 |-> Step(g, n)]
    OBVIOUS
  <2> HIDE DEF g
  <2> QED
    BY <2>1
<1>4. ASSUME NEW m \in Nat, m \in Exists PROVE m + 1 \in Exists
  <2>1. PICK g : Built(g, m)
    BY <1>4
  <2> DEFINE h == [n \in 0 .. m + 1 |-> IF n = m + 1 THEN Step(g, n) ELSE g[n]]
  <2>2. ASSUME NEW n \in 0 .. m + 1 PROVE h[n] = Step(h, n)
    <3>1. CASE n = m + 1
      <4>1. h[n] = Look(g[n-1], n) /\ n - 1 \in 0 .. m + 1 /\ n - 1 # m + 1 /\ n # 0
        BY <3>1
      <4>2. h[n-1] = g[n-1]
        BY <4>1
      <4> QED
        BY <4>1, <4>2
    <3>2. CASE n # m + 1
      <4>1. n \in 0 .. m /\ h[n] = g[n] /\ g[n] = Step(g, n)
        BY <2>1, <3>2
      <4>2. n # 0 => n - 1 \in 0 .. m + 1 /\ n - 1 # m + 1 /\ h[n-1] = g[n-1]
        BY <4>1
      <4> QED
        BY <4>1, <4>2
    <3> QED
      BY <3>1, <3>2
  <2>3. Built(h, m + 1)
    <3> HIDE DEF Step
    <3>1. h = [n \in 0 .. m + 1 |-> h[n]]
      OBVIOUS
    <3> QED
      BY <2>2, <3>1
  <2> HIDE DEF Built, h
  <2>4. \E g2 : Built(g2, m + 1)
    BY <2>3
  <2> QED
    BY <2>4
<1>5. after = [n \in 0 .. MaxSockets |-> Step(after, n)]
  <2> HIDE DEF Built
  <2>1. Nat \subseteq Exists
    <3> HIDE DEF Exists
    <3> QED
      BY <1>3, <1>4, Induction
  <2>2. \E g : Built(g, MaxSockets)
    BY <2>1, TcpAssumption
  <2> QED
    BY <2>2 DEF Built, Look
<1> HIDE DEF after
<1> DEFINE G == {n \in Nat : n <= MaxSockets => Fine(after[n])}
<1>6. 0 \in G
  BY <1>2, <1>5, TcpAssumption
<1>7. ASSUME NEW n \in Nat, n \in G PROVE n + 1 \in G
  <2> SUFFICES ASSUME n + 1 <= MaxSockets PROVE Fine(after[n+1])
    OBVIOUS
  <2>1. Fine(after[n]) /\ n + 1 \in Slots /\ n + 1 \in 0 .. MaxSockets /\ n + 1 # 0
    BY <1>7, TcpAssumption DEF Slots
  <2>2. after[n+1] = Look(after[n], n + 1)
    <3>1. after[n+1] = Step(after, n + 1)
      BY <1>5, <2>1, Zenon
    <3> QED
      BY <2>1, <3>1
  <2> QED
    BY <1>1, <2>1, <2>2
<1>8. Fine(after[MaxSockets])
  <2>1. Nat \subseteq G
    <3> HIDE DEF G
    <3> QED
      BY <1>6, <1>7, Induction
  <2> QED
    BY <2>1, TcpAssumption
<1>9. EachSlot(b, keepalive) = after[MaxSockets]
  BY DEF EachSlot, after
<1> QED
  BY <1>8, <1>9 DEF Fine

-----------------------------------------------------------------------------
(* Connecting and sending *)

OverwrittenIn(t, k, s) == IF t[s].sock = 0 THEN {} ELSE HasFd(k, t[s].sock)

\* Slot s has a connection to p.
Serves(t, s, p) == s \in Slots /\ t[s].sock # 0 /\ t[s].peer = p

\* What connecting slot s to p makes of the table and the connections.
Connects(b, r, lost, p, s) ==
    /\ \/ r.b = b
       \/ /\ r.b.k # b.k /\ Keeps(b.k, r.b.k)
          /\ Table(r.b.t, r.b.k, lost \cup OverwrittenIn(b.t, b.k, s))
    /\ r.slot = 0 \/ Serves(r.b.t, r.slot, p)

LEMMA FoundSlot ==
  ASSUME NEW t, NEW p, _tcp_tl_find_socket(t, p) # {}
  PROVE  Serves(t, FirstOf(_tcp_tl_find_socket(t, p)), p)
<1>1. _tcp_tl_find_socket(t, p) \subseteq Nat
  BY DEF _tcp_tl_find_socket, Slots
<1>2. FirstOf(_tcp_tl_find_socket(t, p)) \in _tcp_tl_find_socket(t, p)
  BY <1>1, FirstOfIn
<1> QED
  BY <1>2 DEF _tcp_tl_find_socket, Serves

LEMMA ConnectTable ==
  ASSUME NEW b, NEW lost, Table(b.t, b.k, lost), NEW s \in Slots, NEW p,
         NEW r \in _tcp_tl_connect_socket(b, p, s)
  PROVE  Connects(b, r, lost, p, s)
<1>1. CASE r.b = b
  <2>1. CASE _tcp_tl_find_socket(b.t, p) # {}
    BY <1>1, <2>1, FoundSlot DEF _tcp_tl_connect_socket, Connects
  <2>2. CASE _tcp_tl_find_socket(b.t, p) = {} /\ r = [b |-> b, slot |-> 0]
    BY <2>2 DEF Connects
  <2>3. ASSUME NEW c \in NewConn(b.k), NEW st \in {"open", "progress"},
               r = [b |-> Connected(b, s, c, p, st), slot |-> s]
        PROVE  FALSE
    <3>1. r.b.k[c].st = st /\ b.k[c].st = "none"
      BY <2>3 DEF Connected, NewConn, NoConn, Table, Shaped
    <3> QED
      BY <1>1, <3>1
  <2> QED
    BY <2>1, <2>2, <2>3 DEF _tcp_tl_connect_socket
<1>2. CASE r.b # b
  <2>1. PICK c \in NewConn(b.k), st \in {"open", "progress"} :
           r = [b |-> Connected(b, s, c, p, st), slot |-> s]
    BY <1>2 DEF _tcp_tl_connect_socket
  <2> DEFINE w == [b.t[s] EXCEPT !.sock = NewFd(b.k), !.peer = p, !.connecting = (st = "progress")]
             t2 == [b.t EXCEPT ![s] = w]
             n == [NoConn EXCEPT !.st = st, !.peer = p, !.fd = NewFd(b.k)]
             k2 == [b.k EXCEPT ![c] = n]
  <2>2. r.b.t = t2 /\ r.b.k = k2
    BY <2>1 DEF Connected
  <2>3. /\ c \in Conns /\ b.k[c].st = "none" /\ ~Holds(b.k, c)
        /\ DOMAIN b.t = Slots /\ DOMAIN b.k = Conns /\ DOMAIN b.t[s] = SlotFields
    BY NotHeld DEF NewConn, Holds, Table, Shaped
  <2>4. DOMAIN w = SlotFields /\ w.sock = NewFd(b.k) /\ w.peer = p
    BY <2>3 DEF SlotFields
  <2>5. DOMAIN n = ConnFields /\ n.st \in Held /\ n.fd = NewFd(b.k) /\ n.peer = p
    BY DEF NoConn, ConnFields, Held
  <2> HIDE DEF w, n
  <2>6. /\ DOMAIN t2 = Slots /\ t2[s] = w /\ \A x \in Slots : x # s => t2[x] = b.t[x]
        /\ DOMAIN k2 = Conns /\ k2[c] = n /\ \A d \in Conns : d # c => k2[d] = b.k[d]
    BY <2>3
  <2> HIDE DEF t2, k2
  <2>7. k2 # b.k
    <3>1. "none" \notin Held
      BY NotHeld
    <3> QED
      BY <2>3, <2>5, <2>6, <3>1
  <2>8. Table(t2, k2, lost \cup OverwrittenIn(b.t, b.k, s))
    BY <2>3, <2>4, <2>5, <2>6, OpenTable DEF OverwrittenIn, Holds
  <2>9. Keeps(b.k, k2)
    BY <2>3, <2>6 DEF Keeps, Stays, Holds
  <2>10. Serves(r.b.t, r.slot, p)
    <3>1. NewFd(b.k) # 0
      BY <2>3, NewFdFree DEF Table, Distinct
    <3>2. r.slot = s
      BY <2>1
    <3> QED
      BY <2>2, <2>4, <2>6, <3>1, <3>2 DEF Serves
  <2> QED
    BY <2>2, <2>7, <2>8, <2>9, <2>10 DEF Connects
<1> QED
  BY <1>1, <1>2

LEMMA StaysItself == \A k : Stays(k, k) /\ Keeps(k, k)
  BY DEF Stays, Keeps

LEMMA StaysOn == \A k, k2, k3 : Stays(k, k2) /\ Stays(k2, k3) => Stays(k, k3)
  BY DEF Stays

LEMMA FreeSlot ==
  ASSUME NEW t, Free(t) # {}
  PROVE  FirstOf(Free(t)) \in Slots /\ t[FirstOf(Free(t))].sock = 0
<1>1. Free(t) \subseteq Nat
  BY DEF Free, Slots
<1>2. FirstOf(Free(t)) \in Free(t)
  BY <1>1, FirstOfIn
<1> QED
  BY <1>2 DEF Free

LEMMA SendTable ==
  ASSUME NEW b, NEW lost, Table(b.t, b.k, lost), DOMAIN b = {"t", "k"},
         NEW p, NEW out, NEW c, tcp_tl_send_message(b, p, out, c)
  PROVE  Table(tab', conn', lost) /\ Stays(b.k, conn')
<1> DEFINE z == _tcp_tl_check_connected(b)
<1>1. Table(z.t, z.k, lost) /\ Stays(b.k, z.k)
  BY EachSlotTable DEF _tcp_tl_check_connected, Keeps
<1>2. PICK r \in Chosen(z, p, out) : tab' = r.b.t /\ conn' = r.b.k
  BY DEF tcp_tl_send_message
<1> HIDE DEF z
<1>3. CASE r.b = z
  <2>1. tab' = z.t /\ conn' = z.k
    BY <1>2, <1>3
  <2> QED
    BY <1>1, <2>1
<1>4. CASE r.b # z
  <2> DEFINE s == FirstOf(Free(z.t))
  <2>1. Free(z.t) # {} /\ r \in _tcp_tl_connect_socket(z, p, s)
    BY <1>4 DEF Chosen
  <2>2. s \in Slots /\ z.t[s].sock = 0
    BY <2>1, FreeSlot
  <2> HIDE DEF s
  <2>3. Table(r.b.t, r.b.k, lost \cup OverwrittenIn(z.t, z.k, s)) /\ Keeps(z.k, r.b.k)
    BY <1>1, <1>4, <2>1, <2>2, ConnectTable DEF Connects
  <2>4. lost \cup OverwrittenIn(z.t, z.k, s) = lost
    BY <2>2 DEF OverwrittenIn
  <2> QED
    <3>1. Stays(z.k, r.b.k)
      BY <2>3 DEF Keeps
    <3>2. Stays(b.k, r.b.k)
      BY <1>1, <3>1, StaysOn
    <3>3. Table(r.b.t, r.b.k, lost)
      BY <2>3, <2>4
    <3> QED
      BY <1>2, <3>2, <3>3
<1> QED
  BY <1>3, <1>4

-----------------------------------------------------------------------------
(* The steps *)

\* Of a record of a connection only fields change that the table is not about, or its state,
\* without being opened or closed.
LEMMA OneChanged ==
  ASSUME NEW t, NEW k, NEW lost, Table(t, k, lost), NEW c \in Conns, NEW n,
         DOMAIN n = ConnFields, n.st \in Held <=> Holds(k, c),
         (n.fd = k[c].fd /\ n.peer = k[c].peer) \/ ~Holds(k, c)
  PROVE  Table(t, [k EXCEPT ![c] = n], lost)
<1> DEFINE k2 == [k EXCEPT ![c] = n]
<1>1. DOMAIN k2 = Conns /\ k2[c] = n /\ \A d \in Conns : d # c => k2[d] = k[d]
  BY DEF Table, Shaped
<1> HIDE DEF k2
<1>2. \A d \in Conns : /\ DOMAIN k2[d] = ConnFields
                       /\ Holds(k2, d) <=> Holds(k, d)
                       /\ Holds(k, d) => k2[d].fd = k[d].fd /\ k2[d].peer = k[d].peer
  BY <1>1 DEF Holds, Table, Shaped
<1>3. DOMAIN t = Slots /\ \A s \in Slots : DOMAIN t[s] = SlotFields
  BY DEF Table, Shaped
<1>4. Table(t, k2, lost)
  BY <1>1, <1>2, <1>3, SameTable
<1> QED
  BY <1>4 DEF k2

LEMMA InitTable == Init => TcpInv
<1> SUFFICES ASSUME Init PROVE TcpInv
  OBVIOUS
<1>1. /\ \A s \in Slots : DOMAIN tab[s] = SlotFields /\ tab[s].sock = 0
      /\ \A c \in Conns : DOMAIN conn[c] = ConnFields /\ ~Holds(conn, c)
      /\ DOMAIN tab = Slots /\ DOMAIN conn = Conns
  BY NotHeld DEF Init, Empty, NoConn, Holds, SlotFields, ConnFields
<1>2. Table(tab, conn, orphans)
  BY <1>1, TcpAssumption DEF Table, Shaped, Distinct, Backed, Reached, Named
<1>3. Places
  BY DEF Init, Places, At, Idle
<1> QED
  BY <1>2, <1>3 DEF TcpInv

LEMMA NetworkKeeps ==
  ASSUME TcpInv, NEW c \in Conns, NEW n, DOMAIN n = ConnFields,
         n.st \in Held <=> Holds(conn, c),
         (n.fd = conn[c].fd /\ n.peer = conn[c].peer) \/ ~Holds(conn, c),
         conn[c].st \notin {"backlog", "closed"}, Network([conn EXCEPT ![c] = n])
  PROVE  TcpInv' /\ Stays(conn, conn')
<1>1. UNCHANGED <<tab, pc, app, orphans>> /\ conn' = [conn EXCEPT ![c] = n]
  BY DEF Network
<1>2. Table(tab, conn', orphans)
  BY <1>1, OneChanged DEF TcpInv
<1>3. Table(tab, conn, orphans)'
  BY <1>1, <1>2
<1>4. Places'
  <2>1. DOMAIN conn = Conns
    BY DEF TcpInv, Table, Shaped
  <2>2. Backlog # {} => Backlog' # {}
    BY <1>1, <2>1 DEF Backlog
  <2> QED
    BY <1>1, <2>2 DEF TcpInv, Places
<1>5. Stays(conn, conn')
  BY <1>1 DEF Stays, Holds, TcpInv, Table, Shaped
<1> QED
  BY <1>3, <1>4, <1>5 DEF TcpInv

LEMMA WorldKeeps ==
  ASSUME TcpInv, World PROVE TcpInv' /\ Stays(conn, conn')
<1>0. DOMAIN conn = Conns /\ \A c \in Conns : DOMAIN conn[c] = ConnFields
  BY DEF TcpInv, Table, Shaped
<1>1. ASSUME NEW p \in Peers, PeerConnects(p) PROVE TcpInv' /\ Stays(conn, conn')
  <2> DEFINE n == [NoConn EXCEPT !.st = "backlog", !.peer = p, !.server = TRUE]
  <2>1. PICK c \in NewConn(conn) : Network([conn EXCEPT ![c] = n])
    BY <1>1 DEF PeerConnects, Silent
  <2>2. c \in Conns /\ conn[c].st = "none"
    BY DEF NewConn
  <2>3. DOMAIN n = ConnFields /\ n.st \notin Held /\ ~Holds(conn, c)
    BY <2>2, NotHeld DEF NoConn, ConnFields, Holds
  <2> HIDE DEF n
  <2> QED
    BY <2>1, <2>2, <2>3, NetworkKeeps
<1>2. ASSUME NEW c \in Conns, ConnectEnds(c) PROVE TcpInv' /\ Stays(conn, conn')
  <2>1. PICK st \in {"open", "failed"} : Network([conn EXCEPT ![c].st = st])
    BY <1>2 DEF ConnectEnds, Silent
  <2> DEFINE n == [conn[c] EXCEPT !.st = st]
  <2>2. [conn EXCEPT ![c].st = st] = [conn EXCEPT ![c] = n]
    BY <1>0
  <2>3. DOMAIN n = ConnFields /\ n.st \in Held /\ n.fd = conn[c].fd /\ n.peer = conn[c].peer
    BY <1>0 DEF ConnFields, Held
  <2>4. Holds(conn, c) /\ conn[c].st \notin {"backlog", "closed"}
    BY <1>2 DEF ConnectEnds, Holds, Held
  <2> HIDE DEF n
  <2> QED
    BY <2>1, <2>2, <2>3, <2>4, NetworkKeeps
<1>3. ASSUME NEW c \in Conns, PeerSends(c) PROVE TcpInv' /\ Stays(conn, conn')
  <2>1. Holds(conn, c) /\ conn[c].st \notin {"backlog", "closed"}
    BY <1>3 DEF PeerSends, Holds, Held
  <2> DEFINE Same(n) == /\ DOMAIN n = ConnFields /\ n.st = conn[c].st
                    /\ n.fd = conn[c].fd /\ n.peer = conn[c].peer
  <2>2. \E n : Same(n) /\ Network([conn EXCEPT ![c] = n])
    <3>1. CASE Silent([conn EXCEPT ![c].in = Append(@, Head(conn[c].rest)), ![c].rest = Tail(@)])
      <4> DEFINE n == [conn[c] EXCEPT !.in = Append(@, Head(conn[c].rest)), !.rest = Tail(@)]
      <4>1. Same(n)
        BY <1>0 DEF ConnFields
      <4>2. Network([conn EXCEPT ![c] = n])
        BY <1>0, <3>1 DEF Silent, ConnFields
      <4> QED
        BY <4>1, <4>2
    <3>2. ASSUME NEW kind \in DOMAIN Parts,
                 Network([conn EXCEPT ![c].in = Append(@, Head(Message(kind, conn[c].peer))),
                                      ![c].rest = Tail(Message(kind, conn[c].peer)),
                                      ![c].due = Append(@, kind)])
          PROVE  \E n : Same(n) /\ Network([conn EXCEPT ![c] = n])
      <4> DEFINE n == [conn[c] EXCEPT !.in = Append(@, Head(Message(kind, conn[c].peer))),
                                      !.rest = Tail(Message(kind, conn[c].peer)),
                                      !.due = Append(@, kind)]
      <4>1. Same(n)
        BY <1>0 DEF ConnFields
      <4>2. Network([conn EXCEPT ![c] = n])
        BY <1>0, <3>2 DEF ConnFields
      <4> QED
        BY <4>1, <4>2
    <3>3. CASE Network([conn EXCEPT ![c].in = Append(@, Ping)])
      <4> DEFINE n == [conn[c] EXCEPT !.in = Append(@, Ping)]
      <4>1. Same(n)
        BY <1>0 DEF ConnFields
      <4>2. Network([conn EXCEPT ![c] = n])
        BY <1>0, <3>3 DEF ConnFields
      <4> QED
        BY <4>1, <4>2
    <3> QED
      BY <1>3, <3>1, <3>2, <3>3 DEF PeerSends
  <2>3. PICK n : Same(n) /\ Network([conn EXCEPT ![c] = n])
    BY <2>2
  <2>4. DOMAIN n = ConnFields /\ n.fd = conn[c].fd /\ n.peer = conn[c].peer /\ (n.st \in Held <=> Holds(conn, c))
    BY <2>3 DEF Holds
  <2> QED
    BY <2>1, <2>3, <2>4, NetworkKeeps
<1>4. ASSUME NEW c \in Conns, PeerCloses(c) PROVE TcpInv' /\ Stays(conn, conn')
  <2> DEFINE n == [conn[c] EXCEPT !.st = "eof"]
  <2>1. [conn EXCEPT ![c].st = "eof"] = [conn EXCEPT ![c] = n]
    BY <1>0
  <2>2. Network([conn EXCEPT ![c] = n])
    BY <1>4, <2>1 DEF PeerCloses, Silent
  <2>3. DOMAIN n = ConnFields /\ n.st \in Held /\ n.fd = conn[c].fd /\ n.peer = conn[c].peer
    BY <1>0 DEF ConnFields, Held
  <2>4. Holds(conn, c) /\ conn[c].st \notin {"backlog", "closed"}
    BY <1>4 DEF PeerCloses, Holds, Held
  <2> HIDE DEF n
  <2> QED
    BY <2>2, <2>3, <2>4, NetworkKeeps
<1>5. ASSUME NEW c \in Conns, Breaks(c) PROVE TcpInv' /\ Stays(conn, conn')
  <2> DEFINE n == [conn[c] EXCEPT !.st = "failed", !.in = <<>>]
  <2>1. [conn EXCEPT ![c].st = "failed", ![c].in = <<>>] = [conn EXCEPT ![c] = n]
    BY <1>0 DEF ConnFields
  <2>2. Network([conn EXCEPT ![c] = n])
    BY <1>5, <2>1 DEF Breaks, Silent
  <2>3. DOMAIN n = ConnFields /\ n.st \in Held /\ n.fd = conn[c].fd /\ n.peer = conn[c].peer
    BY <1>0 DEF ConnFields, Held
  <2>4. Holds(conn, c) /\ conn[c].st \notin {"backlog", "closed"}
    BY <1>5 DEF Breaks, Holds, Held
  <2> HIDE DEF n
  <2> QED
    BY <2>2, <2>3, <2>4, NetworkKeeps
<1> QED
  BY <1>1, <1>2, <1>3, <1>4, <1>5 DEF World

\* The thread goes on.
LEMMA NextSlotPlaces ==
  ASSUME TcpInv, pc.slot \in Slots, NextSlot
  PROVE  /\ DOMAIN pc' = {"at", "slot", "conn", "rest"}
         /\ pc'.at \in {"recv", "execute"} /\ (pc'.at = "recv" => pc'.slot \in Slots)
<1>1. CASE pc.slot = MaxSockets
  BY <1>1 DEF NextSlot, At
<1>2. CASE pc.slot # MaxSockets
  <2>1. pc.slot + 1 \in Slots
    BY <1>2, TcpAssumption DEF Slots
  <2>2. pc' = [At("recv") EXCEPT !.slot = pc.slot + 1]
    BY <1>2 DEF NextSlot
  <2> QED
    BY <2>1, <2>2 DEF At
<1> QED
  BY <1>1, <1>2

\* Table and connections when the thread has handled a message, and z is left in the buffer of
\* its slot; or nothing has become of that, which is no longer what the thread goes through.
Kept(z) == IF Freed THEN tab ELSE [tab EXCEPT ![pc.slot].buf = z]
Handled(z) == [t |-> Kept(z), k |-> [conn EXCEPT ![pc.conn].due = SubSeq(@, 2, Len(@))]]

LEMMA HandledTable ==
  ASSUME TcpInv, pc.slot \in Slots, NEW z
  PROVE  /\ Table(Kept(z), conn, orphans) /\ Table(Handled(z).t, Handled(z).k, orphans)
         /\ DOMAIN Handled(z) = {"t", "k"} /\ Stays(conn, Handled(z).k)
<1> DEFINE s == pc.slot
           c == pc.conn
           w == [tab[s] EXCEPT !.buf = z]
           n == [conn[c] EXCEPT !.due = SubSeq(@, 2, Len(@))]
           t2 == [tab EXCEPT ![s] = w]
           k2 == [conn EXCEPT ![c] = n]
<1>0. Table(tab, conn, orphans)
  BY DEF TcpInv
<1>a. /\ DOMAIN tab = Slots /\ DOMAIN conn = Conns
      /\ \A r \in Slots : DOMAIN tab[r] = SlotFields
      /\ \A d \in Conns : DOMAIN conn[d] = ConnFields
  BY <1>0 DEF Table, Shaped
<1>1. Handled(z) = [t |-> Kept(z), k |-> k2] /\ Kept(z) \in {tab, t2}
  <2>1. [tab EXCEPT ![s].buf = z] = t2
    BY <1>a
  <2>2. [conn EXCEPT ![c].due = SubSeq(@, 2, Len(@))] = k2
    BY <1>a
  <2> QED
    BY <2>1, <2>2 DEF Handled, Kept
<1>2. DOMAIN w = SlotFields /\ w.sock = tab[s].sock /\ w.peer = tab[s].peer
  BY <1>a DEF SlotFields
<1>3. c \in Conns => /\ DOMAIN n = ConnFields /\ n.st = conn[c].st
                     /\ n.fd = conn[c].fd /\ n.peer = conn[c].peer
  BY <1>a DEF ConnFields
<1> HIDE DEF w, n
<1>4. /\ DOMAIN k2 = Conns
      /\ \A d \in Conns : /\ DOMAIN k2[d] = ConnFields /\ k2[d].st = conn[d].st
                          /\ k2[d].fd = conn[d].fd /\ k2[d].peer = conn[d].peer
  BY <1>a, <1>3
<1>5. /\ DOMAIN Kept(z) = Slots
      /\ \A r \in Slots : /\ DOMAIN Kept(z)[r] = SlotFields
                          /\ Kept(z)[r].sock = tab[r].sock /\ Kept(z)[r].peer = tab[r].peer
  <2>1. CASE Kept(z) = tab
    BY <1>a, <2>1
  <2>2. CASE Kept(z) = t2
    BY <1>a, <1>2, <2>2
  <2> QED
    BY <1>1, <2>1, <2>2
<1> HIDE DEF t2, k2
<1>6. Table(Kept(z), conn, orphans)
  BY <1>0, <1>a, <1>5, SameTable
<1>7. Table(Kept(z), k2, orphans)
  BY <1>0, <1>4, <1>5, SameTable DEF Holds
<1>8. Stays(conn, k2)
  BY <1>4 DEF Stays, Holds
<1> QED
  BY <1>1, <1>6, <1>7, <1>8

\* What handle_messages does: it goes on to the next slot; or it has passed over a ping, sent
\* the ACK of a late 200, or handed up a request.
LEMMA HandleCases ==
  ASSUME handle_messages
  PROVE  /\ UNCHANGED <<app, orphans>>
         /\ \/ NextSlot /\ wrote' = NoWrite /\ UNCHANGED <<tab, conn, owed>>
            \/ \E buf, rest :
                  /\ pc' = [pc EXCEPT !.rest = rest]
                  /\ \/ tab' = Kept(rest) /\ wrote' = NoWrite /\ UNCHANGED <<conn, owed>>
                     \/ tcp_tl_send_message(Handled(rest), Head(buf).from, 0, 0) /\ owed' = owed
                     \/ /\ tab' = Handled(rest).t /\ conn' = Handled(rest).k /\ wrote' = NoWrite
                        /\ owed' = owed \cup {Asker}
<1>1. PICK buf \in Found :
        LET n == MessageLen(buf)
            t == IF Freed THEN tab ELSE [tab EXCEPT ![pc.slot].buf = Consumed(buf, n)]
            b == [t |-> t, k |-> [conn EXCEPT ![pc.conn].due = SubSeq(@, 2, Len(@))]]
        IN \/ NextSlot /\ wrote' = NoWrite /\ UNCHANGED <<tab, conn, owed>>
           \/ /\ pc' = [pc EXCEPT !.rest = Consumed(buf, n)]
              /\ \/ tab' = t /\ wrote' = NoWrite /\ UNCHANGED <<conn, owed>>
                 \/ tcp_tl_send_message(b, Head(buf).from, 0, 0) /\ owed' = owed
                 \/ /\ tab' = t /\ conn' = b.k /\ wrote' = NoWrite
                    /\ owed' = owed \cup {Asker}
  BY DEF handle_messages
<1> DEFINE rest == Consumed(buf, MessageLen(buf))
<1>2. \/ NextSlot /\ wrote' = NoWrite /\ UNCHANGED <<tab, conn, owed>>
      \/ /\ pc' = [pc EXCEPT !.rest = rest]
         /\ \/ tab' = Kept(rest) /\ wrote' = NoWrite /\ UNCHANGED <<conn, owed>>
            \/ tcp_tl_send_message(Handled(rest), Head(buf).from, 0, 0) /\ owed' = owed
            \/ /\ tab' = Handled(rest).t /\ conn' = Handled(rest).k /\ wrote' = NoWrite
               /\ owed' = owed \cup {Asker}
  BY <1>1 DEF Kept, Handled
<1> HIDE DEF rest
<1>3. UNCHANGED <<app, orphans>>
  BY DEF handle_messages
<1> QED
  BY <1>2, <1>3

LEMMA ReadingKeeps ==
  ASSUME TcpInv, Reading PROVE TcpInv' /\ Stays(conn, conn')
<1>0. /\ Table(tab, conn, orphans) /\ Places
      /\ Both.t = tab /\ Both.k = conn /\ DOMAIN Both = {"t", "k"}
  BY DEF TcpInv, Both
<1>a. /\ DOMAIN tab = Slots /\ DOMAIN conn = Conns
      /\ \A s \in Slots : DOMAIN tab[s] = SlotFields
      /\ \A c \in Conns : DOMAIN conn[c] = ConnFields
  BY <1>0 DEF Table, Shaped
<1>1. CASE tcp_tl_set_fdset
  <2>1. UNCHANGED <<tab, conn, app, orphans>>
    BY <1>1 DEF tcp_tl_set_fdset
  <2>2. 1 \in Slots
    BY TcpAssumption DEF Slots
  <2>3. /\ DOMAIN pc' = {"at", "slot", "conn", "rest"} /\ pc'.at \in {"execute", "accept", "recv"}
        /\ pc'.at = "accept" => Backlog # {}
        /\ pc'.at = "recv" => pc'.slot = 1
    <3>1. 0 \in fdset' => Backlog # {}
      BY <1>1 DEF tcp_tl_set_fdset
    <3>2. CASE fdset' = {}
      BY <1>1, <3>2 DEF tcp_tl_set_fdset, At
    <3>3. CASE fdset' # {} /\ 0 \in fdset'
      BY <1>1, <3>1, <3>3 DEF tcp_tl_set_fdset, At
    <3>4. CASE fdset' # {} /\ 0 \notin fdset'
      BY <1>1, <3>4 DEF tcp_tl_set_fdset, At
    <3> QED
      BY <3>2, <3>3, <3>4
  <2>4. Backlog' = Backlog
    BY <2>1 DEF Backlog
  <2>5. Places'
    BY <1>0, <2>1, <2>2, <2>3, <2>4 DEF Places
  <2>6. Table(tab, conn, orphans)'
    BY <1>0, <2>1
  <2> QED
    BY <2>1, <2>5, <2>6, StaysItself DEF TcpInv
<1>2. CASE AcceptSlot
  <2> DEFINE s == IF Free(tab) = {} THEN 1 ELSE FirstOf(Free(tab))
             b == IF Free(tab) = {} THEN Evicted(Both, s) ELSE Both
  <2>1. tab' = b.t /\ conn' = b.k /\ pc' = [At("accepting") EXCEPT !.slot = s]
        /\ UNCHANGED <<app, orphans>>
    BY <1>2 DEF AcceptSlot
  <2>2. s \in Slots
    BY FreeSlot, TcpAssumption DEF Slots
  <2>3. Table(b.t, b.k, orphans) /\ Keeps(conn, b.k)
    <3>1. CASE Free(tab) = {}
      BY <1>0, <2>2, <3>1, CloseTable DEF Evicted
    <3>2. CASE Free(tab) # {}
      BY <1>0, <3>2, StaysItself
    <3> QED
      BY <3>1, <3>2
  <2> HIDE DEF s, b
  <2>4. Table(tab, conn, orphans)'
    BY <2>1, <2>3
  <2>5. Backlog # {} => Backlog' # {}
    BY <2>1, <2>3 DEF Keeps, Backlog
  <2>6. pc.at = "accept"
    BY <1>2 DEF AcceptSlot
  <2>7. Places'
    BY <1>0, <2>1, <2>2, <2>5, <2>6 DEF Places, At
  <2> QED
    BY <2>1, <2>3, <2>4, <2>7 DEF TcpInv, Keeps
<1>3. CASE Accept
  <2> DEFINE c == FirstOf(Backlog)
             s == pc.slot
  <2>1. c \in Conns /\ conn[c].st = "backlog"
    <3>1. Backlog # {} /\ Backlog \subseteq Nat
      BY <1>0, <1>3 DEF Accept, Places, Backlog, Conns
    <3>2. FirstOf(Backlog) \in Backlog
      BY <3>1, FirstOfIn
    <3> QED
      BY <3>2 DEF Backlog
  <2>2. ~Holds(conn, c) /\ s \in Slots
    BY <1>0, <1>3, <2>1, NotHeld DEF Accept, Places, Holds
  <2>3. Table(tab, conn, orphans)' /\ Stays(conn, conn')
    <3>1. CASE /\ conn' = [conn EXCEPT ![c].st = "open", ![c].fd = NewFd(conn)]
               /\ tab' = [tab EXCEPT ![s].sock = NewFd(conn), ![s].peer = conn[c].peer]
               /\ orphans' = orphans \cup Overwritten(s)
      <4> DEFINE n == [conn[c] EXCEPT !.st = "open", !.fd = NewFd(conn)]
                 w == [tab[s] EXCEPT !.sock = NewFd(conn), !.peer = conn[c].peer]
      <4>1. conn' = [conn EXCEPT ![c] = n] /\ tab' = [tab EXCEPT ![s] = w]
        BY <1>a, <2>1, <2>2, <3>1 DEF ConnFields, SlotFields
      <4>2. /\ DOMAIN n = ConnFields /\ n.st \in Held /\ n.fd = NewFd(conn)
            /\ DOMAIN w = SlotFields /\ w.sock = NewFd(conn) /\ w.peer = n.peer
        BY <1>a, <2>1, <2>2 DEF ConnFields, SlotFields, Held
      <4> HIDE DEF n, w, c
      <4>3. /\ DOMAIN tab' = Slots /\ tab'[s] = w /\ \A r \in Slots : r # s => tab'[r] = tab[r]
            /\ DOMAIN conn' = Conns /\ conn'[c] = n /\ \A d \in Conns : d # c => conn'[d] = conn[d]
        BY <1>a, <2>1, <2>2, <4>1
      <4>4. Holds(conn', c)
        BY <4>2, <4>3 DEF Holds
      <4>5. Table(tab', conn', orphans \cup (IF tab[s].sock = 0 THEN {} ELSE HasFd(conn, tab[s].sock)))
        BY <1>0, <2>1, <2>2, <4>2, <4>3, <4>4, OpenTable
      <4>6. Stays(conn, conn')
        BY <2>1, <2>2, <4>3 DEF Stays, Holds
      <4> QED
        BY <3>1, <4>5, <4>6 DEF Overwritten
    <3>2. CASE /\ conn' = [conn EXCEPT ![c] = [NoConn EXCEPT !.st = "closed"]]
               /\ UNCHANGED <<tab, orphans>>
      <4> DEFINE n == [NoConn EXCEPT !.st = "closed"]
      <4>1. DOMAIN n = ConnFields /\ n.st \notin Held
        BY NotHeld DEF ConnFields, NoConn
      <4> HIDE DEF n, c
      <4>2. Table(tab, conn', orphans)
        BY <1>0, <2>1, <2>2, <3>2, <4>1, OneChanged DEF n
      <4>3. Stays(conn, conn')
        BY <1>a, <2>1, <2>2, <3>2 DEF Stays, Holds
      <4> QED
        BY <3>2, <4>2, <4>3
    <3> QED
      BY <1>3, <3>1, <3>2 DEF Accept
  <2>4. Places'
    <3>1. pc' = [At("recv") EXCEPT !.slot = 1] /\ app' = app
      BY <1>3 DEF Accept
    <3>2. 1 \in Slots
      BY TcpAssumption DEF Slots
    <3> QED
      BY <1>0, <3>1, <3>2 DEF Places, At
  <2> QED
    BY <2>3, <2>4 DEF TcpInv
<1>4. CASE _tcp_tl_recv
  <2> DEFINE s == pc.slot
             f == tab[s].sock
             c == CHOOSE x \in HasFd(conn, f) : TRUE
             z == _tcp_tl_close_sockinfo(Both, s)
  <2>1. s \in Slots /\ UNCHANGED <<app, orphans>>
    BY <1>0, <1>4 DEF _tcp_tl_recv, Places
  <2>2. CASE NextSlot /\ UNCHANGED <<tab, conn>>
    <3>1. Table(tab, conn, orphans)'
      BY <1>0, <2>1, <2>2
    <3>2. Places'
      BY <1>0, <2>1, <2>2, NextSlotPlaces, Zenon DEF Places, TcpInv
    <3> QED
      BY <2>2, <3>1, <3>2, StaysItself DEF TcpInv
  <2>3. CASE f # 0 /\ tab' = z.t /\ conn' = z.k /\ NextSlot
    <3>1. Table(tab, conn, orphans)' /\ Stays(conn, conn')
      BY <1>0, <2>1, <2>3, CloseTable DEF Keeps
    <3>2. Places'
      BY <1>0, <2>1, <2>3, NextSlotPlaces, Zenon DEF Places, TcpInv
    <3> QED
      BY <3>1, <3>2 DEF TcpInv
  <2>4. CASE /\ f # 0
             /\ tab' = [tab EXCEPT ![s].buf = @ \o conn[c].in]
             /\ conn' = [conn EXCEPT ![c].in = <<>>]
             /\ pc' = [at |-> "handle", slot |-> s, conn |-> c, rest |-> tab[s].buf \o conn[c].in]
    <3>1. c \in Conns
      <4>1. HasFd(conn, f) # {}
        BY <1>0, <2>1, <2>4 DEF Table, Backed, HasFd, Holds
      <4> QED
        BY <4>1 DEF HasFd
    <3> DEFINE n == [conn[c] EXCEPT !.in = <<>>]
               w == [tab[s] EXCEPT !.buf = @ \o conn[c].in]
    <3>2. conn' = [conn EXCEPT ![c] = n] /\ tab' = [tab EXCEPT ![s] = w]
      BY <1>a, <2>1, <2>4, <3>1 DEF ConnFields, SlotFields
    <3>3. /\ DOMAIN n = ConnFields /\ n.st = conn[c].st /\ n.fd = conn[c].fd /\ n.peer = conn[c].peer
          /\ DOMAIN w = SlotFields /\ w.sock = tab[s].sock /\ w.peer = tab[s].peer
      BY <1>a, <2>1, <3>1 DEF ConnFields, SlotFields
    <3> HIDE DEF n, w, c
    <3>4. /\ DOMAIN tab' = Slots /\ DOMAIN conn' = Conns
          /\ \A r \in Slots : /\ DOMAIN tab'[r] = SlotFields
                              /\ tab'[r].sock = tab[r].sock /\ tab'[r].peer = tab[r].peer
          /\ \A d \in Conns : /\ DOMAIN conn'[d] = ConnFields /\ conn'[d].st = conn[d].st
                              /\ conn'[d].fd = conn[d].fd /\ conn'[d].peer = conn[d].peer
      BY <1>a, <2>1, <3>1, <3>2, <3>3 DEF Holds
    <3>5. Table(tab', conn', orphans)
      BY <1>0, <3>4, SameTable DEF Holds
    <3>6. Places'
      BY <1>0, <2>1, <2>4 DEF Places
    <3> QED
      BY <2>1, <3>4, <3>5, <3>6 DEF TcpInv, Stays, Holds
  <2> QED
    BY <1>4, <2>2, <2>3, <2>4 DEF _tcp_tl_recv
<1>5. CASE handle_messages
  <2>1. pc.slot \in Slots /\ pc.at = "handle" /\ UNCHANGED <<app, orphans>>
    BY <1>0, <1>5, HandleCases DEF handle_messages, Places
  <2>2. CASE NextSlot /\ UNCHANGED <<tab, conn>>
    <3>1. Table(tab, conn, orphans)'
      BY <1>0, <2>1, <2>2
    <3>2. Places'
      BY <1>0, <2>1, <2>2, NextSlotPlaces, Zenon DEF Places, TcpInv
    <3> QED
      BY <2>2, <3>1, <3>2, StaysItself DEF TcpInv
  <2>3. ASSUME NEW rest, NEW p, pc' = [pc EXCEPT !.rest = rest],
               \/ tab' = Kept(rest) /\ conn' = conn
               \/ tab' = Handled(rest).t /\ conn' = Handled(rest).k
               \/ tcp_tl_send_message(Handled(rest), p, 0, 0)
        PROVE  TcpInv' /\ Stays(conn, conn')
    <3>1. /\ Table(Kept(rest), conn, orphans) /\ Table(Handled(rest).t, Handled(rest).k, orphans)
          /\ DOMAIN Handled(rest) = {"t", "k"} /\ Stays(conn, Handled(rest).k)
      BY <2>1, HandledTable
    <3>2. Table(tab', conn', orphans) /\ Stays(conn, conn')
      <4>1. CASE tab' = Kept(rest) /\ conn' = conn
        BY <3>1, <4>1, StaysItself
      <4>2. CASE tab' = Handled(rest).t /\ conn' = Handled(rest).k
        BY <3>1, <4>2
      <4>3. CASE tcp_tl_send_message(Handled(rest), p, 0, 0)
        BY <3>1, <4>3, SendTable, StaysOn
      <4> QED
        BY <2>3, <4>1, <4>2, <4>3
    <3>3. Places'
      <4>1. /\ DOMAIN pc = {"at", "slot", "conn", "rest"} /\ DOMAIN pc' = DOMAIN pc
            /\ pc'.at = pc.at /\ pc'.slot = pc.slot
        BY <1>0, <2>3 DEF Places
      <4> QED
        BY <1>0, <2>1, <4>1 DEF Places
    <3> QED
      BY <2>1, <3>2, <3>3 DEF TcpInv
  <2> QED
    BY <1>5, <2>2, <2>3, HandleCases
<1> QED
  BY <1>1, <1>2, <1>3, <1>4, <1>5 DEF Reading

LEMMA ExecutingKeeps ==
  ASSUME TcpInv, Executing PROVE TcpInv' /\ Stays(conn, conn')
<1>0. /\ Table(tab, conn, orphans) /\ Places
      /\ Both.t = tab /\ Both.k = conn /\ DOMAIN Both = {"t", "k"}
  BY DEF TcpInv, Both
<1>1. ASSUME UNCHANGED <<app, orphans>>, pc' = pc, pc.at \notin {"accept", "accepting"},
             NEW p, NEW out, NEW c, tcp_tl_send_message(Both, p, out, c)
      PROVE  TcpInv' /\ Stays(conn, conn')
  <2>1. Table(tab', conn', orphans) /\ Stays(conn, conn')
    BY <1>0, <1>1, SendTable
  <2>2. Places'
    BY <1>0, <1>1 DEF Places
  <2> QED
    BY <1>1, <2>1, <2>2 DEF TcpInv
<1>2. CASE Respond
  <2>1. pc' = pc /\ pc.at = "execute" /\ UNCHANGED <<app, orphans>>
    BY <1>2 DEF Respond
  <2>2. PICK o \in owed : tcp_tl_send_message(Both, o.to, o.fd, o.came)
    BY <1>2 DEF Respond
  <2> QED
    BY <1>1, <2>1, <2>2
<1>3. ASSUME NEW p \in Peers, Request(p) PROVE TcpInv' /\ Stays(conn, conn')
  <2>1. /\ pc' = pc /\ pc.at = "execute" /\ UNCHANGED <<app, orphans>>
        /\ tcp_tl_send_message(Both, p, 0, 0)
    BY <1>3 DEF Request
  <2> QED
    BY <1>1, <2>1
<1>4. CASE Executed
  <2>1. UNCHANGED <<tab, conn, app, orphans>> /\ pc' = At("select")
    BY <1>4 DEF Executed
  <2>2. Table(tab, conn, orphans)'
    BY <1>0, <2>1
  <2>3. Places'
    BY <1>0, <2>1 DEF Places, At
  <2> QED
    BY <2>1, <2>2, <2>3, StaysItself DEF TcpInv
<1>5. CASE tcp_tl_keepalive
  <2> DEFINE b == EachSlot(Both, TRUE)
  <2>1. /\ tab' = b.t /\ conn' = b.k /\ pc' = pc /\ pc.at = "select"
        /\ UNCHANGED <<app, orphans>>
    BY <1>5 DEF tcp_tl_keepalive
  <2>2. Table(b.t, b.k, orphans) /\ Stays(conn, b.k)
    BY <1>0, EachSlotTable DEF Keeps
  <2> HIDE DEF b
  <2>3. Table(tab, conn, orphans)'
    BY <2>1, <2>2
  <2>4. Places'
    BY <1>0, <2>1 DEF Places
  <2> QED
    BY <2>1, <2>2, <2>3, <2>4 DEF TcpInv
<1> QED
  BY <1>2, <1>3, <1>4, <1>5 DEF Executing

LEMMA ApplicationKeeps ==
  ASSUME TcpInv, Application PROVE TcpInv' /\ Stays(conn, conn')
<1>0. /\ Table(tab, conn, orphans) /\ Places
      /\ Both.t = tab /\ Both.k = conn /\ DOMAIN Both = {"t", "k"}
  BY DEF TcpInv, Both
<1>1. ASSUME NEW p \in Peers, SendBegins(p) PROVE TcpInv' /\ Stays(conn, conn')
  <2> DEFINE b == _tcp_tl_check_connected(Both)
             there == _tcp_tl_find_socket(b.t, p)
  <2>1. /\ tab' = b.t /\ conn' = b.k /\ UNCHANGED <<pc, orphans>>
        /\ app' = CASE there # {} -> WriteTo(b, p, FirstOf(there))
                    [] there = {} /\ Free(b.t) # {} ->
                          [at |-> "resolve", to |-> p, slot |-> FirstOf(Free(b.t))]
                    [] OTHER -> Idle
    BY <1>1 DEF SendBegins
  <2>2. Table(b.t, b.k, orphans) /\ Keeps(conn, b.k)
    BY <1>0, EachSlotTable DEF _tcp_tl_check_connected
  <2> HIDE DEF b
  <2>3. app'.at = "resolve" => app'.slot \in Slots
    <3>1. CASE there # {}
      BY <2>1, <3>1 DEF WriteTo
    <3>2. CASE there = {} /\ Free(b.t) # {}
      BY <2>1, <3>2, FreeSlot
    <3>3. CASE there = {} /\ Free(b.t) = {}
      BY <2>1, <3>3 DEF Idle
    <3> QED
      BY <3>1, <3>2, <3>3
  <2>4. Backlog # {} => Backlog' # {}
    BY <2>1, <2>2 DEF Keeps, Backlog
  <2>5. Table(tab, conn, orphans)'
    BY <2>1, <2>2
  <2>6. Places'
    BY <1>0, <2>1, <2>3, <2>4 DEF Places
  <2> QED
    BY <2>1, <2>2, <2>5, <2>6 DEF TcpInv, Keeps
<1>2. CASE SendConnects
  <2>1. PICK r \in _tcp_tl_connect_socket(Both, app.to, app.slot) :
           /\ tab' = r.b.t /\ conn' = r.b.k
           /\ app' = IF r.slot = 0 THEN Idle ELSE WriteTo(r.b, app.to, r.slot)
           /\ orphans' = orphans \cup (IF r.b.k = conn THEN {} ELSE Overwritten(app.slot))
    BY <1>2, Zenon DEF SendConnects
  <2>2. app.slot \in Slots /\ pc' = pc
    BY <1>0, <1>2 DEF SendConnects, Places
  <2>3. Table(tab', conn', orphans') /\ Keeps(conn, conn')
    <3>1. CASE r.b = Both
      BY <1>0, <2>1, <3>1, StaysItself
    <3>2. CASE /\ r.b.k # conn /\ Keeps(conn, r.b.k)
               /\ Table(r.b.t, r.b.k, orphans \cup OverwrittenIn(tab, conn, app.slot))
      BY <2>1, <3>2 DEF Overwritten, OverwrittenIn
    <3>3. \/ r.b = Both
          \/ /\ r.b.k # conn /\ Keeps(conn, r.b.k)
             /\ Table(r.b.t, r.b.k, orphans \cup OverwrittenIn(tab, conn, app.slot))
      <4> DEFINE b == Both
                 s == app.slot
                 p == app.to
      <4>1. Table(b.t, b.k, orphans) /\ s \in Slots /\ r \in _tcp_tl_connect_socket(b, p, s)
        BY <1>0, <2>1, <2>2
      <4> HIDE DEF b, s, p
      <4>2. Connects(b, r, orphans, p, s)
        BY <4>1, ConnectTable
      <4>3. b = Both /\ b.t = tab /\ b.k = conn /\ s = app.slot
        BY <1>0 DEF b, s
      <4> QED
        BY <4>2, <4>3 DEF Connects
    <3> QED
      BY <3>1, <3>2, <3>3
  <2>4. app'.at # "resolve"
    BY <2>1 DEF Idle, WriteTo
  <2>5. Backlog # {} => Backlog' # {}
    BY <2>3 DEF Keeps, Backlog
  <2>6. Places'
    BY <1>0, <2>2, <2>4, <2>5 DEF Places
  <2> QED
    BY <2>3, <2>6 DEF TcpInv, Keeps
<1>3. CASE SendWrites
  <2>1. UNCHANGED <<tab, conn, pc, orphans>> /\ app' = Idle
    BY <1>3 DEF SendWrites
  <2>2. Table(tab, conn, orphans)'
    BY <1>0, <2>1
  <2>3. Places'
    BY <1>0, <2>1 DEF Places, Idle, Backlog
  <2> QED
    BY <2>1, <2>2, <2>3, StaysItself DEF TcpInv
<1>4. CASE tcp_tl_reset
  <2> DEFINE Marked(e) == IF e.sock = 0 THEN e ELSE [e EXCEPT !.invalid = TRUE]
             t2 == [s \in Slots |-> Marked(tab[s])]
  <2>1. tab' = t2 /\ UNCHANGED <<conn, pc, app, orphans>>
    BY <1>4 DEF tcp_tl_reset
  <2>2. \A s \in Slots : /\ DOMAIN t2[s] = SlotFields
                         /\ t2[s].sock = tab[s].sock /\ t2[s].peer = tab[s].peer
    BY <1>0 DEF Table, Shaped, SlotFields
  <2>3. DOMAIN t2 = Slots
    OBVIOUS
  <2> HIDE DEF t2
  <2>4. DOMAIN conn = Conns /\ \A c \in Conns : DOMAIN conn[c] = ConnFields
    BY <1>0 DEF Table, Shaped
  <2>5. Table(t2, conn, orphans)
    BY <1>0, <2>2, <2>3, <2>4, SameTable
  <2>6. Table(tab, conn, orphans)'
    BY <2>1, <2>5
  <2>7. Places'
    BY <1>0, <2>1 DEF Places, Backlog
  <2> QED
    BY <2>1, <2>6, <2>7, StaysItself DEF TcpInv
<1> QED
  BY <1>1, <1>2, <1>3, <1>4 DEF Application

-----------------------------------------------------------------------------
(* What is written *)

Right(w) == w.by = w.to \/ w.gone

LEMMA MeantStays ==
  ASSUME NEW k, NEW k2, Stays(k, k2), NEW c, NEW f, NEW p, Meant(k, c, f, p)
  PROVE  Meant(k2, c, f, p)
BY DEF Stays, Meant

LEMMA NoWriteRight == Right(NoWrite)
BY DEF Right, NoWrite

\* The connection of a descriptor that is in use.
LEMMA OwnerOf ==
  ASSUME NEW k, NEW f, HasFd(k, f) # {}
  PROVE  LET d == FirstOf(HasFd(k, f)) IN d \in Conns /\ Holds(k, d) /\ k[d].fd = f
<1>1. HasFd(k, f) \subseteq Nat
  BY DEF HasFd, Conns
<1>2. FirstOf(HasFd(k, f)) \in HasFd(k, f)
  BY <1>1, FirstOfIn
<1> QED
  BY <1>2 DEF HasFd, Holds

\* Whoever asked, the slot has his socket by now, or none.
LEMMA AskerMeant ==
  ASSUME TcpInv, pc.slot \in Slots
  PROVE  Asker.fd = 0 \/ Meant(conn, Asker.came, Asker.fd, Asker.to)
<1> DEFINE f == tab[pc.slot].sock
           d == FirstOf(HasFd(conn, f))
<1> SUFFICES ASSUME f # 0 PROVE Meant(conn, d, f, tab[pc.slot].peer)
  BY DEF Asker
<1>1. HasFd(conn, f) # {}
  BY DEF TcpInv, Table, Backed, HasFd, Holds
<1>2. d \in Conns /\ Holds(conn, d) /\ conn[d].fd = f
  BY <1>1, OwnerOf
<1> HIDE DEF d
<1> QED
  BY <1>2 DEF TcpInv, Table, Named, Meant

\* By the descriptor of a slot that has a connection to p, whoever wants it.
LEMMA WrittenBySlot ==
  ASSUME NEW t, NEW k, NEW lost, Table(t, k, lost), NEW s, NEW p, Serves(t, s, p), NEW c
  PROVE  /\ Right(Written(k, t[s].sock, p, c))
         /\ Meant(k, FirstOf(HasFd(k, t[s].sock)), t[s].sock, p)
<1> DEFINE f == t[s].sock
           d == FirstOf(HasFd(k, f))
<1>1. HasFd(k, f) # {}
  BY DEF Table, Backed, Serves, HasFd, Holds
<1>2. d \in Conns /\ Holds(k, d) /\ k[d].fd = f
  BY <1>1, OwnerOf
<1> HIDE DEF d
<1>3. k[d].peer = p
  BY <1>2 DEF Table, Named, Serves
<1>4. Meant(k, d, f, p)
  BY <1>2, <1>3 DEF Meant
<1>5. Right(Written(k, f, p, c))
  BY <1>3, NoWriteRight DEF Written, Right, d
<1> QED
  BY <1>4, <1>5 DEF d

\* By the descriptor of the connection it is meant for.
LEMMA WrittenAsMeant ==
  ASSUME NEW t, NEW k, NEW lost, Table(t, k, lost),
         NEW c, NEW f, NEW p, Meant(k, c, f, p)
  PROVE  Right(Written(k, f, p, c))
<1>1. CASE k[c].st = "closed"
  <2>1. c # 0
    BY DEF Meant, Conns
  <2> QED
    BY <1>1, <2>1, NoWriteRight DEF Written, Right
<1>2. CASE Holds(k, c) /\ k[c].fd = f /\ k[c].peer = p
  <2> DEFINE d == FirstOf(HasFd(k, f))
  <2>1. c \in HasFd(k, f)
    BY <1>2 DEF Meant, HasFd, Holds
  <2>2. d \in Conns /\ Holds(k, d) /\ k[d].fd = f
    BY <2>1, OwnerOf
  <2> HIDE DEF d
  <2>3. d = c
    BY <1>2, <2>2 DEF Meant, Table, Distinct
  <2> QED
    BY <1>2, <2>3, NoWriteRight DEF Written, Right, d
<1> QED
  BY <1>1, <1>2 DEF Meant

\* A message to no descriptor, or to that of a connection it is meant for.
LEMMA SendRight ==
  ASSUME NEW b, NEW lost, Table(b.t, b.k, lost), DOMAIN b = {"t", "k"},
         NEW p, NEW out, NEW c, out = 0 \/ Meant(b.k, c, out, p),
         tcp_tl_send_message(b, p, out, c)
  PROVE  RightPeer'
<1> DEFINE z == _tcp_tl_check_connected(b)
<1>1. Table(z.t, z.k, lost) /\ Stays(b.k, z.k)
  BY EachSlotTable DEF _tcp_tl_check_connected, Keeps
<1>2. PICK r \in Chosen(z, p, out) :
         wrote' = Written(r.b.k, IF r.slot = 0 THEN 0 ELSE r.b.t[r.slot].sock, p, c)
  BY DEF tcp_tl_send_message
<1>3. out = 0 \/ Meant(z.k, c, out, p)
  BY <1>1, MeantStays
<1> HIDE DEF z
<1> DEFINE there == _tcp_tl_find_socket(z.t, p)
           came == {s \in Slots : out > 0 /\ z.t[s].sock = out}
<1> SUFFICES Right(wrote')
  BY DEF Right, RightPeer
<1>4. CASE r.slot = 0
  <2>1. wrote' = NoWrite
    BY <1>2, <1>4 DEF Written
  <2> QED
    BY <2>1, NoWriteRight
<1>5. CASE r.slot # 0 /\ there # {}
  <2>1. r = [b |-> z, slot |-> FirstOf(there)]
    BY <1>5 DEF Chosen
  <2>2. Serves(z.t, r.slot, p)
    BY <1>5, <2>1, FoundSlot
  <2>3. wrote' = Written(z.k, z.t[r.slot].sock, p, c)
    BY <1>2, <1>5, <2>1
  <2> QED
    BY <1>1, <2>2, <2>3, WrittenBySlot
<1>6. CASE r.slot # 0 /\ there = {} /\ came # {}
  <2>1. r = [b |-> z, slot |-> FirstOf(came)]
    BY <1>6 DEF Chosen
  <2>2. FirstOf(came) \in came
    <3>1. came \subseteq Nat
      BY DEF Slots
    <3> HIDE DEF came
    <3> QED
      BY <1>6, <3>1, FirstOfIn
  <2>3. z.t[r.slot].sock = out /\ out # 0
    BY <2>1, <2>2
  <2>4. wrote' = Written(z.k, out, p, c)
    BY <1>2, <1>6, <2>1, <2>3
  <2> QED
    BY <1>1, <1>3, <2>3, <2>4, WrittenAsMeant
<1>7. CASE r.slot # 0 /\ there = {} /\ came = {}
  <2> DEFINE s == FirstOf(Free(z.t))
  <2>1. Free(z.t) # {} /\ r \in _tcp_tl_connect_socket(z, p, s)
    BY <1>7 DEF Chosen
  <2>2. s \in Slots /\ z.t[s].sock = 0
    BY <2>1, FreeSlot
  <2> HIDE DEF s
  <2>3. Connects(z, r, lost, p, s)
    BY <1>1, <2>1, <2>2, ConnectTable
  <2>4. lost \cup OverwrittenIn(z.t, z.k, s) = lost
    BY <2>2 DEF OverwrittenIn
  <2>5. Table(r.b.t, r.b.k, lost)
    BY <1>1, <2>3, <2>4 DEF Connects
  <2>6. Serves(r.b.t, r.slot, p)
    BY <1>7, <2>3 DEF Connects
  <2>7. wrote' = Written(r.b.k, r.b.t[r.slot].sock, p, c)
    BY <1>2, <1>7
  <2> QED
    BY <2>5, <2>6, <2>7, WrittenBySlot
<1> QED
  BY <1>4, <1>5, <1>6, <1>7

\* What is owed and about to be written keeps its address.
LEMMA AddressedOn ==
  ASSUME Addressed, Stays(conn, conn'), owed' \subseteq owed, app'.at = "write" => app' = app
  PROVE  Addressed'
<1>1. \A o \in owed' : o.fd = 0 \/ Meant(conn', o.came, o.fd, o.to)
  BY MeantStays DEF Addressed
<1>2. app'.at = "write" => Meant(conn', app'.meant, app'.fd, app'.to)
  BY MeantStays DEF Addressed
<1> QED
  BY <1>1, <1>2 DEF Addressed

LEMMA WorldRight ==
  ASSUME RightInv, World PROVE Addressed' /\ RightPeer'
<1>1. UNCHANGED <<owed, app>> /\ wrote' = NoWrite
  <2>1. \E k : Network(k)
    BY DEF World, PeerConnects, ConnectEnds, PeerSends, PeerCloses, Breaks, Silent
  <2> QED
    BY <2>1 DEF Network
<1>2. Stays(conn, conn')
  BY WorldKeeps DEF RightInv
<1> QED
  BY <1>1, <1>2, AddressedOn DEF RightInv, RightPeer, NoWrite

LEMMA ReadingRight ==
  ASSUME RightInv, Reading PROVE Addressed' /\ RightPeer'
<1>0. TcpInv /\ Addressed /\ Stays(conn, conn')
  BY ReadingKeeps DEF RightInv
<1>1. CASE tcp_tl_set_fdset \/ AcceptSlot \/ Accept \/ _tcp_tl_recv
  <2>1. UNCHANGED <<owed, app>> /\ wrote' = NoWrite
    BY <1>1 DEF tcp_tl_set_fdset, AcceptSlot, Accept, _tcp_tl_recv, Quiet
  <2> QED
    BY <1>0, <2>1, AddressedOn DEF RightPeer, NoWrite
<1>2. CASE handle_messages
  <2>1. pc.slot \in Slots /\ app' = app
    BY <1>0, <1>2 DEF handle_messages, TcpInv, Places
  <2>2. CASE owed' = owed /\ wrote' = NoWrite
    BY <1>0, <2>1, <2>2, AddressedOn DEF RightPeer, NoWrite
  <2>3. ASSUME NEW rest, NEW p, owed' = owed, tcp_tl_send_message(Handled(rest), p, 0, 0)
        PROVE  Addressed' /\ RightPeer'
    <3>1. Table(Handled(rest).t, Handled(rest).k, orphans) /\ DOMAIN Handled(rest) = {"t", "k"}
      BY <1>0, <2>1, HandledTable
    <3>2. RightPeer'
      BY <2>3, <3>1, SendRight
    <3> QED
      BY <1>0, <2>1, <2>3, <3>2, AddressedOn
  <2>4. CASE owed' = owed \cup {Asker} /\ wrote' = NoWrite
    <3>1. Asker.fd = 0 \/ Meant(conn, Asker.came, Asker.fd, Asker.to)
      BY <1>0, <2>1, AskerMeant
    <3>2. \A x \in owed' : x.fd = 0 \/ Meant(conn', x.came, x.fd, x.to)
      BY <1>0, <2>4, <3>1, MeantStays DEF Addressed
    <3>3. app'.at = "write" => Meant(conn', app'.meant, app'.fd, app'.to)
      BY <1>0, <2>1, MeantStays DEF Addressed
    <3>4. RightPeer'
      BY <2>4 DEF RightPeer, NoWrite
    <3> QED
      BY <3>2, <3>3, <3>4 DEF Addressed
  <2> QED
    BY <1>2, <2>2, <2>3, <2>4, HandleCases
<1> QED
  BY <1>1, <1>2 DEF Reading

LEMMA ExecutingRight ==
  ASSUME RightInv, Executing PROVE Addressed' /\ RightPeer'
<1>0. /\ Addressed /\ Stays(conn, conn') /\ Table(Both.t, Both.k, orphans)
      /\ Both.k = conn /\ DOMAIN Both = {"t", "k"}
  BY ExecutingKeeps DEF RightInv, TcpInv, Both
<1>1. CASE Respond
  <2>1. PICK o \in owed : tcp_tl_send_message(Both, o.to, o.fd, o.came) /\ owed' = owed \ {o}
    BY <1>1 DEF Respond
  <2>2. o.fd = 0 \/ Meant(Both.k, o.came, o.fd, o.to)
    BY <1>0 DEF Addressed
  <2>3. RightPeer'
    BY <1>0, <2>1, <2>2, SendRight
  <2>4. app' = app
    BY <1>1 DEF Respond
  <2> QED
    BY <1>0, <2>1, <2>3, <2>4, AddressedOn
<1>2. ASSUME NEW p \in Peers, Request(p) PROVE Addressed' /\ RightPeer'
  <2>1. tcp_tl_send_message(Both, p, 0, 0) /\ UNCHANGED <<app, owed>>
    BY <1>2 DEF Request
  <2>2. RightPeer'
    BY <1>0, <2>1, SendRight
  <2> QED
    BY <1>0, <2>1, <2>2, AddressedOn
<1>3. CASE Executed \/ tcp_tl_keepalive
  <2>1. UNCHANGED <<app, owed>> /\ wrote' = NoWrite
    BY <1>3 DEF Executed, tcp_tl_keepalive, Quiet
  <2> QED
    BY <1>0, <2>1, AddressedOn DEF RightPeer, NoWrite
<1> QED
  BY <1>1, <1>2, <1>3 DEF Executing

LEMMA ApplicationRight ==
  ASSUME RightInv, Application PROVE Addressed' /\ RightPeer'
<1>0. /\ Addressed /\ Stays(conn, conn') /\ Table(tab, conn, orphans) /\ Places
      /\ Both.t = tab /\ Both.k = conn /\ DOMAIN Both = {"t", "k"}
      /\ Table(tab', conn', orphans')
  BY ApplicationKeeps DEF RightInv, TcpInv, Both
<1>a. ASSUME owed' = owed, app'.at = "write" => Meant(conn', app'.meant, app'.fd, app'.to)
      PROVE  Addressed'
  BY <1>0, <1>a, MeantStays DEF Addressed
<1>b. ASSUME wrote' = NoWrite PROVE RightPeer'
  BY <1>b DEF RightPeer, NoWrite
<1>1. ASSUME NEW p \in Peers, SendBegins(p) PROVE Addressed' /\ RightPeer'
  <2> DEFINE b == _tcp_tl_check_connected(Both)
             there == _tcp_tl_find_socket(b.t, p)
  <2>1. /\ tab' = b.t /\ conn' = b.k /\ owed' = owed /\ wrote' = NoWrite
        /\ app' = CASE there # {} -> WriteTo(b, p, FirstOf(there))
                    [] there = {} /\ Free(b.t) # {} ->
                          [at |-> "resolve", to |-> p, slot |-> FirstOf(Free(b.t))]
                    [] OTHER -> Idle
    BY <1>1 DEF SendBegins, Quiet
  <2> HIDE DEF b
  <2>2. CASE there # {}
    <3>1. Serves(b.t, FirstOf(there), p)
      BY <2>2, FoundSlot
    <3>2. app' = WriteTo(b, p, FirstOf(there))
      BY <2>1, <2>2
    <3> HIDE DEF there
    <3>3. Meant(b.k, app'.meant, app'.fd, app'.to)
      BY <1>0, <2>1, <3>1, <3>2, WrittenBySlot DEF WriteTo
    <3> QED
      BY <1>a, <1>b, <2>1, <3>3
  <2>3. CASE there = {}
    <3>1. app'.at # "write"
      BY <2>1, <2>3 DEF Idle
    <3> QED
      BY <1>a, <1>b, <2>1, <3>1
  <2> QED
    BY <2>2, <2>3
<1>2. CASE SendConnects
  <2>1. PICK r \in _tcp_tl_connect_socket(Both, app.to, app.slot) :
           /\ tab' = r.b.t /\ conn' = r.b.k
           /\ app' = IF r.slot = 0 THEN Idle ELSE WriteTo(r.b, app.to, r.slot)
    BY <1>2, Zenon DEF SendConnects
  <2>2. app.slot \in Slots /\ owed' = owed /\ wrote' = NoWrite
    BY <1>0, <1>2 DEF SendConnects, Places, Quiet
  <2>3. CASE r.slot = 0
    <3>1. app'.at # "write"
      BY <2>1, <2>3 DEF Idle
    <3> QED
      BY <1>a, <1>b, <2>2, <3>1
  <2>4. CASE r.slot # 0
    <3>1. Serves(r.b.t, r.slot, app.to)
      <4> DEFINE b == Both
                 s == app.slot
                 p == app.to
      <4>1. Table(b.t, b.k, orphans) /\ s \in Slots /\ r \in _tcp_tl_connect_socket(b, p, s)
        BY <1>0, <2>1, <2>2
      <4> HIDE DEF b, s, p
      <4>2. Connects(b, r, orphans, p, s)
        BY <4>1, ConnectTable
      <4> QED
        BY <2>4, <4>2 DEF Connects, p
    <3>2. app' = WriteTo(r.b, app.to, r.slot)
      BY <2>1, <2>4
    <3>3. Table(r.b.t, r.b.k, orphans')
      BY <1>0, <2>1
    <3>4. Meant(r.b.k, FirstOf(HasFd(r.b.k, r.b.t[r.slot].sock)), r.b.t[r.slot].sock, app.to)
      BY <3>1, <3>3, WrittenBySlot
    <3>5. Meant(conn', app'.meant, app'.fd, app'.to)
      BY <2>1, <3>2, <3>4 DEF WriteTo
    <3> QED
      BY <1>a, <1>b, <2>2, <3>5
  <2> QED
    BY <2>3, <2>4
<1>3. CASE SendWrites
  <2>1. app'.at # "write" /\ owed' = owed
    BY <1>3 DEF SendWrites, Idle
  <2>2. Meant(conn, app.meant, app.fd, app.to)
    BY <1>0, <1>3 DEF SendWrites, Addressed
  <2>3. Right(Written(conn, app.fd, app.to, app.meant))
    BY <1>0, <2>2, WrittenAsMeant
  <2>4. wrote' \in {Written(conn, app.fd, app.to, app.meant), NoWrite}
    BY <1>3 DEF SendWrites
  <2>5. RightPeer'
    BY <2>3, <2>4, NoWriteRight DEF Right, RightPeer
  <2> QED
    BY <1>a, <2>1, <2>5
<1>4. CASE tcp_tl_reset
  <2>1. UNCHANGED <<app, owed>> /\ wrote' = NoWrite
    BY <1>4 DEF tcp_tl_reset, Quiet
  <2> QED
    BY <1>0, <1>b, <2>1, AddressedOn
<1> QED
  BY <1>1, <1>2, <1>3, <1>4 DEF Application

-----------------------------------------------------------------------------
(* Theorems *)

\* The invariant holds: the table of sockets and the descriptors of the operating system match
\* (_tcp_tl_connect_socket, _tcp_tl_close_sockinfo and accept in tcp_tl_read_message), whatever
\* peers, network, thread and application do, and the thread and the application are at slots
\* that there are.
THEOREM TcpSpecInv == Spec => []TcpInv
<1>1. TcpInv /\ [Next]_tcpVars => TcpInv'
  <2> SUFFICES ASSUME TcpInv, [Next]_tcpVars PROVE TcpInv'
    OBVIOUS
  <2>1. CASE Next
    BY <2>1, ReadingKeeps, ExecutingKeeps, ApplicationKeeps, WorldKeeps DEF Next
  <2>2. CASE UNCHANGED tcpVars
    <3>1. UNCHANGED <<tab, conn, pc, app, orphans>>
      BY <2>2 DEF tcpVars
    <3>2. Table(tab, conn, orphans)' /\ Places'
      BY <3>1 DEF TcpInv, Places, Backlog
    <3> QED
      BY <3>2 DEF TcpInv
  <2> QED
    BY <2>1, <2>2
<1> QED
  BY InitTable, <1>1, PTL DEF Spec

\* Every connection that has a descriptor has exactly one slot, so that it is read and closed,
\* whoever accepts, connects, evicts, resets and keeps alive; unless its slot was written over,
\* which accept (tcp_tl_read_message) and a name lookup that had chosen the same slot may do.
THEOREM TcpSpecOneSlot == Spec => []OneSlot
<1>1. TcpInv => OneSlot
  <2> SUFFICES ASSUME TcpInv, NEW c \in Conns \ orphans, conn[c].st \in Held
               PROVE  Cardinality({s \in Slots : tab[s].sock = conn[c].fd}) = 1
    BY DEF OneSlot
  <2>1. PICK s \in Slots : tab[s].sock = conn[c].fd
    BY DEF TcpInv, Table, Reached, Holds
  <2>2. conn[c].fd # 0
    BY DEF TcpInv, Table, Shaped, Holds
  <2>3. {r \in Slots : tab[r].sock = conn[c].fd} = {s}
    BY <2>1, <2>2 DEF TcpInv, Table, Distinct
  <2> QED
    BY <2>3, FS_Singleton
<1> QED
  BY TcpSpecInv, <1>1, PTL

\* What is written goes to the peer it is for, whatever has become of the table since its
\* connection was chosen, and of the connection a request came by since it was read; unless the
\* connection it was meant for is closed, when its descriptor may be another's
\* (tcp_tl_send_message, _tcp_tl_find_socket, _tcp_tl_send).
THEOREM TcpSpecRightPeer == Spec => []RightPeer
<1>1. Init => RightInv
  BY InitTable DEF RightInv, Init, Addressed, Idle, RightPeer, NoWrite
<1>2. RightInv /\ [Next]_tcpVars => RightInv'
  <2> SUFFICES ASSUME RightInv, [Next]_tcpVars PROVE RightInv'
    OBVIOUS
  <2>1. CASE Next
    <3>1. TcpInv'
      BY <2>1, ReadingKeeps, ExecutingKeeps, ApplicationKeeps, WorldKeeps DEF Next, RightInv
    <3>2. Addressed' /\ RightPeer'
      BY <2>1, ReadingRight, ExecutingRight, ApplicationRight, WorldRight DEF Next
    <3> QED
      BY <3>1, <3>2 DEF RightInv
  <2>2. CASE UNCHANGED tcpVars
    <3>1. UNCHANGED <<tab, conn, pc, app, owed, wrote, orphans>>
      BY <2>2 DEF tcpVars
    <3> QED
      BY <3>1 DEF RightInv, TcpInv, Places, Backlog, Addressed, RightPeer
  <2> QED
    BY <2>1, <2>2
<1>3. RightInv => RightPeer
  BY DEF RightInv
<1> QED
  BY <1>1, <1>2, <1>3, PTL DEF Spec

=============================================================================
