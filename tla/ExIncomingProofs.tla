--------------------------- MODULE ExIncomingProofs ---------------------------
(***************************************************************************)
(* Theorems about ExIncoming, for any number of copies of each message and *)
(* any bounds, and, at the end, about ExRegister.                          *)
(*                                                                         *)
(* The program works on one record, the call, which every operation takes  *)
(* and returns; so does the invariant: Sound is a predicate of the record, *)
(* and one lemma for each operation says that it keeps it.  What is queued *)
(* on a transaction is executed by a recursive function; RunOneSound is    *)
(* proved by induction over the queue.  The induction is that of the       *)
(* naturals (Induction), for a set instead of an operator, from the fact   *)
(* that a set of naturals has a least element.                             *)
(***************************************************************************)
EXTENDS ExIncoming, ExRegister, WellFoundedInduction, TLAPS

States == {"none", "pretrying", "precalling", "trying", "proceeding", "completed", "confirmed",
           "terminated"}

Queued == {"1xx", "2xx", "3456xx", "ACK", "CANCEL", "200", "BYE", "SND_BYE", "RCV_200"}
Words == {"1xx", "2xx", "3456xx", "BYE", "copy refused", "200 again"}
Events == {"CALL_INVITE", "another CALL_INVITE", "CALL_REINVITE", "CALL_ACK", "CALL_CANCELLED",
           "CALL_CLOSED", "CALL_NOANSWER", "CALL_RELEASED", "CALL_MESSAGE_NEW",
           "CALL_MESSAGE_ANSWERED", "CALL_MESSAGE_REQUESTFAILURE"}

CallType ==
    [call : {"none", "active", "released"},
     dialog : {"none", "early", "confirmed", "null"},
     cseq : Nat, ok : Invites \cup {"none"}, count : Nat,
     st : [Transactions -> States],
     q : [Transactions -> Seq(Queued)],
     resp : [Invites -> {"none", "1xx", "2xx", "3456xx"}],
     inDialog : SUBSET Transactions,
     refCall : SUBSET Transactions, refDialog : SUBSET Transactions,
     sent : SUBSET (Transactions \X Words),
     told : SUBSET Events,
     left : BOOLEAN]

\* What is referred to is in the lists of the dialog, which the call has as long as it
\* is there.
References(s) ==
    /\ s.refCall \cup s.refDialog \subseteq s.inDialog \cup {"inc"}
    /\ s.dialog = "none" => s.inDialog = {} /\ s.refDialog = {}
    /\ s.call # "active" => s.refCall = {}
    /\ s.call = "active" <=> s.dialog # "none"

\* The INVITE makes one call, the re-INVITE is new once, and comes after a 200.
Once(s) ==
    /\ s.call = "none" <=> s.st["inc"] = "none"
    /\ s.call = "none" => s.cseq = 0
    /\ s.st["re"] # "none" => s.cseq >= CSeq.re
    /\ "re" \in s.inDialog => <<"inc", "2xx">> \in s.sent

\* What the state of an INVITE says of the responses that were sent.
Finals(s) ==
    \A x \in Invites :
        /\ <<x, "2xx">> \in s.sent => s.st[x] = "terminated" /\ <<x, "3456xx">> \notin s.sent
        /\ <<x, "3456xx">> \in s.sent => s.st[x] \in Answered

Sound(s) == s \in CallType /\ References(s) /\ Once(s) /\ Finals(s)

IncomingInv == Sound(c)

-----------------------------------------------------------------------------
(* Induction *)

LEMMA Induction ==
  ASSUME NEW G, 0 \in G, \A n \in Nat : n \in G => n + 1 \in G
  PROVE  Nat \subseteq G
<1> SUFFICES ASSUME ~(Nat \subseteq G) PROVE FALSE
  OBVIOUS
<1> DEFINE T == Nat \ G
<1>1. T \subseteq Nat /\ T # {}
  OBVIOUS
<1>2. PICK n \in T : \A m \in T : ~(m < n)
  <2>1. IsWellFoundedOn(OpToRel(<, Nat), Nat)
    BY NatLessThanWellFounded, Zenon
  <2>2. \E n \in T : \A m \in T : <<m, n>> \notin OpToRel(<, Nat)
    BY <1>1, <2>1, WFMin, Zenon
  <2> QED
    BY <1>1, <2>2 DEF OpToRel
<1>3. n \in Nat /\ n # 0
  BY <1>2
<1>4. n - 1 \in Nat /\ n - 1 < n /\ n - 1 \in G => n \in G
  BY <1>3
<1> QED
  BY <1>2, <1>3, <1>4

-----------------------------------------------------------------------------
(* The state machines *)

\* One field of the record after another.
LEMMA SetSt ==
  ASSUME NEW s \in CallType, NEW x \in Transactions, NEW v \in States
  PROVE  LET t == [s EXCEPT !.st[x] = v]
         IN /\ t \in CallType
            /\ t.st = [s.st EXCEPT ![x] = v] /\ t.st[x] = v
            /\ \A y \in Transactions : y # x => t.st[y] = s.st[y]
            /\ t.call = s.call /\ t.dialog = s.dialog /\ t.cseq = s.cseq /\ t.q = s.q
            /\ t.resp = s.resp /\ t.inDialog = s.inDialog /\ t.refCall = s.refCall
            /\ t.refDialog = s.refDialog /\ t.sent = s.sent
<1> DEFINE new == [s.st EXCEPT ![x] = v]
           t == [s EXCEPT !.st = new]
<1>1. new \in [Transactions -> States] /\ new[x] = v
      /\ \A y \in Transactions : y # x => new[y] = s.st[y]
  BY DEF CallType
<1> HIDE DEF new
<1>2. t \in CallType /\ t.st = new
  BY <1>1 DEF CallType
<1>3. /\ t.call = s.call /\ t.dialog = s.dialog /\ t.cseq = s.cseq /\ t.q = s.q
      /\ t.resp = s.resp /\ t.inDialog = s.inDialog /\ t.refCall = s.refCall
      /\ t.refDialog = s.refDialog /\ t.sent = s.sent
  BY <1>1 DEF CallType
<1> QED
  BY <1>1, <1>2, <1>3 DEF new

\* A response is sent.
Sent(s, x, a) == [s EXCEPT !.resp[x] = a, !.sent = @ \cup {<<x, a>>}]

LEMMA SetSent ==
  ASSUME NEW s \in CallType, NEW x \in Invites, NEW a \in {"1xx", "2xx", "3456xx"}
  PROVE  LET t == Sent(s, x, a)
         IN /\ t \in CallType
            /\ t.sent = s.sent \cup {<<x, a>>}
            /\ t.call = s.call /\ t.dialog = s.dialog /\ t.cseq = s.cseq /\ t.q = s.q
            /\ t.st = s.st /\ t.inDialog = s.inDialog /\ t.refCall = s.refCall
            /\ t.refDialog = s.refDialog
<1> DEFINE new == [s.resp EXCEPT ![x] = a]
           r == [s EXCEPT !.resp = new]
           m == s.sent \cup {<<x, a>>}
<1>1. new \in [Invites -> {"none", "1xx", "2xx", "3456xx"}]
  BY DEF CallType
<1>2. m \in SUBSET (Transactions \X Words)
  <2>1. x \in Transactions /\ a \in Words
    BY DEF Invites, Transactions, Servers, Words
  <2>2. s.sent \in SUBSET (Transactions \X Words)
    BY DEF CallType
  <2> QED
    BY <2>1, <2>2
<1> HIDE DEF new, m
<1>3. r \in CallType
  BY <1>1 DEF CallType
<1>4. [r EXCEPT !.sent = m] \in CallType
  BY <1>2, <1>3 DEF CallType
<1>5. [s EXCEPT !.resp = new, !.sent = m] = [r EXCEPT !.sent = m]
  OBVIOUS
<1> QED
  BY <1>1, <1>2, <1>3, <1>4, <1>5 DEF CallType, new, m, Sent

\* A transaction goes on: an INVITE with an answer, and after a 200 nothing.
LEMMA SetStSound ==
  ASSUME NEW s, Sound(s), NEW x \in Transactions, NEW v \in States,
         x \in Invites => /\ v \in Answered /\ s.st[x] # "none"
                          /\ <<x, "2xx">> \in s.sent => v = "terminated"
  PROVE  LET t == [s EXCEPT !.st[x] = v]
         IN Sound(t) /\ t.q = s.q /\ t.refCall = s.refCall /\ t.refDialog = s.refDialog
<1> DEFINE t == [s EXCEPT !.st[x] = v]
<1>1. /\ t \in CallType
      /\ t.st[x] = v /\ \A y \in Transactions : y # x => t.st[y] = s.st[y]
      /\ t.call = s.call /\ t.dialog = s.dialog /\ t.cseq = s.cseq /\ t.q = s.q
      /\ t.inDialog = s.inDialog /\ t.refCall = s.refCall /\ t.refDialog = s.refDialog
      /\ t.sent = s.sent
  BY SetSt DEF Sound
<1> HIDE DEF t
<1>2. {"inc", "re"} \subseteq Transactions /\ Invites = {"inc", "re"}
  BY DEF Invites, Transactions, Servers
<1>3. References(t)
  BY <1>1 DEF Sound, References
<1>4. Once(t)
  BY <1>1, <1>2 DEF Sound, Once, Answered
<1>5. Finals(t)
  BY <1>1, <1>2 DEF Sound, Finals
<1> QED
  BY <1>1, <1>3, <1>4, <1>5 DEF Sound, t

LEMMA TellSound ==
  ASSUME NEW s, Sound(s), NEW e \in Events
  PROVE  /\ Sound(Tell(s, e)) /\ Tell(s, e).st = s.st /\ Tell(s, e).q = s.q
  BY DEF Sound, CallType, References, Once, Finals, Tell

LEMMA RefusalSentSound ==
  ASSUME NEW s, Sound(s), NEW x \in Invites
  PROVE  Sound(RefusalSent(s, x)) /\ RefusalSent(s, x).q = s.q
<1> DEFINE early == [s EXCEPT !.dialog = IF @ = "early" THEN "null" ELSE @]
<1>1. Sound(early) /\ early.q = s.q
  BY DEF Sound, CallType, References, Once, Finals
<1>2. "CALL_CLOSED" \in Events
  BY DEF Events
<1>3. RefusalSent(s, x) \in {s, early, Tell(early, "CALL_CLOSED")}
  BY DEF RefusalSent
<1> HIDE DEF early
<1> QED
  BY <1>1, <1>2, <1>3, TellSound

LEMMA IstSound ==
  ASSUME NEW s, Sound(s), NEW x \in Invites, NEW a \in Queued
  PROVE  Sound(Ist(s, x, a)) /\ Ist(s, x, a).q = s.q
<1> DEFINE u == Sent(s, x, a)
<1>1. s \in CallType /\ x \in Transactions
  BY DEF Sound, Invites, Transactions, Servers
<1>2. {"terminated", "completed", "confirmed"} \subseteq States
  BY DEF States
<1>3. ASSUME a \in {"1xx", "2xx", "3456xx"}, s.st[x] = "proceeding"
      PROVE  /\ u \in CallType
             /\ \A y \in Invites, m \in {"2xx", "3456xx"} :
                   <<y, m>> \in u.sent <=> <<y, m>> \in s.sent \/ (y = x /\ m = a)
             /\ u.call = s.call /\ u.dialog = s.dialog /\ u.cseq = s.cseq /\ u.q = s.q
             /\ u.st = s.st /\ u.inDialog = s.inDialog /\ u.refCall = s.refCall
             /\ u.refDialog = s.refDialog
             /\ s.sent \subseteq u.sent
  <2> HIDE DEF u
  <2>1. u.sent = s.sent \cup {<<x, a>>} => \A y \in Invites, m \in {"2xx", "3456xx"} :
                   <<y, m>> \in u.sent <=> <<y, m>> \in s.sent \/ (y = x /\ m = a)
    OBVIOUS
  <2>2. /\ u \in CallType /\ u.sent = s.sent \cup {<<x, a>>}
        /\ u.call = s.call /\ u.dialog = s.dialog /\ u.cseq = s.cseq /\ u.q = s.q
        /\ u.st = s.st /\ u.inDialog = s.inDialog /\ u.refCall = s.refCall
        /\ u.refDialog = s.refDialog
    BY <1>1, <1>3, SetSent DEF u
  <2> QED
    BY <2>1, <2>2
<1>4. CASE a = "1xx" /\ s.st[x] = "proceeding"
  <2> HIDE DEF u
  <2>1. Ist(s, x, a) = u
    BY <1>4 DEF Ist, u, Sent
  <2> QED
    BY <1>3, <1>4, <2>1 DEF Sound, References, Once, Finals
<1>5. ASSUME NEW v \in {"terminated", "completed"},
             a = (IF v = "terminated" THEN "2xx" ELSE "3456xx"), s.st[x] = "proceeding"
      PROVE  Sound([u EXCEPT !.st[x] = v]) /\ [u EXCEPT !.st[x] = v].q = s.q
  <2> DEFINE t == [u EXCEPT !.st[x] = v]
  <2>1. /\ t \in CallType
        /\ t.st[x] = v /\ \A y \in Transactions : y # x => t.st[y] = s.st[y]
        /\ t.call = s.call /\ t.dialog = s.dialog /\ t.cseq = s.cseq /\ t.q = s.q
        /\ t.inDialog = s.inDialog /\ t.refCall = s.refCall /\ t.refDialog = s.refDialog
        /\ s.sent \subseteq t.sent
        /\ \A y \in Invites, m \in {"2xx", "3456xx"} :
                   <<y, m>> \in t.sent <=> <<y, m>> \in s.sent \/ (y = x /\ m = a)
    <3> HIDE DEF u
    <3> QED
      BY <1>1, <1>2, <1>3, <1>5, SetSt
  <2> HIDE DEF t
  <2>2. References(t)
    BY <2>1 DEF Sound, References
  <2>3. Once(t)
    BY <1>1, <1>5, <2>1 DEF Sound, Once, Invites, Transactions, Servers
  <2>4. Finals(t)
    BY <1>1, <1>5, <2>1 DEF Sound, Finals, Answered, Invites, Transactions, Servers
  <2> QED
    BY <2>1, <2>2, <2>3, <2>4 DEF Sound, t
<1>6. CASE a = "2xx" /\ s.st[x] = "proceeding"
  <2>1. Ist(s, x, a) = [u EXCEPT !.st[x] = "terminated"]
    BY <1>6 DEF Ist, Sent
  <2> HIDE DEF u
  <2> QED
    BY <1>5, <1>6, <2>1
<1>7. CASE a = "3456xx" /\ MayRefuse(s, x)
  <2>1. Ist(s, x, a) = RefusalSent([u EXCEPT !.st[x] = "completed"], x)
    BY <1>7 DEF Ist, Sent
  <2> HIDE DEF u
  <2> QED
    BY <1>5, <1>7, <2>1, RefusalSentSound DEF MayRefuse
<1>8. CASE a = "ACK" /\ s.st[x] = "completed"
  <2> DEFINE t == [s EXCEPT !.st[x] = "confirmed"]
  <2>1. Ist(s, x, a) = t
    BY <1>8 DEF Ist
  <2>2. <<x, "2xx">> \notin s.sent
    BY <1>8 DEF Sound, Finals
  <2>3. "confirmed" \in States /\ "confirmed" \in Answered /\ s.st[x] # "none"
    BY <1>8 DEF States, Answered
  <2>4. Sound(t) /\ t.q = s.q
    BY <1>1, <2>2, <2>3, SetStSound, Zenon
  <2> QED
    BY <2>1, <2>4
<1> QED
  BY <1>3, <1>4, <1>6, <1>7, <1>8 DEF Ist

\* A message leaves that is no final response to an INVITE.
LEMMA SendsSound ==
  ASSUME NEW s, Sound(s), NEW x \in Transactions, NEW a \in Words,
         x \notin Invites \/ a \notin {"2xx", "3456xx"}
  PROVE  LET t == [s EXCEPT !.sent = @ \cup {<<x, a>>}]
         IN /\ Sound(t) /\ t.q = s.q /\ t.st = s.st
            /\ t.refCall = s.refCall /\ t.refDialog = s.refDialog
<1> DEFINE m == s.sent \cup {<<x, a>>}
           t == [s EXCEPT !.sent = m]
<1>1. s \in CallType /\ s.sent \in SUBSET (Transactions \X Words)
  BY DEF Sound, CallType
<1>2. m \in SUBSET (Transactions \X Words)
  BY <1>1
<1>3. \A y \in Invites, b \in {"2xx", "3456xx"} : <<y, b>> \in m <=> <<y, b>> \in s.sent
  OBVIOUS
<1>4. "inc" \in Invites
  BY DEF Invites
<1> HIDE DEF m
<1>5. t \in CallType /\ t.sent = m
  BY <1>1, <1>2 DEF CallType
<1>6. /\ t.call = s.call /\ t.dialog = s.dialog /\ t.cseq = s.cseq /\ t.q = s.q
      /\ t.st = s.st /\ t.inDialog = s.inDialog /\ t.refCall = s.refCall
      /\ t.refDialog = s.refDialog
  BY <1>1 DEF CallType
<1> HIDE DEF t
<1>7. Sound(t)
  BY <1>3, <1>4, <1>5, <1>6 DEF Sound, References, Once, Finals
<1> QED
  BY <1>6, <1>7 DEF t, m

LEMMA NistSound ==
  ASSUME NEW s, Sound(s), NEW x \in {"cancel", "recancel", "bye"}, NEW a \in Queued
  PROVE  Sound(Nist(s, x, a)) /\ Nist(s, x, a).q = s.q
<1>1. x \in Transactions \ Invites /\ {"trying", "completed"} \subseteq States /\ "2xx" \in Words
      /\ "CALL_CANCELLED" \in Events
  BY DEF Transactions, Servers, Invites, States, Words, Events
<1> DEFINE t == [s EXCEPT !.st[x] = "trying"]
           u == [s EXCEPT !.st[x] = "completed"]
<1>2. Sound(t) /\ t.q = s.q /\ Sound(u) /\ u.q = s.q
  BY <1>1, SetStSound
<1> DEFINE v == [u EXCEPT !.sent = @ \cup {<<x, "2xx">>}]
           w == Tell(t, "CALL_CANCELLED")
<1>3. Nist(s, x, a) \in {t, w, s, v}
  BY DEF Nist
<1> HIDE DEF t, u
<1>4. Sound(v) /\ v.q = u.q
  BY <1>1, <1>2, SendsSound
<1>5. Sound(w) /\ w.q = t.q
  BY <1>1, <1>2, TellSound
<1> HIDE DEF v, w
<1> QED
  BY <1>2, <1>3, <1>4, <1>5

LEMMA NictSound ==
  ASSUME NEW s, Sound(s), NEW a \in Queued
  PROVE  Sound(Nict(s, "byeOut", a)) /\ Nict(s, "byeOut", a).q = s.q
<1> DEFINE x == "byeOut"
           t == [s EXCEPT !.st[x] = "trying"]
           u == [s EXCEPT !.st[x] = "completed"]
<1>1. x \in Transactions \ Invites /\ {"trying", "completed"} \subseteq States /\ "BYE" \in Words
      /\ "CALL_MESSAGE_ANSWERED" \in Events
  BY DEF Transactions, Servers, Invites, States, Words, Events
<1>2. Sound(t) /\ t.q = s.q /\ Sound(u) /\ u.q = s.q
  BY <1>1, SetStSound
<1> DEFINE v == [t EXCEPT !.sent = @ \cup {<<x, "BYE">>}]
           w == Tell(u, "CALL_MESSAGE_ANSWERED")
<1>3. Nict(s, x, a) \in {v, u, w, s}
  BY DEF Nict
<1> HIDE DEF t, u
<1>4. Sound(v) /\ v.q = t.q
  BY <1>1, <1>2, SendsSound
<1>5. Sound(w) /\ w.q = u.q
  BY <1>1, <1>2, TellSound
<1> HIDE DEF v, w
<1> QED
  BY <1>2, <1>3, <1>4, <1>5

LEMMA TakesSound ==
  ASSUME NEW s, Sound(s), NEW x \in Transactions, NEW a \in Queued
  PROVE  Sound(Takes(s, x, a)) /\ Takes(s, x, a).q = s.q
  BY IstSound, NistSound, NictSound DEF Takes, Transactions, Servers, Invites

-----------------------------------------------------------------------------
(* The queue of a transaction *)

\* A queue has its place in the record.
LEMMA SetQSound ==
  ASSUME NEW s, Sound(s), NEW x \in Transactions, NEW new \in Seq(Queued)
  PROVE  LET t == [s EXCEPT !.q[x] = new]
         IN /\ Sound(t) /\ t.call = s.call /\ t.dialog = s.dialog /\ t.cseq = s.cseq
            /\ t.st = s.st /\ t.resp = s.resp /\ t.inDialog = s.inDialog /\ t.sent = s.sent
            /\ t.refCall = s.refCall /\ t.refDialog = s.refDialog
<1> DEFINE q == [s.q EXCEPT ![x] = new]
           t == [s EXCEPT !.q = q]
<1>1. s \in CallType
  BY DEF Sound
<1>2. q \in [Transactions -> Seq(Queued)]
  BY <1>1 DEF CallType
<1> HIDE DEF q
<1>3. t \in CallType
  BY <1>1, <1>2 DEF CallType
<1>4. /\ t.call = s.call /\ t.dialog = s.dialog /\ t.cseq = s.cseq
      /\ t.st = s.st /\ t.resp = s.resp /\ t.inDialog = s.inDialog /\ t.sent = s.sent
      /\ t.refCall = s.refCall /\ t.refDialog = s.refDialog
  BY <1>1 DEF CallType
<1> HIDE DEF t
<1>5. Sound(t)
  BY <1>3, <1>4 DEF Sound, References, Once, Finals
<1> QED
  BY <1>4, <1>5 DEF t, q

\* The function that executes a queue exists: it is built up, event by event.
LEMMA RunOneUnfolds ==
  ASSUME NEW s, NEW x, Len(s.q[x]) \in Nat
  PROVE  LET after[n \in 0 .. Len(s.q[x])] ==
                   IF n = 0 THEN s ELSE Takes(after[n-1], x, s.q[x][n])
         IN after = [n \in 0 .. Len(s.q[x]) |->
                       IF n = 0 THEN s ELSE Takes(after[n-1], x, s.q[x][n])]
<1> DEFINE Len0 == Len(s.q[x])
           Step(g, n) == IF n = 0 THEN s ELSE Takes(g[n-1], x, s.q[x][n])
           Built(g, k) == g = [n \in 0 .. k |-> Step(g, n)]
           G == {k \in Nat : \E g : Built(g, k)}
<1> HIDE DEF Takes
<1>1. 0 \in G
  <2> DEFINE g == [n \in 0 .. 0 |-> s]
  <2>1. g = [n \in 0 .. 0 |-> Step(g, n)]
    OBVIOUS
  <2> QED
    BY <2>1
<1>2. ASSUME NEW k \in Nat, k \in G PROVE k + 1 \in G
  <2>1. PICK g : Built(g, k)
    BY <1>2
  <2> DEFINE h == [n \in 0 .. k + 1 |-> IF n = k + 1 THEN Step(g, n) ELSE g[n]]
  <2>2. ASSUME NEW n \in 0 .. k + 1 PROVE h[n] = Step(h, n)
    <3>1. CASE n = k + 1
      <4>1. h[n] = Takes(g[n-1], x, s.q[x][n]) /\ n - 1 \in 0 .. k + 1 /\ n - 1 # k + 1 /\ n # 0
        BY <3>1
      <4>2. h[n-1] = g[n-1]
        BY <4>1
      <4> QED
        BY <4>1, <4>2
    <3>2. CASE n # k + 1
      <4>1. n \in 0 .. k /\ h[n] = g[n] /\ g[n] = Step(g, n)
        BY <2>1, <3>2
      <4>2. n # 0 => n - 1 \in 0 .. k + 1 /\ n - 1 # k + 1 /\ h[n-1] = g[n-1]
        BY <4>1
      <4> QED
        BY <4>1, <4>2
    <3> QED
      BY <3>1, <3>2
  <2>3. Built(h, k + 1)
    <3> HIDE DEF Step
    <3>1. h = [n \in 0 .. k + 1 |-> h[n]]
      OBVIOUS
    <3> QED
      BY <2>2, <3>1
  <2> HIDE DEF Built, h
  <2>4. \E g2 : Built(g2, k + 1)
    BY <2>3
  <2> QED
    BY <2>4
<1>3. \E g : Built(g, Len0)
  <2> HIDE DEF Built
  <2>1. Nat \subseteq G
    BY <1>1, <1>2, Induction
  <2> QED
    BY <2>1
<1> QED
  BY <1>3

LEMMA RunOneSound ==
  ASSUME NEW s, Sound(s), NEW x \in Transactions
  PROVE  Sound(RunOne(s, x))
<1> DEFINE Size == Len(s.q[x])
           after[n \in 0 .. Size] == IF n = 0 THEN s ELSE Takes(after[n-1], x, s.q[x][n])
           G == {n \in Nat : n <= Size => Sound(after[n]) /\ after[n].q = s.q}
<1>1. s.q[x] \in Seq(Queued) /\ Size \in Nat
  <2>1. s.q[x] \in Seq(Queued)
    BY DEF Sound, CallType
  <2> QED
    BY <2>1
<1>2. \A n \in 0 .. Size :
         after[n] = IF n = 0 THEN s ELSE Takes(after[n-1], x, s.q[x][n])
  <2>1. after = [n \in 0 .. Size |-> IF n = 0 THEN s ELSE Takes(after[n-1], x, s.q[x][n])]
    BY <1>1, RunOneUnfolds
  <2> HIDE DEF after
  <2> QED
    BY <2>1, Zenon
<1> HIDE DEF after
<1>3. 0 \in G
  BY <1>1, <1>2
<1>4. ASSUME NEW n \in Nat, n \in G PROVE n + 1 \in G
  <2> SUFFICES ASSUME n + 1 <= Size
               PROVE  Sound(after[n+1]) /\ after[n+1].q = s.q
    OBVIOUS
  <2>1. Sound(after[n]) /\ after[n].q = s.q
    BY <1>1, <1>4
  <2>2. s.q[x][n+1] \in Queued
    BY <1>1
  <2>3. after[n+1] = Takes(after[n], x, s.q[x][n+1])
    BY <1>1, <1>2
  <2> QED
    BY <2>1, <2>2, <2>3, TakesSound
<1>5. Sound(after[Size]) /\ after[Size].q = s.q
  <2>1. Nat \subseteq G
    <3> HIDE DEF G
    <3> QED
      BY <1>3, <1>4, Induction
  <2> QED
    BY <1>1, <2>1
<1>6. RunOne(s, x) = [after[Size] EXCEPT !.q[x] = <<>>]
  BY DEF RunOne, after
<1>7. <<>> \in Seq(Queued)
  OBVIOUS
<1> DEFINE t == after[Size]
<1> HIDE DEF Size, t
<1>8. Sound(t)
  BY <1>5 DEF t
<1>9. Sound([t EXCEPT !.q[x] = <<>>])
  BY <1>7, <1>8, SetQSound
<1> QED
  BY <1>6, <1>9 DEF t

LEMMA ExecuteSound ==
  ASSUME NEW s, Sound(s)
  PROVE  /\ Sound(osip_nist_execute(s))
         /\ Sound(osip_ist_execute(s))
         /\ Sound(Run(s))
<1>1. {"cancel", "recancel", "bye", "byeOut", "inc", "re"} \subseteq Transactions
  BY DEF Transactions, Servers, Invites
<1>2. \A t, x : Sound(t) /\ x \in Transactions => Sound(RunOne(t, x))
  BY RunOneSound
<1>3. \A t : Sound(t) => Sound(osip_nist_execute(t))
  BY <1>1, <1>2 DEF osip_nist_execute
<1>4. \A t : Sound(t) => Sound(osip_nict_execute(t))
  BY <1>1, <1>2 DEF osip_nict_execute
<1>5. \A t : Sound(t) => Sound(osip_ist_execute(t))
  BY <1>1, <1>2 DEF osip_ist_execute
<1> QED
  BY <1>3, <1>4, <1>5 DEF Run

-----------------------------------------------------------------------------
(* Timers, and the release *)

LEMMA ExpiredSound ==
  ASSUME NEW s, Sound(s), NEW ends, \A x \in ends : HasTimer(s, x)
  PROVE  Sound(Expired(s, ends))
<1> DEFINE new == [x \in Transactions |-> IF x \in ends THEN "terminated" ELSE s.st[x]]
           t == [s EXCEPT !.st = new]
           e == "CALL_MESSAGE_REQUESTFAILURE"
<1>1. s \in CallType /\ "terminated" \in States /\ e \in Events
      /\ {"inc", "re"} \subseteq Transactions /\ Invites = {"inc", "re"}
  BY DEF Sound, States, Events, Transactions, Servers, Invites
<1>2. new \in [Transactions -> States]
  BY <1>1 DEF CallType
<1>3. \A x \in Transactions : new[x] \in {s.st[x], "terminated"}
  OBVIOUS
<1>4. \A x \in Invites : s.st[x] = "none" => new[x] = "none"
  BY <1>1 DEF HasTimer
<1> HIDE DEF new
<1>5. /\ t \in CallType /\ t.st = new
      /\ t.call = s.call /\ t.dialog = s.dialog /\ t.cseq = s.cseq
      /\ t.inDialog = s.inDialog /\ t.sent = s.sent
      /\ t.refCall = s.refCall /\ t.refDialog = s.refDialog
  BY <1>1, <1>2 DEF CallType
<1> HIDE DEF t
<1>6. References(t)
  BY <1>5 DEF Sound, References
<1>7. Once(t)
  BY <1>1, <1>3, <1>4, <1>5 DEF Sound, Once
<1>8. Finals(t)
  BY <1>1, <1>3, <1>5 DEF Sound, Finals, Answered
<1>9. Sound(t) /\ Sound(Tell(t, e))
  BY <1>1, <1>5, <1>6, <1>7, <1>8, TellSound DEF Sound
<1>10. Expired(s, ends) \in {t, Tell(t, e)}
  BY DEF Expired, t, new
<1> QED
  BY <1>9, <1>10

\* A call whose dialog was freed: whatever is in its lists is no longer referred to.
LEMMA ReleaseCallSound ==
  ASSUME NEW s \in CallType, Once(s), Finals(s), s.call = "active",
         s.refCall \cup s.refDialog \subseteq s.inDialog \cup {"inc"}
  PROVE  Sound(_eXosip_release_call(s))
<1> DEFINE told == s.told \cup {"CALL_RELEASED"}
           refCall == (s.refCall \ s.inDialog) \ {"inc"}
           refDialog == s.refDialog \ (s.inDialog \cup {"inc"})
           t == _eXosip_release_call(s)
<1>1. told \in SUBSET Events /\ refCall = {} /\ refDialog = {} /\ {} \in SUBSET Transactions
  BY DEF CallType, Events
<1>2. t = [s EXCEPT !.told = told, !.dialog = "none", !.ok = "none", !.inDialog = {},
                    !.refCall = refCall, !.refDialog = refDialog, !.call = "released"]
  BY DEF _eXosip_release_call, _eXosip_dialog_free, Tell, CallType
<1> HIDE DEF told, refCall, refDialog, t
<1>3. /\ t \in CallType /\ t.call = "released" /\ t.dialog = "none" /\ t.inDialog = {}
      /\ t.refCall = {} /\ t.refDialog = {}
      /\ t.st = s.st /\ t.cseq = s.cseq /\ t.sent = s.sent
  BY <1>1, <1>2 DEF CallType
<1> QED
  BY <1>3 DEF Sound, References, Once, Finals, t

LEMMA DialogFreed ==
  ASSUME NEW s, Sound(s), s.call = "active"
  PROVE  LET t == _eXosip_dialog_free(s)
         IN /\ t \in CallType /\ Once(t) /\ Finals(t) /\ t.call = "active" /\ t.st = s.st
            /\ t.dialog = "none"
            /\ t.refCall \cup t.refDialog \subseteq t.inDialog \cup {"inc"}
<1> DEFINE t == _eXosip_dialog_free(s)
           refCall == s.refCall \ s.inDialog
           refDialog == s.refDialog \ (s.inDialog \cup {"inc"})
<1>1. s \in CallType /\ {refCall, refDialog, {}} \subseteq SUBSET Transactions
      /\ refCall \cup refDialog \subseteq {"inc"}
  BY DEF Sound, CallType, References
<1>2. t = [s EXCEPT !.dialog = "none", !.ok = "none", !.inDialog = {},
                    !.refCall = refCall, !.refDialog = refDialog]
  BY DEF _eXosip_dialog_free
<1> HIDE DEF refCall, refDialog, t
<1>3. /\ t \in CallType /\ t.call = s.call /\ t.dialog = "none" /\ t.inDialog = {}
      /\ t.refCall = refCall /\ t.refDialog = refDialog
      /\ t.st = s.st /\ t.cseq = s.cseq /\ t.sent = s.sent
  BY <1>1, <1>2 DEF CallType
<1> QED
  BY <1>1, <1>3 DEF Sound, References, Once, Finals, t

\* What frees a dialog releases the call too: its INVITE is over, or old.
LEMMA ReleaseSound ==
  ASSUME NEW s, Sound(s)
  PROVE  Sound(_eXosip_release_terminated_calls(s))
<1> DEFINE Free == _eXosip_dialog_free(s)
           NoAnswer == Tell(Free, "CALL_NOANSWER")
           Over(t) == t.st["inc"] = "terminated" \/ "inc" \in old
           Next0(t) == IF t.call = "active" /\ ~HasDialog(t) /\ (~Open(t, "inc") \/ "inc" \in old)
                       THEN _eXosip_release_call(t) ELSE t
<1>1. CASE s.call # "active"
  BY <1>1 DEF _eXosip_release_terminated_calls
<1>2. CASE s.call = "active"
  <2>1. _eXosip_release_terminated_calls(s) = Next0(ReleaseDialog(s))
    BY <1>2 DEF _eXosip_release_terminated_calls
  <2>2. HasDialog(s)
    BY <1>2 DEF Sound, References, HasDialog
  <2>3. ReleaseDialog(s) = s \/ Over(s)
    <3> SUFFICES ASSUME ~_eXosip_pendingosip_transaction_exist(s) PROVE Over(s)
      BY DEF ReleaseDialog
    <3>1. s.st[LastIncInvite(s)] = "terminated" \/ LastIncInvite(s) \in old
      BY DEF _eXosip_pendingosip_transaction_exist, Open
    <3>2. CASE "re" \in s.inDialog
      BY <3>2 DEF Sound, Once, Finals, Invites
    <3>3. CASE "re" \notin s.inDialog
      BY <3>1, <3>3 DEF LastIncInvite
    <3> QED
      BY <3>2, <3>3
  <2>4. ReleaseDialog(s) \in {s, Free, NoAnswer, _eXosip_release_call(s)}
    BY DEF ReleaseDialog
  <2>5. Next0(s) = s
    BY <2>2
  <2>6. Over(s) => Sound(Next0(Free))
    <3> HIDE DEF Free
    <3>1. /\ Free \in CallType /\ Once(Free) /\ Finals(Free) /\ Free.call = "active"
          /\ Free.st = s.st /\ Free.dialog = "none"
          /\ Free.refCall \cup Free.refDialog \subseteq Free.inDialog \cup {"inc"}
      BY <1>2, DialogFreed DEF Free
    <3> QED
      BY <3>1, ReleaseCallSound DEF Open, HasDialog
  <2>7. Over(s) => Sound(Next0(NoAnswer))
    <3> HIDE DEF Free
    <3>1. /\ Free \in CallType /\ Once(Free) /\ Finals(Free) /\ Free.call = "active"
          /\ Free.st = s.st /\ Free.dialog = "none"
          /\ Free.refCall \cup Free.refDialog \subseteq Free.inDialog \cup {"inc"}
      BY <1>2, DialogFreed DEF Free
    <3>2. /\ NoAnswer \in CallType /\ Once(NoAnswer) /\ Finals(NoAnswer)
          /\ NoAnswer.call = "active" /\ NoAnswer.st = s.st /\ NoAnswer.dialog = "none"
          /\ NoAnswer.refCall \cup NoAnswer.refDialog \subseteq NoAnswer.inDialog \cup {"inc"}
      <4>1. (Free.told \cup {"CALL_NOANSWER"}) \in SUBSET Events
        BY <3>1 DEF CallType, Events
      <4>2. /\ NoAnswer \in CallType /\ NoAnswer.call = Free.call
            /\ NoAnswer.dialog = Free.dialog /\ NoAnswer.inDialog = Free.inDialog
            /\ NoAnswer.refCall = Free.refCall /\ NoAnswer.refDialog = Free.refDialog
            /\ NoAnswer.st = Free.st /\ NoAnswer.cseq = Free.cseq /\ NoAnswer.sent = Free.sent
        BY <3>1, <4>1 DEF CallType, Tell
      <4> HIDE DEF NoAnswer
      <4> QED
        BY <3>1, <4>2 DEF Once, Finals
    <3> HIDE DEF NoAnswer
    <3> QED
      BY <3>2, ReleaseCallSound DEF Open, HasDialog
  <2>8. Sound(Next0(_eXosip_release_call(s)))
    <3> DEFINE r == _eXosip_release_call(s)
    <3>1. Sound(r)
      BY <1>2, ReleaseCallSound DEF Sound, References
    <3>2. r.call = "released"
      BY DEF Sound, CallType, _eXosip_release_call, _eXosip_dialog_free, Tell
    <3> HIDE DEF r
    <3>3. Next0(r) = r
      BY <3>2
    <3> QED
      BY <3>1, <3>3 DEF r
  <2> HIDE DEF Next0, Free, NoAnswer, Over
  <2> QED
    BY <2>1, <2>3, <2>4, <2>5, <2>6, <2>7, <2>8
<1> QED
  BY <1>1, <1>2

-----------------------------------------------------------------------------
(* Messages of the peer *)

LEMMA NewInviteSound ==
  ASSUME NEW s, Sound(s), s.call = "none"
  PROVE  Sound(NewInvite(s))
<1> DEFINE st == [s.st EXCEPT !["inc"] = "proceeding"]
           resp == [s.resp EXCEPT !["inc"] = "1xx"]
           t == [s EXCEPT !.call = "active", !.dialog = "early", !.cseq = 1,
                          !.st = st, !.resp = resp, !.refCall = {"inc"}, !.refDialog = {"inc"}]
<1>1. s \in CallType /\ "inc" \in Transactions /\ "inc" \in Invites /\ "re" \in Transactions
      /\ Invites = {"inc", "re"}
  BY DEF Sound, Transactions, Servers, Invites
<1>2. st \in [Transactions -> States] /\ resp \in [Invites -> {"none", "1xx", "2xx", "3456xx"}]
      /\ st["inc"] = "proceeding" /\ st["re"] = s.st["re"]
  BY <1>1 DEF CallType, States
<1>3. s.st["inc"] = "none" /\ s.cseq = 0 /\ s.st["re"] = "none" /\ s.inDialog = {}
      /\ \A x \in Invites, a \in {"2xx", "3456xx"} : <<x, a>> \notin s.sent
  <2>1. s.st["inc"] = "none" /\ s.cseq = 0 /\ s.inDialog = {}
    BY DEF Sound, Once, References
  <2>2. s.st["re"] = "none"
    BY <2>1 DEF Sound, Once, CSeq
  <2> QED
    BY <1>1, <2>1, <2>2 DEF Sound, Finals, Answered
<1> HIDE DEF st, resp
<1>4. /\ t \in CallType /\ t.call = "active" /\ t.dialog = "early" /\ t.cseq = 1 /\ t.st = st
      /\ t.refCall = {"inc"} /\ t.refDialog = {"inc"}
      /\ t.inDialog = s.inDialog /\ t.sent = s.sent
  BY <1>1, <1>2 DEF CallType
<1>5. NewInvite(s) = Tell(t, "CALL_INVITE") /\ "CALL_INVITE" \in Events
  BY DEF NewInvite, CSeq, st, resp, Events
<1> HIDE DEF t
<1>6. Sound(t)
  BY <1>2, <1>3, <1>4 DEF Sound, References, Once, Finals
<1> QED
  BY <1>5, <1>6, TellSound

LEMMA RcvInviteSound ==
  ASSUME Sound(c), RcvInvite
  PROVE  Sound(c')
<1> DEFINE refused == [c EXCEPT !.sent = @ \cup {<<"inc", "copy refused">>}]
           again == Tell(c, "another CALL_INVITE")
<1>1. c.call = "none" \/ c' \in {c, refused, again}
  BY DEF RcvInvite
<1>2. c.call = "none" => c' = NewInvite(c)
  BY DEF RcvInvite
<1>3. Sound(refused)
  <2>1. "inc" \in Transactions /\ "copy refused" \in Words
    BY DEF Transactions, Servers, Invites, Words
  <2> QED
    BY <2>1, SendsSound
<1>4. Sound(again)
  <2>1. "another CALL_INVITE" \in Events
    BY DEF Events
  <2> QED
    BY <2>1, TellSound
<1> HIDE DEF refused, again
<1> QED
  BY <1>1, <1>2, <1>3, <1>4, NewInviteSound

LEMMA ProcessReinviteSound ==
  ASSUME NEW s, Sound(s), s.call = "active", CSeq.re > s.cseq, <<"inc", "2xx">> \in s.sent
  PROVE  Sound(ProcessReinvite(s))
<1> DEFINE st == [s.st EXCEPT !["re"] = "proceeding"]
           resp == [s.resp EXCEPT !["re"] = "1xx"]
           inDialog == s.inDialog \cup {"re"}
           refCall == s.refCall \cup {"re"}
           refDialog == s.refDialog \cup {"re"}
           t == [s EXCEPT !.cseq = 2, !.st = st, !.resp = resp, !.inDialog = inDialog,
                          !.refCall = refCall, !.refDialog = refDialog]
<1>1. s \in CallType /\ "inc" \in Transactions /\ "re" \in Invites /\ "re" \in Transactions
      /\ Invites = {"inc", "re"}
  BY DEF Sound, Transactions, Servers, Invites
<1>2. /\ st \in [Transactions -> States] /\ resp \in [Invites -> {"none", "1xx", "2xx", "3456xx"}]
      /\ st["re"] = "proceeding" /\ st["inc"] = s.st["inc"]
      /\ {inDialog, refCall, refDialog} \subseteq SUBSET Transactions
      /\ "re" \in inDialog /\ refCall \cup refDialog \subseteq inDialog \cup {"inc"}
  BY <1>1 DEF CallType, States, Sound, References
<1>3. /\ s.dialog # "none" /\ s.call # "none" /\ s.st["inc"] # "none"
      /\ <<"re", "2xx">> \notin s.sent /\ <<"re", "3456xx">> \notin s.sent
  <2>1. s.st["re"] = "none"
    BY <1>1 DEF Sound, Once, CSeq, CallType
  <2> QED
    BY <1>1, <2>1 DEF Sound, References, Once, Finals, Answered
<1> HIDE DEF st, resp, inDialog, refCall, refDialog
<1>4. /\ t \in CallType /\ t.call = s.call /\ t.dialog = s.dialog /\ t.cseq = 2 /\ t.st = st
      /\ t.refCall = refCall /\ t.refDialog = refDialog
      /\ t.inDialog = inDialog /\ t.sent = s.sent
  BY <1>1, <1>2 DEF CallType
<1>5. ProcessReinvite(s) = Tell(osip_ist_execute(t), "CALL_REINVITE") /\ "CALL_REINVITE" \in Events
  BY DEF ProcessReinvite, CSeq, st, resp, inDialog, refCall, refDialog, Events
<1> HIDE DEF t
<1>6. Sound(t)
  <2>1. References(t)
    BY <1>2, <1>3, <1>4
       DEF References
  <2>2. Once(t)
    BY <1>2, <1>3, <1>4 DEF Once, CSeq
  <2>3. Finals(t)
    BY <1>1, <1>2, <1>3, <1>4 DEF Sound, Finals
  <2> QED
    BY <1>4, <2>1, <2>2, <2>3 DEF Sound
<1> QED
  BY <1>5, <1>6, ExecuteSound, TellSound

\* The call goes on, in the same dialog, with other lists and other transactions.
LEMMA GoesOnSound ==
  ASSUME NEW s, Sound(s), NEW t \in CallType,
         t.call = s.call, t.sent = s.sent, t.cseq = s.cseq \/ (t.call # "none" /\ t.cseq >= s.cseq),
         \A x \in Invites : t.st[x] = s.st[x],
         t.dialog = "none" <=> s.dialog = "none",
         "re" \in t.inDialog => "re" \in s.inDialog,
         t.refCall \cup t.refDialog \subseteq t.inDialog \cup {"inc"},
         t.dialog = "none" => t.inDialog = {} /\ t.refDialog = {},
         t.call # "active" => t.refCall = {}
  PROVE  Sound(t)
<1>1. Invites = {"inc", "re"} /\ t.cseq \in Nat /\ s.cseq \in Nat
  BY DEF Invites, CallType, Sound
<1>2. References(t)
  BY DEF Sound, References
<1>3. Once(t)
  BY <1>1 DEF Sound, Once, CSeq
<1>4. Finals(t)
  BY <1>1 DEF Sound, Finals
<1> QED
  BY <1>2, <1>3, <1>4 DEF Sound

LEMMA RcvReinviteSound ==
  ASSUME Sound(c), RcvReinvite
  PROVE  Sound(c')
<1> DEFINE t == [c EXCEPT !.cseq = 2]
<1>1. c' # c => <<"inc", "2xx">> \in c.sent /\ c.call = "active" /\ CSeq.re > c.cseq
  BY DEF RcvReinvite
<1>2. c' \in {c, ProcessReinvite(c), t}
  BY DEF RcvReinvite, CSeq
<1>3. c.call = "active" /\ CSeq.re > c.cseq => Sound(t)
  <2>1. c \in CallType /\ "inc" \in Transactions
    BY DEF Sound, Transactions, Servers, Invites
  <2>2. /\ t \in CallType /\ t.call = c.call /\ t.dialog = c.dialog /\ t.cseq = 2 /\ t.st = c.st
        /\ t.refCall = c.refCall /\ t.refDialog = c.refDialog
        /\ t.inDialog = c.inDialog /\ t.sent = c.sent
    BY <2>1 DEF CallType
  <2> HIDE DEF t
  <2> QED
    BY <2>2 DEF Sound, References, Once, Finals, CSeq
<1> HIDE DEF t
<1> QED
  BY <1>1, <1>2, <1>3, ProcessReinviteSound

LEMMA PutSound ==
  ASSUME NEW s, Sound(s), NEW x \in Transactions, NEW a \in Queued
  PROVE  /\ Sound(Put(s, x, a)) /\ Put(s, x, a).call = s.call /\ Put(s, x, a).dialog = s.dialog
         /\ Put(s, x, a).st = s.st /\ Put(s, x, a).resp = s.resp
         /\ Put(s, x, a).inDialog = s.inDialog
<1> DEFINE new == Append(s.q[x], a)
<1>1. s.q[x] \in Seq(Queued)
  BY DEF Sound, CallType
<1>2. new \in Seq(Queued)
  BY <1>1
<1>3. Put(s, x, a) = [s EXCEPT !.q[x] = new]
  BY DEF Put
<1> HIDE DEF new
<1> QED
  BY <1>2, <1>3, SetQSound

\* A transaction k begins, with the lists and references given.
Begins(s, k, v, queue, I, C, D) ==
    [s EXCEPT !.st[k] = v, !.q[k] = queue, !.inDialog = I, !.refCall = C, !.refDialog = D]

LEMMA BeginsSound ==
  ASSUME NEW s, Sound(s), NEW k \in Transactions \ Invites, NEW v \in States,
         NEW queue \in Seq(Queued),
         NEW I \in SUBSET Transactions, NEW C \in SUBSET Transactions,
         NEW D \in SUBSET Transactions,
         "re" \in I => "re" \in s.inDialog,
         C \cup D \subseteq I \cup {"inc"},
         s.dialog = "none" => I = {} /\ D = {},
         s.call # "active" => C = {}
  PROVE  Sound(Begins(s, k, v, queue, I, C, D))
<1> DEFINE st == [s.st EXCEPT ![k] = v]
           q == [s.q EXCEPT ![k] = queue]
           t == [s EXCEPT !.st = st, !.q = q, !.inDialog = I, !.refCall = C, !.refDialog = D]
<1>1. s \in CallType /\ st \in [Transactions -> States] /\ q \in [Transactions -> Seq(Queued)]
      /\ \A y \in Invites : st[y] = s.st[y]
  BY DEF Sound, CallType, Transactions, Servers
<1> HIDE DEF st, q
<1>2. /\ t \in CallType /\ t.call = s.call /\ t.dialog = s.dialog /\ t.cseq = s.cseq
      /\ t.st = st /\ t.inDialog = I /\ t.refCall = C /\ t.refDialog = D /\ t.sent = s.sent
  BY <1>1 DEF CallType
<1>3. Begins(s, k, v, queue, I, C, D) = t
  BY DEF Begins, st, q
<1> HIDE DEF t
<1>4. /\ t.cseq = s.cseq \/ (t.call # "none" /\ t.cseq >= s.cseq)
      /\ \A x \in Invites : t.st[x] = s.st[x]
      /\ t.dialog = "none" <=> s.dialog = "none"
      /\ "re" \in t.inDialog => "re" \in s.inDialog
      /\ t.refCall \cup t.refDialog \subseteq t.inDialog \cup {"inc"}
      /\ t.dialog = "none" => t.inDialog = {} /\ t.refDialog = {}
      /\ t.call # "active" => t.refCall = {}
  BY <1>1, <1>2
<1>5. t \in CallType /\ t.call = s.call /\ t.sent = s.sent
  BY <1>2
<1>6. Sound(t)
  BY <1>4, <1>5, GoesOnSound
<1> QED
  BY <1>3, <1>6

LEMMA CancelSound ==
  ASSUME NEW s, Sound(s), NEW x \in Invites
  PROVE  Sound(_eXosip_process_cancel(s, x))
<1> DEFINE k == Cancel[x]
           queue == <<"CANCEL", "200">>
           found == s.call = "active" /\ s.st[x] # "none" /\ (x = "inc" \/ x \in s.inDialog)
<1>1. /\ k \in Transactions \ Invites /\ queue \in Seq(Queued) /\ s \in CallType
      /\ x \in Transactions /\ "3456xx" \in Queued /\ "pretrying" \in States
  BY DEF Cancel, Transactions, Servers, Invites, Queued, Sound, States
<1>2. found => HasDialog(s)
  BY DEF Sound, References, HasDialog
<1> HIDE DEF k, queue
<1>3. CASE ~found \/ s.st[x] \in Answered
  <2> DEFINE I == IF found /\ HasDialog(s) THEN s.inDialog \cup {k} ELSE s.inDialog
             t == Begins(s, k, "pretrying", queue, I, s.refCall, s.refDialog)
  <2>1. I \in SUBSET Transactions /\ s.refCall \in SUBSET Transactions
        /\ s.refDialog \in SUBSET Transactions
    BY <1>1 DEF CallType
  <2>2. _eXosip_process_cancel(s, x) = t
    BY <1>1, <1>3 DEF _eXosip_process_cancel, k, queue, CallType, Begins
  <2>3. s.inDialog \subseteq I /\ ("re" \in I => "re" \in s.inDialog) /\ (HasDialog(s) \/ I = s.inDialog)
    BY <1>1 DEF Invites
  <2> HIDE DEF I, found, t
  <2>4. /\ s.refCall \cup s.refDialog \subseteq I \cup {"inc"}
        /\ s.dialog = "none" => I = {} /\ s.refDialog = {}
        /\ s.call # "active" => s.refCall = {}
    BY <2>3 DEF Sound, References, HasDialog
  <2>5. Sound(t)
    BY <1>1, <2>1, <2>3, <2>4, BeginsSound DEF t
  <2> QED
    BY <2>2, <2>5
<1>4. CASE ~(~found \/ s.st[x] \in Answered)
  <2> DEFINE u == Put(s, x, "3456xx")
             I == u.inDialog \cup {k}
             C == u.refCall \cup {k}
             D == u.refDialog \cup {k}
             t == Begins(u, k, "pretrying", queue, I, C, D)
  <2>1. Sound(u) /\ u.call = "active" /\ u.call = s.call /\ u.dialog = s.dialog
    BY <1>1, <1>4, PutSound
  <2>2. _eXosip_process_cancel(s, x) = t
    BY <1>2, <1>4 DEF _eXosip_process_cancel, k, queue, Begins
  <2> HIDE DEF u
  <2>3. /\ I \in SUBSET Transactions /\ C \in SUBSET Transactions /\ D \in SUBSET Transactions
        /\ u \in CallType
    BY <1>1, <2>1 DEF CallType, Sound
  <2>4. C \cup D \subseteq I \cup {"inc"} /\ ("re" \in I => "re" \in u.inDialog)
        /\ u.dialog # "none"
    BY <1>1, <2>1 DEF Sound, References, Invites
  <2> HIDE DEF I, C, D, t, found
  <2>5. Sound(t)
    BY <1>1, <2>1, <2>3, <2>4, BeginsSound DEF t
  <2> QED
    BY <2>2, <2>5
<1> QED
  BY <1>3, <1>4

\* The ACK, an answer and the retransmission of a 200 change what the dialog counts.
LEMMA CountsSound ==
  ASSUME NEW s, Sound(s), NEW n \in Nat, NEW k \in Invites \cup {"none"}
  PROVE  LET t == [s EXCEPT !.count = n, !.ok = k]
         IN /\ Sound(t) /\ t.call = s.call /\ t.dialog = s.dialog
  BY DEF Sound, CallType, References, Once, Finals

LEMMA AckSound ==
  ASSUME NEW s, Sound(s)
  PROVE  Sound(_eXosip_process_ack(s))
<1> DEFINE t == [s EXCEPT !.count = 0, !.ok = "none"]
<1>1. Sound(t) /\ "CALL_ACK" \in Events
  BY CountsSound DEF Events
<1>2. _eXosip_process_ack(s) = Tell(t, "CALL_ACK")
  BY DEF _eXosip_process_ack
<1> HIDE DEF t
<1> QED
  BY <1>1, <1>2, TellSound

LEMMA ByeSound ==
  ASSUME NEW s, Sound(s), s.call = "active", CSeq.bye > s.cseq
  PROVE  Sound(_eXosip_process_bye(s))
<1> DEFINE I == s.inDialog \cup {"bye"}
           C == s.refCall \cup {"bye"}
           b == Begins(s, "bye", "pretrying", <<"BYE", "200">>, I, C, s.refDialog)
           t == [b EXCEPT !.cseq = 3, !.dialog = "null"]
<1>1. /\ "bye" \in Transactions \ Invites /\ "pretrying" \in States
      /\ <<"BYE", "200">> \in Seq(Queued) /\ s \in CallType
      /\ {"CALL_MESSAGE_NEW", "CALL_CLOSED"} \subseteq Events
  BY DEF Transactions, Servers, Invites, States, Queued, Sound, Events
<1>2. /\ I \in SUBSET Transactions /\ C \in SUBSET Transactions
      /\ s.refDialog \in SUBSET Transactions
      /\ "re" \in I => "re" \in s.inDialog
      /\ C \cup s.refDialog \subseteq I \cup {"inc"}
      /\ s.dialog # "none"
  BY <1>1 DEF CallType, Sound, References
<1>3. Sound(b)
  <2> HIDE DEF I, C
  <2> QED
    BY <1>1, <1>2, BeginsSound
<1>4. b.call = "active" /\ b.cseq = s.cseq /\ b.dialog = s.dialog /\ s.cseq \in Nat
  <2>1. s \in CallType
    BY <1>1
  <2> QED
    BY <2>1 DEF Begins, CallType
<1>5. _eXosip_process_bye(s)
         = Tell(Tell(osip_nist_execute(t), "CALL_MESSAGE_NEW"), "CALL_CLOSED")
  <2> DEFINE u == [s EXCEPT !.cseq = CSeq.bye, !.st.bye = "pretrying",
                            !.q.bye = <<"BYE", "200">>, !.inDialog = @ \cup {"bye"},
                            !.refCall = @ \cup {"bye"}, !.dialog = "null"]
  <2>1. u = t
    BY <1>1 DEF Begins, CSeq, CallType
  <2>2. _eXosip_process_bye(s)
          = Tell(Tell(osip_nist_execute(u), "CALL_MESSAGE_NEW"), "CALL_CLOSED")
    BY DEF _eXosip_process_bye
  <2> HIDE DEF u, t
  <2> QED
    BY <2>1, <2>2
<1> HIDE DEF b
<1>6. /\ t \in CallType /\ t.call = b.call /\ t.dialog = "null" /\ t.cseq = 3
      /\ t.st = b.st /\ t.inDialog = b.inDialog /\ t.refCall = b.refCall
      /\ t.refDialog = b.refDialog /\ t.sent = b.sent
  BY <1>3 DEF Sound, CallType
<1> HIDE DEF t
<1>7. Sound(t)
  BY <1>2, <1>3, <1>4, <1>6 DEF Sound, References, Once, Finals, CSeq
<1> QED
  BY <1>1, <1>5, <1>7, ExecuteSound, TellSound

-----------------------------------------------------------------------------
(* Calls of the application *)

LEMMA AnswerSound ==
  ASSUME Sound(c), NEW x \in Invites, NEW a \in {"1xx", "2xx", "3456xx"},
         eXosip_call_send_answer(x, a)
  PROVE  Sound(c')
<1> DEFINE p == Put(c, x, a)
           t == [p EXCEPT !.count = 0, !.ok = x, !.dialog = "confirmed"]
<1>1. x \in Transactions /\ a \in Queued
  BY DEF Transactions, Servers, Queued
<1>2. Sound(p) /\ p.call = c.call /\ p.dialog = c.dialog
  BY <1>1, PutSound
<1>3. c' \in {p, t} /\ c.dialog # "none"
  BY DEF eXosip_call_send_answer, MayAnswer, HasDialog
<1> HIDE DEF p
<1>4. /\ t \in CallType /\ t.call = p.call /\ t.dialog = "confirmed" /\ t.cseq = p.cseq
      /\ t.st = p.st /\ t.inDialog = p.inDialog /\ t.refCall = p.refCall
      /\ t.refDialog = p.refDialog /\ t.sent = p.sent
  BY <1>2 DEF Sound, CallType
<1> HIDE DEF t
<1>5. Sound(t)
  BY <1>2, <1>3, <1>4 DEF Sound, References, Once, Finals
<1> QED
  BY <1>2, <1>3, <1>5

LEMMA TerminateSound ==
  ASSUME NEW s, Sound(s), s.dialog # "none"
  PROVE  Sound(eXosip_call_terminate(s))
<1> DEFINE x == LastIncInvite(s)
           d == Decline(s)
           I == d.inDialog \cup {"byeOut"}
           C == d.refCall \cup {"byeOut"}
           D == d.refDialog \cup {"byeOut"}
           b == Begins(d, "byeOut", "precalling", <<"SND_BYE">>, I, C, D)
           t == [b EXCEPT !.dialog = "null"]
<1>1. /\ x \in Transactions /\ "3456xx" \in Queued /\ "byeOut" \in Transactions \ Invites
      /\ "precalling" \in States /\ <<"SND_BYE">> \in Seq(Queued)
  BY DEF LastIncInvite, Transactions, Servers, Invites, Queued, States
<1>2. Sound(d) /\ d.dialog = s.dialog
  BY <1>1, PutSound DEF Decline
<1>3. eXosip_call_terminate(s) \in {d, SendBye(d)}
  BY DEF eXosip_call_terminate
<1> HIDE DEF d
<1>4. d \in CallType
  BY <1>2 DEF Sound
<1>5. /\ I \in SUBSET Transactions /\ C \in SUBSET Transactions /\ D \in SUBSET Transactions
      /\ "re" \in I => "re" \in d.inDialog
      /\ C \cup D \subseteq I \cup {"inc"}
      /\ d.call = "active"
  BY <1>1, <1>2, <1>4 DEF Sound, References, CallType
<1>6. SendBye(d) = t
  BY <1>4 DEF SendBye, Begins, CallType
<1> HIDE DEF I, C, D
<1>7. Sound(b)
  BY <1>1, <1>2, <1>5, BeginsSound
<1>8. b.dialog = d.dialog
  BY <1>4 DEF Begins, CallType
<1> HIDE DEF b
<1>9. /\ t \in CallType /\ t.call = b.call /\ t.dialog = "null" /\ t.cseq = b.cseq
      /\ t.st = b.st /\ t.inDialog = b.inDialog /\ t.refCall = b.refCall
      /\ t.refDialog = b.refDialog /\ t.sent = b.sent
  BY <1>7 DEF Sound, CallType
<1> HIDE DEF t
<1>10. Sound(t)
  BY <1>2, <1>7, <1>8, <1>9 DEF Sound, References, Once, Finals
<1> QED
  BY <1>2, <1>3, <1>6, <1>10

LEMMA RetransmitSound ==
  ASSUME Sound(c), _eXosip_retransmit_lost200ok
  PROVE  Sound(c')
<1> DEFINE z == [c EXCEPT !.count = 0, !.ok = "none"]
           e == eXosip_call_terminate(z)
           n == c.count + 1
           m == [c EXCEPT !.count = n, !.ok = c.ok]
           t == [m EXCEPT !.sent = @ \cup {<<c.ok, "200 again">>}]
<1>1. c \in CallType /\ c.ok \in Invites /\ c.dialog # "none"
  BY DEF Sound, CallType, _eXosip_retransmit_lost200ok, Matched
<1>2. /\ "CALL_CLOSED" \in Events /\ "200 again" \in Words /\ Invites \subseteq Transactions
      /\ n \in Nat
  <2>1. c.count \in Nat
    BY <1>1 DEF CallType
  <2>2. Invites \subseteq Transactions
    BY DEF Transactions, Servers
  <2> QED
    BY <2>1, <2>2 DEF Events, Words
<1>3. Sound(z) /\ z.dialog # "none" /\ Sound(m)
  <2>1. 0 \in Nat /\ "none" \in Invites \cup {"none"}
    OBVIOUS
  <2>2. Sound(z) /\ z.dialog = c.dialog
    BY <2>1, CountsSound
  <2> HIDE DEF n, z
  <2>3. Sound(m)
    BY <1>1, <1>2, CountsSound
  <2> QED
    BY <1>1, <2>2, <2>3
<1>4. c' \in {Tell(e, "CALL_CLOSED"), t}
  <2>1. m = [c EXCEPT !.count = n]
    BY <1>1 DEF CallType
  <2>2. t = [c EXCEPT !.count = n, !.sent = @ \cup {<<c.ok, "200 again">>}]
    <3> DEFINE k == [c EXCEPT !.count = n]
    <3>1. k.sent = c.sent
      BY <1>1 DEF CallType
    <3>2. [k EXCEPT !.sent = @ \cup {<<c.ok, "200 again">>}]
             = [c EXCEPT !.count = n, !.sent = @ \cup {<<c.ok, "200 again">>}]
      BY <3>1
    <3> HIDE DEF k, m
    <3> QED
      BY <2>1, <3>2 DEF k
  <2> HIDE DEF t, m
  <2> QED
    BY <2>2 DEF _eXosip_retransmit_lost200ok
<1> HIDE DEF z, m, n
<1>5. Sound(t)
  BY <1>1, <1>2, <1>3, SendsSound
<1>6. Sound(e)
  BY <1>3, TerminateSound
<1> HIDE DEF e, t
<1> QED
  BY <1>2, <1>4, <1>5, <1>6, TellSound

LEMMA LeftSound ==
  ASSUME NEW s, Sound(s)
  PROVE  Sound([s EXCEPT !.left = TRUE])
  BY DEF Sound, CallType, References, Once, Finals

-----------------------------------------------------------------------------
(* The specification *)

LEMMA IncomingInit == Init => IncomingInv
<1> SUFFICES ASSUME Init PROVE Sound(NoCall)
  BY DEF Init, IncomingInv
<1>1. NoCall \in CallType
  <2>1. <<>> \in Seq(Queued) /\ "none" \in States
    BY DEF States
  <2> QED
    BY <2>1 DEF NoCall, CallType
<1>2. {"inc", "re"} \subseteq Transactions
  BY DEF Transactions, Servers, Invites
<1> QED
  BY <1>1, <1>2 DEF NoCall, Sound, References, Once, Finals, CSeq

LEMMA PeerSound ==
  ASSUME Sound(c), Peer
  PROVE  Sound(c')
<1>1. CASE RcvInvite
  BY <1>1, RcvInviteSound
<1>2. CASE RcvReinvite
  BY <1>2, RcvReinviteSound
<1>3. ASSUME NEW x \in Invites, RcvCancel(x) PROVE Sound(c')
  BY <1>3, CancelSound DEF RcvCancel
<1>4. ASSUME NEW x \in Invites, RcvNak(x) PROVE Sound(c')
  <2>1. x \in Transactions /\ "ACK" \in Queued
    BY DEF Transactions, Servers, Queued
  <2> QED
    BY <1>4, <2>1, AckSound, PutSound DEF RcvNak
<1>5. ASSUME NEW x \in Invites, RcvAck(x) PROVE Sound(c')
  BY <1>5, AckSound DEF RcvAck
<1>6. CASE RcvBye
  BY <1>6, ByeSound DEF RcvBye
<1>7. CASE RcvByeAnswer
  <2>1. "byeOut" \in Transactions /\ "RCV_200" \in Queued
    BY DEF Transactions, Queued
  <2> QED
    BY <1>7, <2>1, PutSound DEF RcvByeAnswer
<1> QED
  BY <1>1, <1>2, <1>3, <1>4, <1>5, <1>6, <1>7 DEF Peer

LEMMA ThreadSound ==
  ASSUME Sound(c), eXosip_execute
  PROVE  Sound(c')
<1> DEFINE ran == Run(c)
           ends == {x \in due : HasTimer(ran, x) /\ ran.st[x] = c.st[x]}
<1>1. c' = _eXosip_release_terminated_calls(Expired(ran, ends))
  BY DEF eXosip_execute
<1>2. Sound(ran)
  BY ExecuteSound
<1> HIDE DEF ran
<1>3. \A x \in ends : HasTimer(ran, x)
  OBVIOUS
<1> HIDE DEF ends
<1>4. Sound(Expired(ran, ends))
  BY <1>2, <1>3, ExpiredSound
<1> QED
  BY <1>1, <1>4, ReleaseSound

LEMMA IncomingStep == IncomingInv /\ [Next]_exVars => IncomingInv'
<1> SUFFICES ASSUME Sound(c), [Next]_exVars PROVE Sound(c')
  BY DEF IncomingInv
<1>1. CASE Peer
  BY <1>1, PeerSound
<1>2. CASE ReadNothing
  BY <1>2 DEF ReadNothing
<1>3. CASE Application
  <2>1. ASSUME NEW x \in Invites, NEW a \in {"1xx", "2xx", "3456xx"},
               eXosip_call_send_answer(x, a)
        PROVE  Sound(c')
    BY <2>1, AnswerSound
  <2>2. CASE Terminate
    <3>1. c.dialog # "none" /\ c' = [eXosip_call_terminate(c) EXCEPT !.left = TRUE]
      BY <2>2 DEF Terminate, Matched
    <3> QED
      BY <3>1, TerminateSound, LeftSound
  <2>3. CASE _eXosip_retransmit_lost200ok
    BY <2>3, RetransmitSound
  <2> QED
    BY <1>3, <2>1, <2>2, <2>3 DEF Application
<1>4. CASE eXosip_execute
  BY <1>4, ThreadSound
<1>5. ASSUME NEW x \in {"inc", "re"}, Age(x) PROVE Sound(c')
  BY <1>5 DEF Age
<1>6. CASE UNCHANGED exVars
  BY <1>6 DEF exVars
<1> QED
  BY <1>1, <1>2, <1>3, <1>4, <1>5, <1>6 DEF Next

\* The record of a call is sound, whatever the peer and the application do in which order.
THEOREM IncomingSpecInv == Spec => []IncomingInv
  BY IncomingInit, IncomingStep, PTL DEF Spec

\* No reference of a call or dialog outlives what it refers to (_eXosip_dialog_free,
\* _eXosip_release_call).
THEOREM IncomingSpecNoDangling == Spec => []NoDangling
<1>1. IncomingInv => NoDangling
  <2> SUFFICES ASSUME IncomingInv, NEW x \in Transactions
               PROVE  /\ x \in c.refDialog => HasDialog(c)
                      /\ x \in c.refCall => c.call = "active"
    BY DEF NoDangling
  <2> QED
    BY DEF IncomingInv, Sound, References, HasDialog
<1> QED
  BY <1>1, IncomingSpecInv, PTL

\* One final response leaves for each INVITE, although answers, CANCELs and
\* eXosip_call_terminate are queued by two threads (osip_ist_execute).
THEOREM IncomingSpecOneFinal == Spec => []OneFinal
<1>1. IncomingInv => OneFinal
  BY DEF IncomingInv, Sound, Finals, OneFinal
<1> QED
  BY <1>1, IncomingSpecInv, PTL

-----------------------------------------------------------------------------
(***************************************************************************)
(* The registration, which shares nothing with a call but the thread: for  *)
(* every period asked for, every grant that GrantsAssumption admits, and   *)
(* every length of a tick.                                                 *)
(*                                                                         *)
(* StaysBound is about a registrar's clock and the registration's own, so  *)
(* its invariant relates the two: as long as nothing goes wrong, a         *)
(* REGISTER and its answer take no time (Stage), and a user who is         *)
(* registered is either about to be so again, after at most one challenge, *)
(* or was granted g seconds tr.age seconds ago, with a period of no more   *)
(* than g and 15 seconds (Kept).                                           *)
(***************************************************************************)
Credentials == {"none", "fresh", "cached"}
Answers == {"2xx", "401", "423", "5xx"}
Messages == [kind : {"none", "REGISTER"} \cup Answers, value : Nat, auth : Credentials]

\* The variables have their types.
RegTypeOK ==
    /\ jr \in [active : BOOLEAN, period : Nat, expire : Nat, retry : Nat]
    /\ tr \in [st : {"none", "precalling", "trying", "done"}, asked : Nat,
               auth : Credentials, resp : {"none"} \cup Answers, age : Nat]
    /\ built \in Messages /\ net \in Messages
    /\ bound \in Nat /\ trouble \in Nat
    /\ seen \in [registered : BOOLEAN, sentZero : BOOLEAN]

\* What is on its way while the REGISTER is tried: the REGISTER, or an answer that fits it.
Fits == \/ net = [kind |-> "REGISTER", value |-> tr.asked, auth |-> tr.auth]
        \/ net.kind = "401" /\ tr.auth # "fresh"
        \/ net.kind = "423" /\ tr.asked < MinExpires
        \/ net.kind = "2xx" /\ net.value = 0 /\ tr.asked = 0
        \/ /\ net.kind = "2xx" /\ net.value \in Grants /\ net.value = bound
           /\ net.value <= tr.asked /\ MinExpires <= tr.asked

\* Where a REGISTER is while nothing goes wrong.
Stage == /\ jr.period \in Asks \cup Grants \cup {MinExpires, 0}
         /\ built # Nothing => tr.st = "none" /\ built.value = jr.expire
         /\ tr.st = "trying" => Fits
         /\ tr.st # "trying" => net = Nothing
         /\ Busy => tr.age = 0 /\ tr.asked = jr.expire
         /\ seen.registered => tr.st # "none"

\* What keeps a registered user so.
Kept == /\ bound > 0
        /\ jr.expire > 0 /\ jr.expire >= MinExpires
        /\ Busy => jr.retry = 0 \/ tr.auth = "fresh"
        /\ tr.st = "done" =>
              /\ jr.retry = 0
              /\ \/ tr.resp = "401" /\ tr.age = 0
                 \/ /\ tr.resp = "2xx"
                    /\ \E g \in Grants : jr.period - g \in 0 .. 15 /\ bound + tr.age >= g

RegInv == /\ RegTypeOK
          /\ trouble = 0 /\ jr.active => Stage /\ (seen.registered => Kept)

-----------------------------------------------------------------------------

LEMMA RegInitInv == RegInit => RegInv
  BY ExRegisterAssumption
     DEF RegInit, RegInv, RegTypeOK, Messages, Credentials, Answers, NoTransaction, Nothing,
         Stage, Busy

\* What the registration builds has its type.
LEMMA BuiltTyped ==
  ASSUME RegTypeOK,
         NEW r \in [active : BOOLEAN, period : Nat, expire : Nat, retry : Nat]
  PROVE  LET new == _eXosip_register_build_register(r)
         IN /\ new.reg \in [active : BOOLEAN, period : Nat, expire : Nat, retry : Nat]
            /\ new.reg.active = r.active /\ new.reg.retry = r.retry
            /\ new.msg = [kind |-> "REGISTER", value |-> new.reg.expire, auth |-> CredentialsNext]
            /\ CredentialsNext \in Credentials
            /\ ~MinExpiresAsked => new.reg = r
            /\ MinExpiresAsked => new.reg.period = MinExpires
  BY ExRegisterAssumption
     DEF _eXosip_register_build_register, AskedNext, CredentialsNext, Credentials

LEMMA BuildInv ==
  ASSUME RegInv, NEW e \in Asks \cup {0}, eXosip_register_build_register(e)
  PROVE  RegInv'
<1> DEFINE r == [jr EXCEPT !.period = e, !.expire = e]
           new == _eXosip_register_build_register(r)
<1>1. r \in [active : BOOLEAN, period : Nat, expire : Nat, retry : Nat] /\ r.period = e
  <2>1. e \in Nat /\ jr \in [active : BOOLEAN, period : Nat, expire : Nat, retry : Nat]
    BY ExRegisterAssumption DEF RegInv, RegTypeOK
  <2> QED
    BY <2>1
<1>2. /\ new.reg \in [active : BOOLEAN, period : Nat, expire : Nat, retry : Nat]
      /\ new.reg.period \in {e, MinExpires}
      /\ new.msg = [kind |-> "REGISTER", value |-> new.reg.expire, auth |-> CredentialsNext]
      /\ CredentialsNext \in Credentials
  BY <1>1, BuiltTyped DEF RegInv
<1> HIDE DEF r, new
<1>3. /\ UNCHANGED <<net, bound>> /\ seen' = [seen EXCEPT !.registered = FALSE]
      /\ \/ jr' = r /\ trouble' = trouble + 1 /\ UNCHANGED <<tr, built>>
         \/ /\ ~Busy /\ jr' = new.reg /\ built' = new.msg /\ tr' = NoTransaction
            /\ UNCHANGED trouble /\ jr.active
  BY DEF eXosip_register_build_register, r, new
<1>4. RegTypeOK'
  <2>1. new.msg \in Messages
    BY <1>2 DEF Messages
  <2>2. NoTransaction \in [st : {"none", "precalling", "trying", "done"}, asked : Nat,
                          auth : Credentials, resp : {"none"} \cup Answers, age : Nat]
    BY DEF NoTransaction, Credentials
  <2>3. seen' \in [registered : BOOLEAN, sentZero : BOOLEAN]
    BY <1>3 DEF RegInv, RegTypeOK
  <2>4. trouble' \in Nat /\ net' \in Messages /\ bound' \in Nat
    BY <1>3 DEF RegInv, RegTypeOK
  <2> QED
    BY <1>1, <1>2, <1>3, <2>1, <2>2, <2>3, <2>4 DEF RegInv, RegTypeOK
<1>5. ASSUME trouble' = 0, jr'.active PROVE Stage' /\ ~seen'.registered
  <2>1. trouble \in Nat /\ seen'.registered = FALSE
    BY <1>3 DEF RegInv, RegTypeOK
  <2>2. /\ ~Busy /\ jr' = new.reg /\ built' = new.msg /\ tr' = NoTransaction
        /\ trouble = 0 /\ jr.active
    BY <1>3, <1>5, <2>1
  <2>3. net' = Nothing
    BY <1>3, <2>2 DEF RegInv, Stage, Busy
  <2> QED
    BY <1>2, <2>1, <2>2, <2>3 DEF Stage, NoTransaction, Busy
<1> QED
  BY <1>4, <1>5 DEF RegInv

LEMMA SendInv ==
  ASSUME RegInv, eXosip_register_send_register
  PROVE  RegInv'
<1>1. RegTypeOK'
  BY DEF eXosip_register_send_register, Sends, RegInv, RegTypeOK, Messages, NoTransaction, Nothing,
         Credentials
<1>2. trouble = 0 /\ jr.active => Stage' /\ ~seen'.registered
  BY DEF eXosip_register_send_register, Sends, RegInv, Stage, NoTransaction, Busy
<1> QED
  BY <1>1, <1>2 DEF RegInv, eXosip_register_send_register

LEMMA RemoveInv ==
  ASSUME RegInv, eXosip_register_remove
  PROVE  RegInv'
  BY DEF eXosip_register_remove, RegInv, RegTypeOK, Messages, NoTransaction, Nothing, Credentials

\* A refresh or a retry: it asks for what was granted before, and no challenge comes after
\* fresh credentials.
LEMMA AutomaticInv ==
  ASSUME RegInv, eXosip_automatic_action
  PROVE  RegInv'
<1> DEFINE new == _eXosip_register_build_register(jr)
           again == Old \/ Refreshes \/ Failed
<1>1. /\ new.reg \in [active : BOOLEAN, period : Nat, expire : Nat, retry : Nat]
      /\ new.reg.active = jr.active /\ new.reg.retry = jr.retry
      /\ new.msg = [kind |-> "REGISTER", value |-> new.reg.expire, auth |-> CredentialsNext]
      /\ CredentialsNext \in Credentials
      /\ ~MinExpiresAsked => new.reg = jr
      /\ MinExpiresAsked => new.reg.period = MinExpires
  BY BuiltTyped DEF RegInv, RegTypeOK
<1>2. /\ jr' = [new.reg EXCEPT !.retry = IF again THEN @ ELSE @ + 1]
      /\ tr' = [NoTransaction EXCEPT !.st = "precalling", !.asked = new.msg.value,
                                     !.auth = new.msg.auth]
      /\ UNCHANGED <<built, net, bound, trouble, seen>>
      /\ Due
  BY DEF eXosip_automatic_action, Sends
<1> HIDE DEF new
<1>3. RegTypeOK'
  <2>1. jr' \in [active : BOOLEAN, period : Nat, expire : Nat, retry : Nat]
    BY <1>1, <1>2
  <2>2. new.msg.value \in Nat /\ new.msg.auth \in Credentials
    BY <1>1
  <2>3. tr' \in [st : {"none", "precalling", "trying", "done"}, asked : Nat,
                auth : Credentials, resp : {"none"} \cup Answers, age : Nat]
    BY <1>2, <2>2 DEF NoTransaction
  <2> QED
    BY <1>2, <2>1, <2>3 DEF RegInv, RegTypeOK
<1>4. ASSUME trouble' = 0, jr'.active PROVE Stage' /\ (seen'.registered => Kept')
  <2>1. /\ trouble = 0 /\ jr.active /\ tr.st = "done"
        /\ again \/ Challenged
    BY <1>1, <1>2, <1>4 DEF Due
  <2>2. Stage /\ (seen.registered => Kept)
    BY <2>1 DEF RegInv
  <2>3. Stage'
    BY <1>1, <1>2, <2>1, <2>2 DEF Stage, NoTransaction, Busy
  <2>4. CASE seen.registered
    <3>1. tr.resp \in {"401", "2xx"} /\ jr.retry = 0
      BY <2>1, <2>2, <2>4 DEF Kept
    <3>2. new.reg = jr /\ (tr.resp = "401" => CredentialsNext = "fresh")
      <4>1. ~MinExpiresAsked
        BY <3>1 DEF MinExpiresAsked
      <4>2. tr.resp = "401" => CredentialsNext = "fresh"
        BY DEF CredentialsNext
      <4> QED
        BY <1>1, <4>1, <4>2
    <3>3. tr.resp = "2xx" => again
      BY <2>1 DEF Challenged
    <3>4. jr'.retry = 0 \/ tr'.auth = "fresh"
      BY <1>1, <1>2, <3>1, <3>2, <3>3 DEF NoTransaction
    <3>5. jr'.expire = jr.expire /\ tr'.st = "precalling"
      BY <1>1, <1>2, <3>2 DEF NoTransaction
    <3> QED
      BY <1>2, <2>2, <2>3, <2>4, <3>4, <3>5 DEF Kept, Busy
  <2>5. seen' = seen
    BY <1>2
  <2> QED
    BY <2>3, <2>4, <2>5
<1> QED
  BY <1>3, <1>4 DEF RegInv

\* What Becomes leaves of the registration: all of it, or nothing to keep.
LEMMA ReleaseKeeps ==
  ASSUME NEW r \in [active : BOOLEAN, period : Nat, expire : Nat, retry : Nat], NEW t
  PROVE  /\ ReleaseOf(r, t) \in [active : BOOLEAN, period : Nat, expire : Nat, retry : Nat]
         /\ ReleaseOf(r, t).active => ReleaseOf(r, t) = r
  BY DEF ReleaseOf

\* The REGISTER goes on its way.
LEMMA SendRequestInv ==
  ASSUME RegInv, SendRequest
  PROVE  RegInv'
<1> DEFINE t == [tr EXCEPT !.st = "trying"]
<1>1. /\ tr.st = "precalling" /\ tr' = t /\ jr' = ReleaseOf(jr, t)
      /\ net' = [kind |-> "REGISTER", value |-> tr.asked, auth |-> tr.auth]
      /\ seen' = [seen EXCEPT !.sentZero = tr.asked = 0]
      /\ UNCHANGED <<built, bound, trouble>>
  BY DEF SendRequest, Becomes
<1>2. RegTypeOK
  BY DEF RegInv
<1>3. /\ jr' \in [active : BOOLEAN, period : Nat, expire : Nat, retry : Nat]
      /\ jr'.active => jr' = jr
  BY <1>1, <1>2, ReleaseKeeps DEF RegTypeOK
<1>4. /\ tr'.st = "trying" /\ tr'.asked = tr.asked /\ tr'.auth = tr.auth /\ tr'.age = tr.age
      /\ tr' \in [st : {"none", "precalling", "trying", "done"}, asked : Nat,
                 auth : Credentials, resp : {"none"} \cup Answers, age : Nat]
      /\ seen' \in [registered : BOOLEAN, sentZero : BOOLEAN]
      /\ seen'.registered = seen.registered
      /\ net' \in Messages
  BY <1>1, <1>2 DEF RegTypeOK, Messages
<1>5. RegTypeOK'
  BY <1>1, <1>2, <1>3, <1>4 DEF RegTypeOK
<1>6. ASSUME trouble' = 0, jr'.active PROVE Stage' /\ (seen'.registered => Kept')
  <2>1. jr' = jr /\ Stage /\ (seen.registered => Kept)
    BY <1>1, <1>3, <1>6 DEF RegInv
  <2>2. Stage'
    BY <1>1, <1>4, <2>1 DEF Stage, Fits, Busy
  <2>3. seen'.registered => Kept'
    BY <1>1, <1>4, <2>1 DEF Kept, Busy
  <2> QED
    BY <2>2, <2>3
<1> QED
  BY <1>5, <1>6 DEF RegInv

\* The answer is executed.  A grant is not longer than the period, and not 15 seconds shorter.
LEMMA RcvAnswerInv ==
  ASSUME RegInv, RcvAnswer
  PROVE  RegInv'
<1> DEFINE r == IF net.kind = "2xx" THEN [Granted(jr, net.value) EXCEPT !.retry = 0] ELSE jr
           t == [tr EXCEPT !.st = "done", !.resp = net.kind]
           Records == [active : BOOLEAN, period : Nat, expire : Nat, retry : Nat]
<1>1. RegTypeOK
  BY DEF RegInv
<1>2. /\ tr.st = "trying" /\ net.kind \in Answers
      /\ tr' = t /\ jr' = ReleaseOf(r, t)
      /\ seen' = IF net.kind = "2xx" THEN [seen EXCEPT !.registered = net.value > 0] ELSE seen
      /\ net' = Nothing /\ UNCHANGED <<built, bound, trouble>>
  BY DEF RcvAnswer, Becomes, Answers
<1>3. /\ r \in Records /\ r.active = jr.active /\ r.expire = jr.expire
      /\ net.kind # "2xx" => r = jr
      /\ net.kind = "2xx" => r.retry = 0
      /\ r.period = jr.period \/ (r.period = net.value /\ net.value > 0 /\ net.kind = "2xx")
      /\ net.kind = "2xx" /\ net.value > 0 => r.period - net.value \in 0 .. 15
  BY <1>1 DEF RegTypeOK, Granted, Messages
<1> HIDE DEF r
<1>4. jr' \in Records /\ (jr'.active => jr' = r)
  BY <1>2, <1>3, ReleaseKeeps
<1>5. /\ tr'.st = "done" /\ tr'.resp = net.kind /\ tr'.age = tr.age /\ tr'.asked = tr.asked
      /\ tr'.auth = tr.auth
      /\ tr' \in [st : {"none", "precalling", "trying", "done"}, asked : Nat,
                 auth : Credentials, resp : {"none"} \cup Answers, age : Nat]
      /\ seen' \in [registered : BOOLEAN, sentZero : BOOLEAN]
      /\ seen'.registered = IF net.kind = "2xx" THEN net.value > 0 ELSE seen.registered
      /\ net' \in Messages
  <2>1. Nothing \in Messages
    BY DEF Nothing, Messages, Credentials
  <2>2. /\ seen' \in [registered : BOOLEAN, sentZero : BOOLEAN]
        /\ seen'.registered = IF net.kind = "2xx" THEN net.value > 0 ELSE seen.registered
    <3>1. (net.value > 0) \in BOOLEAN /\ seen \in [registered : BOOLEAN, sentZero : BOOLEAN]
      BY <1>1 DEF RegTypeOK
    <3>2. CASE seen' = [seen EXCEPT !.registered = net.value > 0] /\ net.kind = "2xx"
      BY <3>1, <3>2
    <3> QED
      BY <1>2, <3>1, <3>2
  <2> QED
    BY <1>1, <1>2, <2>1, <2>2 DEF RegTypeOK
<1>6. RegTypeOK'
  BY <1>1, <1>2, <1>4, <1>5 DEF RegTypeOK
<1>7. ASSUME trouble' = 0, jr'.active PROVE Stage' /\ (seen'.registered => Kept')
  <2>1. jr' = r /\ Stage /\ (seen.registered => Kept)
    BY <1>2, <1>3, <1>4, <1>7 DEF RegInv
  <2>2. Fits /\ net.kind # "REGISTER" /\ tr.age = 0 /\ tr.asked = jr.expire
    BY <1>2, <2>1 DEF Stage, Busy, Answers
  <2>3. net.kind = "2xx" /\ net.value > 0 => net.value \in Grants
    BY <2>2 DEF Fits
  <2>4. Stage'
    <3>1. r.period \in Asks \cup Grants \cup {MinExpires, 0}
      BY <1>3, <2>1, <2>3 DEF Stage
    <3>2. built = Nothing
      BY <1>2, <2>1 DEF Stage
    <3> QED
      BY <1>2, <1>5, <2>1, <3>1, <3>2 DEF Stage, Busy
  <2>5. CASE net.kind = "2xx"
    <3> SUFFICES ASSUME net.value > 0 PROVE Kept'
      BY <1>5, <2>4, <2>5
    <3>1. /\ net.value \in Grants /\ net.value = bound
          /\ net.value <= jr.expire /\ MinExpires <= jr.expire
      BY <2>2, <2>5 DEF Fits
    <3>2. net.value \in Nat /\ jr.expire \in Nat /\ tr.age \in Nat
      BY <1>1 DEF RegTypeOK, Messages
    <3>3. bound' > 0 /\ jr'.expire > 0 /\ jr'.expire >= MinExpires
      BY <1>2, <1>3, <2>1, <3>1, <3>2, ExRegisterAssumption
    <3>4. \E g \in Grants : jr'.period - g \in 0 .. 15 /\ bound' + tr'.age >= g
      BY <1>2, <1>3, <1>5, <2>1, <2>2, <2>5, <3>1, <3>2
    <3>5. jr'.retry = 0 /\ tr'.resp = "2xx"
      BY <1>3, <1>5, <2>1, <2>5
    <3> QED
      BY <1>5, <3>3, <3>4, <3>5 DEF Kept, Busy
  <2>6. CASE net.kind # "2xx"
    <3> SUFFICES ASSUME seen.registered PROVE Kept'
      BY <1>5, <2>4, <2>6
    <3>1. Kept /\ jr' = jr
      BY <1>3, <2>1, <2>6
    <3>2. tr.asked \in Nat /\ jr.expire \in Nat
      BY <1>1 DEF RegTypeOK
    <3>3. net.kind = "401" /\ tr.auth # "fresh"
      BY <2>2, <2>6, <3>1, <3>2, ExRegisterAssumption DEF Fits, Kept
    <3>4. jr.retry = 0
      BY <1>2, <3>1, <3>3 DEF Kept, Busy
    <3> QED
      BY <1>2, <1>5, <2>2, <3>1, <3>3, <3>4 DEF Kept, Busy
  <2> QED
    BY <2>5, <2>6
<1> QED
  BY <1>6, <1>7 DEF RegInv

\* Without an outage timer F never ends a REGISTER.
LEMMA TimeoutInv ==
  ASSUME RegInv, TimeoutF
  PROVE  RegInv'
<1> DEFINE t == [tr EXCEPT !.st = "done"]
<1>1. /\ tr.st = "trying" /\ net = Nothing /\ tr' = t /\ jr' = ReleaseOf(jr, t)
      /\ UNCHANGED <<built, net, bound, trouble, seen>>
  BY DEF TimeoutF, Becomes
<1>2. /\ jr' \in [active : BOOLEAN, period : Nat, expire : Nat, retry : Nat]
      /\ jr'.active => jr' = jr
  BY <1>1, ReleaseKeeps DEF RegInv, RegTypeOK
<1>3. RegTypeOK'
  BY <1>1, <1>2 DEF RegInv, RegTypeOK
<1>4. ~(trouble' = 0 /\ jr'.active)
  BY <1>1, <1>2 DEF RegInv, Stage, Fits, Nothing
<1> QED
  BY <1>3, <1>4 DEF RegInv

LEMMA ReleaseInv ==
  ASSUME RegInv, Release
  PROVE  RegInv'
<1>1. jr' = ReleaseOf(jr, tr) /\ UNCHANGED <<tr, built, net, bound, trouble, seen>> /\ Releases(jr, tr)
  BY DEF Release, Becomes
<1>2. /\ jr' \in [active : BOOLEAN, period : Nat, expire : Nat, retry : Nat]
      /\ ~jr'.active
  BY <1>1 DEF ReleaseOf, RegInv, RegTypeOK
<1> QED
  BY <1>1, <1>2 DEF RegInv, RegTypeOK

\* The registrar's answer fits what was asked.
LEMMA RegistrarInv ==
  ASSUME RegInv, Registrar
  PROVE  RegInv'
<1>1. RegTypeOK
  BY DEF RegInv
<1>2. PICK kind \in Answers, v \in Nat :
        /\ net' = [Nothing EXCEPT !.kind = kind, !.value = v]
        /\ bound' \in Nat /\ trouble' \in Nat
        /\ UNCHANGED <<jr, tr, built, seen>>
        /\ \/ kind = "401" /\ net.auth # "fresh" /\ UNCHANGED <<bound, trouble>>
           \/ kind = "2xx" /\ net.value = 0 /\ v = 0 /\ bound' = 0 /\ UNCHANGED trouble
           \/ kind = "423" /\ net.value < MinExpires /\ UNCHANGED <<bound, trouble>>
           \/ /\ kind = "2xx" /\ v \in Grants /\ v <= net.value /\ net.value >= MinExpires
              /\ bound' = v /\ UNCHANGED trouble
           \/ trouble' = trouble + 1
  <2>1. /\ net.value \in Nat /\ bound \in Nat /\ trouble \in Nat /\ Grants \subseteq Nat
        /\ trouble + 1 \in Nat /\ 0 \in Nat
        /\ "401" \in Answers /\ "2xx" \in Answers /\ "423" \in Answers /\ "5xx" \in Answers
    BY <1>1, ExRegisterAssumption DEF RegTypeOK, Messages, Answers
  <2>2. /\ UNCHANGED <<jr, tr, built, seen>>
        /\ \/ /\ net.auth # "fresh" /\ UNCHANGED <<bound, trouble>>
              /\ net' = [Nothing EXCEPT !.kind = "401", !.value = 0]
           \/ /\ net.value = 0 /\ bound' = 0 /\ UNCHANGED trouble
              /\ net' = [Nothing EXCEPT !.kind = "2xx", !.value = 0]
           \/ /\ net.value < MinExpires /\ UNCHANGED <<bound, trouble>>
              /\ net' = [Nothing EXCEPT !.kind = "423", !.value = 0]
           \/ \E v \in Grants : /\ v <= net.value /\ net.value >= MinExpires
                               /\ bound' = v /\ UNCHANGED trouble
                               /\ net' = [Nothing EXCEPT !.kind = "2xx", !.value = v]
           \/ /\ trouble' = trouble + 1 /\ UNCHANGED bound
              /\ net' = [Nothing EXCEPT !.kind = "5xx", !.value = 0]
    BY DEF Registrar
  <2> QED
    BY <2>1, <2>2
<1>3. net' \in Messages /\ net'.kind = kind /\ net'.value = v
  BY <1>2 DEF Messages, Nothing, Credentials
<1>4. RegTypeOK'
  BY <1>1, <1>2, <1>3 DEF RegTypeOK
<1>5. ASSUME trouble' = 0, jr'.active PROVE Stage' /\ (seen'.registered => Kept')
  <2>1. trouble \in Nat /\ net.kind = "REGISTER" /\ net # Nothing
    <3>1. net.kind = "REGISTER" /\ trouble \in Nat
      BY <1>1 DEF Registrar, RegTypeOK
    <3> QED
      BY <3>1 DEF Nothing
  <2>2. Stage /\ (seen.registered => Kept) /\ trouble' # trouble + 1
    BY <1>2, <1>5, <2>1 DEF RegInv
  <2>3. tr.st = "trying" /\ net.value = tr.asked /\ net.auth = tr.auth /\ tr.asked = jr.expire
    BY <2>1, <2>2 DEF Stage, Fits, Busy
  <2>4. Fits'
    BY <1>2, <1>3, <2>2, <2>3 DEF Fits
  <2>5. Stage'
    BY <1>2, <2>2, <2>3, <2>4 DEF Stage, Busy
  <2>6. seen.registered => bound' > 0
    BY <1>1, <1>2, <2>2, <2>3, ExRegisterAssumption DEF Kept, RegTypeOK
  <2>7. seen.registered => Kept'
    BY <1>2, <2>2, <2>3, <2>6 DEF Kept, Busy
  <2> QED
    BY <1>2, <2>5, <2>7
<1> QED
  BY <1>4, <1>5 DEF RegInv

LEMMA OutageInv ==
  ASSUME RegInv, Outage
  PROVE  RegInv'
  BY DEF Outage, RegInv, RegTypeOK, Nothing, Messages, Credentials

\* Time: a registration that is not due for a refresh outlives a tick.
LEMMA TickInv ==
  ASSUME RegInv, TickTime
  PROVE  RegInv'
<1>1. RegTypeOK /\ Tick \in Nat
  BY ExRegisterAssumption DEF RegInv
<1>2. /\ bound' = IF bound > Tick THEN bound - Tick ELSE 0
      /\ tr' = IF tr.st = "none" \/ tr.age > 900 THEN tr ELSE [tr EXCEPT !.age = @ + Tick]
      /\ UNCHANGED <<jr, built, net, trouble, seen>>
      /\ jr.active /\ tr.st # "precalling" /\ net = Nothing /\ ~Due
  BY DEF TickTime, Idle
<1>3. /\ tr' \in [st : {"none", "precalling", "trying", "done"}, asked : Nat,
                 auth : Credentials, resp : {"none"} \cup Answers, age : Nat]
      /\ tr'.st = tr.st /\ tr'.resp = tr.resp
      /\ bound' \in Nat
  BY <1>1, <1>2 DEF RegTypeOK
<1>4. RegTypeOK'
  BY <1>1, <1>2, <1>3 DEF RegTypeOK
<1>5. ASSUME trouble' = 0, jr'.active PROVE Stage' /\ (seen'.registered => Kept')
  <2>1. Stage /\ (seen.registered => Kept)
    BY <1>2, <1>5 DEF RegInv
  <2>2. tr.st # "trying"
    BY <1>2, <2>1 DEF Stage, Fits, Nothing
  <2>3. Stage'
    BY <1>2, <1>3, <2>1, <2>2 DEF Stage, Busy
  <2>4. CASE seen.registered
    <3>1. tr.st = "done"
      BY <1>1, <1>2, <2>1, <2>2, <2>4 DEF Stage, RegTypeOK
    <3>2. ~Old /\ ~Refreshes /\ ~Challenged
      BY <1>2, <3>1 DEF Due
    <3>3. Kept /\ tr.resp = "2xx" /\ jr.retry = 0
      BY <2>1, <2>4, <3>1, <3>2 DEF Kept, Challenged
    <3>4. PICK g \in Grants : jr.period - g \in 0 .. 15 /\ bound + tr.age >= g
      BY <3>1, <3>3 DEF Kept
    <3>5. g \in Nat \ {0} /\ jr.period \in Nat /\ tr.age \in Nat /\ bound \in Nat
      BY <1>1, ExRegisterAssumption DEF RegTypeOK
    <3>6. jr.period # 0 /\ jr.period \in Asks \cup Grants \cup {MinExpires}
      BY <2>1, <3>4, <3>5 DEF Stage
    <3>7. jr.period - g + Tick < jr.period \div 10 \/ jr.period - g + Tick < 6
      BY <3>4, <3>6, GrantsAssumption
    <3>8. /\ tr.age <= jr.period - jr.period \div 10 /\ tr.age <= jr.period - 6
          /\ tr.age <= 900
      BY <3>2, <3>5, <3>6 DEF Refreshes, Old
    <3>9. bound > Tick
      <4>1. jr.period \div 10 \in Nat
        BY <3>5
      <4> QED
        BY <1>1, <3>4, <3>5, <3>7, <3>8, <4>1
    <3>10. tr'.age = tr.age + Tick /\ bound' = bound - Tick
      BY <1>1, <1>2, <3>1, <3>5, <3>8, <3>9 DEF RegTypeOK
    <3>11. bound' > 0 /\ bound' + tr'.age >= g
      BY <1>1, <3>4, <3>5, <3>9, <3>10
    <3> QED
      BY <1>2, <1>3, <2>3, <3>1, <3>3, <3>4, <3>11 DEF Kept, Busy
  <2> QED
    BY <1>2, <2>3, <2>4
<1> QED
  BY <1>4, <1>5 DEF RegInv

LEMMA RegNextInv == RegInv /\ [RegNext]_regVars => RegInv'
<1> SUFFICES ASSUME RegInv, [RegNext]_regVars PROVE RegInv'
  OBVIOUS
<1>1. CASE UNCHANGED regVars
  BY <1>1 DEF regVars, RegInv, RegTypeOK, Stage, Kept, Fits, Busy
<1>2. CASE RegApplication
  BY <1>2, BuildInv, SendInv, RemoveInv DEF RegApplication
<1>3. CASE Execute
  BY <1>3, SendRequestInv, RcvAnswerInv, TimeoutInv, ReleaseInv DEF Execute
<1> QED
  BY <1>1, <1>2, <1>3, AutomaticInv, RegistrarInv, OutageInv, TickInv DEF RegNext

\* The invariant of a registration.
THEOREM RegSpecInv == RegSpec => []RegInv
  BY RegInitInv, RegNextInv, PTL DEF RegSpec

\* The variables have their types: no period, age or count ever leaves the naturals.
THEOREM RegSpecTypeOK == RegSpec => []RegTypeOK
<1>1. RegInv => RegTypeOK
  BY DEF RegInv
<1> QED
  BY <1>1, RegSpecInv, PTL

\* While nothing is lost and nothing refused, the refreshes of eXosip_automatic_action come in
\* time, for every period, every challenge and every grant that GrantsAssumption admits.
THEOREM RegSpecStaysBound == RegSpec => []StaysBound
<1>1. RegInv => StaysBound
  BY DEF RegInv, StaysBound, Kept
<1> QED
  BY <1>1, RegSpecInv, PTL

=============================================================================
