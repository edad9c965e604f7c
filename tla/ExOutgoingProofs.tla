--------------------------- MODULE ExOutgoingProofs ---------------------------
(***************************************************************************)
(* Theorems about ExOutgoing, for any number of callees, retries and       *)
(* attempts.                                                               *)
(*                                                                         *)
(* ACKs and BYEs go to remote_tag of the one dialog, which moves from      *)
(* callee to callee while they ring.  That it is the right one rests on    *)
(* the order in which the INVITE transaction hears them (Decided): an      *)
(* early dialog goes with a last response 1xx, a confirmed one with a 2xx  *)
(* of the callee it names, and with a 2xx the transaction is over, so that *)
(* the dialog moves no more and no attempt follows.  That one callee talks *)
(* rests on d_ack: once there is an ACK without BYE the dialog has sent it *)
(* (Acknowledged).                                                         *)
(***************************************************************************)
EXTENDS ExOutgoing, FiniteSetTheorems, WellFoundedInduction, TLAPS

Anyone == Callees \cup {NoOne}
QueueEvents == ({"SND", "100", "1xx", "2xx"} \cup Refusals) \X Anyone
Requested == {"none", "queued", "trying", "completed", "terminated"}

InviteType == [st : {"precalling", "calling", "proceeding", "completed", "terminated"},
               q : Seq(QueueEvents), resp : {"none", "1xx", "2xx"} \cup Refusals,
               age : {0, 120, 180}]
DialogType == [state : {"none", "early", "confirmed", "null"}, tag : Anyone, ack : BOOLEAN,
               bye : Requested, byeIn : Requested]
CallType == [state : {"active", "released"}, retry : Nat, attempts : Nat, dead : BOOLEAN,
             expired : BOOLEAN, cancel : {"none", "queued", "sent"}]
World == [inv : InviteType, dialog : DialogType, call : CallType,
          told : SUBSET ({"CALL_RINGING", "CALL_ANSWERED", "CALL_REFUSED", "CALL_CLOSED",
                          "CALL_RELEASED", "CALL_NOANSWER"} \X Anyone)]

\* Those who have an ACK and no BYE.
Talking == {t \in Callees : <<"ACK", t>> \in sent /\ <<"BYE", t>> \notin sent}

\* What the last response says of the dialog, when A have answered.
Decided(w, A) ==
    /\ w.inv.resp = "2xx" => w.inv.st = "terminated"
    /\ w.inv.st = "precalling" => w.inv.resp = "none"
    /\ w.dialog.state = "early" => w.inv.resp = "1xx"
    /\ w.dialog.state = "confirmed" => w.inv.resp = "2xx" /\ w.dialog.tag \in A
    /\ \A t \in Callees : <<"CALL_ANSWERED", t>> \in w.told => w.inv.resp = "2xx"

\* When somebody talks, a 2xx was heard, and the dialog, if it lives, has sent its ACK.
Acknowledged(w, someone) ==
    someone => w.inv.resp = "2xx" /\ (Live(w.dialog) => w.dialog.ack)

Good(w, A, someone) == w \in World /\ Decided(w, A) /\ Acknowledged(w, someone)

\* What waits in the FIFO of the INVITE transaction.
Fifo(i, A) ==
    /\ i.st = "precalling" => i.q \in {<<>>, <<<<"SND", NoOne>>>>}
    /\ i.st # "precalling" => \A n \in 1 .. Len(i.q) : i.q[n][1] # "SND"
    /\ \A n \in 1 .. Len(i.q) : i.q[n][1] = "2xx" => i.q[n][2] \in A

OutInv ==
    /\ Good(Before, callee.answered, Talking # {})
    /\ Fifo(inv, callee.answered)
    /\ callee \in [answered : SUBSET Callees, hungUp : SUBSET Callees,
                   refusal : {"none"} \cup Refusals]
    /\ OnlyWhoAnswered
    /\ sent \subseteq {"ACK", "BYE"} \X Anyone
    /\ \A t, u \in Talking : t = u

-----------------------------------------------------------------------------
(* Induction *)

LEMMA Induction ==
  ASSUME NEW G, 0 \in G, \A n \in Nat : n \in G => n + 1 \in G
  PROVE  Nat \subseteq G
<1> SUFFICES ASSUME ~(Nat \subseteq G) PROVE FALSE
  OBVIOUS
<1> DEFINE T == Nat \ G
<1>1. T \subseteq Nat /\ T # {}
  OBVIOUS
<1>2. PICK n \in T : \A m \in T : ~(m < n)
  <2>1. IsWellFoundedOn(OpToRel(<, Nat), Nat)
    BY NatLessThanWellFounded, Zenon
  <2>2. \E n \in T : \A m \in T : <<m, n>> \notin OpToRel(<, Nat)
    BY <1>1, <2>1, WFMin, Zenon
  <2> QED
    BY <1>1, <2>2 DEF OpToRel
<1>3. n \in Nat /\ n # 0
  BY <1>2
<1>4. n - 1 \in Nat /\ n - 1 < n /\ n - 1 \in G => n \in G
  BY <1>3
<1> QED
  BY <1>2, <1>3, <1>4

-----------------------------------------------------------------------------
(* The INVITE transaction *)

\* A callee rings while the transaction waits.
LEMMA RingsGood ==
  ASSUME NEW A, NEW B \in BOOLEAN, NEW w, Good(w, A, B), NEW t \in Anyone,
         w.inv.st = "proceeding", w.inv.resp = "1xx"
  PROVE  Good(cb_rcv1xx(w, t), A, B)
<1> DEFINE ringing == [w EXCEPT !.call.expired = FALSE]
           made == [ringing EXCEPT !.dialog = [NoDialog EXCEPT !.state = "early", !.tag = t]]
           moved == [ringing EXCEPT !.dialog.state = "early", !.dialog.tag = t]
<1>1. w \in World /\ ~B
  BY DEF Good, Acknowledged
<1>2. \A v \in World : (/\ v.inv = w.inv /\ v.told = w.told
                        /\ v.dialog = w.dialog \/ v.dialog.state = "early")
                          => Good(Tell(v, "CALL_RINGING"), A, B)
  <2> SUFFICES ASSUME NEW v \in World, v.inv = w.inv, v.told = w.told,
                      v.dialog = w.dialog \/ v.dialog.state = "early"
               PROVE  Good(Tell(v, "CALL_RINGING"), A, B)
    BY Zenon
  <2> DEFINE u == Tell(v, "CALL_RINGING")
  <2>1. /\ u \in World /\ u.inv = w.inv /\ u.dialog = v.dialog
        /\ u.told = v.told \cup {<<"CALL_RINGING", NoOne>>}
    BY DEF Tell, World, Anyone
  <2>2. \A x \in Callees : <<"CALL_ANSWERED", x>> \in u.told => <<"CALL_ANSWERED", x>> \in w.told
    BY <2>1
  <2> HIDE DEF u
  <2>3. Decided(u, A)
    BY <2>1, <2>2 DEF Good, Decided
  <2>4. Acknowledged(u, B)
    BY <1>1, Zenon DEF Acknowledged
  <2> QED
    BY <2>1, <2>3, <2>4 DEF Good, u
<1>3. ringing \in World /\ ringing.inv = w.inv /\ ringing.told = w.told /\ ringing.dialog = w.dialog
  BY <1>1 DEF World, CallType
<1>4. made \in World /\ made.inv = w.inv /\ made.told = w.told /\ made.dialog.state = "early"
  BY <1>1 DEF World, CallType, DialogType, NoDialog, Anyone, Requested
<1>5. moved \in World /\ moved.inv = w.inv /\ moved.told = w.told /\ moved.dialog.state = "early"
  BY <1>1 DEF World, CallType, DialogType, Anyone
<1>6. cb_rcv1xx(w, t) \in {Tell(made, "CALL_RINGING"), Tell(moved, "CALL_RINGING"),
                           Tell(ringing, "CALL_RINGING")}
  <2> HIDE DEF made, moved, ringing
  <2> QED
    BY DEF cb_rcv1xx, made, moved, ringing
<1> HIDE DEF made, moved, ringing
<1> QED
  BY <1>2, <1>3, <1>4, <1>5, <1>6

\* A callee answers while the transaction waited; it is over with that.
LEMMA AnswersGood ==
  ASSUME NEW A, NEW w \in World, NEW t \in A, A \subseteq Callees,
         w.inv.st = "terminated", w.inv.resp = "2xx"
  PROVE  Good(cb_rcv2xx_4invite(w, t), A, FALSE)
<1>1. PICK more : more = w.told \cup {<<"CALL_ANSWERED", t>>}
  OBVIOUS
<1>2. PICK made : made = [NoDialog EXCEPT !.state = "confirmed", !.tag = t]
  OBVIOUS
<1>3. PICK moved : moved = [w.dialog EXCEPT !.state = "confirmed", !.tag = t]
  OBVIOUS
<1>4. made \in DialogType /\ made.state = "confirmed" /\ made.tag = t
  BY <1>2 DEF DialogType, NoDialog, Anyone, Requested
<1>5. moved \in DialogType /\ moved.state = "confirmed" /\ moved.tag = t
  BY <1>3 DEF World, DialogType, Anyone
<1>6. more \in SUBSET ({"CALL_RINGING", "CALL_ANSWERED", "CALL_REFUSED", "CALL_CLOSED",
                        "CALL_RELEASED", "CALL_NOANSWER"} \X Anyone)
  BY <1>1 DEF World, Anyone
<1>7. \A d \in DialogType : d.state = "confirmed" /\ d.tag = t =>
         Good([w EXCEPT !.dialog = d, !.told = more], A, FALSE)
  <2> SUFFICES ASSUME NEW d \in DialogType, d.state = "confirmed", d.tag = t
               PROVE  Good([w EXCEPT !.dialog = d, !.told = more], A, FALSE)
    BY Zenon
  <2> DEFINE v == [w EXCEPT !.dialog = d, !.told = more]
  <2>1. v \in World /\ v.inv = w.inv /\ v.dialog = d
    BY <1>6 DEF World
  <2> HIDE DEF v
  <2>2. Good(v, A, FALSE)
    BY <2>1 DEF Good, Decided, Acknowledged
  <2> QED
    BY <2>2 DEF v
<1>8. \/ cb_rcv2xx_4invite(w, t) = [w EXCEPT !.dialog = made, !.told = more]
      \/ /\ Live(w.dialog)
         /\ cb_rcv2xx_4invite(w, t)
              = [w EXCEPT !.dialog.state = "confirmed", !.dialog.tag = t, !.told = more]
      \/ cb_rcv2xx_4invite(w, t) = w /\ w.dialog.state \notin {"early", "confirmed"}
  BY <1>1, <1>2 DEF cb_rcv2xx_4invite, Live
<1>9. [w EXCEPT !.dialog.state = "confirmed", !.dialog.tag = t, !.told = more]
         = [w EXCEPT !.dialog = moved, !.told = more]
  BY <1>3 DEF World, DialogType
<1>10. Good([w EXCEPT !.dialog = made, !.told = more], A, FALSE)
  BY <1>4, <1>7, Zenon
<1>11. Good([w EXCEPT !.dialog = moved, !.told = more], A, FALSE)
  BY <1>5, <1>7, Zenon
<1>12. w.dialog.state \notin {"early", "confirmed"} => Good(w, A, FALSE)
  BY DEF Good, Decided, Acknowledged
<1> QED
  BY <1>8, <1>9, <1>10, <1>11, <1>12, Zenon

\* One event of the queue.
LEMMA IctGood ==
  ASSUME NEW A, A \subseteq Callees, NEW B \in BOOLEAN, NEW w, Good(w, A, B),
         NEW e \in QueueEvents,
         e[1] = "2xx" => e[2] \in A,
         e[1] = "SND" => w.inv.resp = "none"
  PROVE  Good(Ict(w, e), A, B) /\ Ict(w, e).inv.q = w.inv.q
<1> DEFINE waits == w.inv.st \in {"calling", "proceeding"}
           heard == [w EXCEPT !.inv.resp = e[1]]
<1>1. w \in World /\ Decided(w, A) /\ e[1] \in {"SND", "100", "1xx", "2xx"} \cup Refusals /\ e[2] \in Anyone
  BY DEF Good, QueueEvents
<1>2. CASE e[1] = "SND"
  <2> DEFINE v == [w EXCEPT !.inv.st = "calling"]
  <2>1. Ict(w, e) = v
    BY <1>2 DEF Ict, Refusals
  <2>2. /\ v \in World /\ v.dialog = w.dialog /\ v.told = w.told /\ v.inv.resp = w.inv.resp
        /\ v.inv.q = w.inv.q
    BY <1>1 DEF World, InviteType
  <2> HIDE DEF v
  <2>3. Decided(v, A)
    BY <1>1, <1>2, <2>2 DEF Decided
  <2>4. Acknowledged(v, B)
    BY <2>2, Zenon DEF Good, Acknowledged
  <2> QED
    BY <2>1, <2>2, <2>3, <2>4 DEF Good
<1>3. CASE ~waits /\ e[1] # "SND"
  BY <1>3 DEF Ict
<1>4. CASE waits /\ e[1] # "SND"
  <2>1. w.inv.resp # "2xx" /\ ~B
    BY <1>1, <1>4 DEF Decided, Good, Acknowledged
  <2>2. /\ w.dialog.state # "confirmed"
        /\ \A t \in Callees : <<"CALL_ANSWERED", t>> \notin w.told
    BY <1>1, <2>1 DEF Decided
  <2>3. CASE e[1] = "100"
    <3> DEFINE v == [heard EXCEPT !.inv.st = "proceeding", !.inv.resp = "1xx"]
    <3>1. Ict(w, e) = v
      BY <1>4, <2>3 DEF Ict, Refusals
    <3>2. /\ v \in World /\ v.dialog = w.dialog /\ v.told = w.told /\ v.inv.resp = "1xx"
          /\ v.inv.st = "proceeding" /\ v.inv.q = w.inv.q
      BY <1>1 DEF World, InviteType
    <3> HIDE DEF v
    <3>3. Decided(v, A)
      BY <2>2, <3>2 DEF Decided
    <3> QED
      BY <2>1, <3>1, <3>2, <3>3 DEF Good, Acknowledged
  <2>4. CASE e[1] = "1xx"
    <3> DEFINE v == [heard EXCEPT !.inv.st = "proceeding"]
    <3>1. Ict(w, e) = cb_rcv1xx(v, e[2])
      BY <1>4, <2>4 DEF Ict, Refusals
    <3>2. /\ v \in World /\ v.dialog = w.dialog /\ v.told = w.told /\ v.inv.resp = "1xx"
          /\ v.inv.st = "proceeding" /\ v.inv.q = w.inv.q
      BY <1>1, <2>4 DEF World, InviteType
    <3> HIDE DEF v
    <3>3. Decided(v, A)
      BY <2>2, <3>2 DEF Decided
    <3>4. Good(v, A, B)
      BY <2>1, <3>2, <3>3 DEF Good, Acknowledged
    <3>5. Good(cb_rcv1xx(v, e[2]), A, B)
      BY <1>1, <3>2, <3>4, RingsGood
    <3>6. cb_rcv1xx(v, e[2]).inv = v.inv
      BY <3>2 DEF cb_rcv1xx, Tell, World
    <3> QED
      BY <3>1, <3>2, <3>5, <3>6
  <2>5. CASE e[1] = "2xx"
    <3> DEFINE v == [heard EXCEPT !.inv.st = Ended(@)]
    <3>1. Ict(w, e) = cb_rcv2xx_4invite(v, e[2])
      BY <1>4, <2>5 DEF Ict, Refusals
    <3>2. v \in World /\ v.inv.resp = "2xx" /\ v.inv.st = "terminated" /\ v.inv.q = w.inv.q
      BY <1>1, <2>5 DEF World, InviteType, Ended
    <3> HIDE DEF v
    <3>3. Good(cb_rcv2xx_4invite(v, e[2]), A, FALSE)
      BY <2>5, <3>2, AnswersGood
    <3>4. cb_rcv2xx_4invite(v, e[2]).inv = v.inv
      BY <3>2 DEF cb_rcv2xx_4invite, World
    <3> QED
      BY <2>1, <3>1, <3>2, <3>3, <3>4
  <2>6. CASE e[1] \in Refusals
    <3> DEFINE v == [heard EXCEPT !.inv.st = "completed"]
               u == [v EXCEPT !.dialog.state = IF @ = "early" THEN "null" ELSE @]
    <3>1. Ict(w, e) = Tell(u, "CALL_REFUSED")
      BY <1>4, <2>6 DEF Ict, Refusals, cb_rcv3456xx
    <3>2. v \in World /\ v.dialog = w.dialog /\ v.told = w.told /\ v.inv.resp = e[1]
          /\ v.inv.st = "completed" /\ v.inv.q = w.inv.q
      BY <1>1, <2>6 DEF World, InviteType
    <3> HIDE DEF v
    <3>3. /\ u \in World /\ u.inv = v.inv /\ u.told = w.told
          /\ u.dialog.state \notin {"early", "confirmed"}
      BY <2>2, <3>2 DEF World, DialogType
    <3> HIDE DEF u
    <3>4. /\ Tell(u, "CALL_REFUSED") \in World /\ Tell(u, "CALL_REFUSED").inv = v.inv
          /\ Tell(u, "CALL_REFUSED").dialog = u.dialog
          /\ \A t \in Callees : <<"CALL_ANSWERED", t>> \notin Tell(u, "CALL_REFUSED").told
      BY <2>2, <3>3 DEF Tell, World, Anyone
    <3>5. e[1] # "2xx"
      BY <2>6 DEF Refusals
    <3>6. Decided(Tell(u, "CALL_REFUSED"), A)
      BY <3>2, <3>3, <3>4, <3>5 DEF Decided
    <3> QED
      BY <2>1, <3>1, <3>2, <3>4, <3>6 DEF Good, Acknowledged
  <2> QED
    BY <1>1, <1>4, <2>3, <2>4, <2>5, <2>6
<1> QED
  BY <1>2, <1>3, <1>4 DEF Good

\* What neither hears nor answers: the dialog may go, and the transaction end.
LEMMA MovesGood ==
  ASSUME NEW A, NEW B \in BOOLEAN, NEW w, Good(w, A, B), NEW v \in World,
         v.inv.resp = w.inv.resp,
         v.inv.st = w.inv.st \/ v.inv.st = "terminated",
         \/ /\ v.dialog.state = w.dialog.state /\ v.dialog.tag = w.dialog.tag
            /\ v.dialog.ack = w.dialog.ack
         \/ v.dialog.state \notin {"early", "confirmed"},
         \A t \in Callees : <<"CALL_ANSWERED", t>> \in v.told => <<"CALL_ANSWERED", t>> \in w.told
  PROVE  Good(v, A, B)
<1>1. Decided(v, A)
  BY DEF Good, Decided
<1>2. Live(v.dialog) => Live(w.dialog) /\ v.dialog.ack = w.dialog.ack
  BY DEF Live
<1>3. Acknowledged(v, B)
  BY <1>2, Zenon DEF Good, Acknowledged
<1> QED
  BY <1>1, <1>3 DEF Good

\* An event that is no answer is told of.
LEMMA TellGood ==
  ASSUME NEW A, NEW B \in BOOLEAN, NEW w, Good(w, A, B),
         NEW e \in {"CALL_RINGING", "CALL_REFUSED", "CALL_CLOSED", "CALL_RELEASED", "CALL_NOANSWER"}
  PROVE  Good(Tell(w, e), A, B) /\ Tell(w, e).inv = w.inv
<1> DEFINE v == Tell(w, e)
<1>1. w \in World
  BY DEF Good
<1>2. /\ v \in World /\ v.inv = w.inv /\ v.dialog = w.dialog
      /\ v.told = w.told \cup {<<e, NoOne>>}
  BY <1>1 DEF Tell, World, Anyone
<1> HIDE DEF v
<1>3. Good(v, A, B)
  BY <1>2, MovesGood
<1> QED
  BY <1>2, <1>3 DEF v

\* The function that executes the queue exists: it is built up, event by event.
LEMMA IctUnfolds ==
  ASSUME NEW w, Len(w.inv.q) \in Nat
  PROVE  LET after[n \in 0 .. Len(w.inv.q)] == IF n = 0 THEN w ELSE Ict(after[n-1], w.inv.q[n])
         IN after = [n \in 0 .. Len(w.inv.q) |->
                       IF n = 0 THEN w ELSE Ict(after[n-1], w.inv.q[n])]
<1> DEFINE Len0 == Len(w.inv.q)
           Step(g, n) == IF n = 0 THEN w ELSE Ict(g[n-1], w.inv.q[n])
           Built(g, k) == g = [n \in 0 .. k |-> Step(g, n)]
           G == {k \in Nat : \E g : Built(g, k)}
<1>1. 0 \in G
  <2> DEFINE g == [n \in 0 .. 0 |-> w]
  <2>1. g = [n \in 0 .. 0 |-> Step(g, n)]
    OBVIOUS
  <2> QED
    BY <2>1
<1>2. ASSUME NEW k \in Nat, k \in G PROVE k + 1 \in G
  <2>1. PICK g : Built(g, k)
    BY <1>2
  <2> DEFINE h == [n \in 0 .. k + 1 |-> IF n = k + 1 THEN Step(g, n) ELSE g[n]]
  <2>2. ASSUME NEW n \in 0 .. k + 1 PROVE h[n] = Step(h, n)
    <3>1. CASE n = k + 1
      <4>1. h[n] = Ict(g[n-1], w.inv.q[n]) /\ n - 1 \in 0 .. k + 1 /\ n - 1 # k + 1 /\ n # 0
        BY <3>1
      <4>2. h[n-1] = g[n-1]
        BY <4>1
      <4> QED
        BY <4>1, <4>2
    <3>2. CASE n # k + 1
      <4>1. n \in 0 .. k /\ h[n] = g[n] /\ g[n] = Step(g, n)
        BY <2>1, <3>2
      <4>2. n # 0 => n - 1 \in 0 .. k + 1 /\ n - 1 # k + 1 /\ h[n-1] = g[n-1]
        BY <4>1
      <4> QED
        BY <4>1, <4>2
    <3> QED
      BY <3>1, <3>2
  <2>3. Built(h, k + 1)
    <3> HIDE DEF Step
    <3>1. h = [n \in 0 .. k + 1 |-> h[n]]
      OBVIOUS
    <3> QED
      BY <2>2, <3>1
  <2> HIDE DEF Built, h
  <2>4. \E g2 : Built(g2, k + 1)
    BY <2>3
  <2> QED
    BY <2>4
<1>3. \E g : Built(g, Len0)
  <2> HIDE DEF Built
  <2>1. Nat \subseteq G
    BY <1>1, <1>2, Induction
  <2> QED
    BY <2>1
<1> QED
  BY <1>3

LEMMA IctExecuteGood ==
  ASSUME NEW A, A \subseteq Callees, NEW B \in BOOLEAN, NEW w, Good(w, A, B), Fifo(w.inv, A)
  PROVE  Good(osip_ict_execute(w), A, B) /\ osip_ict_execute(w).inv.q = <<>>
<1> DEFINE Size == Len(w.inv.q)
           after[n \in 0 .. Size] == IF n = 0 THEN w ELSE Ict(after[n-1], w.inv.q[n])
           G == {n \in Nat : n <= Size => Good(after[n], A, B)}
<1>1. w.inv.q \in Seq(QueueEvents) /\ Size \in Nat
  <2>1. w.inv.q \in Seq(QueueEvents)
    BY DEF Good, World, InviteType
  <2> QED
    BY <2>1
<1>2. \A n \in 0 .. Size : after[n] = IF n = 0 THEN w ELSE Ict(after[n-1], w.inv.q[n])
  <2>1. after = [n \in 0 .. Size |-> IF n = 0 THEN w ELSE Ict(after[n-1], w.inv.q[n])]
    BY <1>1, IctUnfolds
  <2> HIDE DEF after
  <2> QED
    BY <2>1, Zenon
<1> HIDE DEF after
<1>3. 0 \in G
  BY <1>1, <1>2
<1>4. ASSUME NEW n \in Nat, n \in G PROVE n + 1 \in G
  <2> SUFFICES ASSUME n + 1 <= Size
               PROVE  Good(after[n+1], A, B)
    OBVIOUS
  <2>1. Good(after[n], A, B)
    BY <1>1, <1>4
  <2>2. w.inv.q[n+1] \in QueueEvents /\ n + 1 \in 1 .. Size
    BY <1>1
  <2>3. after[n+1] = Ict(after[n], w.inv.q[n+1])
    BY <1>1, <1>2
  <2>4. w.inv.q[n+1][1] = "SND" => after[n].inv.resp = "none"
    <3> SUFFICES ASSUME w.inv.q[n+1][1] = "SND" PROVE after[n].inv.resp = "none"
      OBVIOUS
    <3>1. w.inv.st = "precalling" /\ w.inv.q \in {<<>>, <<<<"SND", NoOne>>>>}
      BY <2>2 DEF Fifo
    <3>2. n = 0
      BY <2>2, <3>1
    <3>3. w.inv.resp = "none"
      BY <3>1 DEF Good, Decided
    <3> QED
      BY <1>1, <1>2, <3>2, <3>3
  <2>5. w.inv.q[n+1][1] = "2xx" => w.inv.q[n+1][2] \in A
    BY <2>2 DEF Fifo
  <2> QED
    BY <2>1, <2>2, <2>3, <2>4, <2>5, IctGood
<1>5. Good(after[Size], A, B)
  <2>1. Nat \subseteq G
    <3> HIDE DEF G
    <3> QED
      BY <1>3, <1>4, Induction
  <2> QED
    BY <1>1, <2>1
<1> DEFINE t == after[Size]
           v == [t EXCEPT !.inv.q = <<>>]
<1>6. osip_ict_execute(w) = v
  BY DEF osip_ict_execute, after
<1>7. <<>> \in Seq(QueueEvents)
  OBVIOUS
<1> HIDE DEF Size, t
<1>8. t \in World /\ t.inv \in InviteType
  <2>1. t \in World
    BY <1>5 DEF Good, t
  <2> QED
    BY <2>1 DEF World
<1>9. /\ v \in World /\ v.inv.st = t.inv.st /\ v.inv.resp = t.inv.resp /\ v.inv.q = <<>>
      /\ v.dialog = t.dialog /\ v.told = t.told
  <2>1. PICK none \in Seq(QueueEvents) : none = <<>>
    BY <1>7
  <2>2. PICK i : i = [t.inv EXCEPT !.q = none]
    OBVIOUS
  <2>3. i \in InviteType /\ i.st = t.inv.st /\ i.resp = t.inv.resp /\ i.q = none
    BY <1>8, <2>2 DEF InviteType
  <2>4. v = [t EXCEPT !.inv = i]
    BY <1>8, <2>1, <2>2 DEF World
  <2> HIDE DEF v
  <2> QED
    BY <1>8, <2>1, <2>3, <2>4 DEF World
<1> HIDE DEF v
<1>10. Good(v, A, B)
  BY <1>5, <1>9, MovesGood DEF t
<1> QED
  BY <1>6, <1>9, <1>10 DEF v

LEMMA NictExecuteGood ==
  ASSUME NEW A, NEW B \in BOOLEAN, NEW w, Good(w, A, B)
  PROVE  Good(osip_nict_execute(w), A, B) /\ osip_nict_execute(w).inv = w.inv
<1> DEFINE v == osip_nict_execute(w)
<1>1. w \in World
  BY DEF Good
<1>2. /\ v \in World /\ v.inv = w.inv /\ v.told = w.told
      /\ v.dialog.state = w.dialog.state /\ v.dialog.tag = w.dialog.tag
      /\ v.dialog.ack = w.dialog.ack
  BY <1>1 DEF osip_nict_execute, World, DialogType, CallType, Requested
<1> HIDE DEF v
<1>3. Good(v, A, B)
  BY <1>2, MovesGood
<1> QED
  BY <1>2, <1>3 DEF v

-----------------------------------------------------------------------------
(* Timers, and the release *)

LEMMA ExpiredGood ==
  ASSUME NEW A, NEW B \in BOOLEAN, NEW w, Good(w, A, B), NEW x
  PROVE  Good(Expired(w, x), A, B) /\ Expired(w, x).inv.q = w.inv.q
<1>1. w \in World
  BY DEF Good
<1>2. PICK v : v = Expired(w, x)
  OBVIOUS
<1>3. /\ v \in World /\ v.told = w.told
      /\ v.inv.resp = w.inv.resp /\ v.inv.q = w.inv.q
      /\ v.inv.st = w.inv.st \/ v.inv.st = "terminated"
      /\ v.dialog.state = w.dialog.state /\ v.dialog.tag = w.dialog.tag
      /\ v.dialog.ack = w.dialog.ack
  <2>1. CASE x = "inv"
    BY <1>1, <1>2, <2>1 DEF Expired, World, InviteType
  <2>2. CASE x = "bye"
    BY <1>1, <1>2, <2>2 DEF Expired, World, DialogType, Requested
  <2>3. CASE x = "byeIn"
    BY <1>1, <1>2, <2>3 DEF Expired, World, DialogType, Requested
  <2>4. CASE x \notin {"inv", "bye", "byeIn"}
    BY <1>1, <1>2, <2>4 DEF Expired
  <2> QED
    BY <2>1, <2>2, <2>3, <2>4
<1>4. Good(v, A, B)
  BY <1>3, MovesGood
<1> QED
  BY <1>2, <1>3, <1>4

\* A dialog or the call is freed.
LEMMA FreeGood ==
  ASSUME NEW A, NEW B \in BOOLEAN, NEW w, Good(w, A, B)
  PROVE  /\ Good([w EXCEPT !.dialog = NoDialog], A, B)
         /\ [w EXCEPT !.dialog = NoDialog].inv = w.inv
         /\ Good([w EXCEPT !.call.dead = FALSE], A, B)
         /\ [w EXCEPT !.call.dead = FALSE].inv = w.inv
         /\ Good(_eXosip_release_call(w), A, B)
         /\ _eXosip_release_call(w).inv = w.inv
<1>1. w \in World
  BY DEF Good
<1>2. NoDialog \in DialogType /\ NoDialog.state = "none"
  BY DEF NoDialog, DialogType, Anyone, Requested
<1> DEFINE u == [w EXCEPT !.dialog = NoDialog]
           v == [w EXCEPT !.call.dead = FALSE]
           r == [w EXCEPT !.call.state = "released", !.call.dead = FALSE, !.dialog = NoDialog]
<1>3. u \in World /\ u.inv = w.inv /\ u.told = w.told /\ u.dialog.state = "none"
  BY <1>1, <1>2 DEF World
<1>4. v \in World /\ v.inv = w.inv /\ v.told = w.told /\ v.dialog = w.dialog
  BY <1>1 DEF World, CallType
<1>5. r \in World /\ r.inv = w.inv /\ r.told = w.told /\ r.dialog.state = "none"
  BY <1>1, <1>2 DEF World, CallType
<1>6. _eXosip_release_call(w) = Tell(r, "CALL_RELEASED")
  BY DEF _eXosip_release_call
<1> HIDE DEF u, v, r
<1>7. Good(u, A, B) /\ Good(v, A, B) /\ Good(r, A, B)
  BY <1>3, <1>4, <1>5, MovesGood
<1> QED
  BY <1>3, <1>4, <1>5, <1>6, <1>7, TellGood DEF u, v

LEMMA ReleaseGood ==
  ASSUME NEW A, NEW B \in BOOLEAN, NEW w, Good(w, A, B), NEW rested \in BOOLEAN
  PROVE  /\ Good(_eXosip_release_terminated_calls(w, rested), A, B)
         /\ _eXosip_release_terminated_calls(w, rested).inv = w.inv
<1> DEFINE Fine(v) == Good(v, A, B) /\ v.inv = w.inv
<1>1. \A v : Fine(v) => /\ Fine([v EXCEPT !.dialog = NoDialog])
                        /\ Fine([v EXCEPT !.call.dead = FALSE])
                        /\ Fine(_eXosip_release_call(v))
                        /\ Fine(Tell(v, "CALL_NOANSWER"))
  BY FreeGood, TellGood
<1> HIDE DEF Fine
<1>2. \A v : Fine(v) => Fine(ReleaseDialog(v))
  BY <1>1 DEF ReleaseDialog
<1>3. \A v : Fine(v) => Fine(ReleaseDead(v))
  BY <1>1 DEF ReleaseDead
<1>4. \A v : Fine(v) => Fine(ReleaseCall(v, rested))
  BY <1>1 DEF ReleaseCall
<1>5. Fine(w)
  BY DEF Fine
<1>6. Fine(_eXosip_release_terminated_calls(w, rested))
  BY <1>2, <1>3, <1>4, <1>5 DEF _eXosip_release_terminated_calls
<1> QED
  BY <1>6 DEF Fine

-----------------------------------------------------------------------------
(* The steps *)

Answers == callee.answered

LEMMA InitInv == Init => OutInv
<1> SUFFICES ASSUME Init PROVE OutInv
  OBVIOUS
<1>1. <<>> \in Seq(QueueEvents) /\ Len(<<>>) = 0
  OBVIOUS
<1>2. /\ inv \in InviteType /\ inv.st = "precalling" /\ inv.resp = "none" /\ inv.q = <<>>
  BY <1>1 DEF Init, NewInvite, InviteType
<1>3. dialog \in DialogType /\ dialog.state = "none"
  BY DEF Init, NoDialog, DialogType, Anyone, Requested
<1>4. call \in CallType
  BY DEF Init, CallType
<1>5. Before \in World
  BY <1>2, <1>3, <1>4 DEF Before, World, Init
<1>6. Talking = {}
  BY DEF Talking, Init
<1>7. Good(Before, callee.answered, Talking # {})
  BY <1>2, <1>3, <1>5, <1>6 DEF Good, Decided, Acknowledged, Before, Init
<1>8. Fifo(inv, callee.answered)
  BY <1>1, <1>2 DEF Fifo
<1> QED
  BY <1>6, <1>7, <1>8 DEF OutInv, Init, OnlyWhoAnswered

\* What the four variables of a world are.
LEMMA BeforeIs == /\ Before.inv = inv /\ Before.dialog = dialog
                  /\ Before.call = call /\ Before.told = told
  BY DEF Before

\* A response is queued, or finds no transaction.
LEMMA ResponseInv ==
  ASSUME OutInv, NEW e \in QueueEvents, Response(e), NEW A, Answers \subseteq A,
         e[1] # "SND", e[1] = "2xx" => e[2] \in A
  PROVE  /\ inv' \in InviteType /\ inv'.st = inv.st /\ inv'.resp = inv.resp
         /\ Fifo(inv', A)
<1>1. inv \in InviteType /\ Fifo(inv, Answers)
  BY BeforeIs DEF OutInv, Good, World, Answers
<1>2. inv.st # "precalling"
  BY DEF Response
<1>3. CASE ~InOsip
  BY <1>1, <1>3 DEF Response, Fifo
<1>4. CASE InOsip
  <2>1. PICK q : q = Append(inv.q, e)
    OBVIOUS
  <2>2. inv.q \in Seq(QueueEvents)
    BY <1>1 DEF InviteType
  <2>3. /\ q \in Seq(QueueEvents) /\ Len(q) = Len(inv.q) + 1 /\ q[Len(inv.q) + 1] = e
        /\ \A n \in 1 .. Len(inv.q) : q[n] = inv.q[n]
    BY <2>1, <2>2
  <2>4. inv' = [inv EXCEPT !.q = q]
    BY <1>4, <2>1 DEF Response
  <2>5. inv' \in InviteType /\ inv'.st = inv.st /\ inv'.resp = inv.resp /\ inv'.q = q
    BY <1>1, <2>3, <2>4 DEF InviteType
  <2>6. \A n \in 1 .. Len(q) : n \in 1 .. Len(inv.q) \/ q[n] = e
    BY <2>2, <2>3
  <2>7. \A n \in 1 .. Len(q) : /\ q[n][1] # "SND"
                               /\ q[n][1] = "2xx" => q[n][2] \in A
    BY <1>1, <1>2, <2>3, <2>6 DEF Fifo
  <2> QED
    BY <1>2, <2>5, <2>7 DEF Fifo
<1> QED
  BY <1>3, <1>4

\* Steps of the network that leave the dialog and what was sent alone.
LEMMA QuietInv ==
  ASSUME OutInv, inv' \in InviteType, inv'.st = inv.st, inv'.resp = inv.resp,
         Fifo(inv', callee'.answered),
         callee.answered \subseteq callee'.answered,
         callee' \in [answered : SUBSET Callees, hungUp : SUBSET Callees,
                      refusal : {"none"} \cup Refusals],
         UNCHANGED <<call, dialog, told, sent>>
  PROVE  OutInv'
<1>1. Talking' = Talking /\ Before \in World
  BY DEF Talking, OutInv, Good
<1>2. Before' \in World
  BY <1>1 DEF Before, World
<1>3. Before'.inv = inv' /\ Before'.dialog = dialog /\ Before'.told = told
  BY DEF Before
<1>4. Decided(Before', callee'.answered)
  BY <1>3, BeforeIs DEF Decided, OutInv, Good
<1>5. Acknowledged(Before', (Talking # {})')
  BY <1>1, <1>3, BeforeIs DEF Acknowledged, OutInv, Good
<1>6. OnlyWhoAnswered'
  BY DEF OutInv, OnlyWhoAnswered
<1> QED
  BY <1>1, <1>2, <1>4, <1>5, <1>6 DEF OutInv, Good

\* Steps that send nothing.
LEMMA SameSent ==
  ASSUME OutInv, sent' = sent,
         Good(Before', callee'.answered, Talking # {}), Fifo(inv', callee'.answered),
         callee.answered \subseteq callee'.answered,
         callee' \in [answered : SUBSET Callees, hungUp : SUBSET Callees,
                      refusal : {"none"} \cup Refusals]
  PROVE  OutInv'
<1>1. Talking' = Talking
  BY DEF Talking
<1>2. OnlyWhoAnswered'
  BY DEF OutInv, OnlyWhoAnswered
<1> QED
  BY <1>1, <1>2 DEF OutInv

\* The network is silent, or a response to the INVITE comes.
LEMMA HearsInv ==
  ASSUME OutInv, ReadNothing \/ Rcv100 \/ (\E t \in Callees : Rcv1xx(t))
                 \/ (\E r \in Refusals : RcvRefusal(r))
  PROVE  OutInv'
<1> USE DEF Answers
<1>1. CASE ReadNothing
  <2>1. inv \in InviteType /\ inv' = inv /\ callee' = callee /\ Fifo(inv, callee.answered)
    BY <1>1, BeforeIs DEF ReadNothing, OutInv, Good, World
  <2> QED
    BY <1>1, <2>1, QuietInv DEF ReadNothing, OutInv
<1>2. CASE Rcv100
  <2>1. <<"100", NoOne>> \in QueueEvents
    BY DEF QueueEvents, Anyone
  <2>2. /\ Response(<<"100", NoOne>>) /\ callee' = callee
        /\ UNCHANGED <<call, dialog, told, sent>>
    BY <1>2 DEF Rcv100
  <2>3. /\ inv' \in InviteType /\ inv'.st = inv.st /\ inv'.resp = inv.resp
        /\ Fifo(inv', callee'.answered)
    BY <2>1, <2>2, ResponseInv
  <2> QED
    BY <2>2, <2>3, QuietInv DEF OutInv
<1>3. ASSUME NEW t \in Callees, Rcv1xx(t) PROVE OutInv'
  <2>1. <<"1xx", t>> \in QueueEvents
    BY DEF QueueEvents, Anyone
  <2>2. /\ Response(<<"1xx", t>>) /\ callee' = callee
        /\ UNCHANGED <<call, dialog, told, sent>>
    BY <1>3 DEF Rcv1xx
  <2>3. /\ inv' \in InviteType /\ inv'.st = inv.st /\ inv'.resp = inv.resp
        /\ Fifo(inv', callee'.answered)
    BY <2>1, <2>2, ResponseInv
  <2> QED
    BY <2>2, <2>3, QuietInv DEF OutInv
<1>4. ASSUME NEW r \in Refusals, RcvRefusal(r) PROVE OutInv'
  <2>1. <<r, NoOne>> \in QueueEvents /\ r \notin {"SND", "2xx"}
    BY DEF QueueEvents, Anyone, Refusals
  <2>2. /\ Response(<<r, NoOne>>) /\ callee' = [callee EXCEPT !.refusal = r]
        /\ UNCHANGED <<call, dialog, told, sent>>
    BY <1>4 DEF RcvRefusal
  <2>3. /\ callee'.answered = callee.answered
        /\ callee' \in [answered : SUBSET Callees, hungUp : SUBSET Callees,
                         refusal : {"none"} \cup Refusals]
    BY <2>2 DEF OutInv
  <2>4. /\ inv' \in InviteType /\ inv'.st = inv.st /\ inv'.resp = inv.resp
        /\ Fifo(inv', callee'.answered)
    BY <2>1, <2>2, <2>3, ResponseInv
  <2> QED
    BY <2>2, <2>3, <2>4, QuietInv
<1> QED
  BY <1>1, <1>2, <1>3, <1>4

\* The 200 of a callee: with its transaction gone, it may be met with ACK and BYE.
LEMMA Rcv2xxInv ==
  ASSUME OutInv, NEW t \in Callees, Rcv2xx(t) PROVE OutInv'
<1> USE DEF Answers
<1>1. <<"2xx", t>> \in QueueEvents /\ t \in callee.answered
  BY DEF QueueEvents, Anyone, Rcv2xx
<1>2. Response(<<"2xx", t>>) /\ callee' = callee /\ UNCHANGED <<call, dialog, told>>
  BY DEF Rcv2xx
<1>3. /\ inv' \in InviteType /\ inv'.st = inv.st /\ inv'.resp = inv.resp
      /\ Fifo(inv', callee'.answered)
  BY <1>1, <1>2, ResponseInv
<1>4. CASE sent' = sent
  BY <1>2, <1>3, <1>4, QuietInv DEF OutInv
<1>5. CASE sent' = sent \cup {<<"ACK", t>>, <<"BYE", t>>}
  <2>1. Talking' \subseteq Talking
    BY <1>5 DEF Talking
  <2>2. Before' \in World /\ Before'.inv = inv' /\ Before'.dialog = dialog /\ Before'.told = told
    BY <1>2, <1>3 DEF Before, World, OutInv, Good
  <2>3. Decided(Before', callee.answered)
    BY <1>3, <2>2, BeforeIs DEF Decided, OutInv, Good
  <2>4. Acknowledged(Before', (Talking # {})')
    BY <1>3, <2>1, <2>2, BeforeIs DEF Acknowledged, OutInv, Good
  <2>5. OnlyWhoAnswered' /\ (sent \subseteq {"ACK", "BYE"} \X Anyone)'
    BY <1>1, <1>2, <1>5 DEF OnlyWhoAnswered, OutInv, Anyone
  <2> QED
    BY <1>2, <1>3, <2>1, <2>2, <2>3, <2>4, <2>5 DEF OutInv, Good
<1> QED
  BY <1>4, <1>5 DEF Rcv2xx, _eXosip_process_response_out_of_transaction

\* A callee hangs up: its dialog is closed.
LEMMA RcvByeInv ==
  ASSUME OutInv, NEW t \in Callees, RcvBye(t) PROVE OutInv'
<1>1. /\ callee'.answered = callee.answered
      /\ callee' \in [answered : SUBSET Callees, hungUp : SUBSET Callees,
                       refusal : {"none"} \cup Refusals]
  BY DEF RcvBye, OutInv
<1>2. Before \in World
  BY DEF OutInv, Good
<1>3. \/ dialog' = dialog /\ told' = told
      \/ /\ dialog' = [dialog EXCEPT !.state = "null", !.byeIn = "completed"]
         /\ told' = told \cup {<<"CALL_CLOSED", NoOne>>}
  BY DEF RcvBye
<1>4. dialog' \in DialogType /\ (dialog' = dialog \/ dialog'.state = "null")
  BY <1>2, <1>3 DEF Before, World, DialogType, Requested
<1>5. Before' \in World /\ Before'.inv = inv /\ Before'.dialog = dialog' /\ Before'.told = told'
  BY <1>2, <1>3, <1>4 DEF Before, World, RcvBye, Anyone
<1>6. \A x \in Callees : <<"CALL_ANSWERED", x>> \in told' => <<"CALL_ANSWERED", x>> \in told
  BY <1>3
<1>7. Good(Before', callee.answered, Talking # {})
  BY <1>4, <1>5, <1>6, BeforeIs, MovesGood DEF OutInv
<1> QED
  BY <1>1, <1>7, SameSent DEF RcvBye, OutInv

\* A callee answers, for itself.
LEMMA AnswerInv ==
  ASSUME OutInv, NEW t \in Callees, Answer(t) PROVE OutInv'
<1>1. /\ callee.answered \subseteq callee'.answered
      /\ callee' \in [answered : SUBSET Callees, hungUp : SUBSET Callees,
                       refusal : {"none"} \cup Refusals]
  BY DEF Answer, OutInv
<1>2. inv \in InviteType /\ inv' = inv /\ Fifo(inv, callee.answered)
  BY BeforeIs DEF Answer, OutInv, Good, World
<1>3. Fifo(inv', callee'.answered)
  BY <1>1, <1>2 DEF Fifo
<1> QED
  BY <1>1, <1>2, <1>3, QuietInv DEF Answer

\* The BYE is answered, the application gives up before an answer, time passes.
LEMMA SmallStepsInv ==
  ASSUME OutInv, RcvByeAnswer \/ Age \/ ExpireTime \/ eXosip_call_send_initial_invite
  PROVE  OutInv'
<1>1. Before \in World /\ Fifo(inv, callee.answered)
  BY DEF OutInv, Good
<1>2. inv \in InviteType /\ dialog \in DialogType /\ call \in CallType
  BY <1>1, BeforeIs DEF World
<1>3. CASE RcvByeAnswer
  <2>1. dialog' \in DialogType /\ dialog'.state = dialog.state /\ dialog'.tag = dialog.tag
        /\ dialog'.ack = dialog.ack
    BY <1>2, <1>3 DEF RcvByeAnswer, DialogType, Requested
  <2>2. Before' \in World /\ Before'.inv = inv /\ Before'.dialog = dialog' /\ Before'.told = told
    BY <1>1, <1>3, <2>1 DEF RcvByeAnswer, Before, World
  <2>3. Good(Before', callee.answered, Talking # {})
    BY <2>1, <2>2, BeforeIs, MovesGood DEF OutInv
  <2> QED
    BY <1>1, <1>3, <2>3, SameSent DEF RcvByeAnswer, OutInv
<1>4. CASE Age
  <2>1. inv' \in InviteType /\ inv'.st = inv.st /\ inv'.resp = inv.resp /\ inv'.q = inv.q
    BY <1>2, <1>4 DEF Age, InviteType
  <2>2. Fifo(inv', callee.answered)
    BY <1>1, <2>1 DEF Fifo
  <2> QED
    BY <1>4, <2>1, <2>2, QuietInv DEF Age, OutInv
<1>5. CASE ExpireTime
  <2>1. Before' \in World /\ Before'.inv = inv /\ Before'.dialog = dialog /\ Before'.told = told
    BY <1>1, <1>5 DEF ExpireTime, Before, World, CallType
  <2>2. Good(Before', callee.answered, Talking # {})
    BY <2>1, BeforeIs, MovesGood DEF OutInv
  <2> QED
    BY <1>1, <1>5, <2>2, SameSent DEF ExpireTime, OutInv
<1>6. CASE eXosip_call_send_initial_invite
  <2>1. PICK q : q = <<<<"SND", NoOne>>>>
    OBVIOUS
  <2>2. q \in Seq(QueueEvents) /\ \A n \in 1 .. Len(q) : q[n][1] # "2xx"
    BY <2>1 DEF QueueEvents, Anyone
  <2>3. inv' = [inv EXCEPT !.q = q] /\ inv.st = "precalling"
    BY <1>6, <2>1 DEF eXosip_call_send_initial_invite
  <2>4. inv' \in InviteType /\ inv'.st = inv.st /\ inv'.resp = inv.resp /\ inv'.q = q
    BY <1>2, <2>2, <2>3 DEF InviteType
  <2>5. Fifo(inv', callee.answered)
    BY <2>1, <2>2, <2>3, <2>4 DEF Fifo
  <2> QED
    BY <1>6, <2>4, <2>5, QuietInv DEF eXosip_call_send_initial_invite, OutInv
<1> QED
  BY <1>3, <1>4, <1>5, <1>6

\* The ACK of the application goes to the callee whose answer is kept in the dialog.
LEMMA SendAckInv ==
  ASSUME OutInv, NEW t \in Callees, eXosip_call_send_ack(t) PROVE OutInv'
<1>1. Before \in World /\ dialog \in DialogType
  BY BeforeIs DEF OutInv, Good, World
<1>2. inv.resp = "2xx" /\ dialog.state = "confirmed" /\ dialog.tag \in callee.answered
  BY BeforeIs DEF eXosip_call_send_ack, OutInv, Good, Decided, Live
<1>3. Talking = {}
  BY BeforeIs DEF eXosip_call_send_ack, OutInv, Good, Acknowledged
<1>4. sent' = sent \cup {<<"ACK", dialog.tag>>} /\ callee' = callee /\ inv' = inv /\ told' = told
  BY DEF eXosip_call_send_ack
<1>5. dialog' \in DialogType /\ dialog'.state = dialog.state /\ dialog'.tag = dialog.tag /\ dialog'.ack
  BY <1>1 DEF eXosip_call_send_ack, DialogType
<1>6. Talking' \subseteq {dialog.tag}
  BY <1>3, <1>4 DEF Talking
<1>7. Before' \in World /\ Before'.inv = inv /\ Before'.dialog = dialog' /\ Before'.told = told
  BY <1>1, <1>5 DEF eXosip_call_send_ack, Before, World
<1>8. Decided(Before', callee.answered)
  BY <1>5, <1>7, BeforeIs DEF Decided, OutInv, Good
<1>9. Acknowledged(Before', (Talking # {})')
  BY <1>2, <1>5, <1>7, Zenon DEF Acknowledged
<1>10. OnlyWhoAnswered' /\ (sent \subseteq {"ACK", "BYE"} \X Anyone)'
  BY <1>1, <1>2, <1>4 DEF OnlyWhoAnswered, OutInv, DialogType
<1> QED
  BY <1>4, <1>6, <1>7, <1>8, <1>9, <1>10 DEF OutInv, Good

\* The BYE of the application goes out in a confirmed dialog only: with an early one the
\* last response is a 1xx, and the call is cancelled.
LEMMA TerminateInv ==
  ASSUME OutInv, Terminate PROVE OutInv'
<1>1. Before \in World /\ dialog \in DialogType /\ call \in CallType
  BY BeforeIs DEF OutInv, Good, World
<1>2. CASE sent' = sent /\ dialog' = dialog /\ call' = [call EXCEPT !.cancel = "queued"]
  <2>1. Before' \in World /\ Before'.inv = inv /\ Before'.dialog = dialog /\ Before'.told = told
    BY <1>1, <1>2 DEF Terminate, Before, World, CallType
  <2>2. Good(Before', callee.answered, Talking # {})
    BY <2>1, BeforeIs, MovesGood DEF OutInv
  <2> QED
    BY <1>2, <2>2, SameSent DEF Terminate, OutInv
<1>3. CASE /\ Live(dialog) /\ (dialog.state = "confirmed" \/ inv.resp # "1xx")
           /\ dialog' = [dialog EXCEPT !.state = "null", !.bye = "queued"]
           /\ sent' = sent \cup {<<"BYE", dialog.tag>>} /\ call' = call
  <2>1. dialog.state = "confirmed" /\ dialog.tag \in callee.answered
    BY <1>3, BeforeIs DEF OutInv, Good, Decided, Live
  <2>2. dialog' \in DialogType /\ dialog'.state = "null"
    BY <1>1, <1>3 DEF DialogType, Requested
  <2>3. Talking' \subseteq Talking
    BY <1>3 DEF Talking
  <2>4. Before' \in World /\ Before'.inv = inv /\ Before'.dialog = dialog' /\ Before'.told = told
    BY <1>1, <1>3, <2>2 DEF Terminate, Before, World
  <2>5. Decided(Before', callee.answered)
    BY <2>2, <2>4, BeforeIs DEF Decided, OutInv, Good
  <2>6. Acknowledged(Before', (Talking # {})')
    BY <2>2, <2>3, <2>4, BeforeIs DEF Acknowledged, OutInv, Good, Live
  <2>7. OnlyWhoAnswered' /\ (sent \subseteq {"ACK", "BYE"} \X Anyone)'
    BY <1>1, <1>3, <2>1 DEF OnlyWhoAnswered, OutInv, DialogType, Terminate
  <2> QED
    BY <2>3, <2>4, <2>5, <2>6, <2>7 DEF OutInv, Good, Terminate
<1> QED
  BY <1>2, <1>3 DEF Terminate

\* A new attempt follows a refusal, and so nobody talks.
LEMMA RetryInv ==
  ASSUME OutInv, eXosip_automatic_action PROVE OutInv'
<1>1. PICK retry \in Nat : inv.resp # "2xx" /\ _eXosip_call_retry_request(retry)
  BY BeforeIs DEF eXosip_automatic_action, OutInv, Good, World, CallType
<1>2. Before \in World /\ call \in CallType
  BY BeforeIs DEF OutInv, Good, World
<1>3. Talking = {} /\ \A t \in Callees : <<"CALL_ANSWERED", t>> \notin told
  BY <1>1, BeforeIs DEF OutInv, Good, Acknowledged, Decided
<1>4. PICK q : q = <<<<"SND", NoOne>>>>
  OBVIOUS
<1>5. q \in Seq(QueueEvents) /\ \A n \in 1 .. Len(q) : q[n][1] # "2xx"
  BY <1>4 DEF QueueEvents, Anyone
<1>6. inv' = [NewInvite EXCEPT !.q = q]
  BY <1>1, <1>4 DEF _eXosip_call_retry_request
<1>7. inv' \in InviteType /\ inv'.st = "precalling" /\ inv'.resp = "none" /\ inv'.q = q
  BY <1>5, <1>6 DEF InviteType, NewInvite
<1>8. Fifo(inv', callee.answered)
  BY <1>4, <1>5, <1>7 DEF Fifo
<1>9. dialog' \in DialogType /\ dialog'.state = "none"
  BY <1>1 DEF _eXosip_call_retry_request, NoDialog, DialogType, Anyone, Requested
<1>10. call' \in CallType /\ told' = told
  <2>1. PICK dead \in BOOLEAN : dead = (call.dead \/ dialog.state # "none")
    BY <1>2 DEF CallType
  <2>2. PICK attempts \in Nat : attempts = call.attempts + 1
    BY <1>2 DEF CallType
  <2>3. call' = [call EXCEPT !.retry = retry, !.attempts = attempts, !.dead = dead]
    BY <1>1, <2>1, <2>2, Zenon DEF _eXosip_call_retry_request
  <2>4. call' \in CallType
    BY <1>2, <2>3 DEF CallType
  <2> QED
    BY <1>1, <2>4 DEF _eXosip_call_retry_request
<1>11. Before' \in World /\ Before'.inv = inv' /\ Before'.dialog = dialog' /\ Before'.told = told
  BY <1>2, <1>7, <1>9, <1>10 DEF Before, World
<1>12. Good(Before', callee.answered, Talking # {})
  BY <1>3, <1>7, <1>9, <1>11 DEF Good, Decided, Acknowledged
<1>13. /\ callee'.answered = callee.answered
       /\ callee' \in [answered : SUBSET Callees, hungUp : SUBSET Callees,
                        refusal : {"none"} \cup Refusals]
  BY <1>1 DEF _eXosip_call_retry_request, OutInv
<1> QED
  BY <1>1, <1>8, <1>12, <1>13, SameSent DEF _eXosip_call_retry_request

\* The thread executes: the queue, the timers that ran out, the release.
LEMMA ExecuteInv ==
  ASSUME OutInv, eXosip_execute PROVE OutInv'
<1> DEFINE A == callee.answered
           B == Talking # {}
           sends == osip_nict_execute(Before)
           ran == osip_ict_execute(sends)
           over == {x \in due : HasTimer(ran, x)
                                /\ (x = "inv" => ran.inv.st = inv.st)
                                /\ (x = "bye" => ran.dialog.bye = dialog.bye)}
           Timed(w, x) == IF x \in over THEN Expired(w, x) ELSE w
           t1 == Timed(ran, "inv")
           t2 == Timed(t1, "bye")
           timed == Timed(t2, "byeIn")
           w == _eXosip_release_terminated_calls(timed, "rest" \in over)
           Drained(v) == Good(v, A, B) /\ v.inv.q = <<>>
<1>1. A \subseteq Callees /\ B \in BOOLEAN
  BY DEF OutInv
<1>2. Good(sends, A, B) /\ sends.inv = inv
  BY <1>1, BeforeIs, NictExecuteGood DEF OutInv
<1> HIDE DEF A, B, sends
<1>3. Fifo(sends.inv, A)
  BY <1>2 DEF OutInv, A
<1>4. Good(ran, A, B) /\ ran.inv.q = <<>>
  BY <1>1, <1>2, <1>3, IctExecuteGood
<1>5. Drained(ran)
  BY <1>4
<1> HIDE DEF ran, over
<1>6. \A v, x : Drained(v) => Drained(Timed(v, x))
  BY <1>1, ExpiredGood
<1> HIDE DEF Drained, Timed
<1>7. Drained(timed)
  BY <1>5, <1>6, Zenon
<1> HIDE DEF timed
<1>8. Drained(w)
  <2>1. ("rest" \in over) \in BOOLEAN
    OBVIOUS
  <2>2. Good(timed, A, B) /\ timed.inv.q = <<>>
    BY <1>7 DEF Drained
  <2> QED
    BY <1>1, <2>1, <2>2, ReleaseGood DEF Drained
<1>9. /\ inv' = w.inv /\ dialog' = w.dialog /\ call' = w.call /\ told' = w.told
      /\ UNCHANGED <<sent, callee>>
  BY Zenon DEF eXosip_execute, w, timed, Timed, over, ran, sends
<1> HIDE DEF w
<1>10. Before' = w
  BY <1>8, <1>9 DEF Before, Drained, Good, World
<1>11. Good(Before', callee.answered, Talking # {})
  BY <1>8, <1>10 DEF Drained, A, B
<1>12. inv'.q = <<>>
  BY <1>8, <1>9 DEF Drained
<1>13. Fifo(inv', callee.answered)
  BY <1>12 DEF Fifo
<1> QED
  BY <1>9, <1>11, <1>13, SameSent DEF OutInv

LEMMA NextInv == OutInv /\ [Next]_outVars => OutInv'
<1> SUFFICES ASSUME OutInv, [Next]_outVars PROVE OutInv'
  OBVIOUS
<1>1. CASE Network
  BY <1>1, HearsInv, Rcv2xxInv, RcvByeInv, SmallStepsInv DEF Network
<1>2. CASE \E t \in Callees : Answer(t)
  BY <1>2, AnswerInv
<1>3. CASE Application
  BY <1>3, SmallStepsInv, SendAckInv, TerminateInv, RetryInv DEF Application
<1>4. CASE eXosip_execute
  BY <1>4, ExecuteInv
<1>5. CASE Age \/ ExpireTime
  BY <1>5, SmallStepsInv
<1>6. CASE UNCHANGED outVars
  BY <1>6 DEF outVars, OutInv, Good, World, Decided, Acknowledged, Fifo, Before, Talking,
              OnlyWhoAnswered, Live
<1> QED
  BY <1>1, <1>2, <1>3, <1>4, <1>5, <1>6 DEF Next

\* The invariant holds in every reachable state.
THEOREM OutSpecInv == Spec => []OutInv
  BY InitInv, NextInv, PTL DEF Spec

\* Those who answered, and nobody else, are sent an ACK or a BYE, and at most one of them
\* is left talking: RightCallees of the run ex_outgoing, for any number of callees.
THEOREM OutSpecRightCallees == Spec => []RightCallees
<1>1. OutInv => RightCallees
  <2> SUFFICES ASSUME OutInv PROVE RightCallees
    OBVIOUS
  <2> DEFINE T == {t \in Callees : /\ <<"ACK", t>> \in sent /\ <<"BYE", t>> \notin sent
                                   /\ t \notin callee.hungUp}
  <2>1. \A t, u \in T : t = u
    BY DEF OutInv, Talking
  <2>2. T = {} \/ \E t : T = {t}
    BY <2>1
  <2> HIDE DEF T
  <2>3. Cardinality(T) \in {0, 1}
    <3>1. Cardinality({}) = 0
      BY FS_EmptySet
    <3>2. \A t : Cardinality({t}) = 1
      BY FS_Singleton
    <3> QED
      BY <2>2, <3>1, <3>2
  <2>4. OneCalleeTalks
    BY <2>3 DEF OneCalleeTalks, T
  <2> QED
    BY <2>4 DEF RightCallees, OutInv
<1> QED
  BY <1>1, OutSpecInv, PTL

=============================================================================
