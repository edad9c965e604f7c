-------------------------- MODULE OsipServerProofs --------------------------
(***************************************************************************)
(* Theorems about OsipServer, for every set of messages, every number of   *)
(* transactions and every bound.                                           *)
(*                                                                         *)
(* What the state machines rely on concerns one transaction at a time, so  *)
(* the main part of the inductive invariant is a predicate Local on the    *)
(* record of a transaction; Step says how a record may change, and a lemma *)
(* per kind of change shows that the change is a Step.  FinalIsFinal is    *)
(* not inductive: Local adds that an open transaction has sent no final    *)
(* response, and that the last response kept for retransmission is the     *)
(* last one sent.  NoStrandedMessage and OneTransactionPerRequest are      *)
(* about the lists: the other part of the invariant says what the lists,   *)
(* the executor's copies and the receiver's half-made transaction hold.    *)
(***************************************************************************)
EXTENDS OsipServer, TLAPS, SequenceTheorems, FiniteSetTheorems

OpenStates == {"IST_PROCEEDING", "NIST_TRYING", "NIST_PROCEEDING"}
ClosedStates == {"IST_COMPLETED", "IST_CONFIRMED", "NIST_COMPLETED"}

TimerRuns(r) ==
    /\ r.state = "IST_COMPLETED" =>
          /\ "TIMEOUT_H" \in r.timers
          /\ r.req \in Reliable \/ "TIMEOUT_G" \in r.timers
    /\ r.state = "IST_CONFIRMED" => "TIMEOUT_I" \in r.timers
    /\ r.state = "NIST_COMPLETED" => "TIMEOUT_J" \in r.timers

FinalStays(r) == \A i, j \in DOMAIN r.wire :
                    i < j /\ r.wire[i] \in Final => r.wire[j] = r.wire[i]

WireFits(r) ==
    /\ r.state \in PreStates \cup {"none"} => r.wire = <<>> /\ r.last_response = None
    /\ r.state \in OpenStates => \A i \in DOMAIN r.wire : r.wire[i] \notin Final
    /\ r.state \in OpenStates \cup ClosedStates =>
          IF r.wire = <<>> THEN r.last_response = None
                           ELSE r.last_response = r.wire[Len(r.wire)]

Local(r) == r \in Transaction /\ TimerRuns(r) /\ WireFits(r) /\ FinalStays(r)

\* What ServerTransaction allows, on the record of one transaction.
Idle(r) == r.state \in PreStates \cup {"none"}
Open(r) == r.state \in OpenStates
Closed(r) == r.state \in ClosedStates
Over(r) == r.state \in Terminated

SamePhase(r, s) == /\ Idle(r) <=> Idle(s)
                   /\ Open(r) <=> Open(s)
                   /\ Closed(r) <=> Closed(s)
                   /\ Over(r) <=> Over(s)

Promised(r, s) ==
    \/ SamePhase(r, s) /\ s.wire = r.wire
    \/ Idle(r) /\ Open(s) /\ s.wire = r.wire
    \/ Open(r) /\ Open(s) /\ s.wire = Append(r.wire, "SND_STATUS_1XX")
    \/ /\ Open(r) /\ (Closed(s) \/ Over(s))
       /\ \E x \in Final : s.wire = Append(r.wire, x)
    \/ /\ (Open(r) \/ Closed(r)) /\ SamePhase(r, s)
       /\ r.wire # <<>> /\ s.wire = Append(r.wire, r.wire[Len(r.wire)])
    \/ (Open(r) \/ Closed(r)) /\ Over(s) /\ s.wire = r.wire

Step(r, s) == /\ Local(s)
              /\ s.req = r.req /\ s.ctx_type = r.ctx_type
              /\ Promised(r, s)

\* A step of the system that changes the record of t only, and by a Step.
ChangesOne(t) == /\ tr' \in [Ids -> Transaction]
                 /\ Step(tr[t], tr'[t])
                 /\ \A u \in Ids \ {t} : tr'[u] = tr[u]

\* How the sets of events and of states relate.
LEMMA Distinct == /\ Final \subseteq Responses /\ Responses \subseteq Events
                  /\ Received \subseteq Events /\ Timeouts \subseteq Events
                  /\ Responses = Final \cup {"SND_STATUS_1XX"}
                  /\ Received \cap (Timeouts \cup Responses) = {}
                  /\ "SND_STATUS_1XX" \notin Final
                  /\ OpenStates \cap ClosedStates = {}
                  /\ (OpenStates \cup ClosedStates) \cap (PreStates \cup {"none"}) = {}
                  /\ (OpenStates \cup ClosedStates) \cap Terminated = {}
  BY DEF Final, Responses, Events, Received, Timeouts, OpenStates, ClosedStates,
         PreStates, Terminated

\* The least number of a set is in the set.  Induction is not at hand: the sets
\* of what lies below a member are finite, and one of them is minimal.
LEMMA FirstIn ==
  ASSUME NEW n \in Nat, NEW S \in SUBSET (1 .. n), S # {}
  PROVE  First(S) \in S
<1> DEFINE below(t) == {u \in S : u <= t}
           T == {below(t) : t \in S}
<1>1. IsFiniteSet(1 .. n)
  BY FS_Interval
<1>2. T \subseteq FiniteSubsetsOf(1 .. n) /\ T # {}
  <2>1. FiniteSubsetsOf(1 .. n) = SUBSET (1 .. n)
    BY <1>1, FS_FiniteSubsetsOfFinite
  <2>2. \A t \in S : below(t) \in SUBSET (1 .. n) /\ below(t) \in T
    OBVIOUS
  <2>3. \A b \in T : b \in SUBSET (1 .. n)
    BY <2>2
  <2> HIDE DEF T
  <2> QED
    BY <2>1, <2>2, <2>3
<1>3. IsWellFoundedOn(StrictSubsetOrdering(1 .. n), FiniteSubsetsOf(1 .. n))
  BY FS_StrictSubsetOrderingWellFounded
<1>4. PICK b \in T : \A a \in T : <<a, b>> \notin StrictSubsetOrdering(1 .. n)
  <2> HIDE DEF T
  <2> QED
    BY <1>2, <1>3, WFMin
<1>5. PICK t \in S : b = below(t)
  OBVIOUS
<1>6. ASSUME NEW u \in S PROVE t <= u
  <2> SUFFICES ASSUME u < t PROVE FALSE
    OBVIOUS
  <2>1. t \in Int /\ u \in Int /\ S \subseteq Int
    OBVIOUS
  <2>2. \A v \in S : v <= u => v <= t
    BY <2>1
  <2>3. t \in below(t) /\ t \notin below(u)
    BY <2>1
  <2>4. below(u) \subseteq below(t)
    BY <2>2
  <2>5. <<below(u), b>> \in StrictSubsetOrdering(1 .. n)
    <3>1. below(u) \in SUBSET (1 .. n) /\ b \in SUBSET (1 .. n)
      BY <1>5
    <3> HIDE DEF below
    <3> QED
      BY <3>1, <1>5, <2>3, <2>4 DEF StrictSubsetOrdering
  <2>6. below(u) \in T
    OBVIOUS
  <2> QED
    BY <1>4, <2>5, <2>6
<1> QED
  BY <1>6 DEF First

\* Appending a response to what was sent.
LEMMA AppendWire ==
  ASSUME NEW w \in Seq(Responses), NEW r \in Responses
  PROVE  /\ Append(w, r) \in Seq(Responses) /\ Append(w, r) # <<>>
         /\ Len(Append(w, r)) = Len(w) + 1
         /\ Append(w, r)[Len(w) + 1] = r
         /\ \A i \in 1 .. Len(w) : Append(w, r)[i] = w[i]
  OBVIOUS

\* Replacing the record of one transaction.
LEMMA ReplaceOne ==
  ASSUME tr \in [Ids -> Transaction], NEW t \in Ids, NEW r, Step(tr[t], r),
         tr' = [tr EXCEPT ![t] = r]
  PROVE  ChangesOne(t)
<1>1. r \in Transaction
  BY DEF Step, Local
<1> QED
  BY <1>1 DEF ChangesOne

-----------------------------------------------------------------------------
(* The ways in which a record changes *)

\* Only the FIFO changes: an event is queued, or dropped as useless.
LEMMA FifoStep ==
  ASSUME tr \in [Ids -> Transaction], NEW t \in Ids, Local(tr[t]),
         NEW f \in Seq(Events), tr' = [tr EXCEPT ![t].fifo = f]
  PROVE  ChangesOne(t)
<1> DEFINE r == [tr[t] EXCEPT !.fifo = f]
<1>1. /\ r \in Transaction /\ r.state = tr[t].state /\ r.wire = tr[t].wire
      /\ r.last_response = tr[t].last_response /\ r.timers = tr[t].timers
      /\ r.req = tr[t].req /\ r.ctx_type = tr[t].ctx_type
  BY DEF Local, Transaction
<1>2. tr' = [tr EXCEPT ![t] = r]
  OBVIOUS
<1> HIDE DEF r
<1>3. Step(tr[t], r)
  BY <1>1 DEF Step, Local, TimerRuns, WireFits, FinalStays, Promised, SamePhase,
              Idle, Open, Closed, Over
<1> QED
  BY <1>2, <1>3, ReplaceOne

\* The message callback: the transaction is open, nothing has been sent.
LEMMA AnnounceStep ==
  ASSUME tr \in [Ids -> Transaction], NEW t \in Ids, Local(tr[t]),
         NEW next \in {"IST_PROCEEDING", "NIST_TRYING"},
         NEW answers \in Seq(Responses),
         tr[t].fifo # <<>>, tr[t].state \in PreStates, Announce(t, next, answers)
  PROVE  ChangesOne(t)
<1> DEFINE r == [tr[t] EXCEPT !.fifo = Tail(@) \o answers, !.state = next]
<1>1. tr' = [tr EXCEPT ![t] = r]
  BY DEF Announce
<1>2. Tail(tr[t].fifo) \o answers \in Seq(Events)
  <2>1. tr[t].fifo \in Seq(Events)
    BY DEF Local, Transaction
  <2>2. Tail(tr[t].fifo) \in Seq(Events) /\ answers \in Seq(Events)
    BY <2>1, HeadTailProperties, SeqMonotonic, Distinct
  <2> QED
    BY <2>2, ConcatProperties
<1>3. /\ r \in Transaction /\ r.state = next /\ r.wire = tr[t].wire
      /\ r.last_response = tr[t].last_response
      /\ r.req = tr[t].req /\ r.ctx_type = tr[t].ctx_type
  BY <1>2 DEF Local, Transaction, States
<1> HIDE DEF r
<1>4. Local(r)
  BY <1>3 DEF Local, TimerRuns, WireFits, FinalStays, PreStates, OpenStates, ClosedStates
<1>5. Promised(tr[t], r)
  BY <1>3 DEF Promised, Idle, Open, OpenStates
<1> QED
  BY <1>1, <1>3, <1>4, <1>5, ReplaceOne DEF Step

\* A transport error ends the transaction, whatever it was doing.
LEMMA ErrorStep ==
  ASSUME tr \in [Ids -> Transaction], NEW t \in Ids, Local(tr[t]),
         tr[t].fifo # <<>>, tr[t].state \in OpenStates \cup ClosedStates,
         NEW x \in Responses, NEW g \in T1 .. T2, transport_error(t, x, g)
  PROVE  ChangesOne(t)
<1> DEFINE r == [tr[t] EXCEPT !.fifo = Tail(@), !.last_response = x, !.g_length = g,
                    !.state = IF tr[t].ctx_type = "IST" THEN "IST_TERMINATED"
                                                        ELSE "NIST_TERMINATED"]
<1>1. tr' = [tr EXCEPT ![t] = r]
  BY DEF transport_error
<1>2. Tail(tr[t].fifo) \in Seq(Events)
  BY HeadTailProperties DEF Local, Transaction
<1>3. /\ r \in Transaction /\ r.state \in Terminated /\ r.wire = tr[t].wire
      /\ r.req = tr[t].req /\ r.ctx_type = tr[t].ctx_type
  BY <1>2 DEF Local, Transaction, States, Terminated
<1> HIDE DEF r
<1>4. Local(r)
  BY <1>3 DEF Local, TimerRuns, WireFits, FinalStays, PreStates, OpenStates, ClosedStates,
              Terminated
<1>5. Promised(tr[t], r)
  BY <1>3 DEF Promised, Open, Closed, Over
<1> QED
  BY <1>1, <1>3, <1>4, <1>5, ReplaceOne DEF Step

\* A response goes out from an open transaction; a state entered with a final
\* response has its timer started.
LEMMA AnswerStep ==
  ASSUME tr \in [Ids -> Transaction], NEW t \in Ids, Local(tr[t]),
         tr[t].fifo # <<>>, tr[t].state \in OpenStates, Head(tr[t].fifo) \in Responses,
         NEW next \in States, NEW started \in SUBSET Timeouts,
         \/ next \in OpenStates /\ Head(tr[t].fifo) \notin Final
         \/ next \in Terminated /\ Head(tr[t].fifo) \in Final
         \/ /\ next = "IST_COMPLETED" /\ Head(tr[t].fifo) \in Final
            /\ "TIMEOUT_H" \in started
            /\ tr[t].req \in Reliable \/ "TIMEOUT_G" \in started
         \/ /\ next = "NIST_COMPLETED" /\ Head(tr[t].fifo) \in Final
            /\ "TIMEOUT_J" \in started,
         Answer(t, next, started)
  PROVE  ChangesOne(t)
<1> DEFINE e == Head(tr[t].fifo)
           r == [tr[t] EXCEPT !.fifo = Tail(@), !.last_response = e,
                              !.wire = Append(@, e), !.state = next,
                              !.timers = @ \cup started]
<1>1. CASE transport_error(t, e, tr[t].g_length)
  BY <1>1, ErrorStep DEF Local, Transaction
<1>2. CASE tr' = [tr EXCEPT ![t] = r]
  <2>1. Tail(tr[t].fifo) \in Seq(Events)
    BY HeadTailProperties DEF Local, Transaction
  <2>2. tr[t].wire \in Seq(Responses)
    BY DEF Local, Transaction
  <2> DEFINE w == Append(tr[t].wire, e)
             n == Len(tr[t].wire)
  <2>3. /\ w \in Seq(Responses) /\ w # <<>> /\ Len(w) = n + 1 /\ w[n + 1] = e
        /\ \A i \in 1 .. n : w[i] = tr[t].wire[i]
        /\ n \in Nat /\ DOMAIN w = 1 .. n + 1 /\ DOMAIN tr[t].wire = 1 .. n
    BY <2>2, AppendWire
  <2>4. r \in Transaction
    BY <2>1, <2>3, next \in States DEF Local, Transaction
  <2>5. \A i \in 1 .. n : w[i] \notin Final
    BY <2>3 DEF Local, WireFits
  <2>6. /\ r.wire = w /\ r.state = next /\ r.last_response = e /\ r.req = tr[t].req
        /\ r.timers = tr[t].timers \cup started /\ r.ctx_type = tr[t].ctx_type
    BY DEF Local, Transaction
  <2>7. e \in Final \/ e = "SND_STATUS_1XX"
    BY Distinct
  <2>8. w = Append(tr[t].wire, e)
    OBVIOUS
  <2> HIDE DEF w, n, e, r
  <2>9. FinalStays(r)
    BY <2>3, <2>5, <2>6 DEF FinalStays
  <2>10. TimerRuns(r)
    BY <2>6 DEF TimerRuns, OpenStates, Terminated
  <2>11. WireFits(r)
    BY <2>3, <2>5, <2>6 DEF WireFits, OpenStates, ClosedStates, PreStates, Terminated, e
  <2>12. Promised(tr[t], r)
    BY <2>6, <2>7, <2>8 DEF Promised, Open, Closed, Over, ClosedStates, e
  <2> QED
    BY <1>2, <2>4, <2>6, <2>9, <2>10, <2>11, <2>12, ReplaceOne DEF Step, Local
<1> QED
  BY <1>1, <1>2 DEF Answer

\* The last response goes out once more.
LEMMA ResendStep ==
  ASSUME tr \in [Ids -> Transaction], NEW t \in Ids, Local(tr[t]),
         tr[t].fifo # <<>>, tr[t].state \in OpenStates \cup ClosedStates,
         NEW g \in T1 .. T2, Resend(t, g)
  PROVE  ChangesOne(t)
<1>1. Tail(tr[t].fifo) \in Seq(Events)
  BY HeadTailProperties DEF Local, Transaction
<1>2. CASE tr' = [tr EXCEPT ![t].fifo = Tail(@)]
  <2>1. tr' = [tr EXCEPT ![t].fifo = Tail(tr[t].fifo)]
    BY <1>2
  <2> QED
    BY <1>1, <2>1, FifoStep
<1>3. CASE tr[t].last_response # None /\ transport_error(t, tr[t].last_response, g)
  BY <1>3, ErrorStep DEF Local, Transaction
<1>4. CASE /\ tr[t].last_response # None
           /\ tr' = [tr EXCEPT ![t].fifo = Tail(@),
                               ![t].wire = Append(@, tr[t].last_response),
                               ![t].g_length = g]
  <2> DEFINE e == tr[t].last_response
             w == Append(tr[t].wire, e)
             n == Len(tr[t].wire)
             r == [tr[t] EXCEPT !.fifo = Tail(@), !.wire = Append(@, e), !.g_length = g]
  <2>1. tr[t].wire \in Seq(Responses) /\ e \in Responses
    BY <1>4 DEF Local, Transaction
  <2>2. /\ w \in Seq(Responses) /\ w # <<>> /\ Len(w) = n + 1 /\ w[n + 1] = e
        /\ \A i \in 1 .. n : w[i] = tr[t].wire[i]
        /\ n \in Nat /\ DOMAIN w = 1 .. n + 1 /\ DOMAIN tr[t].wire = 1 .. n
    BY <2>1, AppendWire
  <2>3. tr[t].wire # <<>> /\ e = tr[t].wire[n]
    BY <1>4 DEF Local, WireFits
  <2>4. n >= 1
    BY <2>1, <2>2, <2>3, EmptySeq
  <2>5. r \in Transaction
    BY <1>1, <2>2 DEF Local, Transaction
  <2>6. /\ r.wire = w /\ r.state = tr[t].state /\ r.last_response = e
        /\ r.req = tr[t].req /\ r.timers = tr[t].timers /\ r.ctx_type = tr[t].ctx_type
    BY DEF Local, Transaction
  <2>7. /\ tr[t].state \in OpenStates => \A i \in 1 .. n : tr[t].wire[i] \notin Final
        /\ \A i, j \in 1 .. n :
              i < j /\ tr[t].wire[i] \in Final => tr[t].wire[j] = tr[t].wire[i]
        /\ TimerRuns(tr[t])
    BY <2>2 DEF Local, WireFits, FinalStays
  <2>8. tr' = [tr EXCEPT ![t] = r]
    BY <1>4
  <2>9. w = Append(tr[t].wire, tr[t].wire[Len(tr[t].wire)])
    BY <2>3
  <2> HIDE DEF w, n, e, r
  <2>10. FinalStays(r)
    <3> SUFFICES ASSUME NEW i \in 1 .. n + 1, NEW j \in 1 .. n + 1, i < j, w[i] \in Final
                 PROVE  w[j] = w[i]
      BY <2>2, <2>6 DEF FinalStays
    <3>1. CASE j <= n
      BY <3>1, <2>2, <2>7
    <3>2. CASE j = n + 1
      BY <3>2, <2>2, <2>3, <2>4, <2>7
    <3> QED
      BY <3>1, <3>2, <2>2
  <2>11. TimerRuns(r)
    BY <2>6, <2>7 DEF TimerRuns
  <2>12. WireFits(r)
    BY <2>2, <2>3, <2>4, <2>6, <2>7 DEF WireFits, OpenStates, ClosedStates, PreStates
  <2>13. Promised(tr[t], r)
    BY <2>3, <2>6, <2>9 DEF Promised, SamePhase, Idle, Open, Closed, Over
  <2> QED
    BY <2>5, <2>6, <2>8, <2>10, <2>11, <2>12, <2>13, ReplaceOne DEF Local, Step
<1> QED
  BY <1>2, <1>3, <1>4 DEF Resend

\* A timeout ends a completed transaction.
LEMMA ExpireStep ==
  ASSUME tr \in [Ids -> Transaction], NEW t \in Ids, Local(tr[t]),
         tr[t].fifo # <<>>, tr[t].state \in ClosedStates, NEW e \in Timeouts,
         NEW next \in Terminated, Expire(t, e, next)
  PROVE  ChangesOne(t)
<1> DEFINE r == [tr[t] EXCEPT !.fifo = Tail(@), !.state = next, !.timers = @ \ {e}]
<1>1. tr' = [tr EXCEPT ![t] = r]
  BY DEF Expire
<1>2. Tail(tr[t].fifo) \in Seq(Events)
  BY HeadTailProperties DEF Local, Transaction
<1>3. /\ r \in Transaction /\ r.state = next /\ r.wire = tr[t].wire
      /\ r.req = tr[t].req /\ r.ctx_type = tr[t].ctx_type
  BY <1>2 DEF Local, Transaction, States
<1> HIDE DEF r
<1>4. Local(r)
  BY <1>3 DEF Local, TimerRuns, WireFits, FinalStays, PreStates, OpenStates, ClosedStates,
              Terminated
<1>5. Promised(tr[t], r)
  BY <1>3 DEF Promised, Closed, Over
<1> QED
  BY <1>1, <1>3, <1>4, <1>5, ReplaceOne DEF Step

\* An ACK confirms a completed transaction and starts timer I.
LEMMA AckStep ==
  ASSUME tr \in [Ids -> Transaction], NEW t \in Ids, Local(tr[t]),
         NEW answers \in Seq(Responses), ist_rcv_ack(t, answers)
  PROVE  ChangesOne(t)
<1> DEFINE a == IF tr[t].state = "IST_COMPLETED" THEN answers ELSE <<>>
           r == [tr[t] EXCEPT !.fifo = Tail(@) \o a, !.state = "IST_CONFIRMED",
                              !.timers = @ \cup {"TIMEOUT_I"}]
<1>1. /\ tr' = [tr EXCEPT ![t] = r] /\ tr[t].fifo # <<>>
      /\ tr[t].state \in {"IST_COMPLETED", "IST_CONFIRMED"}
  BY DEF ist_rcv_ack, On
<1>2. Tail(tr[t].fifo) \o a \in Seq(Events)
  <2>1. tr[t].fifo \in Seq(Events)
    BY DEF Local, Transaction
  <2>2. a \in Seq(Events)
    BY SeqMonotonic, Distinct
  <2>3. Tail(tr[t].fifo) \in Seq(Events)
    BY <1>1, <2>1, HeadTailProperties
  <2> QED
    BY <2>2, <2>3, ConcatProperties
<1>3. /\ r \in Transaction /\ r.state = "IST_CONFIRMED" /\ r.wire = tr[t].wire
      /\ r.last_response = tr[t].last_response /\ "TIMEOUT_I" \in r.timers
      /\ r.req = tr[t].req /\ r.ctx_type = tr[t].ctx_type
  BY <1>2 DEF Local, Transaction, States, Timeouts
<1> HIDE DEF r
<1>4. Local(r)
  BY <1>1, <1>3 DEF Local, TimerRuns, WireFits, FinalStays, PreStates, OpenStates,
                    ClosedStates
<1>5. Promised(tr[t], r)
  BY <1>1, <1>3 DEF Promised, SamePhase, Idle, Open, Closed, Over, PreStates, OpenStates,
                    ClosedStates, Terminated
<1> QED
  BY <1>1, <1>3, <1>4, <1>5, ReplaceOne DEF Step

-----------------------------------------------------------------------------
(* One event of a transaction *)

\* Whatever handler takes the event, one record changes, by a Step; the lists
\* lose the transaction or stay as they are.
LEMMA ExecuteStep ==
  ASSUME tr \in [Ids -> Transaction], NEW t \in Ids, Local(tr[t]),
         NEW answers \in Seq(Responses), osip_transaction_execute(t, answers)
  PROVE  ChangesOne(t) /\ lists' \in {lists, lists \ {t}} /\ tr[t].fifo # <<>>
<1>1. CASE ist_rcv_invite(t, answers)
  <2>1. CASE /\ On(t, {"IST_PRE_PROCEEDING"}, {"RCV_REQINVITE"})
             /\ Announce(t, "IST_PROCEEDING", answers)
    <3>1. tr[t].fifo # <<>> /\ tr[t].state \in PreStates
      BY <2>1 DEF On, PreStates
    <3> QED
      BY <2>1, <3>1, AnnounceStep DEF Announce
  <2>2. CASE /\ On(t, {"IST_PROCEEDING", "IST_COMPLETED"}, {"RCV_REQINVITE"})
             /\ Resend(t, tr[t].g_length)
    <3>1. /\ tr[t].fifo # <<>> /\ tr[t].state \in OpenStates \cup ClosedStates
          /\ tr[t].g_length \in T1 .. T2
      BY <2>2 DEF On, OpenStates, ClosedStates, Local, Transaction
    <3> QED
      BY <2>2, <3>1, ResendStep DEF Resend, transport_error
  <2> QED
    BY <1>1, <2>1, <2>2 DEF ist_rcv_invite
<1>2. CASE ist_snd_1xx(t)
  <2>1. /\ tr[t].fifo # <<>> /\ tr[t].state \in OpenStates
        /\ Head(tr[t].fifo) \in Responses \ Final
        /\ Answer(t, "IST_PROCEEDING", {})
    BY <1>2 DEF ist_snd_1xx, On, OpenStates, Responses, Final
  <2>2. "IST_PROCEEDING" \in OpenStates \cap States /\ {} \in SUBSET Timeouts
    BY DEF OpenStates, States
  <2>3. lists' \in {lists, lists \ {t}}
    BY <2>1 DEF Answer, transport_error
  <2>4. ChangesOne(t)
    BY <2>1, <2>2, AnswerStep
  <2> QED
    BY <2>1, <2>3, <2>4
<1>3. CASE ist_snd_2xx(t)
  <2>1. /\ tr[t].fifo # <<>> /\ tr[t].state \in OpenStates
        /\ Head(tr[t].fifo) \in Final \cap Responses
        /\ Answer(t, "IST_TERMINATED", {})
    BY <1>3 DEF ist_snd_2xx, On, OpenStates, Responses, Final
  <2>2. "IST_TERMINATED" \in Terminated \cap States /\ {} \in SUBSET Timeouts
    BY DEF Terminated, States
  <2>3. lists' \in {lists, lists \ {t}}
    BY <2>1 DEF Answer, transport_error
  <2>4. ChangesOne(t)
    BY <2>1, <2>2, AnswerStep
  <2> QED
    BY <2>1, <2>3, <2>4
<1>4. CASE ist_snd_3456xx(t)
  <2> DEFINE s == {"TIMEOUT_H"} \cup (IF tr[t].req \in Reliable THEN {} ELSE {"TIMEOUT_G"})
  <2>1. /\ tr[t].fifo # <<>> /\ tr[t].state \in OpenStates
        /\ Head(tr[t].fifo) \in Final \cap Responses
        /\ Answer(t, "IST_COMPLETED", s)
    BY <1>4 DEF ist_snd_3456xx, On, OpenStates, Responses, Final
  <2>2. /\ "IST_COMPLETED" \in States /\ s \in SUBSET Timeouts /\ "TIMEOUT_H" \in s
        /\ tr[t].req \in Reliable \/ "TIMEOUT_G" \in s
    BY DEF Timeouts, States
  <2>3. lists' \in {lists, lists \ {t}}
    BY <2>1 DEF Answer, transport_error
  <2> HIDE DEF s
  <2> QED
    BY <2>1, <2>2, <2>3, AnswerStep
<1>5. CASE ist_rcv_ack(t, answers)
  BY <1>5, AckStep DEF ist_rcv_ack, On
<1>6. CASE osip_ist_timeout_g_event(t)
  <2>1. /\ tr[t].fifo # <<>> /\ tr[t].state \in OpenStates \cup ClosedStates
        /\ Resend(t, Min2(2 * tr[t].g_length, T2))
    BY <1>6 DEF osip_ist_timeout_g_event, On, ClosedStates
  <2>2. Min2(2 * tr[t].g_length, T2) \in T1 .. T2
    BY OsipAssumption DEF Min2, Local, Transaction
  <2> QED
    BY <2>1, <2>2, ResendStep DEF Resend, transport_error
<1>7. CASE osip_ist_timeout_h_event(t)
  BY <1>7, ExpireStep DEF osip_ist_timeout_h_event, On, ClosedStates, Expire, Timeouts,
                          Terminated
<1>8. CASE osip_ist_timeout_i_event(t)
  BY <1>8, ExpireStep DEF osip_ist_timeout_i_event, On, ClosedStates, Expire, Timeouts,
                          Terminated
<1>9. CASE nist_rcv_request(t, answers)
  <2>1. CASE /\ On(t, {"NIST_PRE_TRYING"}, {"RCV_REQUEST"})
             /\ Announce(t, "NIST_TRYING", answers)
    <3>1. tr[t].fifo # <<>> /\ tr[t].state \in PreStates
      BY <2>1 DEF On, PreStates
    <3> QED
      BY <2>1, <3>1, AnnounceStep DEF Announce
  <2>2. CASE /\ On(t, {"NIST_PROCEEDING", "NIST_COMPLETED"}, {"RCV_REQUEST"})
             /\ Resend(t, tr[t].g_length)
    <3>1. /\ tr[t].fifo # <<>> /\ tr[t].state \in OpenStates \cup ClosedStates
          /\ tr[t].g_length \in T1 .. T2
      BY <2>2 DEF On, OpenStates, ClosedStates, Local, Transaction
    <3> QED
      BY <2>2, <3>1, ResendStep DEF Resend, transport_error
  <2> QED
    BY <1>9, <2>1, <2>2 DEF nist_rcv_request
<1>10. CASE nist_snd_1xx(t)
  <2>1. /\ tr[t].fifo # <<>> /\ tr[t].state \in OpenStates
        /\ Head(tr[t].fifo) \in Responses \ Final
        /\ Answer(t, "NIST_PROCEEDING", {})
    BY <1>10 DEF nist_snd_1xx, On, OpenStates, Responses, Final
  <2>2. "NIST_PROCEEDING" \in OpenStates \cap States /\ {} \in SUBSET Timeouts
    BY DEF OpenStates, States
  <2>3. lists' \in {lists, lists \ {t}}
    BY <2>1 DEF Answer, transport_error
  <2>4. ChangesOne(t)
    BY <2>1, <2>2, AnswerStep
  <2> QED
    BY <2>1, <2>3, <2>4
<1>11. CASE nist_snd_23456xx(t)
  <2>1. /\ tr[t].fifo # <<>> /\ tr[t].state \in OpenStates
        /\ Head(tr[t].fifo) \in Final \cap Responses
        /\ Answer(t, "NIST_COMPLETED", {"TIMEOUT_J"})
    BY <1>11 DEF nist_snd_23456xx, On, OpenStates, Responses, Final
  <2>2. "NIST_COMPLETED" \in States /\ {"TIMEOUT_J"} \in SUBSET Timeouts
    BY DEF Timeouts, States
  <2> QED
    BY <2>1, <2>2, AnswerStep DEF Answer, transport_error
<1>12. CASE osip_nist_timeout_j_event(t)
  BY <1>12, ExpireStep DEF osip_nist_timeout_j_event, On, ClosedStates, Expire, Timeouts,
                           Terminated
<1>13. CASE UselessEvent(t)
  <2>1. /\ tr[t].fifo # <<>> /\ Tail(tr[t].fifo) \in Seq(Events) /\ lists' = lists
        /\ tr' = [tr EXCEPT ![t].fifo = Tail(tr[t].fifo)]
    BY <1>13, HeadTailProperties DEF UselessEvent, Local, Transaction
  <2> QED
    BY <2>1, FifoStep
<1> QED
  BY <1>1, <1>2, <1>3, <1>4, <1>5, <1>6, <1>7, <1>8, <1>9, <1>10, <1>11, <1>12, <1>13
  DEF osip_transaction_execute

-----------------------------------------------------------------------------
(* The inductive invariant *)

Typed == /\ tr \in [Ids -> Transaction]
         /\ \A t \in Ids : Local(tr[t])
         /\ incoming \in Ids \cup {0}
         /\ arrived \in [Messages -> 0 .. MaxCopies]

\* Ids below transactionid are in use, the others are not.
Made == 1 .. transactionid - 1
Numbered == /\ transactionid \in 1 .. MaxTransactions + 1
            /\ lists \subseteq Made
            /\ array \in [Kinds -> SUBSET Made]
            /\ \A t \in Ids : t >= transactionid => tr[t].state = "none"

\* A transaction of a list was made by a request that may make one.
Requested == \A t \in lists : /\ tr[t].req \in Messages
                              /\ tr[t].req.kind = "request"
                              /\ tr[t].req.method # "ACK"
                              /\ tr[t].ctx_type = ListOf(tr[t].req)

\* The transaction whose first event is still to be queued is untouched.
Prepared == incoming # 0 => /\ incoming \in lists
                            /\ tr[incoming].fifo = <<>>
                            /\ tr[incoming].state \in PreStates

IInv == /\ Typed /\ Numbered /\ Requested /\ Prepared
        /\ NoStrandedMessage /\ OneTransactionPerRequest

\* What holds initially.
THEOREM InitInv == Init => IInv
<1> SUFFICES ASSUME Init PROVE IInv
  OBVIOUS
<1> USE DEF Init
<1>1. NoTransaction \in Transaction
  BY OsipAssumption DEF NoTransaction, Transaction, States
<1>2. Local(NoTransaction)
  <2>1. NoTransaction.state = "none" /\ NoTransaction.wire = <<>>
        /\ NoTransaction.last_response = None
    BY DEF NoTransaction
  <2> QED
    BY <1>1, <2>1 DEF Local, TimerRuns, WireFits, FinalStays, OpenStates, ClosedStates
<1>3. Typed
  BY <1>1, <1>2, OsipAssumption DEF Typed
<1>4. Numbered
  BY OsipAssumption DEF Numbered, Made, Ids, NoTransaction
<1>5. Requested /\ Prepared /\ OneTransactionPerRequest
  BY DEF Requested, Prepared, OneTransactionPerRequest, Found
<1>6. NoStrandedMessage
  BY DEF NoStrandedMessage, NoTransaction
<1> QED
  BY <1>3, <1>4, <1>5, <1>6 DEF IInv

-----------------------------------------------------------------------------
(* Every action preserves the invariant *)

\* The ids in use.
LEMMA InUse ==
  ASSUME IInv
  PROVE  /\ transactionid \in Nat /\ Made \subseteq Ids /\ lists \subseteq Made
         /\ transactionid \notin Made
<1>1. transactionid \in 1 .. MaxTransactions + 1 /\ lists \subseteq Made
  BY DEF IInv, Numbered
<1> QED
  BY <1>1, OsipAssumption DEF Made, Ids

\* A Step of one transaction that is in use, which may leave its list.
LEMMA OneChanges ==
  ASSUME IInv, NEW t \in Made, ChangesOne(t), lists' \subseteq lists,
         transactionid' = transactionid, array' = array
  PROVE  /\ tr' \in [Ids -> Transaction] /\ (\A u \in Ids : Local(tr[u])')
         /\ Numbered' /\ Requested' /\ OneTransactionPerRequest'
<1>1. t \in Ids /\ Made' = Made /\ Made \subseteq Ids
  BY InUse DEF Made
<1>2. /\ tr \in [Ids -> Transaction] /\ tr' \in [Ids -> Transaction]
      /\ Local(tr'[t]) /\ \A u \in Ids \ {t} : tr'[u] = tr[u]
      /\ \A u \in Ids : tr'[u].req = tr[u].req /\ tr'[u].ctx_type = tr[u].ctx_type
  BY <1>1 DEF ChangesOne, Step, IInv, Typed
<1>3. \A u \in Ids : Local(tr'[u])
  BY <1>2 DEF IInv, Typed
<1>4. Numbered'
  <2>1. \A u \in Ids : u >= transactionid => u # t
    BY DEF Made, IInv, Numbered, Ids
  <2> QED
    BY <1>1, <1>2, <2>1 DEF IInv, Numbered
<1>5. lists \subseteq Ids /\ lists' \subseteq Ids
  BY <1>1 DEF IInv, Numbered
<1>6. Requested'
  BY <1>2, <1>5 DEF IInv, Requested
<1>7. \A m \in Messages : Found(m)' \subseteq Found(m)
  BY <1>2, <1>5 DEF Found, Matches
<1>8. OneTransactionPerRequest'
  BY <1>7 DEF IInv, OneTransactionPerRequest
<1> QED
  BY <1>2, <1>3, <1>4, <1>6, <1>8

\* Queueing an event in the FIFO of a transaction of a list.
LEMMA QueueStep ==
  ASSUME IInv, NEW t \in Ids, NEW e \in Events,
         tr' = [tr EXCEPT ![t].fifo = Append(@, e)]
  PROVE  ChangesOne(t)
<1>1. Append(tr[t].fifo, e) \in Seq(Events)
  BY AppendProperties DEF IInv, Typed, Local, Transaction
<1>2. tr' = [tr EXCEPT ![t].fifo = Append(tr[t].fifo, e)]
  OBVIOUS
<1> QED
  BY <1>1, <1>2, FifoStep DEF IInv, Typed

\* Queueing what was received keeps every message in reach of the executor.
LEMMA QueueInList ==
  ASSUME IInv, NEW t \in lists, NEW e \in Events, incoming' \in {0, incoming},
         incoming \in {0, t}, incoming' = 0,
         tr' = [tr EXCEPT ![t].fifo = Append(@, e)],
         transactionid' = transactionid, lists' = lists, array' = array,
         arrived' \in [Messages -> 0 .. MaxCopies]
  PROVE  IInv'
<1>1. t \in Made /\ t \in Ids
  BY InUse
<1>2. ChangesOne(t)
  BY <1>1, QueueStep
<1>3. /\ tr' \in [Ids -> Transaction] /\ (\A u \in Ids : Local(tr[u])')
      /\ Numbered' /\ Requested' /\ OneTransactionPerRequest'
  BY <1>1, <1>2, OneChanges
<1>4. NoStrandedMessage'
  BY <1>1, <1>2 DEF IInv, NoStrandedMessage, ChangesOne
<1>5. Typed' /\ Prepared'
  BY <1>3 DEF Typed, Prepared
<1> QED
  BY <1>3, <1>4, <1>5 DEF IInv

LEMMA AddFirstEventInv ==
  ASSUME IInv, AddFirstEvent
  PROVE  IInv'
<1>1. incoming \in lists /\ EventType(tr[incoming].req) \in Events
  BY DEF IInv, Prepared, AddFirstEvent, EventType, Events, Received
<1>2. arrived' \in [Messages -> 0 .. MaxCopies]
  BY DEF AddFirstEvent, IInv, Typed
<1> QED
  BY <1>1, <1>2, QueueInList DEF AddFirstEvent

\* A message that is matched is queued in a transaction of a list.
LEMMA ReceiveKnownInv ==
  ASSUME IInv, NEW m \in Messages, Arrive(m), osip_find_transaction_and_add_event(m)
  PROVE  IInv'
<1> DEFINE t == First(Found(m))
<1>1. t \in lists
  <2>1. Found(m) \in SUBSET (1 .. MaxTransactions) /\ Found(m) # {}
        /\ Found(m) \subseteq lists
    BY OsipAssumption DEF Found, IInv, Numbered, Made, osip_find_transaction_and_add_event
  <2>2. t \in Found(m)
    BY <2>1, FirstIn, OsipAssumption
  <2> QED
    BY <2>1, <2>2
<1>2. EventType(m) \in Events
  BY DEF EventType, Events, Received
<1>3. arrived' \in [Messages -> 0 .. MaxCopies]
  BY OsipAssumption DEF Arrive, IInv, Typed
<1>4. incoming = 0 /\ incoming' = 0
  BY DEF Arrive, osip_find_transaction_and_add_event
<1> QED
  BY <1>1, <1>2, <1>3, <1>4, QueueInList DEF osip_find_transaction_and_add_event

\* What the record of a new transaction is.
LEMMA NewRecord ==
  ASSUME NEW k \in Kinds, NEW m \in Messages
  PROVE  LET r == [NoTransaction EXCEPT
                      !.ctx_type = k, !.req = m,
                      !.state = IF k = "IST" THEN "IST_PRE_PROCEEDING"
                                             ELSE "NIST_PRE_TRYING"]
         IN  /\ Local(r) /\ r.req = m /\ r.ctx_type = k
             /\ r.fifo = <<>> /\ r.wire = <<>> /\ r.state \in PreStates
<1> DEFINE r == [NoTransaction EXCEPT
                    !.ctx_type = k, !.req = m,
                    !.state = IF k = "IST" THEN "IST_PRE_PROCEEDING"
                                           ELSE "NIST_PRE_TRYING"]
<1>1. NoTransaction \in Transaction
  BY OsipAssumption DEF NoTransaction, Transaction, States
<1>2. /\ r \in Transaction /\ r.req = m /\ r.ctx_type = k
      /\ r.fifo = <<>> /\ r.wire = <<>> /\ r.state \in PreStates
      /\ r.last_response = None
  BY <1>1 DEF Transaction, NoTransaction, States, PreStates, Kinds
<1> HIDE DEF r
<1>3. Local(r)
  BY <1>2 DEF Local, TimerRuns, WireFits, FinalStays, PreStates, OpenStates, ClosedStates
<1> QED
  BY <1>2, <1>3 DEF r

\* A request that matches nothing makes a transaction; it is the only one that
\* takes the request, or the ACK to it.
LEMMA ReceiveNewInv ==
  ASSUME IInv, NEW m \in Messages, Arrive(m), osip_create_transaction(m)
  PROVE  IInv'
<1>1. arrived' \in [Messages -> 0 .. MaxCopies]
  BY OsipAssumption DEF Arrive, IInv, Typed
<1>2. CASE UNCHANGED <<tr, transactionid, lists, array, incoming>>
  BY <1>1, <1>2 DEF IInv, Typed, Numbered, Made, Requested, Prepared, NoStrandedMessage,
                    OneTransactionPerRequest, Found, Matches
<1>3. CASE m.kind = "request" /\ m.method # "ACK" /\ osip_transaction_init(ListOf(m), m)
  <2> DEFINE k == ListOf(m)
             n == transactionid
             r == [NoTransaction EXCEPT
                      !.ctx_type = k, !.req = m,
                      !.state = IF k = "IST" THEN "IST_PRE_PROCEEDING"
                                             ELSE "NIST_PRE_TRYING"]
  <2>1. k \in Kinds
    BY DEF ListOf, Kinds
  <2>2. /\ Local(r) /\ r.req = m /\ r.ctx_type = k
        /\ r.fifo = <<>> /\ r.wire = <<>> /\ r.state \in PreStates
    BY <2>1, NewRecord
  <2>3. /\ n \in Ids /\ tr' = [tr EXCEPT ![n] = r] /\ transactionid' = n + 1
        /\ lists' = lists \cup {n} /\ incoming' = n /\ array' = array
    BY <1>3 DEF osip_transaction_init
  <2> HIDE DEF r, k
  <2>4. /\ tr \in [Ids -> Transaction] /\ tr' \in [Ids -> Transaction] /\ tr'[n] = r
        /\ \A u \in Ids \ {n} : tr'[u] = tr[u]
    BY <2>2, <2>3 DEF IInv, Typed, Local
  <2>5. n \notin lists /\ lists \subseteq Ids /\ n \in Nat
    BY InUse
  <2>6. Typed'
    BY <1>1, <2>2, <2>3, <2>4 DEF IInv, Typed
  <2>7. Numbered'
    <3>1. Made \subseteq Made' /\ n \in Made'
      BY <2>3, <2>5 DEF Made, IInv, Numbered
    <3>2. n + 1 \in 1 .. MaxTransactions + 1
      BY <2>3, OsipAssumption DEF Ids
    <3>3. \A u \in Ids : u >= n + 1 => u >= n /\ u # n
      BY <2>5 DEF Ids
    <3> QED
      BY <2>3, <2>4, <3>1, <3>2, <3>3 DEF IInv, Numbered
  <2>8. Requested'
    BY <1>3, <2>2, <2>3, <2>4, <2>5 DEF IInv, Requested, k
  <2>9. Prepared'
    BY <2>2, <2>3, <2>4 DEF Prepared
  <2>10. NoStrandedMessage'
    BY <2>3, <2>4 DEF IInv, NoStrandedMessage
  <2>11. OneTransactionPerRequest'
    <3> SUFFICES ASSUME NEW w \in Messages, NEW t \in Found(w)', NEW u \in Found(w)'
                 PROVE  t = u
      BY DEF OneTransactionPerRequest
    <3>1. ASSUME NEW v \in Found(w)', v # n PROVE v \in Found(w)
      BY <3>1, <2>3, <2>4, <2>5 DEF Found, Matches
    <3>2. ASSUME n \in Found(w)' PROVE Found(w) = {}
      <4>1. /\ w.kind = "request" /\ k = ListOf(w) /\ m.branch = w.branch
            /\ m.method = w.method \/ (m.method = "INVITE" /\ w.method = "ACK")
        BY <2>2, <2>4, <3>2 DEF Found, Matches
      <4>2. Found(m) = {}
        BY DEF osip_create_transaction
      <4>3. SUFFICES ASSUME NEW v \in Found(w) PROVE FALSE
        OBVIOUS
      <4>4. v \in lists /\ tr[v].req.method # "ACK"
        BY DEF Found, IInv, Requested
      <4>5. v \in Found(m)
        BY <1>3, <4>1, <4>4 DEF Found, Matches, k
      <4> QED
        BY <4>2, <4>5
    <3>3. CASE t = n \/ u = n
      BY <3>1, <3>2, <3>3
    <3>4. CASE t # n /\ u # n
      BY <3>1, <3>4 DEF IInv, OneTransactionPerRequest
    <3> QED
      BY <3>3, <3>4
  <2> QED
    BY <2>6, <2>7, <2>8, <2>9, <2>10, <2>11 DEF IInv
<1> QED
  BY <1>2, <1>3 DEF osip_create_transaction

\* The executor works on a transaction of its copy.
LEMMA FirstOfCopy ==
  ASSUME IInv, NEW k \in Kinds, array[k] # {}
  PROVE  First(array[k]) \in array[k] /\ First(array[k]) \in Made
<1>1. array[k] \in SUBSET Made /\ transactionid - 1 \in Nat
  BY InUse DEF IInv, Numbered
<1> QED
  BY <1>1, FirstIn DEF Made

LEMMA ExecuteEventInv ==
  ASSUME IInv, NEW k \in Kinds, NEW answers \in Seq(Responses), ExecuteEvent(k, answers)
  PROVE  IInv'
<1> DEFINE t == First(array[k])
<1>1. t \in array[k] /\ t \in Made /\ t \in Ids
  BY FirstOfCopy, InUse DEF ExecuteEvent
<1>2. ChangesOne(t) /\ lists' \in {lists, lists \ {t}} /\ tr[t].fifo # <<>>
  BY <1>1, ExecuteStep DEF ExecuteEvent, IInv, Typed
<1>3. UNCHANGED <<transactionid, array, incoming, arrived>>
  BY DEF ExecuteEvent
<1> HIDE DEF t
<1>4. /\ tr' \in [Ids -> Transaction] /\ (\A u \in Ids : Local(tr[u])')
      /\ Numbered' /\ Requested' /\ OneTransactionPerRequest'
  BY <1>1, <1>2, <1>3, OneChanges
<1>5. Typed'
  BY <1>3, <1>4 DEF IInv, Typed
<1>6. Prepared'
  BY <1>2, <1>3 DEF IInv, Prepared, Typed, ChangesOne
<1>7. NoStrandedMessage'
  BY <1>1, <1>2, <1>3 DEF IInv, NoStrandedMessage, ChangesOne
<1> QED
  BY <1>4, <1>5, <1>6, <1>7 DEF IInv

\* The executor starts on a copy of the list, or leaves a transaction whose
\* FIFO is empty.
LEMMA ExecuteMovesInv ==
  ASSUME IInv, NEW k \in Kinds, ExecuteBegin(k) \/ ExecuteNext(k)
  PROVE  IInv'
<1>1. UNCHANGED <<tr, transactionid, lists, incoming, arrived>>
  BY DEF ExecuteBegin, ExecuteNext
<1>2. Typed' /\ Requested' /\ Prepared' /\ OneTransactionPerRequest'
  BY <1>1 DEF IInv, Typed, Requested, Prepared, OneTransactionPerRequest, Found, Matches
<1>3. CASE ExecuteBegin(k)
  <2>1. array' = [array EXCEPT ![k] = Live(k)] /\ array[k] = {}
    BY <1>3 DEF ExecuteBegin, CopyList
  <2>2. Live(k) \subseteq Made
    BY InUse DEF Live
  <2>3. Numbered'
    BY <1>1, <2>1, <2>2 DEF IInv, Numbered, Made
  <2>4. NoStrandedMessage'
    BY <1>1, <2>1 DEF IInv, NoStrandedMessage, Numbered
  <2> QED
    BY <1>2, <2>3, <2>4 DEF IInv
<1>4. CASE ExecuteNext(k)
  <2> DEFINE t == First(array[k])
  <2>1. /\ array' = [array EXCEPT ![k] = @ \ {t}]
        /\ tr[t].fifo = <<>>
    BY <1>4 DEF ExecuteNext
  <2>2. Numbered'
    BY <1>1, <2>1 DEF IInv, Numbered, Made
  <2> HIDE DEF t
  <2>3. NoStrandedMessage'
    BY <1>1, <2>1 DEF IInv, NoStrandedMessage, Numbered
  <2> QED
    BY <1>2, <2>2, <2>3 DEF IInv
<1> QED
  BY <1>3, <1>4

\* A timeout, or an answer of the TU, is not a message that could be stranded.
LEMMA QueueOther ==
  ASSUME IInv, NEW t \in Made, NEW e \in Timeouts \cup Responses,
         tr[t].state \notin PreStates,
         tr' = [tr EXCEPT ![t].fifo = Append(@, e)],
         UNCHANGED <<transactionid, lists, array, incoming, arrived>>
  PROVE  IInv'
<1>1. t \in Ids /\ e \in Events /\ e \notin Received
  BY InUse, Distinct
<1>2. ChangesOne(t)
  BY <1>1, QueueStep
<1>3. /\ tr' \in [Ids -> Transaction] /\ (\A u \in Ids : Local(tr[u])')
      /\ Numbered' /\ Requested' /\ OneTransactionPerRequest'
  BY <1>1, <1>2, OneChanges
<1>4. Typed'
  BY <1>3 DEF IInv, Typed
<1>5. Prepared'
  BY <1>1 DEF IInv, Prepared, Typed
<1>6. NoStrandedMessage'
  <2> SUFFICES ASSUME NEW u \in Ids, u \notin lists, \A k \in Kinds : u \notin array[k],
                      NEW i \in DOMAIN tr'[u].fifo
               PROVE  tr'[u].fifo[i] \notin Received
    BY DEF NoStrandedMessage
  <2>1. CASE u # t
    BY <2>1, <1>2 DEF IInv, NoStrandedMessage, ChangesOne
  <2>2. CASE u = t
    <3> DEFINE f == tr[t].fifo
    <3>1. f \in Seq(Events) /\ tr'[t].fifo = Append(f, e)
      BY <1>1 DEF IInv, Typed, Local, Transaction
    <3>2. \A j \in DOMAIN f : f[j] \notin Received
      BY <2>2 DEF IInv, NoStrandedMessage
    <3> HIDE DEF f
    <3>3. i \in 1 .. Len(f) + 1 /\ DOMAIN f = 1 .. Len(f) /\ Len(f) \in Nat
      BY <2>2, <3>1, AppendProperties, <1>1
    <3>4. Append(f, e)[i] = IF i <= Len(f) THEN f[i] ELSE e
      BY <3>1, <3>3, AppendProperties, <1>1
    <3> QED
      BY <1>1, <2>2, <3>1, <3>2, <3>3, <3>4
  <2> QED
    BY <2>1, <2>2
<1> QED
  BY <1>3, <1>4, <1>5, <1>6 DEF IInv

LEMMA FireTimerInv ==
  ASSUME IInv, NEW t \in Ids, NEW e \in Timeouts, FireTimer(t, e)
  PROVE  IInv'
<1> DEFINE due == [u \in Ids |-> IF u = t THEN e ELSE "none"]
<1>1. /\ t \in lists /\ t \in Made
      /\ osip_timers_execute(tr[t].ctx_type, due)
  BY InUse DEF FireTimer
<1>2. e # "none" /\ t \in Live(tr[t].ctx_type) /\ due[t] = e
  BY <1>1 DEF Timeouts, Live
<1>3. tr[t].state \notin PreStates
  <2>1. MayFire(t, e)
    BY <1>1, <1>2 DEF osip_timers_execute
  <2> QED
    BY <2>1 DEF MayFire, TimerState, Timeouts, PreStates
<1>4. tr' = [tr EXCEPT ![t].fifo = Append(@, e)]
  <2>1. tr' = [u \in Ids |-> IF u \in Live(tr[t].ctx_type) /\ due[u] # "none"
                             THEN [tr[u] EXCEPT !.fifo = Append(@, due[u])]
                             ELSE tr[u]]
    BY <1>1 DEF osip_timers_execute
  <2>2. tr \in [Ids -> Transaction]
    BY DEF IInv, Typed
  <2> QED
    BY <1>2, <2>1, <2>2
<1>5. UNCHANGED <<transactionid, lists, array, incoming, arrived>>
  BY <1>1 DEF osip_timers_execute
<1> QED
  BY <1>1, <1>3, <1>4, <1>5, QueueOther

LEMMA AddEventInv ==
  ASSUME IInv, NEW t \in Ids, NEW r \in Responses, osip_transaction_add_event(t, r)
  PROVE  IInv'
<1>1. t \in Made
  <2>1. tr[t].state # "none"
    BY DEF osip_transaction_add_event
  <2>2. ~ t >= transactionid
    BY <2>1 DEF IInv, Numbered
  <2> QED
    BY <2>2, InUse DEF Made, Ids
<1> QED
  BY <1>1, QueueOther DEF osip_transaction_add_event

\* The invariant is inductive.
THEOREM NextInv == IInv /\ [Next]_osipVars => IInv'
<1> SUFFICES ASSUME IInv, [Next]_osipVars PROVE IInv'
  OBVIOUS
<1>1. CASE Receive
  BY <1>1, ReceiveKnownInv, ReceiveNewInv DEF Receive
<1>2. CASE AddFirstEvent
  BY <1>2, AddFirstEventInv
<1>3. ASSUME NEW k \in Kinds, Execute(k) PROVE IInv'
  <2>1. <<>> \in Seq(Responses)
    BY EmptySeq
  <2> QED
    BY <1>3, <2>1, ExecuteEventInv, ExecuteMovesInv DEF Execute
<1>4. ASSUME NEW t \in Ids, NEW e \in Timeouts, FireTimer(t, e) PROVE IInv'
  BY <1>4, FireTimerInv
<1>5. ASSUME NEW t \in Ids, NEW r \in Responses, osip_transaction_add_event(t, r)
      PROVE  IInv'
  BY <1>5, AddEventInv
<1>6. CASE UNCHANGED osipVars
  BY <1>6 DEF osipVars, IInv, Typed, Numbered, Made, Requested, Prepared, NoStrandedMessage,
              OneTransactionPerRequest, Found, Matches
<1> QED
  BY <1>1, <1>2, <1>3, <1>4, <1>5, <1>6 DEF Next

THEOREM SpecInv == Spec => []IInv
  BY InitInv, NextInv, PTL DEF Spec

-----------------------------------------------------------------------------
(* The theorems *)

\* Every variable has its type, and the interval of timer G is never shorter
\* than T1 nor longer than T2.
THEOREM SpecTypeOK == Spec => []OsipTypeOK
<1>1. IInv => OsipTypeOK
  <2> SUFFICES ASSUME IInv PROVE OsipTypeOK
    OBVIOUS
  <2>1. array \in [Kinds -> SUBSET Made] /\ transactionid \in 1 .. MaxTransactions + 1
    BY DEF IInv, Numbered
  <2> QED
    BY <2>1, InUse DEF OsipTypeOK, IInv, Typed
<1> QED
  BY <1>1, SpecInv, PTL

\* A transaction that only a timeout can end has that timer running.
THEOREM SpecWaitsOnTimer == Spec => []WaitsOnTimer
<1>1. IInv => WaitsOnTimer
  BY DEF IInv, Typed, Local, TimerRuns, WaitsOnTimer
<1> QED
  BY <1>1, SpecInv, PTL

\* After a final response nothing but that response is sent.
THEOREM SpecFinalIsFinal == Spec => []FinalIsFinal
<1>1. IInv => FinalIsFinal
  BY DEF IInv, Typed, Local, FinalStays, FinalIsFinal
<1> QED
  BY <1>1, SpecInv, PTL

\* No received message is left in the FIFO of a transaction that nobody will
\* execute again, however the receiver and the executor interleave.
THEOREM SpecNoStrandedMessage == Spec => []NoStrandedMessage
<1>1. IInv => NoStrandedMessage
  BY DEF IInv
<1> QED
  BY <1>1, SpecInv, PTL

\* At most one transaction of the lists takes a request.
THEOREM SpecOneTransaction == Spec => []OneTransactionPerRequest
<1>1. IInv => OneTransactionPerRequest
  BY DEF IInv
<1> QED
  BY <1>1, SpecInv, PTL

-----------------------------------------------------------------------------
(* OsipServer implements ServerTransaction *)

\* A step seen from ServerTransaction: one transaction does what it may do, and is still that
\* of its request, unless it is a new one.
PromisedOne(t) == /\ tr' \in [Ids -> Transaction]
                  /\ Promised(tr[t], tr'[t])
                  /\ tr'[t].req = tr[t].req \/ tr'[t].wire = <<>>
                  /\ \A u \in Ids \ {t} : tr'[u] = tr[u]

LEMMA StepShape ==
  ASSUME IInv, [Next]_osipVars
  PROVE  tr' = tr \/ \E t \in Ids : PromisedOne(t)
<1>1. ASSUME NEW t \in Ids, ChangesOne(t) PROVE \E u \in Ids : PromisedOne(u)
  BY <1>1 DEF ChangesOne, Step, PromisedOne
<1>2. ASSUME NEW t \in Ids, NEW e \in Events, tr' = [tr EXCEPT ![t].fifo = Append(@, e)]
      PROVE  \E u \in Ids : PromisedOne(u)
  BY <1>1, <1>2, QueueStep
<1>3. ASSUME NEW m \in Messages, Arrive(m), osip_find_transaction_and_add_event(m)
      PROVE  \E u \in Ids : PromisedOne(u)
  <2>1. Found(m) \in SUBSET (1 .. MaxTransactions) /\ Found(m) # {}
    BY <1>3, InUse DEF Found, osip_find_transaction_and_add_event, Ids
  <2>2. First(Found(m)) \in Ids
    BY <2>1, FirstIn, OsipAssumption DEF Ids
  <2>3. EventType(m) \in Events
    BY DEF EventType, Events, Received
  <2> QED
    BY <1>2, <1>3, <2>2, <2>3 DEF osip_find_transaction_and_add_event
<1>4. ASSUME NEW m \in Messages, osip_create_transaction(m)
      PROVE  tr' = tr \/ \E u \in Ids : PromisedOne(u)
  <2>1. CASE osip_transaction_init(ListOf(m), m)
    <3> DEFINE k == ListOf(m)
               n == transactionid
               r == [NoTransaction EXCEPT
                        !.ctx_type = k, !.req = m,
                        !.state = IF k = "IST" THEN "IST_PRE_PROCEEDING"
                                               ELSE "NIST_PRE_TRYING"]
    <3>1. k \in Kinds
      BY DEF ListOf, Kinds
    <3>2. Local(r) /\ r.wire = <<>> /\ r.state \in PreStates
      BY <3>1, NewRecord
    <3>3. n \in Ids /\ tr' = [tr EXCEPT ![n] = r]
      BY <2>1 DEF osip_transaction_init
    <3> HIDE DEF r, k
    <3>4. tr[n].state = "none" /\ Local(tr[n]) /\ tr \in [Ids -> Transaction]
      BY <3>3, InUse DEF IInv, Typed, Numbered
    <3>5. Promised(tr[n], r)
      BY <3>2, <3>4 DEF Promised, SamePhase, Idle, Open, Closed, Over, PreStates,
                        OpenStates, ClosedStates, Terminated, Local, WireFits
    <3> QED
      BY <3>2, <3>3, <3>4, <3>5 DEF PromisedOne, Local
  <2> QED
    BY <1>4, <2>1 DEF osip_create_transaction
<1>5. CASE AddFirstEvent
  <2>1. incoming \in Ids /\ EventType(tr[incoming].req) \in Events
    BY <1>5 DEF IInv, Typed, AddFirstEvent, EventType, Events, Received
  <2> QED
    BY <1>2, <1>5, <2>1 DEF AddFirstEvent
<1>6. ASSUME NEW k \in Kinds, Execute(k)
      PROVE  tr' = tr \/ \E u \in Ids : PromisedOne(u)
  <2>1. CASE ExecuteEvent(k, <<>>)
    <3> DEFINE t == First(array[k])
    <3>1. t \in Ids /\ <<>> \in Seq(Responses)
      BY <2>1, FirstOfCopy, InUse, EmptySeq DEF ExecuteEvent
    <3>2. ChangesOne(t)
      BY <2>1, <3>1, ExecuteStep DEF ExecuteEvent, IInv, Typed
    <3> HIDE DEF t
    <3> QED
      BY <1>1, <3>1, <3>2
  <2> QED
    BY <1>6, <2>1 DEF Execute, ExecuteBegin, ExecuteNext
<1>7. ASSUME NEW t \in Ids, NEW e \in Timeouts, FireTimer(t, e)
      PROVE  \E u \in Ids : PromisedOne(u)
  <2> DEFINE due == [u \in Ids |-> IF u = t THEN e ELSE "none"]
  <2>1. /\ tr \in [Ids -> Transaction] /\ due[t] = e /\ e # "none"
        /\ t \in Live(tr[t].ctx_type)
        /\ osip_timers_execute(tr[t].ctx_type, due)
    BY <1>7 DEF FireTimer, IInv, Typed, Live, Timeouts
  <2>2. tr' = [tr EXCEPT ![t].fifo = Append(@, e)]
    <3>1. tr' = [u \in Ids |-> IF u \in Live(tr[t].ctx_type) /\ due[u] # "none"
                               THEN [tr[u] EXCEPT !.fifo = Append(@, due[u])]
                               ELSE tr[u]]
      BY <2>1 DEF osip_timers_execute
    <3> QED
      BY <2>1, <3>1
  <2> QED
    BY <1>2, <2>2, Distinct
<1>8. ASSUME NEW t \in Ids, NEW r \in Responses, osip_transaction_add_event(t, r)
      PROVE  \E u \in Ids : PromisedOne(u)
  BY <1>2, <1>8, Distinct DEF osip_transaction_add_event
<1>9. CASE UNCHANGED osipVars
  BY <1>9 DEF osipVars
<1> QED
  BY <1>3, <1>4, <1>5, <1>6, <1>7, <1>8, <1>9 DEF Next, Receive

\* The phases are what the states say.
LEMMA PhaseOf ==
  ASSUME NEW t \in Ids, tr[t] \in Transaction
  PROVE  /\ Idle(tr[t]) <=> Phase(t) = "idle"
         /\ Open(tr[t]) <=> Phase(t) = "open"
         /\ Closed(tr[t]) <=> Phase(t) = "final"
         /\ Over(tr[t]) <=> Phase(t) = "over"
         /\ Phase(t) \in {"idle", "open", "final", "over"}
<1>1. tr[t].state \in States
  BY DEF Transaction
<1> QED
  BY <1>1 DEF Phase, Idle, Open, Closed, Over, States, PreStates, OpenStates, ClosedStates,
              Terminated

LEMMA PhaseOfNext ==
  ASSUME NEW t \in Ids, tr'[t] \in Transaction
  PROVE  /\ Idle(tr'[t]) <=> Phase(t)' = "idle"
         /\ Open(tr'[t]) <=> Phase(t)' = "open"
         /\ Closed(tr'[t]) <=> Phase(t)' = "final"
         /\ Over(tr'[t]) <=> Phase(t)' = "over"
         /\ Phase(t)' \in {"idle", "open", "final", "over"}
<1>1. tr'[t].state \in States
  BY DEF Transaction
<1> QED
  BY <1>1 DEF Phase, Idle, Open, Closed, Over, States, PreStates, OpenStates, ClosedStates,
              Terminated

\* What Promised allows is a step of ServerTransaction, or a stutter.
LEMMA PromisedStep ==
  ASSUME tr \in [Ids -> Transaction], NEW t \in Ids, PromisedOne(t)
  PROVE  [Promise!Next]_(Promise!vars)
<1> DEFINE ph == [u \in Ids |-> Phase(u)]
           wi == [u \in Ids |-> tr[u].wire]
<1>1. /\ tr' \in [Ids -> Transaction] /\ Promised(tr[t], tr'[t])
      /\ \A u \in Ids \ {t} : tr'[u] = tr[u]
  BY DEF PromisedOne
<1>2. ph' = [ph EXCEPT ![t] = Phase(t)'] /\ wi' = [wi EXCEPT ![t] = tr'[t].wire]
  <2>1. \A u \in Ids \ {t} : Phase(u)' = Phase(u)
    BY <1>1, Zenon DEF Phase
  <2> QED
    BY <1>1, <2>1
<1>3. ph[t] = Phase(t) /\ wi[t] = tr[t].wire
  OBVIOUS
<1>4. /\ Idle(tr[t]) <=> ph[t] = "idle"
      /\ Open(tr[t]) <=> ph[t] = "open"
      /\ Closed(tr[t]) <=> ph[t] = "final"
      /\ Over(tr[t]) <=> ph[t] = "over"
      /\ ph[t] \in {"idle", "open", "final", "over"}
  BY PhaseOf, <1>3
<1>5. /\ Idle(tr'[t]) <=> Phase(t)' = "idle"
      /\ Open(tr'[t]) <=> Phase(t)' = "open"
      /\ Closed(tr'[t]) <=> Phase(t)' = "final"
      /\ Over(tr'[t]) <=> Phase(t)' = "over"
      /\ Phase(t)' \in {"idle", "open", "final", "over"}
  BY PhaseOfNext, <1>1
<1>6. SamePhase(tr[t], tr'[t]) => ph' = ph
  BY <1>2, <1>4, <1>5 DEF SamePhase
<1>7. tr'[t].wire = tr[t].wire => wi' = wi
  BY <1>2
<1> HIDE DEF ph, wi
<1>8. CASE SamePhase(tr[t], tr'[t]) /\ tr'[t].wire = tr[t].wire
  BY <1>6, <1>7, <1>8 DEF Promise!vars, ph, wi
<1>9. CASE Idle(tr[t]) /\ Open(tr'[t]) /\ tr'[t].wire = tr[t].wire
  <2>1. Promise!Announce(t)
    BY <1>2, <1>4, <1>5, <1>7, <1>9 DEF Promise!Announce, ph, wi
  <2> QED
    BY <2>1 DEF Promise!Next
<1>10. CASE /\ Open(tr[t]) /\ Open(tr'[t])
            /\ tr'[t].wire = Append(tr[t].wire, "SND_STATUS_1XX")
  <2>1. ph' = ph
    BY <1>2, <1>4, <1>5, <1>10 DEF ph
  <2>2. Promise!SendProvisional(t, "SND_STATUS_1XX")
    BY <1>2, <1>3, <1>4, <1>10, <2>1 DEF Promise!SendProvisional, ph, wi
  <2> QED
    BY <2>2 DEF Promise!Next
<1>11. CASE /\ Open(tr[t]) /\ (Closed(tr'[t]) \/ Over(tr'[t]))
            /\ \E x \in Final : tr'[t].wire = Append(tr[t].wire, x)
  <2>1. PICK x \in Final : tr'[t].wire = Append(tr[t].wire, x)
    BY <1>11
  <2>2. PICK next \in {"final", "over"} : Phase(t)' = next
    BY <1>5, <1>11
  <2>3. Promise!SendFinal(t, x, next)
    BY <1>2, <1>3, <1>4, <1>11, <2>1, <2>2 DEF Promise!SendFinal, ph, wi
  <2> QED
    BY <2>3 DEF Promise!Next
<1>12. CASE /\ (Open(tr[t]) \/ Closed(tr[t])) /\ SamePhase(tr[t], tr'[t])
            /\ tr[t].wire # <<>>
            /\ tr'[t].wire = Append(tr[t].wire, tr[t].wire[Len(tr[t].wire)])
  <2>1. Promise!Repeat(t)
    BY <1>2, <1>3, <1>4, <1>6, <1>12 DEF Promise!Repeat, Promise!Last, ph, wi
  <2> QED
    BY <2>1 DEF Promise!Next
<1>13. CASE (Open(tr[t]) \/ Closed(tr[t])) /\ Over(tr'[t]) /\ tr'[t].wire = tr[t].wire
  <2>1. Promise!End(t)
    BY <1>2, <1>4, <1>5, <1>7, <1>13 DEF Promise!End, ph, wi
  <2> QED
    BY <2>1 DEF Promise!Next
<1> QED
  BY <1>1, <1>8, <1>9, <1>10, <1>11, <1>12, <1>13 DEF Promised

\* The transaction layer, with its FIFOs, lists, timers and threads, keeps the
\* promise of ServerTransaction: one announcement, provisional responses, one
\* final response, repetitions of the last one only.
THEOREM SpecKeepsPromise == Spec => KeepsPromise
<1>1. Init => Promise!Init
  <2> SUFFICES ASSUME Init PROVE Promise!Init
    OBVIOUS
  <2>1. \A t \in Ids : tr[t] = NoTransaction
    BY DEF Init
  <2>2. \A t \in Ids : Phase(t) = "idle" /\ tr[t].wire = <<>>
    <3> SUFFICES ASSUME NEW t \in Ids PROVE Phase(t) = "idle" /\ tr[t].wire = <<>>
      OBVIOUS
    <3>1. tr[t] \in Transaction
      BY InitInv DEF IInv, Typed, Local
    <3>2. Idle(tr[t]) /\ tr[t].wire = <<>>
      BY <2>1 DEF Idle, NoTransaction
    <3> QED
      BY <3>1, <3>2, PhaseOf
  <2> QED
    BY <2>2 DEF Promise!Init
<1>2. IInv /\ [Next]_osipVars => [Promise!Next]_(Promise!vars)
  <2> SUFFICES ASSUME IInv, [Next]_osipVars PROVE [Promise!Next]_(Promise!vars)
    OBVIOUS
  <2>1. CASE tr' = tr
    BY <2>1 DEF Promise!vars, Phase
  <2>2. ASSUME NEW t \in Ids, PromisedOne(t) PROVE [Promise!Next]_(Promise!vars)
    BY <2>2, PromisedStep DEF IInv, Typed
  <2> QED
    BY <2>1, <2>2, StepShape
<1> QED
  BY <1>1, <1>2, SpecInv, PTL DEF Spec, KeepsPromise, Promise!Spec
=============================================================================
