------------------------- MODULE ExSubscriptionProofs -------------------------
(***************************************************************************)
(* Proofs about the subscription of libeXosip2, for all periods, ticks and *)
(* bounds: its types (SubTypes), that the kill callback of a request that  *)
(* was replaced by one with credentials never meets a subscription that    *)
(* has been freed (NothingUsedStale), that subscriber and notifier have    *)
(* one dialog, the same, and end it together (OneForBoth), and that the    *)
(* refreshes come in time if ticks are short enough (StaysForBoth).        *)
(*                                                                         *)
(* The lemmas named ...Effect say once what a step leaves behind; the four *)
(* invariants are then preserved step by step.                             *)
(***************************************************************************)
EXTENDS ExSubscription, WellFoundedInduction, TLAPS

-----------------------------------------------------------------------------
(* Types *)

Codes == {"none", "1xx", "2xx", "401", "423", "4xx"}
Kinds == {"SUBSCRIBE", "NOTIFY", "to SUBSCRIBE", "to NOTIFY"}
DialogStates == {"early", "confirmed", "deleted"}

Transactions == [n : Nat, ask : Nat, auth : BOOLEAN, jd : Nat,
                 st : {"trying", "completed", "terminated"}, resp : Codes, age : Nat]
Dialogs == [tag : Nat, state : DialogStates, cseq : Nat, retry : Nat, outs : Seq(Transactions)]
Subscriptions == [live : BOOLEAN, period : Nat, retry : Nat, status : Nat, dlgs : Seq(Dialogs),
                  out : Transactions]
Notifiers == [live : BOOLEAN, tag : Nat, left : Int, status : Nat, state : DialogStates,
              cseq : Nat, retry : Nat, inc : [n : Nat, ask : Nat, st : {"open", "answered"}],
              outs : Seq(Transactions)]
Messages == [kind : Kinds, n : Nat, tag : Nat, ask : Nat, auth : BOOLEAN, code : Codes, value : Nat]
History == [subscribes : Nat, confirmed : BOOLEAN, wants : BOOLEAN, closing : BOOLEAN,
            closed : {"none", "answered", "killed", "unreachable"}, stale : BOOLEAN, short : BOOLEAN]

\* A transaction names the dialog it is kept in.
Kept(s) == /\ s.out.jd <= Len(s.dlgs)
           /\ \A d \in DOMAIN s.dlgs : \A i \in DOMAIN s.dlgs[d].outs : s.dlgs[d].outs[i].jd = d

TypeOK == /\ js \in Subscriptions /\ jn \in Notifiers /\ stranded \in Nat
          /\ net \subseteq Messages /\ replaced \subseteq Transactions
          /\ trouble \in Nat /\ seen \in History
          /\ Kept(js)

USE ExSubscriptionAssumption

LEMMA TransactionTyped ==
  ASSUME NEW n \in Nat, NEW ask \in Nat, NEW auth \in BOOLEAN, NEW d \in Nat
  PROVE  LET tr == Transaction(n, ask, auth, d)
         IN /\ tr \in Transactions
            /\ tr.n = n /\ tr.ask = ask /\ tr.jd = d
            /\ tr.st = "trying" /\ tr.resp = "none" /\ tr.age = 0
  BY DEF Transaction, Transactions, Codes

LEMMA SubscribeTyped ==
  ASSUME NEW tr \in Transactions, NEW tag \in Nat
  PROVE  LET m == Subscribe(tr, tag)
         IN /\ m \in Messages
            /\ m.kind = "SUBSCRIBE" /\ m.n = tr.n /\ m.tag = tag /\ m.ask = tr.ask /\ m.code = "none"
  BY DEF Subscribe, Message, Messages, Transactions, Kinds, Codes

LEMMA NotifyTyped ==
  ASSUME NEW tr \in Transactions, NEW tag \in Nat
  PROVE  LET m == Notify(tr, tag)
         IN /\ m \in Messages
            /\ m.kind = "NOTIFY" /\ m.n = tr.n /\ m.tag = tag /\ m.ask = tr.ask /\ m.code = "none"
  BY DEF Notify, Message, Messages, Transactions, Kinds, Codes

LEMMA AnswerTyped ==
  ASSUME NEW m \in Messages, NEW code \in Codes, NEW tag \in Nat, NEW value \in Nat
  PROVE  LET a == Answer(m, code, tag, value)
         IN /\ a \in Messages
            /\ a.kind = IF m.kind = "NOTIFY" THEN "to NOTIFY" ELSE "to SUBSCRIBE"
            /\ a.n = m.n /\ a.tag = tag /\ a.ask = m.ask /\ a.code = code /\ a.value = value
  BY DEF Answer, Messages, Kinds

LEMMA ReplyTyped ==
  ASSUME NEW n \in Nat, NEW code \in Codes, NEW tag \in Nat, NEW value \in Nat
  PROVE  LET a == Answer(Message("SUBSCRIBE", n, 0), code, tag, value)
         IN /\ a \in Messages /\ a.kind = "to SUBSCRIBE"
            /\ a.n = n /\ a.tag = tag /\ a.code = code /\ a.value = value
  BY DEF Answer, Message, Messages, Kinds, Codes

LEMMA RefreshIntervalTyped ==
  ASSUME NEW period, NEW expires, period \in Nat /\ expires \in Nat
  PROVE  RefreshInterval(period, expires) \in Nat
  BY DEF RefreshInterval

LEMMA RefreshIntervalIs ==
  ASSUME NEW period, NEW expires, period \in Nat /\ expires \in Nat
  PROVE  RefreshInterval(period, expires) = IF expires < period - 15 \/ expires = 0 THEN expires ELSE period
  BY DEF RefreshInterval

LEMMA FreedTyped == /\ Freed \in Subscriptions /\ ~Freed.live /\ Freed.dlgs = <<>> /\ Freed.out.jd = 0
                    /\ Freed.out \in Transactions
<1> DEFINE t == Transaction(0, 0, FALSE, 0)
           e == <<>>
           out == [t EXCEPT !.st = "terminated"]
<1>1. t \in Transactions /\ t.jd = 0
  BY DEF Transaction, Transactions, Codes
<1>2. e \in Seq(Dialogs)
  OBVIOUS
<1>3. Freed = [live |-> FALSE, period |-> 0, retry |-> 0, status |-> 3, dlgs |-> e, out |-> out]
  BY DEF Freed, TERMINATED
<1> HIDE DEF t, e
<1>4. out \in Transactions /\ out.jd = 0
  BY <1>1 DEF Transactions
<1> HIDE DEF out
<1>5. Freed \in Subscriptions /\ ~Freed.live /\ Freed.dlgs = e /\ Freed.out = out
  BY <1>2, <1>3, <1>4 DEF Subscriptions
<1> QED
  BY <1>4, <1>5 DEF e

LEMMA NoNotifyTyped ==
  ASSUME NEW tag \in Nat
  PROVE  LET x == [NoNotify EXCEPT !.tag = tag]
         IN /\ x \in Notifiers /\ ~x.live /\ x.tag = tag /\ x.state = "deleted" /\ x.outs = <<>>
            /\ x.inc.st = "answered" /\ x.inc \in [n : Nat, ask : Nat, st : {"open", "answered"}]
<1> DEFINE x == [NoNotify EXCEPT !.tag = tag]
           e == <<>>
           inc == [n |-> 0, ask |-> 0, st |-> "answered"]
<1>1. e \in Seq(Transactions)
  OBVIOUS
<1>2. inc \in [n : Nat, ask : Nat, st : {"open", "answered"}] /\ inc.st = "answered"
  OBVIOUS
<1>3. NoNotify = [live |-> FALSE, tag |-> 0, left |-> 0, status |-> 0, state |-> "deleted",
                  cseq |-> 0, retry |-> 0, inc |-> inc, outs |-> e]
  BY DEF NoNotify, UNKNOWN
<1> HIDE DEF e, inc
<1>4. /\ NoNotify \in Notifiers /\ ~NoNotify.live /\ NoNotify.state = "deleted"
      /\ NoNotify.outs = e /\ NoNotify.inc = inc
  BY <1>1, <1>2, <1>3 DEF Notifiers, DialogStates
<1>5. x \in Notifiers /\ ~x.live /\ x.tag = tag /\ x.state = "deleted" /\ x.outs = e /\ x.inc = inc
  BY <1>4 DEF Notifiers
<1> QED
  BY <1>2, <1>5 DEF e

\* The parts of the state.
LEMMA Parts ==
  ASSUME TypeOK
  PROVE  /\ js.live \in BOOLEAN /\ js.period \in Nat /\ js.retry \in Nat /\ js.status \in Nat
         /\ js.dlgs \in Seq(Dialogs) /\ js.out \in Transactions
         /\ jn.live \in BOOLEAN /\ jn.tag \in Nat /\ jn.left \in Int /\ jn.status \in Nat
         /\ jn.state \in DialogStates /\ jn.cseq \in Nat /\ jn.retry \in Nat
         /\ jn.inc \in [n : Nat, ask : Nat, st : {"open", "answered"}] /\ jn.outs \in Seq(Transactions)
         /\ \A d \in DOMAIN js.dlgs : js.dlgs[d] \in Dialogs /\ d \in Nat \ {0} /\ d <= Len(js.dlgs)
  BY DEF TypeOK, Subscriptions, Notifiers

LEMMA LastOutTyped ==
  ASSUME TypeOK, NEW d \in DOMAIN js.dlgs
  PROVE  LastOut(js, d) \in Transactions
<1>1. js.dlgs[d] \in Dialogs /\ js.out \in Transactions
  BY Parts
<1> QED
  BY <1>1 DEF LastOut, Dialogs

LEMMA SubscriptionTyped ==
  ASSUME NEW live \in BOOLEAN, NEW period \in Nat, NEW retry \in Nat, NEW status \in Nat,
         NEW dlgs \in Seq(Dialogs), NEW out \in Transactions
  PROVE  [live |-> live, period |-> period, retry |-> retry, status |-> status,
          dlgs |-> dlgs, out |-> out] \in Subscriptions
  BY DEF Subscriptions

\* A dialog of the subscriber changes.
LEMMA DialogsWith ==
  ASSUME NEW s \in Seq(Dialogs), NEW d \in DOMAIN s, NEW x \in Dialogs
  PROVE  LET t == [s EXCEPT ![d] = x]
         IN t \in Seq(Dialogs) /\ Len(t) = Len(s) /\ DOMAIN t = DOMAIN s /\ t[d] = x
            /\ \A e \in DOMAIN s : e # d => t[e] = s[e]
  OBVIOUS

-----------------------------------------------------------------------------
(* What the steps change *)

\* The dialog d of the subscriber is now x.
Dialog2(d, x) == /\ js'.dlgs \in Seq(Dialogs) /\ Len(js'.dlgs) = Len(js.dlgs) /\ js'.dlgs[d] = x
                 /\ \A e \in DOMAIN js.dlgs : e # d => js'.dlgs[e] = js.dlgs[e]

\* A new transaction tr of the dialog d.
Adds(d, tr) == \E x \in Dialogs :
    /\ Dialog2(d, x) /\ x.tag = js.dlgs[d].tag /\ x.state = js.dlgs[d].state
    /\ x.cseq = js.dlgs[d].cseq + 1
    /\ x.outs = <<tr>> \o js.dlgs[d].outs

New(tr, d) == tr \in Transactions /\ tr.jd = d /\ tr.st = "trying" /\ tr.resp = "none" /\ tr.age = 0

\* What the history gets of a refresh.
RefreshSeen(e) == /\ seen' \in History /\ seen'.subscribes = seen.subscribes + 1
                  /\ (seen'.wants <=> e > 0)
                  /\ (seen'.short <=> seen.short \/ e < MinExpires)
                  /\ seen'.confirmed = seen.confirmed /\ seen'.closing = seen.closing
                  /\ seen'.closed = seen.closed /\ seen'.stale = seen.stale

LEMMA SendRefreshEffect ==
  ASSUME TypeOK, NEW d \in DOMAIN js.dlgs, NEW e \in Nat, SendRefresh(d, e)
  PROVE  \E tr : /\ New(tr, d) /\ tr.n = js.dlgs[d].cseq + 1 /\ tr.ask = e
                 /\ Adds(d, tr)
                 /\ js'.live = js.live /\ js'.out = js.out /\ js'.period = RefreshInterval(3600, e)
                 /\ js' \in Subscriptions
                 /\ Usable(js.dlgs[d]) /\ Finished(LastOut(js, d))
                 /\ net' = net \cup {Subscribe(tr, js.dlgs[d].tag)}
                 /\ replaced' = replaced
                 /\ RefreshSeen(e)
<1> DEFINE n == js.dlgs[d].cseq + 1
           auth == js.out.auth \/ LastOut(js, d).auth
           tr == Transaction(n, e, auth, d)
           outs == <<tr>> \o js.dlgs[d].outs
           x == [[js.dlgs[d] EXCEPT !.cseq = n] EXCEPT !.outs = outs]
           period == RefreshInterval(3600, e)
<1>1. js.dlgs[d] \in Dialogs /\ js.dlgs[d].cseq \in Nat /\ js.dlgs[d].outs \in Seq(Transactions) /\ d \in Nat
  BY Parts DEF Dialogs
<1>2. n \in Nat /\ auth \in BOOLEAN
  BY <1>1
<1>3. New(tr, d) /\ tr.n = n /\ tr.ask = e
  <2> HIDE DEF n, auth
  <2> QED
    BY <1>1, <1>2 DEF New, Transaction, Transactions, Codes
<1>4. outs \in Seq(Transactions)
  <2> HIDE DEF tr
  <2> QED
    BY <1>1, <1>3 DEF New
<1>5. x \in Dialogs /\ x.tag = js.dlgs[d].tag /\ x.state = js.dlgs[d].state /\ x.cseq = n /\ x.outs = outs
  <2> HIDE DEF n, outs
  <2> QED
    BY <1>1, <1>2, <1>4 DEF Dialogs
<1>6. period \in Nat
  BY RefreshIntervalTyped
<1>7. js' = [js EXCEPT !.period = period, !.dlgs[d].cseq = n, !.dlgs[d].outs = <<tr>> \o @]
  BY DEF SendRefresh
<1> HIDE DEF n, auth, tr, period
<1>8. /\ js'.live = js.live /\ js'.out = js.out /\ js'.period = period /\ js'.retry = js.retry
      /\ js'.status = js.status /\ js'.dlgs = [js.dlgs EXCEPT ![d].cseq = n, ![d].outs = <<tr>> \o @]
      /\ js' = [live |-> js.live, period |-> period, retry |-> js.retry, status |-> js.status,
                dlgs |-> js'.dlgs, out |-> js.out]
  BY <1>7 DEF TypeOK, Subscriptions
<1>9. js'.dlgs = [js.dlgs EXCEPT ![d] = x]
  <2>1. js.dlgs \in Seq(Dialogs) /\ js.dlgs[d] \in Dialogs
    BY Parts
  <2> QED
    BY <1>8, <2>1 DEF Dialogs
<1>10. Dialog2(d, x)
  <2> HIDE DEF x
  <2> QED
    BY <1>5, <1>9, Parts, DialogsWith DEF Dialog2
<1>11. js' \in Subscriptions
  BY <1>6, <1>8, <1>10, Parts DEF Subscriptions, Dialog2
<1>12. Adds(d, tr)
  <2> HIDE DEF x
  <2> QED
    BY <1>5, <1>10 DEF Adds, n
<1>13. /\ Usable(js.dlgs[d]) /\ Finished(LastOut(js, d))
       /\ net' = net \cup {Subscribe(tr, js.dlgs[d].tag)}
       /\ replaced' = replaced
  BY DEF SendRefresh, tr, n, auth
<1>14. RefreshSeen(e)
  <2> DEFINE k == seen.subscribes + 1
             w == e > 0
             b == seen.short \/ e < MinExpires
  <2>1. k \in Nat /\ w \in BOOLEAN /\ b \in BOOLEAN
    BY DEF TypeOK, History
  <2>2. seen' = [seen EXCEPT !.subscribes = k, !.wants = w, !.short = b]
    BY DEF SendRefresh
  <2> HIDE DEF k, w, b
  <2>3. /\ seen' \in History /\ seen'.subscribes = k /\ seen'.wants = w /\ seen'.short = b
        /\ seen'.confirmed = seen.confirmed /\ seen'.closing = seen.closing
        /\ seen'.closed = seen.closed /\ seen'.stale = seen.stale
    BY <2>1, <2>2 DEF TypeOK, History
  <2> QED
    BY <2>3 DEF RefreshSeen, k, w, b
<1> QED
  BY <1>3, <1>8, <1>11, <1>12, <1>13, <1>14 DEF n, period

\* What is asked for when tr is sent again.
AskAgain(tr) == IF tr.resp = "423" THEN MinExpires ELSE tr.ask

LEMMA RetryFirstEffect ==
  ASSUME TypeOK, SendWithCredential(0)
  PROVE  \E tr : /\ New(tr, 0) /\ tr.n = js.out.n + 1 /\ tr.ask = AskAgain(js.out)
                 /\ js'.live = js.live /\ js'.out = tr /\ js'.period = js.period /\ js'.dlgs = js.dlgs
                 /\ js' \in Subscriptions
                 /\ net' = net \cup {Subscribe(tr, 0)}
                 /\ replaced' = replaced \cup {js.out}
                 /\ seen' = [seen EXCEPT !.subscribes = @ + 1]
<1> DEFINE n == js.out.n + 1
           ask == AskAgain(js.out)
           tr == Transaction(n, ask, TRUE, 0)
           retry == js.retry + 1
<1>1. js.out \in Transactions /\ LastOut(js, 0) = js.out
  BY Parts DEF LastOut
<1>2. n \in Nat /\ ask \in Nat /\ retry \in Nat
  <2>1. js.out.n \in Nat /\ js.out.ask \in Nat /\ js.retry \in Nat
    BY Parts DEF Transactions
  <2>2. ask \in Nat
    BY <2>1 DEF AskAgain
  <2> QED
    BY <2>1, <2>2
<1>3. New(tr, 0) /\ tr.n = n /\ tr.ask = ask
  <2> HIDE DEF n, ask
  <2> QED
    BY <1>2 DEF New, Transaction, Transactions, Codes
<1>4. /\ js' = [js EXCEPT !.retry = retry, !.out = tr]
      /\ net' = net \cup {Subscribe(tr, 0)}
      /\ replaced' = replaced \cup {js.out}
      /\ seen' = [seen EXCEPT !.subscribes = @ + 1]
  BY <1>1 DEF SendWithCredential, AskAgain
<1> HIDE DEF n, ask, tr, retry
<1>5. /\ js'.live = js.live /\ js'.out = tr /\ js'.period = js.period /\ js'.dlgs = js.dlgs
      /\ js' = [live |-> js.live, period |-> js.period, retry |-> retry, status |-> js.status,
                dlgs |-> js.dlgs, out |-> tr]
  BY <1>4 DEF TypeOK, Subscriptions
<1>6. js' \in Subscriptions
  BY <1>2, <1>3, <1>5, Parts DEF Subscriptions, New
<1> QED
  BY <1>3, <1>4, <1>5, <1>6 DEF n, ask

LEMMA RetryInEffect ==
  ASSUME TypeOK, NEW d \in DOMAIN js.dlgs, SendWithCredential(d)
  PROVE  \E tr : /\ New(tr, d) /\ tr.n = LastOut(js, d).n + 1 /\ tr.ask = AskAgain(LastOut(js, d))
                 /\ js'.live = js.live /\ js'.period = js.period /\ js' \in Subscriptions
                 /\ net' = net \cup {Subscribe(tr, js.dlgs[d].tag)}
                 /\ seen' = [seen EXCEPT !.subscribes = @ + 1]
                 /\ IF js.dlgs[d].outs = <<>>
                    THEN /\ js'.out = tr /\ replaced' = replaced \cup {js.out}
                         /\ \E x \in Dialogs : Dialog2(d, x) /\ x.outs = <<>>
                    ELSE js'.out = js.out /\ replaced' = replaced /\ Adds(d, tr)
<1> DEFINE out == LastOut(js, d)
           n == out.n + 1
           ask == AskAgain(out)
           tr == Transaction(n, ask, TRUE, d)
           initial == js.dlgs[d].outs = <<>>
           dlg == js.dlgs[d]
           retry == dlg.retry + 1
           cseq == dlg.cseq + 1
           outs == <<tr>> \o dlg.outs
           x == [[dlg EXCEPT !.retry = retry] EXCEPT !.cseq = cseq]
           y == [x EXCEPT !.outs = outs]
<1>1. out \in Transactions /\ d # 0 /\ dlg \in Dialogs /\ dlg.outs \in Seq(Transactions) /\ js.out \in Transactions
      /\ d \in Nat /\ js.dlgs \in Seq(Dialogs) /\ dlg.cseq \in Nat
  BY LastOutTyped, Parts DEF Dialogs
<1>2. n \in Nat /\ ask \in Nat /\ retry \in Nat /\ cseq \in Nat
  <2> HIDE DEF out, dlg
  <2>1. out.n \in Nat /\ out.ask \in Nat /\ dlg.retry \in Nat /\ dlg.cseq \in Nat
    BY <1>1 DEF Transactions, Dialogs
  <2>2. ask \in Nat
    BY <2>1 DEF AskAgain
  <2> QED
    BY <2>1, <2>2
<1>3. New(tr, d) /\ tr.n = n /\ tr.ask = ask
  <2> HIDE DEF n, ask
  <2> QED
    BY <1>1, <1>2 DEF New, Transaction, Transactions, Codes
<1>4. outs \in Seq(Transactions)
  <2> HIDE DEF tr, dlg
  <2> QED
    BY <1>1, <1>3 DEF New
<1>5. x \in Dialogs /\ x.tag = dlg.tag /\ x.state = dlg.state /\ x.cseq = cseq /\ x.outs = dlg.outs
  <2> HIDE DEF dlg, retry, cseq
  <2> QED
    BY <1>1, <1>2 DEF Dialogs
<1>6. y \in Dialogs /\ y.tag = dlg.tag /\ y.state = dlg.state /\ y.cseq = cseq /\ y.outs = outs
  <2> HIDE DEF dlg, outs, x
  <2> QED
    BY <1>4, <1>5 DEF Dialogs
<1>7. /\ js' = IF initial THEN [js EXCEPT !.dlgs[d].retry = retry, !.dlgs[d].cseq = cseq, !.out = tr]
               ELSE [js EXCEPT !.dlgs[d].retry = retry, !.dlgs[d].cseq = cseq, !.dlgs[d].outs = outs]
      /\ replaced' = IF initial THEN replaced \cup {js.out} ELSE replaced
      /\ net' = net \cup {Subscribe(tr, dlg.tag)}
      /\ seen' = [seen EXCEPT !.subscribes = @ + 1]
  BY <1>1, Parts DEF SendWithCredential, AskAgain, Dialogs
<1> HIDE DEF tr, n, ask
<1>8. CASE initial
  <2>1. js' = [js EXCEPT !.dlgs[d].retry = retry, !.dlgs[d].cseq = cseq, !.out = tr]
    BY <1>7, <1>8
  <2>2. /\ js'.live = js.live /\ js'.out = tr /\ js'.period = js.period
        /\ js'.dlgs = [js.dlgs EXCEPT ![d].retry = retry, ![d].cseq = cseq]
        /\ js' = [live |-> js.live, period |-> js.period, retry |-> js.retry, status |-> js.status,
                  dlgs |-> js'.dlgs, out |-> tr]
    <3> HIDE DEF retry, cseq
    <3> QED
      BY <2>1 DEF TypeOK, Subscriptions
  <2>3. js'.dlgs = [js.dlgs EXCEPT ![d] = x]
    <3> HIDE DEF retry, cseq
    <3> QED
      BY <1>1, <2>2 DEF Dialogs
  <2>4. Dialog2(d, x)
    <3> HIDE DEF x
    <3> QED
      BY <1>5, <2>3, Parts, DialogsWith DEF Dialog2
  <2> HIDE DEF x
  <2>5. js' \in Subscriptions
    <3>1. js'.dlgs \in Seq(Dialogs) /\ tr \in Transactions
      BY <1>3, <2>4 DEF Dialog2, New
    <3>2. js.live \in BOOLEAN /\ js.period \in Nat /\ js.retry \in Nat /\ js.status \in Nat
      BY Parts
    <3>3. [live |-> js.live, period |-> js.period, retry |-> js.retry, status |-> js.status,
           dlgs |-> js'.dlgs, out |-> tr] \in Subscriptions
      BY <3>1, <3>2, SubscriptionTyped
    <3> QED
      BY <2>2, <3>3
  <2> QED
    BY <1>3, <1>5, <1>7, <1>8, <2>2, <2>4, <2>5 DEF n, ask
<1>9. CASE ~initial
  <2>1. js' = [js EXCEPT !.dlgs[d].retry = retry, !.dlgs[d].cseq = cseq, !.dlgs[d].outs = outs]
    BY <1>7, <1>9
  <2>2. /\ js'.live = js.live /\ js'.out = js.out /\ js'.period = js.period
        /\ js'.dlgs = [js.dlgs EXCEPT ![d].retry = retry, ![d].cseq = cseq, ![d].outs = outs]
        /\ js' = [live |-> js.live, period |-> js.period, retry |-> js.retry, status |-> js.status,
                  dlgs |-> js'.dlgs, out |-> js.out]
    <3> HIDE DEF retry, cseq, outs
    <3> QED
      BY <2>1 DEF TypeOK, Subscriptions
  <2>3. js'.dlgs = [js.dlgs EXCEPT ![d] = y]
    <3> HIDE DEF retry, cseq, outs
    <3> QED
      BY <1>1, <2>2 DEF Dialogs
  <2>4. Dialog2(d, y)
    <3> HIDE DEF y
    <3> QED
      BY <1>6, <2>3, Parts, DialogsWith DEF Dialog2
  <2> HIDE DEF y
  <2>5. js' \in Subscriptions
    <3>1. js'.dlgs \in Seq(Dialogs)
      BY <2>4 DEF Dialog2
    <3>2. js.live \in BOOLEAN /\ js.period \in Nat /\ js.retry \in Nat /\ js.status \in Nat /\ js.out \in Transactions
      BY Parts
    <3>3. [live |-> js.live, period |-> js.period, retry |-> js.retry, status |-> js.status,
           dlgs |-> js'.dlgs, out |-> js.out] \in Subscriptions
      BY <3>1, <3>2, SubscriptionTyped
    <3> QED
      BY <2>2, <3>3
  <2>6. Adds(d, tr)
    BY <1>6, <2>4 DEF Adds
  <2> QED
    BY <1>3, <1>7, <1>9, <2>2, <2>5, <2>6 DEF n, ask
<1> QED
  BY <1>8, <1>9

\* The subscription t is s with other dialogs and another last transaction.
Same(t, s) == t.live = s.live /\ t.period = s.period

\* In t the transaction with the number of now is now; in s it is kept where now says.
Takes(t, s, now) ==
  IF s.out.n = now.n
  THEN t.out = now /\ t.dlgs = s.dlgs
  ELSE /\ t.out = s.out
       /\ Len(t.dlgs) = Len(s.dlgs)
       /\ \A d \in DOMAIN s.dlgs : d # now.jd => t.dlgs[d] = s.dlgs[d]
       /\ LET u == s.dlgs[now.jd]
              v == t.dlgs[now.jd]
          IN /\ v.tag = u.tag /\ v.state = u.state /\ v.cseq = u.cseq
             /\ \E i \in DOMAIN u.outs : u.outs[i].n = now.n /\ v.outs = [u.outs EXCEPT ![i] = now]

LEMMA WithTransactionEffect ==
  ASSUME NEW s \in Subscriptions, NEW now \in Transactions,
         s.out.n # now.n => /\ now.jd \in DOMAIN s.dlgs
                            /\ \E i \in DOMAIN s.dlgs[now.jd].outs : s.dlgs[now.jd].outs[i].n = now.n
  PROVE  LET t == WithTransaction(s, now)
         IN t \in Subscriptions /\ Same(t, s) /\ Takes(t, s, now)
<1> DEFINE t == WithTransaction(s, now)
           d == now.jd
           u == s.dlgs[d]
           i == CHOOSE j \in DOMAIN s.dlgs[d].outs : s.dlgs[d].outs[j].n = now.n
           outs == [u.outs EXCEPT ![i] = now]
           v == [u EXCEPT !.outs = outs]
<1>1. CASE s.out.n = now.n
  <2>1. t = [s EXCEPT !.out = now]
    BY <1>1 DEF WithTransaction
  <2> QED
    BY <1>1, <2>1 DEF Subscriptions, Same, Takes
<1>2. CASE s.out.n # now.n
  <2>1. t = [s EXCEPT !.dlgs[d].outs[i] = now]
    BY <1>2 DEF WithTransaction
  <2>2. i \in DOMAIN u.outs /\ u.outs[i].n = now.n /\ d \in DOMAIN s.dlgs
    BY <1>2
  <2>3. s.dlgs \in Seq(Dialogs) /\ u \in Dialogs /\ u.outs \in Seq(Transactions) /\ s.out \in Transactions
    <3> HIDE DEF i, t
    <3>1. s.dlgs \in Seq(Dialogs) /\ s.out \in Transactions
      BY DEF Subscriptions
    <3>2. u \in Dialogs
      BY <2>2, <3>1
    <3> HIDE DEF u
    <3> QED
      BY <3>1, <3>2 DEF Dialogs
  <2>4. outs \in Seq(Transactions)
    <3> HIDE DEF i, u
    <3> QED
      BY <2>2, <2>3
  <2>5. v \in Dialogs /\ v.tag = u.tag /\ v.state = u.state /\ v.cseq = u.cseq /\ v.outs = outs
    <3> HIDE DEF outs, u
    <3> QED
      BY <2>3, <2>4 DEF Dialogs
  <2>6. t.dlgs = [s.dlgs EXCEPT ![d].outs[i] = now] /\ t.out = s.out /\ Same(t, s)
        /\ t = [live |-> s.live, period |-> s.period, retry |-> s.retry, status |-> s.status,
                dlgs |-> t.dlgs, out |-> s.out]
    <3> HIDE DEF i, t
    <3> QED
      BY <2>1 DEF Subscriptions, Same
  <2>7. t.dlgs = [s.dlgs EXCEPT ![d] = v]
    <3> HIDE DEF i, t
    <3> QED
      BY <2>3, <2>6 DEF Dialogs
  <2> HIDE DEF t, v, outs
  <2>8. /\ t.dlgs \in Seq(Dialogs) /\ Len(t.dlgs) = Len(s.dlgs) /\ t.dlgs[d] = v
        /\ \A e \in DOMAIN s.dlgs : e # d => t.dlgs[e] = s.dlgs[e]
    <3> HIDE DEF d
    <3> QED
      BY <2>2, <2>3, <2>5, <2>7, DialogsWith
  <2>9. t \in Subscriptions
    <3>1. s.live \in BOOLEAN /\ s.period \in Nat /\ s.retry \in Nat /\ s.status \in Nat
      BY DEF Subscriptions
    <3>2. [live |-> s.live, period |-> s.period, retry |-> s.retry, status |-> s.status,
           dlgs |-> t.dlgs, out |-> s.out] \in Subscriptions
      BY <2>3, <2>8, <3>1, SubscriptionTyped
    <3> QED
      BY <2>6, <3>2
  <2> HIDE DEF u, i
  <2> QED
    BY <1>2, <2>2, <2>5, <2>6, <2>8, <2>9 DEF Takes, outs, u, t
<1> QED
  BY <1>1, <1>2

\* The transaction is where it says, or it is the last one outside the dialogs.
LEMMA TransactionsAre ==
  ASSUME TypeOK, NEW tr \in TransactionsOf(js)
  PROVE  /\ tr \in Transactions /\ js.live
         /\ \/ tr = js.out
            \/ /\ tr.jd \in DOMAIN js.dlgs
               /\ \E i \in DOMAIN js.dlgs[tr.jd].outs : js.dlgs[tr.jd].outs[i] = tr
         /\ tr.jd <= Len(js.dlgs)
<1>1. js.live /\ (tr = js.out \/ \E d \in DOMAIN js.dlgs : tr \in Range(js.dlgs[d].outs))
  BY DEF TransactionsOf
<1>2. CASE tr = js.out
  BY <1>1, <1>2, Parts DEF TypeOK, Kept
<1>3. ASSUME NEW d \in DOMAIN js.dlgs, tr \in Range(js.dlgs[d].outs)
      PROVE  /\ tr \in Transactions /\ tr.jd = d
             /\ \E i \in DOMAIN js.dlgs[d].outs : js.dlgs[d].outs[i] = tr
  <2>1. PICK i \in DOMAIN js.dlgs[d].outs : js.dlgs[d].outs[i] = tr
    BY <1>3 DEF Range
  <2>2. js.dlgs[d].outs \in Seq(Transactions) /\ tr.jd = d
    BY <2>1, Parts DEF Dialogs, TypeOK, Kept
  <2> QED
    BY <2>1, <2>2
<1> QED
  BY <1>1, <1>2, <1>3, Parts

\* What an answer makes of the transaction.
Now(tr, m) == [tr EXCEPT !.resp = m.code, !.st = IF m.code \in Final THEN "completed" ELSE @]

LEMMA NowTyped ==
  ASSUME NEW tr \in Transactions, NEW m \in Messages
  PROVE  LET now == Now(tr, m)
         IN /\ now \in Transactions
            /\ now.n = tr.n /\ now.ask = tr.ask /\ now.jd = tr.jd /\ now.age = tr.age /\ now.resp = m.code
            /\ now.st = IF m.code \in Final THEN "completed" ELSE tr.st
<1> DEFINE st == IF m.code \in Final THEN "completed" ELSE tr.st
<1>1. m.code \in Codes /\ st \in {"trying", "completed", "terminated"}
  BY DEF Messages, Transactions
<1>2. Now(tr, m) = [tr EXCEPT !.resp = m.code, !.st = st]
  BY DEF Now
<1> HIDE DEF st
<1> QED
  BY <1>1, <1>2 DEF Transactions, st

\* A refusal: the early dialog it was in is deleted.
RefusedBy(m, tr, now) ==
  /\ now \in Transactions /\ now.n = tr.n /\ now.ask = tr.ask /\ now.age = tr.age /\ now.jd = tr.jd
  /\ now.resp = m.code /\ now.st = IF m.code \in Final THEN "completed" ELSE tr.st
  /\ js'.period = js.period
  /\ \E s \in Subscriptions :
       /\ Takes(js', s, now) /\ s.out = js.out /\ Len(s.dlgs) = Len(js.dlgs)
       /\ \A d \in DOMAIN js.dlgs :
            /\ s.dlgs[d].tag = js.dlgs[d].tag /\ s.dlgs[d].cseq = js.dlgs[d].cseq
            /\ s.dlgs[d].outs = js.dlgs[d].outs
            /\ s.dlgs[d].state = IF d = tr.jd /\ js.dlgs[d].state = "early" THEN "deleted"
                                 ELSE js.dlgs[d].state

LEMMA RefusedEffect ==
  ASSUME TypeOK, NEW m \in net, NEW tr \in TransactionsOf(js), js' = Refused(js, Now(tr, m))
  PROVE  /\ js'.live = js.live /\ js' \in Subscriptions
         /\ RefusedBy(m, tr, Now(tr, m))
<1> DEFINE now == Now(tr, m)
           s == DeleteEarly(js, tr.jd)
           x == [js.dlgs[tr.jd] EXCEPT !.state = "deleted"]
<1>1. tr \in Transactions /\ m \in Messages /\ tr.jd \in Nat /\ tr.jd <= Len(js.dlgs) /\ js \in Subscriptions
      /\ js.dlgs \in Seq(Dialogs)
  BY TransactionsAre, Parts DEF TypeOK, Transactions
<1>2. /\ now \in Transactions
      /\ now.n = tr.n /\ now.ask = tr.ask /\ now.jd = tr.jd /\ now.age = tr.age /\ now.resp = m.code
      /\ now.st = IF m.code \in Final THEN "completed" ELSE tr.st
  BY <1>1, NowTyped
<1> HIDE DEF now
<1>3. /\ s \in Subscriptions /\ Same(s, js) /\ s.out = js.out /\ Len(s.dlgs) = Len(js.dlgs)
      /\ \A d \in DOMAIN js.dlgs :
            /\ s.dlgs[d].tag = js.dlgs[d].tag /\ s.dlgs[d].cseq = js.dlgs[d].cseq
            /\ s.dlgs[d].outs = js.dlgs[d].outs
            /\ s.dlgs[d].state = IF d = tr.jd /\ js.dlgs[d].state = "early" THEN "deleted"
                                 ELSE js.dlgs[d].state
  <2>1. CASE tr.jd # 0 /\ js.dlgs[tr.jd].state = "early"
    <3> DEFINE d == tr.jd
    <3>1. d \in DOMAIN js.dlgs /\ js.dlgs[d] \in Dialogs
      BY <1>1, <2>1, Parts
    <3>2. x \in Dialogs /\ x.tag = js.dlgs[d].tag /\ x.cseq = js.dlgs[d].cseq /\ x.outs = js.dlgs[d].outs
          /\ x.state = "deleted"
      BY <3>1 DEF Dialogs, DialogStates
    <3>3. s = [js EXCEPT !.dlgs[d].state = "deleted"]
      BY <2>1 DEF DeleteEarly
    <3>4. s.dlgs = [js.dlgs EXCEPT ![d] = x] /\ s.out = js.out /\ Same(s, js)
          /\ s = [live |-> js.live, period |-> js.period, retry |-> js.retry, status |-> js.status,
                  dlgs |-> s.dlgs, out |-> js.out]
      <4> HIDE DEF s, d
      <4>1. s.dlgs = [js.dlgs EXCEPT ![d].state = "deleted"] /\ s.out = js.out /\ Same(s, js)
            /\ s = [live |-> js.live, period |-> js.period, retry |-> js.retry, status |-> js.status,
                    dlgs |-> s.dlgs, out |-> js.out]
        BY <1>1, <3>3 DEF Subscriptions, Same
      <4>2. [js.dlgs EXCEPT ![d].state = "deleted"] = [js.dlgs EXCEPT ![d] = x]
        BY DEF d
      <4> QED
        BY <4>1, <4>2
    <3> HIDE DEF x, s
    <3>5. /\ s.dlgs \in Seq(Dialogs) /\ Len(s.dlgs) = Len(js.dlgs) /\ s.dlgs[d] = x
          /\ \A e \in DOMAIN js.dlgs : e # d => s.dlgs[e] = js.dlgs[e]
      <4> HIDE DEF d
      <4> QED
        BY <1>1, <3>1, <3>2, <3>4, DialogsWith
    <3>6. [live |-> js.live, period |-> js.period, retry |-> js.retry, status |-> js.status,
           dlgs |-> s.dlgs, out |-> js.out] \in Subscriptions
      BY <3>5, Parts, SubscriptionTyped
    <3> QED
      BY <2>1, <3>2, <3>4, <3>5, <3>6
  <2>2. CASE ~(tr.jd # 0 /\ js.dlgs[tr.jd].state = "early")
    <3>1. s = js
      BY <2>2 DEF DeleteEarly
    <3> QED
      BY <1>1, <2>2, <3>1 DEF Same
  <2> QED
    BY <2>1, <2>2
<1>4. js' = WithTransaction(s, now)
  BY <1>2 DEF Refused, now
<1> HIDE DEF s
<1>5. s.out.n # now.n => /\ now.jd \in DOMAIN s.dlgs
                         /\ \E i \in DOMAIN s.dlgs[now.jd].outs : s.dlgs[now.jd].outs[i].n = now.n
  <2>1. s.dlgs \in Seq(Dialogs)
    BY <1>3 DEF Subscriptions
  <2> QED
    BY <1>1, <1>2, <1>3, <2>1, TransactionsAre
<1>6. js' \in Subscriptions /\ Same(js', s) /\ Takes(js', s, now)
  BY <1>2, <1>3, <1>4, <1>5, WithTransactionEffect
<1> QED
  BY <1>2, <1>3, <1>6 DEF Same, RefusedBy, now

\* The dialogs of s are those of js, but for their states and their counters of retries.
LikeDialogs(s) == /\ s \in Subscriptions /\ s.live = js.live /\ s.out = js.out /\ Len(s.dlgs) = Len(js.dlgs)
                  /\ \A d \in DOMAIN js.dlgs :
                        /\ s.dlgs[d].tag = js.dlgs[d].tag /\ s.dlgs[d].cseq = js.dlgs[d].cseq
                        /\ s.dlgs[d].outs = js.dlgs[d].outs

\* What a 1xx or a 2xx does before its dialog is looked for.
Before(m, tr) == IF m.code = "1xx" THEN js ELSE
                 [js EXCEPT !.retry = 0,
                            !.period = RefreshInterval(@, m.value),
                            !.dlgs = IF tr.jd = 0 THEN @
                                     ELSE [js.dlgs EXCEPT ![tr.jd].retry = 0]]

LEMMA BeforeEffect ==
  ASSUME TypeOK, NEW m \in net, NEW tr \in TransactionsOf(js)
  PROVE  LET s == Before(m, tr)
         IN /\ LikeDialogs(s)
            /\ \A d \in DOMAIN js.dlgs : s.dlgs[d].state = js.dlgs[d].state
            /\ s.period = IF m.code = "1xx" THEN js.period ELSE RefreshInterval(js.period, m.value)
<1> DEFINE s == Before(m, tr)
           period == RefreshInterval(js.period, m.value)
           d == tr.jd
           x == [js.dlgs[d] EXCEPT !.retry = 0]
           dlgs == IF d = 0 THEN js.dlgs ELSE [js.dlgs EXCEPT ![d].retry = 0]
<1>1. tr \in Transactions /\ m \in Messages /\ d \in Nat /\ d <= Len(js.dlgs) /\ js \in Subscriptions
      /\ js.dlgs \in Seq(Dialogs) /\ js.period \in Nat /\ js.out \in Transactions
  BY TransactionsAre, Parts DEF TypeOK, Transactions
<1>2. CASE m.code = "1xx"
  <2>1. s = js
    BY <1>2 DEF Before
  <2> QED
    BY <1>1, <1>2, <2>1 DEF LikeDialogs
<1>3. CASE m.code # "1xx"
  <2>1. period \in Nat
    BY <1>1, RefreshIntervalTyped DEF Messages
  <2>2. s = [js EXCEPT !.retry = 0, !.period = period, !.dlgs = dlgs]
    BY <1>3 DEF Before
  <2>3. /\ dlgs \in Seq(Dialogs) /\ Len(dlgs) = Len(js.dlgs)
        /\ \A e \in DOMAIN js.dlgs :
              /\ dlgs[e].tag = js.dlgs[e].tag /\ dlgs[e].cseq = js.dlgs[e].cseq
              /\ dlgs[e].outs = js.dlgs[e].outs /\ dlgs[e].state = js.dlgs[e].state
    <3>1. CASE d = 0
      BY <1>1, <3>1
    <3>2. CASE d # 0
      <4>1. d \in DOMAIN js.dlgs /\ js.dlgs[d] \in Dialogs
        BY <1>1, <3>2
      <4>2. x \in Dialogs /\ x.tag = js.dlgs[d].tag /\ x.cseq = js.dlgs[d].cseq /\ x.outs = js.dlgs[d].outs
            /\ x.state = js.dlgs[d].state
        <5> HIDE DEF d
        <5> QED
          BY <4>1 DEF Dialogs
      <4>3. dlgs = [js.dlgs EXCEPT ![d] = x]
        BY <3>2
      <4> HIDE DEF x, dlgs, d
      <4> QED
        BY <1>1, <4>1, <4>2, <4>3, DialogsWith
    <3> QED
      BY <3>1, <3>2
  <2> HIDE DEF period, dlgs, s
  <2>4. s.dlgs = dlgs /\ s.out = js.out /\ s.period = period /\ s.live = js.live
        /\ s = [live |-> js.live, period |-> period, retry |-> 0, status |-> js.status,
                dlgs |-> dlgs, out |-> js.out]
    BY <1>1, <2>2 DEF Subscriptions
  <2>5. [live |-> js.live, period |-> period, retry |-> 0, status |-> js.status,
         dlgs |-> dlgs, out |-> js.out] \in Subscriptions
    BY <2>1, <2>3, Parts, SubscriptionTyped
  <2> QED
    BY <1>3, <2>3, <2>4, <2>5 DEF LikeDialogs, s, period
<1> QED
  BY <1>2, <1>3

LEMMA DialogTyped ==
  ASSUME NEW tag \in Nat, NEW state \in DialogStates, NEW cseq \in Nat
  PROVE  LET x == Dialog(tag, state, cseq)
         IN x \in Dialogs /\ x.tag = tag /\ x.state = state /\ x.cseq = cseq /\ x.outs = <<>>
<1> DEFINE e == <<>>
<1>1. e \in Seq(Transactions)
  OBVIOUS
<1>2. Dialog(tag, state, cseq) = [tag |-> tag, state |-> state, cseq |-> cseq, retry |-> 0, outs |-> e]
  BY DEF Dialog
<1> HIDE DEF e
<1>3. LET x == Dialog(tag, state, cseq)
      IN x \in Dialogs /\ x.tag = tag /\ x.state = state /\ x.cseq = cseq /\ x.outs = e
  BY <1>1, <1>2 DEF Dialogs
<1> QED
  BY <1>3 DEF e

NoneHas(tag) == \A d \in DOMAIN js.dlgs : js.dlgs[d].tag # tag

\* A 1xx or a 2xx: the transaction is of a dialog, which it may have made.
AcceptedBy(m, tr, now) ==
  /\ now \in Transactions /\ now.n = tr.n /\ now.ask = tr.ask /\ now.age = tr.age
  /\ now.resp = m.code /\ now.st = IF m.code \in Final THEN "completed" ELSE tr.st
  /\ js'.period = IF m.code = "1xx" THEN js.period ELSE RefreshInterval(js.period, m.value)
  /\ \E s \in Subscriptions :
       /\ Takes(js', s, now) /\ s.out = js.out
       /\ \A d \in DOMAIN js.dlgs :
            /\ s.dlgs[d].tag = js.dlgs[d].tag /\ s.dlgs[d].cseq = js.dlgs[d].cseq
            /\ s.dlgs[d].outs = js.dlgs[d].outs
            /\ s.dlgs[d].state = IF d = now.jd /\ m.code # "1xx" THEN "confirmed" ELSE js.dlgs[d].state
       /\ \/ /\ tr.jd = 0 /\ NoneHas(m.tag)
             /\ now.jd = Len(js.dlgs) + 1 /\ Len(s.dlgs) = now.jd
             /\ LET x == s.dlgs[now.jd]
                IN /\ x.tag = m.tag /\ x.cseq = tr.n /\ x.outs = <<>>
                   /\ x.state = IF m.code = "1xx" THEN "early" ELSE "confirmed"
          \/ /\ now.jd \in DOMAIN js.dlgs /\ Len(s.dlgs) = Len(js.dlgs)
             /\ IF tr.jd # 0 THEN now.jd = tr.jd ELSE js.dlgs[now.jd].tag = m.tag

LEMMA AcceptedEffect ==
  ASSUME TypeOK, NEW m \in net, NEW tr \in TransactionsOf(js),
         LET r == InDialog(Before(m, tr), Now(tr, m), m.tag, IF m.code = "1xx" THEN "early" ELSE "confirmed")
         IN js' = WithTransaction(r.sub, r.tr)
  PROVE  /\ js'.live = js.live /\ js' \in Subscriptions
         /\ \E now : AcceptedBy(m, tr, now)
<1> DEFINE b == Before(m, tr)
           w == Now(tr, m)
           state == IF m.code = "1xx" THEN "early" ELSE "confirmed"
           D == IF w.jd # 0 THEN w.jd ELSE MadeByNotify(b, m.tag)
           r == InDialog(b, w, m.tag, state)
           s == r.sub
           now == r.tr
<1>1. tr \in Transactions /\ m \in Messages /\ tr.jd \in Nat /\ tr.jd <= Len(js.dlgs) /\ js \in Subscriptions
      /\ js.dlgs \in Seq(Dialogs) /\ m.tag \in Nat /\ tr.n \in Nat /\ state \in DialogStates
  BY TransactionsAre, Parts DEF TypeOK, Transactions, Messages, DialogStates
<1>2. /\ w \in Transactions
      /\ w.n = tr.n /\ w.ask = tr.ask /\ w.jd = tr.jd /\ w.age = tr.age /\ w.resp = m.code
      /\ w.st = IF m.code \in Final THEN "completed" ELSE tr.st
  BY <1>1, NowTyped
<1>3. /\ LikeDialogs(b)
      /\ \A d \in DOMAIN js.dlgs : b.dlgs[d].state = js.dlgs[d].state
      /\ b.period = IF m.code = "1xx" THEN js.period ELSE RefreshInterval(js.period, m.value)
  BY BeforeEffect
<1> HIDE DEF b, w
<1>4. b.dlgs \in Seq(Dialogs) /\ DOMAIN b.dlgs = DOMAIN js.dlgs /\ b \in Subscriptions
  BY <1>1, <1>3 DEF LikeDialogs, Subscriptions
<1>5. \/ D = 0 /\ tr.jd = 0 /\ NoneHas(m.tag)
      \/ D \in DOMAIN js.dlgs /\ (IF tr.jd # 0 THEN D = tr.jd ELSE js.dlgs[D].tag = m.tag)
  <2>1. CASE tr.jd # 0
    BY <1>1, <1>2, <2>1
  <2>2. CASE tr.jd = 0 /\ \E d \in DOMAIN b.dlgs : b.dlgs[d].tag = m.tag
    <3>1. D = CHOOSE d \in DOMAIN b.dlgs : b.dlgs[d].tag = m.tag
      BY <1>2, <2>2 DEF MadeByNotify
    <3>2. D \in DOMAIN b.dlgs /\ b.dlgs[D].tag = m.tag
      BY <2>2, <3>1
    <3> HIDE DEF D
    <3> QED
      BY <1>3, <1>4, <2>2, <3>2 DEF LikeDialogs
  <2>3. CASE tr.jd = 0 /\ ~\E d \in DOMAIN b.dlgs : b.dlgs[d].tag = m.tag
    BY <1>2, <1>3, <1>4, <2>3 DEF MadeByNotify, NoneHas, LikeDialogs
  <2> QED
    BY <2>1, <2>2, <2>3
<1>6. CASE D = 0
  <2> DEFINE x == Dialog(m.tag, state, w.n)
             dlgs == Append(b.dlgs, x)
  <2>1. tr.jd = 0 /\ NoneHas(m.tag)
    BY <1>1, <1>5, <1>6
  <2>2. s = [b EXCEPT !.dlgs = dlgs] /\ now = [w EXCEPT !.jd = Len(b.dlgs) + 1]
    BY <1>6 DEF InDialog
  <2>3. x \in Dialogs /\ x.tag = m.tag /\ x.state = state /\ x.cseq = tr.n /\ x.outs = <<>>
    BY <1>1, <1>2, DialogTyped
  <2> HIDE DEF x, D
  <2>4. /\ dlgs \in Seq(Dialogs) /\ Len(dlgs) = Len(js.dlgs) + 1 /\ dlgs[Len(js.dlgs) + 1] = x
        /\ \A d \in DOMAIN js.dlgs : dlgs[d] = b.dlgs[d]
    BY <1>1, <1>3, <1>4, <2>3 DEF LikeDialogs
  <2> HIDE DEF dlgs, s, now, r
  <2>5. s \in Subscriptions /\ s.live = b.live /\ s.period = b.period /\ s.out = b.out /\ s.dlgs = dlgs
    BY <1>4, <2>2, <2>4 DEF Subscriptions
  <2>6. /\ now \in Transactions /\ now.n = tr.n /\ now.ask = tr.ask /\ now.age = tr.age /\ now.resp = m.code
        /\ now.st = w.st /\ now.jd = Len(js.dlgs) + 1
    <3> DEFINE jd == Len(js.dlgs) + 1
    <3>1. now = [w EXCEPT !.jd = jd] /\ jd \in Nat
      BY <1>1, <1>3, <2>2 DEF LikeDialogs
    <3> HIDE DEF jd
    <3>2. /\ now \in Transactions /\ now.n = tr.n /\ now.ask = tr.ask /\ now.age = tr.age /\ now.resp = m.code
          /\ now.st = w.st /\ now.jd = jd
      BY <1>2, <3>1 DEF Transactions
    <3> QED
      BY <3>2 DEF jd
  <2>7. tr = js.out
    BY <1>1, <2>1, TransactionsAre
  <2>8. js' \in Subscriptions /\ Same(js', s) /\ Takes(js', s, now)
    <3>1. js' = WithTransaction(s, now)
      BY DEF s, now, r, b, w
    <3>2. s.out.n = now.n
      BY <1>3, <2>5, <2>6, <2>7 DEF LikeDialogs
    <3> QED
      BY <2>5, <2>6, <3>1, <3>2, WithTransactionEffect
  <2>9. \A d \in DOMAIN js.dlgs : d # now.jd
    BY <1>1, <2>6
  <2>10. now.jd \notin DOMAIN js.dlgs /\ s.dlgs[now.jd] = x /\ Len(s.dlgs) = now.jd
    BY <1>1, <2>4, <2>5, <2>6
  <2>11. \A d \in DOMAIN js.dlgs :
            /\ s.dlgs[d].tag = js.dlgs[d].tag /\ s.dlgs[d].cseq = js.dlgs[d].cseq
            /\ s.dlgs[d].outs = js.dlgs[d].outs
            /\ s.dlgs[d].state = IF d = now.jd /\ m.code # "1xx" THEN "confirmed" ELSE js.dlgs[d].state
    BY <1>3, <2>4, <2>5, <2>9 DEF LikeDialogs
  <2> HIDE DEF state
  <2>12. AcceptedBy(m, tr, now)
    <3>1. js'.period = IF m.code = "1xx" THEN js.period ELSE RefreshInterval(js.period, m.value)
      BY <1>3, <2>5, <2>8 DEF Same
    <3>2. now.st = IF m.code \in Final THEN "completed" ELSE tr.st
      BY <1>2, <2>6
    <3>3. s.out = js.out
      BY <1>3, <2>5 DEF LikeDialogs
    <3>4. /\ s.dlgs[now.jd].tag = m.tag /\ s.dlgs[now.jd].cseq = tr.n /\ s.dlgs[now.jd].outs = <<>>
          /\ s.dlgs[now.jd].state = IF m.code = "1xx" THEN "early" ELSE "confirmed"
      BY <2>3, <2>10 DEF state
    <3> QED
      BY <2>1, <2>5, <2>6, <2>8, <2>10, <2>11, <3>1, <3>2, <3>3, <3>4 DEF AcceptedBy
  <2> QED
    BY <1>3, <2>5, <2>8, <2>12 DEF Same, LikeDialogs
<1>7. CASE D # 0
  <2> DEFINE x == [b.dlgs[D] EXCEPT !.state = "confirmed"]
  <2>1. D \in DOMAIN js.dlgs /\ (IF tr.jd # 0 THEN D = tr.jd ELSE js.dlgs[D].tag = m.tag)
    BY <1>5, <1>7
  <2>2. /\ s = IF state = "confirmed" THEN [b EXCEPT !.dlgs[D].state = "confirmed"] ELSE b
        /\ now = [w EXCEPT !.jd = D]
    BY <1>7 DEF InDialog
  <2> HIDE DEF D, now, s, r
  <2>3. D \in Nat /\ b.dlgs[D] \in Dialogs
    BY <1>1, <1>4, <2>1
  <2>4. /\ now \in Transactions /\ now.n = tr.n /\ now.ask = tr.ask /\ now.age = tr.age /\ now.resp = m.code
        /\ now.st = w.st /\ now.jd = D
    BY <1>2, <2>2, <2>3 DEF Transactions
  <2>5. /\ s \in Subscriptions /\ s.live = b.live /\ s.period = b.period /\ s.out = b.out
        /\ Len(s.dlgs) = Len(b.dlgs)
        /\ \A d \in DOMAIN js.dlgs :
              /\ s.dlgs[d].tag = b.dlgs[d].tag /\ s.dlgs[d].cseq = b.dlgs[d].cseq
              /\ s.dlgs[d].outs = b.dlgs[d].outs
              /\ s.dlgs[d].state = IF d = D /\ m.code # "1xx" THEN "confirmed" ELSE b.dlgs[d].state
    <3>1. CASE m.code = "1xx"
      BY <1>4, <2>2, <3>1
    <3>2. CASE m.code # "1xx"
      <4>1. s = [b EXCEPT !.dlgs[D].state = "confirmed"]
        BY <2>2, <3>2
      <4>2. s.dlgs = [b.dlgs EXCEPT ![D].state = "confirmed"] /\ s.out = b.out /\ s.live = b.live
            /\ s.period = b.period
            /\ s = [live |-> b.live, period |-> b.period, retry |-> b.retry, status |-> b.status,
                    dlgs |-> s.dlgs, out |-> b.out]
        BY <1>4, <4>1 DEF Subscriptions
      <4>3. [b.dlgs EXCEPT ![D].state = "confirmed"] = [b.dlgs EXCEPT ![D] = x]
        OBVIOUS
      <4>4. x \in Dialogs /\ x.tag = b.dlgs[D].tag /\ x.cseq = b.dlgs[D].cseq /\ x.outs = b.dlgs[D].outs
            /\ x.state = "confirmed"
        BY <2>3 DEF Dialogs, DialogStates
      <4> HIDE DEF x
      <4>5. /\ s.dlgs \in Seq(Dialogs) /\ Len(s.dlgs) = Len(b.dlgs) /\ s.dlgs[D] = x
            /\ \A e \in DOMAIN b.dlgs : e # D => s.dlgs[e] = b.dlgs[e]
        <5>1. b.dlgs \in Seq(Dialogs) /\ D \in DOMAIN b.dlgs /\ x \in Dialogs
          BY <1>4, <2>1, <4>4
        <5>2. s.dlgs = [b.dlgs EXCEPT ![D] = x]
          BY <4>2, <4>3
        <5> QED
          BY <5>1, <5>2, DialogsWith
      <4>6. b.live \in BOOLEAN /\ b.period \in Nat /\ b.retry \in Nat /\ b.status \in Nat /\ b.out \in Transactions
        BY <1>4 DEF Subscriptions
      <4>7. [live |-> b.live, period |-> b.period, retry |-> b.retry, status |-> b.status,
             dlgs |-> s.dlgs, out |-> b.out] \in Subscriptions
        BY <4>5, <4>6, SubscriptionTyped
      <4> QED
        BY <1>4, <2>1, <3>2, <4>2, <4>4, <4>5, <4>7
    <3> QED
      BY <3>1, <3>2
  <2>6. js' \in Subscriptions /\ Same(js', s) /\ Takes(js', s, now)
    <3>1. js' = WithTransaction(s, now)
      BY DEF s, now, r, b, w
    <3>2. s.dlgs \in Seq(Dialogs) /\ DOMAIN s.dlgs = DOMAIN js.dlgs
      BY <1>1, <1>3, <2>5 DEF LikeDialogs, Subscriptions
    <3>3. s.out.n # now.n => /\ now.jd \in DOMAIN s.dlgs
                             /\ \E i \in DOMAIN s.dlgs[now.jd].outs : s.dlgs[now.jd].outs[i].n = now.n
      <4> SUFFICES ASSUME s.out.n # now.n
                   PROVE  \E i \in DOMAIN s.dlgs[D].outs : s.dlgs[D].outs[i].n = tr.n
        BY <2>1, <2>4, <3>2
      <4>1. tr # js.out
        BY <1>3, <2>4, <2>5 DEF LikeDialogs
      <4>2. /\ tr.jd \in DOMAIN js.dlgs
            /\ \E i \in DOMAIN js.dlgs[tr.jd].outs : js.dlgs[tr.jd].outs[i] = tr
        BY <4>1, TransactionsAre
      <4>3. tr.jd = D
        BY <1>1, <2>1, <4>2
      <4> QED
        BY <1>3, <2>1, <2>5, <4>2, <4>3 DEF LikeDialogs
    <3> QED
      BY <2>4, <2>5, <3>1, <3>3, WithTransactionEffect
  <2>7. \A d \in DOMAIN js.dlgs :
            /\ s.dlgs[d].tag = js.dlgs[d].tag /\ s.dlgs[d].cseq = js.dlgs[d].cseq
            /\ s.dlgs[d].outs = js.dlgs[d].outs
            /\ s.dlgs[d].state = IF d = now.jd /\ m.code # "1xx" THEN "confirmed" ELSE js.dlgs[d].state
    BY <1>3, <2>4, <2>5 DEF LikeDialogs
  <2>8. Len(s.dlgs) = Len(js.dlgs) /\ s.out = js.out
    BY <1>3, <2>5 DEF LikeDialogs
  <2>9. AcceptedBy(m, tr, now)
    <3>1. js'.period = IF m.code = "1xx" THEN js.period ELSE RefreshInterval(js.period, m.value)
      BY <1>3, <2>5, <2>6 DEF Same
    <3>2. now.st = IF m.code \in Final THEN "completed" ELSE tr.st
      BY <1>2, <2>4
    <3>3. now.jd \in DOMAIN js.dlgs /\ (IF tr.jd # 0 THEN now.jd = tr.jd ELSE js.dlgs[now.jd].tag = m.tag)
      BY <2>1, <2>4
    <3> QED
      BY <2>4, <2>5, <2>6, <2>7, <2>8, <3>1, <3>2, <3>3 DEF AcceptedBy
  <2> QED
    BY <1>3, <2>5, <2>6, <2>9 DEF Same, LikeDialogs
<1> QED
  BY <1>6, <1>7

LEMMA RcvAnswerEffect ==
  ASSUME TypeOK, RcvAnswer
  PROVE  \E m \in net, tr \in TransactionsOf(js) :
           /\ m.kind = "to SUBSCRIBE" /\ m.n = tr.n /\ tr.st = "trying"
           /\ js'.live = js.live /\ js' \in Subscriptions
           /\ IF m.code \in {"1xx", "2xx"} THEN \E now : AcceptedBy(m, tr, now)
              ELSE RefusedBy(m, tr, Now(tr, m))
           /\ net' = net \ {m}
           /\ seen' = IF m.code = "2xx" THEN [seen EXCEPT !.confirmed = TRUE] ELSE seen
           /\ UNCHANGED <<replaced, jn, stranded, trouble>>
<1>1. PICK m \in net, tr \in TransactionsOf(js) :
         /\ m.kind = "to SUBSCRIBE" /\ m.n = tr.n /\ tr.st = "trying"
         /\ IF m.code \in {"1xx", "2xx"}
            THEN LET r == InDialog(Before(m, tr), Now(tr, m), m.tag, IF m.code = "1xx" THEN "early" ELSE "confirmed")
                 IN js' = WithTransaction(r.sub, r.tr)
            ELSE js' = Refused(js, Now(tr, m))
         /\ net' = net \ {m}
         /\ seen' = IF m.code = "2xx" THEN [seen EXCEPT !.confirmed = TRUE] ELSE seen
         /\ UNCHANGED <<replaced, jn, stranded, trouble>>
  BY DEF RcvAnswer, Before, Now
<1>2. CASE m.code \in {"1xx", "2xx"}
  <2>1. LET r == InDialog(Before(m, tr), Now(tr, m), m.tag, IF m.code = "1xx" THEN "early" ELSE "confirmed")
        IN js' = WithTransaction(r.sub, r.tr)
    BY <1>1, <1>2
  <2>2. /\ js'.live = js.live /\ js' \in Subscriptions
        /\ \E now : AcceptedBy(m, tr, now)
    BY <2>1, AcceptedEffect
  <2> QED
    BY <1>1, <1>2, <2>2
<1>3. CASE m.code \notin {"1xx", "2xx"}
  <2>1. js' = Refused(js, Now(tr, m))
    BY <1>1, <1>3
  <2>2. /\ js'.live = js.live /\ js' \in Subscriptions
        /\ RefusedBy(m, tr, Now(tr, m))
    BY <2>1, RefusedEffect
  <2> QED
    BY <1>1, <1>3, <2>2
<1> QED
  BY <1>2, <1>3

\* What a NOTIFY changes of the subscriber that is there: it ends it, it is one of its
\* dialog, or it makes one.
NotifiedBy(m) ==
  \/ NotifyEnds(m.ask) /\ js' = Freed
  \/ /\ ~NotifyEnds(m.ask)
     /\ js' \in Subscriptions /\ js'.live /\ js'.period = js.period /\ js'.out = js.out
     /\ \/ js'.dlgs = js.dlgs /\ \E d \in DOMAIN js.dlgs : js.dlgs[d].tag = m.tag
        \/ /\ \A d \in DOMAIN js.dlgs : js.dlgs[d].tag = m.tag => ~Usable(js.dlgs[d])
           /\ \E x \in Dialogs : /\ js'.dlgs = Append(js.dlgs, x)
                                 /\ x.tag = m.tag /\ x.state = "confirmed" /\ x.cseq = js.out.n
                                 /\ x.outs = <<>>

LEMMA RcvNotifyEffect ==
  ASSUME TypeOK, RcvNotify
  PROVE  \E m \in net :
           /\ m.kind = "NOTIFY"
           /\ IF ~js.live THEN net' = net \ {m} /\ js' = js
              ELSE NotifiedBy(m) /\ net' = (net \ {m}) \cup {Answer(m, "2xx", m.tag, 0)}
           /\ UNCHANGED <<replaced, jn, stranded, trouble, seen>>
<1>1. PICK m \in net :
        /\ m.kind = "NOTIFY"
        /\ IF ~js.live
           THEN net' = net \ {m} /\ UNCHANGED js
           ELSE LET known == \E d \in DOMAIN js.dlgs : js.dlgs[d].tag = m.tag /\ Usable(js.dlgs[d])
                    s == IF known THEN js
                         ELSE [js EXCEPT !.dlgs = Append(@, Dialog(m.tag, "confirmed", js.out.n))]
                IN /\ js' = IF NotifyEnds(m.ask) THEN Freed ELSE [s EXCEPT !.status = m.ask]
                   /\ net' = (net \ {m}) \cup {Answer(m, "2xx", m.tag, 0)}
        /\ UNCHANGED <<replaced, jn, stranded, trouble, seen>>
  BY DEF RcvNotify
<1>2. CASE ~js.live
  BY <1>1, <1>2
<1>3. CASE js.live /\ NotifyEnds(m.ask)
  BY <1>1, <1>3 DEF NotifiedBy
<1>4. CASE js.live /\ ~NotifyEnds(m.ask)
  <2> DEFINE known == \E d \in DOMAIN js.dlgs : js.dlgs[d].tag = m.tag /\ Usable(js.dlgs[d])
             x == Dialog(m.tag, "confirmed", js.out.n)
             status == m.ask
             dlgs == Append(js.dlgs, x)
  <2>1. m \in Messages /\ status \in Nat /\ m.tag \in Nat /\ js.out.n \in Nat /\ js \in Subscriptions
        /\ js.dlgs \in Seq(Dialogs)
    BY Parts DEF TypeOK, Messages, Transactions
  <2>2. x \in Dialogs /\ x.tag = m.tag /\ x.state = "confirmed" /\ x.cseq = js.out.n /\ x.outs = <<>>
    BY <2>1, DialogTyped DEF DialogStates
  <2>3. net' = (net \ {m}) \cup {Answer(m, "2xx", m.tag, 0)}
    BY <1>1, <1>4
  <2>4. CASE known
    <3>1. js' = [js EXCEPT !.status = status]
      BY <1>1, <1>4, <2>4
    <3> HIDE DEF status
    <3>2. js' \in Subscriptions /\ js'.live /\ js'.period = js.period /\ js'.out = js.out /\ js'.dlgs = js.dlgs
      BY <1>4, <2>1, <3>1 DEF Subscriptions
    <3> QED
      BY <1>1, <1>4, <2>3, <2>4, <3>2 DEF NotifiedBy
  <2>5. CASE ~known
    <3>1. js' = [[js EXCEPT !.dlgs = dlgs] EXCEPT !.status = status]
      BY <1>1, <1>4, <2>5
    <3> HIDE DEF x
    <3>2. dlgs \in Seq(Dialogs)
      BY <2>1, <2>2
    <3> HIDE DEF status, dlgs
    <3>3. js' \in Subscriptions /\ js'.live /\ js'.period = js.period /\ js'.out = js.out /\ js'.dlgs = dlgs
      BY <1>4, <2>1, <3>1, <3>2 DEF Subscriptions
    <3> QED
      BY <1>1, <1>4, <2>2, <2>3, <2>5, <3>3 DEF NotifiedBy, dlgs
  <2> QED
    BY <2>4, <2>5
<1> QED
  BY <1>2, <1>3, <1>4

\* tr is over.
Over2(tr, now) == /\ now \in Transactions /\ now.n = tr.n /\ now.ask = tr.ask /\ now.jd = tr.jd
                  /\ now.age = tr.age /\ now.resp = tr.resp /\ now.st = "terminated"

LEMMA KillSubscribeEffect ==
  ASSUME TypeOK, KillSubscribe
  PROVE  \E tr \in TransactionsOf(js) :
           /\ Overdue(tr) \/ tr.st = "completed"
           /\ \/ KillFrees(tr) /\ js' = Freed
              \/ /\ ~KillFrees(tr)
                 /\ \E now : Over2(tr, now) /\ Takes(js', js, now)
                 /\ js'.live = js.live /\ js'.period = js.period /\ js' \in Subscriptions
           /\ UNCHANGED <<replaced, jn, stranded, net, trouble, seen>>
<1>1. PICK tr \in TransactionsOf(js) :
         /\ Overdue(tr) \/ tr.st = "completed"
         /\ js' = IF KillFrees(tr) THEN Freed ELSE WithTransaction(js, [tr EXCEPT !.st = "terminated"])
         /\ UNCHANGED <<replaced, jn, stranded, net, trouble, seen>>
  BY DEF KillSubscribe
<1>2. CASE KillFrees(tr)
  BY <1>1, <1>2
<1>3. CASE ~KillFrees(tr)
  <2> DEFINE now == [tr EXCEPT !.st = "terminated"]
  <2>1. tr \in Transactions /\ js \in Subscriptions
    BY TransactionsAre DEF TypeOK
  <2>2. Over2(tr, now)
    BY <2>1 DEF Over2, Transactions
  <2>3. js' = WithTransaction(js, now)
    BY <1>1, <1>3
  <2> HIDE DEF now
  <2>4. js.out.n # now.n => /\ now.jd \in DOMAIN js.dlgs
                            /\ \E i \in DOMAIN js.dlgs[now.jd].outs : js.dlgs[now.jd].outs[i].n = now.n
    BY <2>2, TransactionsAre DEF Over2
  <2>5. js' \in Subscriptions /\ Same(js', js) /\ Takes(js', js, now)
    BY <2>1, <2>2, <2>3, <2>4, WithTransactionEffect DEF Over2
  <2> QED
    BY <1>1, <1>3, <2>2, <2>5 DEF Same
<1> QED
  BY <1>2, <1>3

\* Fewer transactions, the last request among them.
Fewer(t, s) == /\ t \in Seq(Transactions) /\ (t = <<>> <=> s = <<>>)
               /\ s # <<>> => t[1] = s[1]
               /\ \A i \in DOMAIN t : \E j \in DOMAIN s : t[i] = s[j] /\ (i > 1 => j > 1)

LEMMA WithoutOutdatedFewer ==
  ASSUME NEW s \in Seq(Transactions)
  PROVE  Fewer(WithoutOutdated(s), s)
<1>1. CASE ~Outdated(s)
  BY <1>1 DEF WithoutOutdated, Fewer
<1>2. CASE Outdated(s)
  <2> DEFINE First(i) == /\ i > 1 /\ Over(s[i])
                         /\ \A j \in DOMAIN s : j > 1 /\ Over(s[j]) => i <= j
             p == CHOOSE i \in DOMAIN s : First(i)
             t == SubSeq(s, 1, p - 1) \o SubSeq(s, p + 1, Len(s))
  <2>1. \E i \in DOMAIN s : First(i)
    <3> DEFINE S == {i \in DOMAIN s : i > 1 /\ Over(s[i])}
    <3>1. S \subseteq Nat /\ S # {}
      BY <1>2 DEF Outdated
    <3> HIDE DEF S
    <3>2. \E i \in S : \A j \in S : <<j, i>> \notin OpToRel(<, Nat)
      BY <3>1, NatLessThanWellFounded, WFMin, Zenon
    <3>3. \E i \in S : \A j \in S : ~(j < i)
      BY <3>1, <3>2 DEF OpToRel
    <3>4. PICK i \in S : \A j \in S : ~(j < i)
      BY <3>3
    <3>5. \A j \in S : i <= j
      BY <3>1, <3>4
    <3> QED
      BY <3>4, <3>5 DEF S
  <2>2. p \in DOMAIN s /\ p > 1
    <3>1. p \in DOMAIN s /\ First(p)
      <4> HIDE DEF First
      <4> QED
        BY <2>1
    <3> QED
      BY <3>1
  <2>3. WithoutOutdated(s) = t
    BY <1>2 DEF WithoutOutdated, RemoveAt
  <2> HIDE DEF p
  <2> DEFINE a == SubSeq(s, 1, p - 1)
             b == SubSeq(s, p + 1, Len(s))
  <2>8. /\ a \in Seq(Transactions) /\ Len(a) = p - 1 /\ b \in Seq(Transactions) /\ Len(b) = Len(s) - p
        /\ \A i \in DOMAIN a : a[i] = s[i]
        /\ \A i \in DOMAIN b : b[i] = s[p + i]
    BY <2>2
  <2> HIDE DEF a, b
  <2>9. t = a \o b
    BY DEF a, b
  <2> HIDE DEF t
  <2>4. t \in Seq(Transactions) /\ Len(t) = Len(s) - 1 /\ Len(t) >= 1
    BY <2>2, <2>8, <2>9
  <2>5. t[1] = s[1] /\ \A i \in DOMAIN t : t[i] = IF i < p THEN s[i] ELSE s[i + 1]
    <3>1. ASSUME NEW i \in DOMAIN t, i < p PROVE t[i] = s[i]
      <4>1. i \in DOMAIN a /\ t[i] = a[i]
        BY <2>2, <2>8, <2>9, <3>1
      <4> QED
        BY <2>8, <4>1
    <3>2. ASSUME NEW i \in DOMAIN t, ~(i < p) PROVE t[i] = s[i + 1]
      <4> DEFINE k == i - (p - 1)
      <4>1. k \in DOMAIN b /\ t[i] = b[k] /\ p + k = i + 1
        BY <2>2, <2>4, <2>8, <2>9, <3>2
      <4> HIDE DEF k
      <4> QED
        BY <2>8, <4>1
    <3> QED
      BY <2>2, <2>4, <3>1, <3>2
  <2>6. \A i \in DOMAIN t : i \in DOMAIN s /\ i + 1 \in DOMAIN s
    BY <2>4
  <2>7. \A i \in DOMAIN t : \E j \in DOMAIN s : t[i] = s[j] /\ (i > 1 => j > 1)
    BY <2>2, <2>5, <2>6
  <2>10. t # <<>> /\ s # <<>>
    BY <2>2, <2>4
  <2> QED
    BY <2>3, <2>4, <2>5, <2>7, <2>10 DEF Fewer, t
<1> QED
  BY <1>1, <1>2

\* The dialogs of s are those of js, and F says what became of the transactions of each.
DialogsMapped(dlgs, new) ==
  /\ dlgs \in Seq(Dialogs) /\ Len(dlgs) = Len(js.dlgs)
  /\ \A d \in DOMAIN js.dlgs : /\ dlgs[d].tag = js.dlgs[d].tag /\ dlgs[d].state = js.dlgs[d].state
                               /\ dlgs[d].cseq = js.dlgs[d].cseq /\ dlgs[d].outs = new[d]

LEMMA SequenceOf ==
  ASSUME NEW S, NEW n \in Nat, NEW f, f = [i \in 1 .. n |-> f[i]], \A i \in 1 .. n : f[i] \in S
  PROVE  f \in Seq(S) /\ Len(f) = n
<1>1. f \in [1 .. n -> S]
  OBVIOUS
<1> QED
  BY <1>1

LEMMA MappedTyped ==
  ASSUME TypeOK, NEW new, \A d \in DOMAIN js.dlgs : new[d] \in Seq(Transactions)
  PROVE  DialogsMapped([d \in DOMAIN js.dlgs |-> [js.dlgs[d] EXCEPT !.outs = new[d]]], new)
<1> DEFINE dlgs == [d \in DOMAIN js.dlgs |-> [js.dlgs[d] EXCEPT !.outs = new[d]]]
<1>1. js.dlgs \in Seq(Dialogs)
  BY Parts
<1>2. ASSUME NEW d \in DOMAIN js.dlgs
      PROVE  /\ dlgs[d] \in Dialogs
             /\ dlgs[d].tag = js.dlgs[d].tag /\ dlgs[d].state = js.dlgs[d].state
             /\ dlgs[d].cseq = js.dlgs[d].cseq /\ dlgs[d].outs = new[d]
  <2>1. js.dlgs[d] \in Dialogs /\ dlgs[d] = [js.dlgs[d] EXCEPT !.outs = new[d]]
    BY <1>1
  <2> HIDE DEF dlgs
  <2> QED
    BY <2>1 DEF Dialogs
<1>3. DOMAIN dlgs = 1 .. Len(js.dlgs)
  BY <1>1
<1>4. dlgs \in Seq(Dialogs) /\ Len(dlgs) = Len(js.dlgs)
  <2>1. dlgs = [d \in 1 .. Len(js.dlgs) |-> dlgs[d]]
    BY <1>1
  <2> HIDE DEF dlgs
  <2>2. \A d \in 1 .. Len(js.dlgs) : dlgs[d] \in Dialogs
    BY <1>1, <1>2
  <2>3. Len(js.dlgs) \in Nat
    BY <1>1
  <2> QED
    BY <2>1, <2>2, <2>3, SequenceOf
<1> HIDE DEF dlgs
<1> QED
  BY <1>2, <1>4 DEF DialogsMapped, dlgs

\* The release of the subscription, or of a transaction of each dialog.
LEMMA ReleaseEffect ==
  ASSUME TypeOK, ReleaseSubscription
  PROVE  /\ \/ Releases /\ js' = Freed
            \/ /\ js.live /\ js'.live /\ js'.period = js.period /\ js'.out = js.out /\ js' \in Subscriptions
               /\ \E new : /\ DialogsMapped(js'.dlgs, new)
                           /\ \A d \in DOMAIN js.dlgs : Fewer(new[d], js.dlgs[d].outs)
         /\ UNCHANGED <<replaced, jn, stranded, net, trouble, seen>>
<1> DEFINE new == [d \in DOMAIN js.dlgs |-> WithoutOutdated(js.dlgs[d].outs)]
           dlgs == [d \in DOMAIN js.dlgs |-> [js.dlgs[d] EXCEPT !.outs = WithoutOutdated(js.dlgs[d].outs)]]
           dlgs2 == [d \in DOMAIN js.dlgs |-> [js.dlgs[d] EXCEPT !.outs = new[d]]]
<1>1. CASE Releases /\ js' = Freed
  BY <1>1 DEF ReleaseSubscription
<1>2. CASE ~(Releases /\ js' = Freed)
  <2>1. js.live /\ js' = [js EXCEPT !.dlgs = dlgs]
    BY <1>2 DEF ReleaseSubscription
  <2>2. \A d \in DOMAIN js.dlgs : Fewer(new[d], js.dlgs[d].outs)
    <3> TAKE d \in DOMAIN js.dlgs
    <3>1. js.dlgs[d].outs \in Seq(Transactions) /\ new[d] = WithoutOutdated(js.dlgs[d].outs)
      BY Parts DEF Dialogs
    <3> QED
      BY <3>1, WithoutOutdatedFewer
  <2>3. dlgs = dlgs2
    OBVIOUS
  <2> HIDE DEF new
  <2>4. DialogsMapped(dlgs2, new)
    BY <2>2, MappedTyped DEF Fewer
  <2> HIDE DEF dlgs, dlgs2
  <2>5. js'.live /\ js'.period = js.period /\ js'.out = js.out /\ js'.dlgs = dlgs /\ js' \in Subscriptions
    <3>1. js \in Subscriptions /\ dlgs \in Seq(Dialogs)
      BY <2>3, <2>4 DEF TypeOK, DialogsMapped
    <3> QED
      BY <2>1, <3>1 DEF Subscriptions
  <2> QED
    BY <2>1, <2>2, <2>3, <2>4, <2>5 DEF ReleaseSubscription
<1> QED
  BY <1>1, <1>2

\* Time changes nothing of a transaction but its age.
Grown(t, tr) == /\ t \in Transactions /\ t.n = tr.n /\ t.ask = tr.ask /\ t.auth = tr.auth /\ t.jd = tr.jd
                /\ t.st = tr.st /\ t.resp = tr.resp
                /\ t.age = IF tr.age >= Oldest /\ tr.age >= tr.ask THEN tr.age ELSE tr.age + Tick

LEMMA OlderGrown ==
  ASSUME NEW tr \in Transactions
  PROVE  Grown(Older(tr), tr)
<1> DEFINE age == tr.age + Tick
<1>1. age \in Nat
  <2>1. tr.age \in Nat
    BY DEF Transactions
  <2> QED
    BY <2>1, ExSubscriptionAssumption
<1>2. Older(tr) = IF tr.age >= Oldest /\ tr.age >= tr.ask THEN tr ELSE [tr EXCEPT !.age = age]
  BY DEF Older
<1> HIDE DEF age
<1>3. CASE tr.age >= Oldest /\ tr.age >= tr.ask
  BY <1>2, <1>3 DEF Grown
<1>4. CASE ~(tr.age >= Oldest /\ tr.age >= tr.ask)
  <2>1. Older(tr) = [tr EXCEPT !.age = age]
    BY <1>2, <1>4
  <2>2. LET t == Older(tr)
        IN /\ t \in Transactions /\ t.n = tr.n /\ t.ask = tr.ask /\ t.auth = tr.auth /\ t.jd = tr.jd
           /\ t.st = tr.st /\ t.resp = tr.resp /\ t.age = age
    BY <1>1, <2>1 DEF Transactions
  <2> QED
    BY <1>4, <2>2 DEF Grown, age
<1> QED
  BY <1>3, <1>4

LEMMA AgedTyped ==
  ASSUME NEW s \in Seq(Transactions)
  PROVE  /\ Aged(s) \in Seq(Transactions) /\ Len(Aged(s)) = Len(s) /\ DOMAIN Aged(s) = DOMAIN s
         /\ \A i \in DOMAIN s : Grown(Aged(s)[i], s[i])
<1>1. Aged(s) = [i \in 1 .. Len(s) |-> Older(s[i])]
  BY DEF Aged
<1>2. \A i \in 1 .. Len(s) : s[i] \in Transactions /\ Grown(Older(s[i]), s[i])
  BY OlderGrown
<1>3. \A i \in 1 .. Len(s) : Older(s[i]) \in Transactions
  BY <1>2 DEF Grown
<1> QED
  BY <1>1, <1>2, <1>3

LEMMA TickEffect ==
  ASSUME TypeOK, TickTime
  PROVE  /\ Idle /\ (js.live \/ jn.live)
         /\ IF js.live
            THEN /\ js'.live /\ js'.period = js.period /\ js' \in Subscriptions /\ Grown(js'.out, js.out)
                 /\ \E new : /\ DialogsMapped(js'.dlgs, new)
                             /\ \A d \in DOMAIN js.dlgs :
                                  /\ DOMAIN new[d] = DOMAIN js.dlgs[d].outs
                                  /\ Len(new[d]) = Len(js.dlgs[d].outs)
                                  /\ \A i \in DOMAIN js.dlgs[d].outs : Grown(new[d][i], js.dlgs[d].outs[i])
            ELSE js' = js
         /\ IF jn.live
            THEN /\ jn' \in Notifiers /\ jn'.live /\ jn'.tag = jn.tag /\ jn'.status = jn.status
                 /\ jn'.state = jn.state /\ jn'.inc = jn.inc
                 /\ jn'.left = IF jn.left > 0 THEN jn.left - Tick ELSE -Tick
            ELSE jn' = jn
         /\ UNCHANGED <<replaced, stranded, net, trouble, seen>>
<1>1. /\ Idle /\ (js.live \/ jn.live)
      /\ UNCHANGED <<replaced, stranded, net, trouble, seen>>
  BY DEF TickTime
<1>2. ASSUME js.live
      PROVE  /\ js'.live /\ js'.period = js.period /\ js' \in Subscriptions /\ Grown(js'.out, js.out)
             /\ \E new : /\ DialogsMapped(js'.dlgs, new)
                         /\ \A d \in DOMAIN js.dlgs :
                              /\ DOMAIN new[d] = DOMAIN js.dlgs[d].outs
                              /\ Len(new[d]) = Len(js.dlgs[d].outs)
                              /\ \A i \in DOMAIN js.dlgs[d].outs : Grown(new[d][i], js.dlgs[d].outs[i])
  <2> DEFINE new == [d \in DOMAIN js.dlgs |-> Aged(js.dlgs[d].outs)]
             dlgs == [d \in DOMAIN js.dlgs |-> [js.dlgs[d] EXCEPT !.outs = Aged(js.dlgs[d].outs)]]
             dlgs2 == [d \in DOMAIN js.dlgs |-> [js.dlgs[d] EXCEPT !.outs = new[d]]]
             out == Older(js.out)
  <2>1. js' = [js EXCEPT !.out = out, !.dlgs = dlgs]
    BY <1>2 DEF TickTime
  <2>2. ASSUME NEW d \in DOMAIN js.dlgs
        PROVE  /\ new[d] \in Seq(Transactions)
               /\ DOMAIN new[d] = DOMAIN js.dlgs[d].outs
               /\ Len(new[d]) = Len(js.dlgs[d].outs)
               /\ \A i \in DOMAIN js.dlgs[d].outs : Grown(new[d][i], js.dlgs[d].outs[i])
    <3>1. js.dlgs[d].outs \in Seq(Transactions) /\ new[d] = Aged(js.dlgs[d].outs)
      BY Parts DEF Dialogs
    <3> QED
      BY <3>1, AgedTyped
  <2>3. dlgs = dlgs2
    OBVIOUS
  <2> HIDE DEF new
  <2>4. DialogsMapped(dlgs2, new)
    BY <2>2, MappedTyped
  <2>5. Grown(out, js.out)
    BY Parts, OlderGrown
  <2> HIDE DEF dlgs, dlgs2, out
  <2>6. js'.live /\ js'.period = js.period /\ js'.out = out /\ js'.dlgs = dlgs /\ js' \in Subscriptions
    <3>1. js \in Subscriptions /\ dlgs \in Seq(Dialogs) /\ out \in Transactions
      BY <2>3, <2>4, <2>5 DEF TypeOK, DialogsMapped, Grown
    <3> QED
      BY <1>2, <2>1, <3>1 DEF Subscriptions
  <2> QED
    BY <2>2, <2>3, <2>4, <2>5, <2>6
<1>3. ASSUME jn.live
      PROVE  /\ jn' \in Notifiers /\ jn'.live /\ jn'.tag = jn.tag /\ jn'.status = jn.status
             /\ jn'.state = jn.state /\ jn'.inc = jn.inc
             /\ jn'.left = IF jn.left > 0 THEN jn.left - Tick ELSE -Tick
  <2> DEFINE left == IF jn.left > 0 THEN jn.left - Tick ELSE -Tick
             outs == Aged(jn.outs)
  <2>1. left \in Int /\ outs \in Seq(Transactions) /\ jn \in Notifiers
    <3>1. jn.left \in Int /\ jn.outs \in Seq(Transactions) /\ jn \in Notifiers
      BY Parts DEF TypeOK
    <3>2. left \in Int
      BY <3>1, ExSubscriptionAssumption
    <3> QED
      BY <3>1, <3>2, AgedTyped
  <2>2. jn' = [jn EXCEPT !.left = left, !.outs = outs]
    BY <1>3 DEF TickTime
  <2> HIDE DEF left, outs
  <2>3. /\ jn' \in Notifiers /\ jn'.live /\ jn'.tag = jn.tag /\ jn'.status = jn.status
        /\ jn'.state = jn.state /\ jn'.inc = jn.inc /\ jn'.left = left
    BY <1>3, <2>1, <2>2 DEF Notifiers
  <2> QED
    BY <2>3 DEF left
<1>4. (~js.live => js' = js) /\ (~jn.live => jn' = jn)
  BY DEF TickTime
<1> QED
  BY <1>1, <1>2, <1>3, <1>4

\* What the notifier is to the subscriber does not change.
KeepsNotifier == /\ jn' \in Notifiers /\ jn'.live = jn.live /\ jn'.tag = jn.tag /\ jn'.left = jn.left
                 /\ jn'.status = jn.status /\ jn'.state = jn.state /\ jn'.inc = jn.inc

\* The notifier is gone.
DropsNotifier == /\ jn' \in Notifiers /\ ~jn'.live /\ jn'.tag = jn.tag /\ jn'.state = "deleted"
                 /\ jn'.outs = <<>> /\ jn'.inc.st = "answered"

Drop == [NoNotify EXCEPT !.tag = jn.tag]

LEMMA Drops ==
  ASSUME TypeOK, jn' = Drop
  PROVE  DropsNotifier
  BY NoNotifyTyped, Parts DEF Drop, DropsNotifier

LEMMA NewSubscribeEffect ==
  ASSUME TypeOK, NEW m \in net, NewSubscribe(m)
  PROVE  /\ m.tag = 0
         /\ jn' \in Notifiers /\ jn'.live /\ jn'.tag = jn.tag + 1 /\ jn'.left = m.ask
         /\ jn'.state = "early" /\ jn'.outs = <<>>
         /\ jn'.inc.n = m.n /\ jn'.inc.ask = m.ask /\ jn'.inc.st = "open"
         /\ net' = net \ {m} /\ stranded' \in Nat
<1> DEFINE tag == jn.tag + 1
           inc == [n |-> m.n, ask |-> m.ask, st |-> "open"]
           x == [NoNotify EXCEPT !.tag = tag]
           left == m.ask
<1>1. /\ m.tag = 0 /\ net' = net \ {m}
      /\ jn' = [NoNotify EXCEPT !.live = TRUE, !.tag = tag, !.left = left,
                                !.state = "early", !.cseq = 1, !.inc = inc]
      /\ stranded' = IF jn.live THEN stranded + 1 ELSE stranded
  BY DEF NewSubscribe
<1>2. tag \in Nat /\ left \in Int /\ m.n \in Nat /\ m.ask \in Nat
  <2>1. jn.tag \in Nat /\ m.n \in Nat /\ m.ask \in Nat
    BY Parts DEF TypeOK, Messages
  <2> QED
    BY <2>1
<1>3. inc \in [n : Nat, ask : Nat, st : {"open", "answered"}] /\ inc.n = m.n /\ inc.ask = m.ask /\ inc.st = "open"
  BY <1>2
<1> HIDE DEF tag, inc, left
<1>4. x \in Notifiers /\ x.outs = <<>>
  BY <1>2, NoNotifyTyped
<1>5. jn' = [x EXCEPT !.live = TRUE, !.left = left, !.state = "early", !.cseq = 1, !.inc = inc]
  BY <1>1
<1>6. x.tag = tag
  BY <1>2, NoNotifyTyped
<1> HIDE DEF x
<1>7. /\ jn' \in Notifiers /\ jn'.live /\ jn'.tag = tag /\ jn'.left = left
      /\ jn'.state = "early" /\ jn'.outs = x.outs /\ jn'.inc = inc
  BY <1>2, <1>3, <1>4, <1>5, <1>6 DEF Notifiers, DialogStates
<1>8. stranded' \in Nat
  BY <1>1 DEF TypeOK
<1> QED
  BY <1>1, <1>3, <1>4, <1>7, <1>8 DEF tag, left

LEMMA UnknownSubscribeEffect ==
  ASSUME TypeOK, NEW m \in net, UnknownSubscribe(m)
  PROVE  /\ m.tag # 0 /\ ~OfDialog(m) /\ jn' = jn /\ stranded' = stranded
         /\ net' = (net \ {m}) \cup {Answer(m, "4xx", m.tag, 0)}
  BY DEF UnknownSubscribe

LEMMA SubscribeWithinEffect ==
  ASSUME TypeOK, NEW m \in net, SubscribeWithin(m)
  PROVE  /\ jn.live /\ jn.state # "deleted" /\ m.tag = jn.tag /\ stranded' = stranded
         /\ IF jn.inc.st = "open"
            THEN jn' = jn /\ net' = (net \ {m}) \cup {Answer(m, "4xx", m.tag, 0)}
            ELSE /\ jn' \in Notifiers /\ jn'.live = jn.live /\ jn'.tag = jn.tag /\ jn'.state = jn.state
                 /\ jn'.outs = jn.outs
                 /\ jn'.left = m.ask /\ jn'.inc.n = m.n /\ jn'.inc.ask = m.ask /\ jn'.inc.st = "open"
                 /\ jn'.status = IF m.ask = 0 THEN TERMINATED ELSE jn.status
                 /\ net' = net \ {m}
<1> DEFINE inc == [n |-> m.n, ask |-> m.ask, st |-> "open"]
           left == m.ask
           status == IF m.ask = 0 THEN TERMINATED ELSE jn.status
<1>1. /\ jn.live /\ jn.state # "deleted" /\ m.tag = jn.tag /\ stranded' = stranded
      /\ IF jn.inc.st = "open"
         THEN net' = (net \ {m}) \cup {Answer(m, "4xx", m.tag, 0)} /\ jn' = jn
         ELSE /\ jn' = [jn EXCEPT !.left = left, !.status = status, !.inc = inc]
              /\ net' = net \ {m}
  BY DEF SubscribeWithin, OfDialog
<1>2. left \in Int /\ m.n \in Nat /\ m.ask \in Nat /\ status \in Nat /\ jn \in Notifiers
  BY Parts DEF TypeOK, Messages, TERMINATED
<1>3. inc \in [n : Nat, ask : Nat, st : {"open", "answered"}] /\ inc.n = m.n /\ inc.ask = m.ask /\ inc.st = "open"
  BY <1>2
<1> HIDE DEF left, inc, status
<1>4. ASSUME jn' = [jn EXCEPT !.left = left, !.status = status, !.inc = inc]
      PROVE  /\ jn' \in Notifiers /\ jn'.live = jn.live /\ jn'.tag = jn.tag /\ jn'.state = jn.state
             /\ jn'.outs = jn.outs /\ jn'.left = left /\ jn'.inc = inc /\ jn'.status = status
  BY <1>2, <1>3, <1>4 DEF Notifiers
<1> QED
  BY <1>1, <1>3, <1>4 DEF left, status

\* The application answers the SUBSCRIBE that is open.
AnswersWith(code, a) ==
  /\ a \in Messages /\ a.kind = "to SUBSCRIBE" /\ a.n = jn.inc.n /\ a.tag = jn.tag /\ a.code = code
  /\ net' = net \cup {a}

\* A refusal of the first SUBSCRIBE deletes the dialog.
Refuses == /\ jn' \in Notifiers /\ jn'.live = jn.live /\ jn'.tag = jn.tag /\ jn'.left = jn.left
           /\ jn'.status = jn.status /\ jn'.outs = jn.outs
           /\ jn'.state = IF jn.state = "early" THEN "deleted" ELSE jn.state
           /\ jn'.inc.st = "answered" /\ jn'.inc.n = jn.inc.n /\ jn'.inc.ask = jn.inc.ask

Accepts == /\ jn' \in Notifiers /\ jn'.live = jn.live /\ jn'.tag = jn.tag /\ jn'.left = jn.left
           /\ jn'.status = jn.status /\ jn'.outs = jn.outs /\ jn'.state = "confirmed"
           /\ jn'.inc.st = "answered" /\ jn'.inc.n = jn.inc.n /\ jn'.inc.ask = jn.inc.ask

LEMMA IncAnswered ==
  ASSUME TypeOK, NEW state \in DialogStates, jn' = [jn EXCEPT !.inc.st = "answered", !.state = state]
  PROVE  /\ jn' \in Notifiers /\ jn'.live = jn.live /\ jn'.tag = jn.tag /\ jn'.left = jn.left
         /\ jn'.status = jn.status /\ jn'.outs = jn.outs /\ jn'.state = state
         /\ jn'.inc.st = "answered" /\ jn'.inc.n = jn.inc.n /\ jn'.inc.ask = jn.inc.ask
<1> DEFINE inc == [jn.inc EXCEPT !.st = "answered"]
<1>1. inc \in [n : Nat, ask : Nat, st : {"open", "answered"}] /\ inc.n = jn.inc.n /\ inc.ask = jn.inc.ask
      /\ inc.st = "answered"
  BY Parts
<1>2. jn' = [jn EXCEPT !.inc = inc, !.state = state]
  OBVIOUS
<1> HIDE DEF inc
<1>3. /\ jn' \in Notifiers /\ jn'.live = jn.live /\ jn'.tag = jn.tag /\ jn'.left = jn.left
      /\ jn'.status = jn.status /\ jn'.outs = jn.outs /\ jn'.state = state /\ jn'.inc = inc
  BY <1>1, <1>2 DEF TypeOK, Notifiers
<1> QED
  BY <1>1, <1>3

LEMMA SendAnswerEffect ==
  ASSUME TypeOK, eXosip_insubscription_send_answer
  PROVE  /\ jn.live /\ jn.inc.st = "open"
         /\ \E code \in Codes : \E a :
              /\ AnswersWith(code, a)
              /\ \/ /\ code = "2xx" /\ Accepts /\ a.value = TimeLeft /\ trouble' = trouble
                    /\ jn.inc.ask = 0 \/ jn.inc.ask >= MinExpires
                 \/ /\ code = "423" /\ Refuses /\ trouble' = trouble
                    /\ jn.inc.ask # 0 /\ jn.inc.ask < MinExpires
                 \/ code = "1xx" /\ jn' = jn /\ trouble' = trouble + 1
                 \/ code \in {"401", "4xx"} /\ Refuses /\ trouble' = trouble + 1
         /\ UNCHANGED <<js, replaced, stranded, seen>>
<1> DEFINE a(code, value) == Answer(Message("SUBSCRIBE", jn.inc.n, 0), code, jn.tag, value)
<1>1. jn.inc.n \in Nat /\ jn.inc.ask \in Nat /\ jn.tag \in Nat /\ jn.left \in Int /\ jn.state \in DialogStates
  BY Parts
<1>2. TimeLeft \in Nat
  BY <1>1 DEF TimeLeft
<1> DEFINE Fine(code, value) ==
        /\ a(code, value) \in Messages /\ a(code, value).kind = "to SUBSCRIBE"
        /\ a(code, value).n = jn.inc.n /\ a(code, value).tag = jn.tag /\ a(code, value).code = code
        /\ a(code, value).value = value
<1>3. ASSUME NEW code \in Codes, NEW value \in Nat PROVE Fine(code, value)
  BY <1>1 DEF Answer, Message, Messages, Kinds, Codes
<1> HIDE DEF a
<1>4. ASSUME jn' = [jn EXCEPT !.inc.st = "answered", !.state = IF @ = "early" THEN "deleted" ELSE @]
      PROVE  Refuses
  <2> DEFINE state == IF jn.state = "early" THEN "deleted" ELSE jn.state
  <2>1. state \in DialogStates /\ jn' = [jn EXCEPT !.inc.st = "answered", !.state = state]
    BY <1>1, <1>4 DEF DialogStates
  <2> HIDE DEF state
  <2>2. /\ jn' \in Notifiers /\ jn'.live = jn.live /\ jn'.tag = jn.tag /\ jn'.left = jn.left
        /\ jn'.status = jn.status /\ jn'.outs = jn.outs /\ jn'.state = state
        /\ jn'.inc.st = "answered" /\ jn'.inc.n = jn.inc.n /\ jn'.inc.ask = jn.inc.ask
    BY <2>1, IncAnswered
  <2> QED
    BY <2>2 DEF Refuses, state
<1>5. ASSUME jn' = [jn EXCEPT !.inc.st = "answered", !.state = "confirmed"]
      PROVE  Accepts
  BY <1>5, IncAnswered DEF Accepts, DialogStates
<1>6. /\ jn.live /\ jn.inc.st = "open" /\ UNCHANGED <<js, replaced, stranded, seen>>
      /\ \/ /\ jn.inc.ask = 0 \/ jn.inc.ask >= MinExpires
            /\ net' = net \cup {a("2xx", TimeLeft)}
            /\ jn' = [jn EXCEPT !.inc.st = "answered", !.state = "confirmed"]
            /\ trouble' = trouble
         \/ /\ jn.inc.ask # 0 /\ jn.inc.ask < MinExpires
            /\ net' = net \cup {a("423", MinExpires)}
            /\ jn' = [jn EXCEPT !.inc.st = "answered", !.state = IF @ = "early" THEN "deleted" ELSE @]
            /\ trouble' = trouble
         \/ \E code \in {"1xx", "401", "4xx"} :
              /\ trouble' = trouble + 1
              /\ net' = net \cup {a(code, 0)}
              /\ jn' = IF code = "1xx" THEN jn
                       ELSE [jn EXCEPT !.inc.st = "answered", !.state = IF @ = "early" THEN "deleted" ELSE @]
  BY DEF eXosip_insubscription_send_answer, Reply, a
<1>7. CASE /\ jn.inc.ask = 0 \/ jn.inc.ask >= MinExpires
           /\ net' = net \cup {a("2xx", TimeLeft)}
           /\ jn' = [jn EXCEPT !.inc.st = "answered", !.state = "confirmed"]
           /\ trouble' = trouble
  <2>1. Accepts
    BY <1>5, <1>7
  <2>2. "2xx" \in Codes
    BY DEF Codes
  <2>3. AnswersWith("2xx", a("2xx", TimeLeft)) /\ a("2xx", TimeLeft).value = TimeLeft
    <3>1. \A value \in Nat : Fine("2xx", value)
      <4> HIDE DEF Fine
      <4> QED
        BY <1>3, <2>2
    <3>2. Fine("2xx", TimeLeft)
      <4> HIDE DEF Fine
      <4> QED
        BY <1>2, <3>1
    <3> QED
      BY <1>7, <3>2 DEF AnswersWith
  <2> QED
    BY <1>6, <1>7, <2>1, <2>2, <2>3
<1>8. CASE /\ jn.inc.ask # 0 /\ jn.inc.ask < MinExpires
           /\ net' = net \cup {a("423", MinExpires)}
           /\ jn' = [jn EXCEPT !.inc.st = "answered", !.state = IF @ = "early" THEN "deleted" ELSE @]
           /\ trouble' = trouble
  <2>1. Refuses
    BY <1>4, <1>8
  <2>2. "423" \in Codes
    BY DEF Codes
  <2>3. AnswersWith("423", a("423", MinExpires))
    <3>1. Fine("423", MinExpires)
      BY <1>3, <2>2
    <3> QED
      BY <1>8, <3>1 DEF AnswersWith
  <2> QED
    BY <1>6, <1>8, <2>1, <2>2, <2>3
<1>9. ASSUME NEW code \in {"1xx", "401", "4xx"},
             /\ trouble' = trouble + 1
             /\ net' = net \cup {a(code, 0)}
             /\ jn' = IF code = "1xx" THEN jn
                      ELSE [jn EXCEPT !.inc.st = "answered", !.state = IF @ = "early" THEN "deleted" ELSE @]
      PROVE  /\ code \in Codes /\ AnswersWith(code, a(code, 0)) /\ trouble' = trouble + 1
             /\ code = "1xx" => jn' = jn
             /\ code # "1xx" => Refuses
  <2>1. code \in Codes
    BY DEF Codes
  <2>2. AnswersWith(code, a(code, 0))
    <3>1. Fine(code, 0)
      <4> HIDE DEF Fine
      <4> QED
        BY <1>3, <2>1
    <3> QED
      BY <1>9, <3>1 DEF AnswersWith
  <2> QED
    BY <1>4, <1>9, <2>1, <2>2
<1>10. CASE \E code \in {"1xx", "401", "4xx"} :
              /\ trouble' = trouble + 1
              /\ net' = net \cup {a(code, 0)}
              /\ jn' = IF code = "1xx" THEN jn
                       ELSE [jn EXCEPT !.inc.st = "answered", !.state = IF @ = "early" THEN "deleted" ELSE @]
  <2>1. PICK code \in {"1xx", "401", "4xx"} :
             /\ code \in Codes /\ AnswersWith(code, a(code, 0)) /\ trouble' = trouble + 1
             /\ code = "1xx" => jn' = jn
             /\ code # "1xx" => Refuses
    BY <1>9, <1>10
  <2> QED
    BY <1>6, <2>1
<1> QED
  BY <1>6, <1>7, <1>8, <1>10

\* The notifier with other NOTIFYs.
LEMMA NotifierWith ==
  ASSUME TypeOK, NEW outs \in Seq(Transactions), NEW cseq \in Nat, NEW retry \in Nat,
         jn' = [jn EXCEPT !.outs = outs, !.cseq = cseq, !.retry = retry]
  PROVE  KeepsNotifier /\ jn'.outs = outs
  BY DEF TypeOK, Notifiers, KeepsNotifier

LEMMA Single ==
  ASSUME NEW tr \in Transactions
  PROVE  <<tr>> \in Seq(Transactions) /\ <<tr>> # <<>> /\ <<tr>>[1] = tr /\ Len(<<tr>>) = 1
  OBVIOUS

\* The NOTIFY tr is on its way.
Notifies(tr) == /\ tr \in Transactions /\ net' = net \cup {Notify(tr, jn.tag)}
                /\ KeepsNotifier

LEMMA FirstOut ==
  ASSUME TypeOK, jn.outs # <<>>
  PROVE  jn.outs[1] \in Transactions
  BY Parts

LEMMA SendNotifyEffect ==
  ASSUME TypeOK, NEW state \in Nat, SendNotify(state)
  PROVE  /\ jn.live /\ jn.state = "confirmed"
         /\ \E tr : Notifies(tr) /\ tr.ask = state /\ jn'.outs = <<tr>>
         /\ seen' = IF state = TERMINATED THEN [seen EXCEPT !.closing = TRUE] ELSE seen
         /\ UNCHANGED <<js, replaced, stranded, trouble>>
<1> DEFINE n == jn.cseq + 1
           auth == jn.outs # <<>> /\ jn.outs[1].auth
           tr == Transaction(n, state, auth, 0)
           outs == <<tr>>
           retry == jn.retry
<1>1. n \in Nat /\ auth \in BOOLEAN /\ retry \in Nat
  <2>1. jn.cseq \in Nat /\ jn.retry \in Nat /\ jn.outs \in Seq(Transactions)
    BY Parts
  <2>2. jn.outs # <<>> => jn.outs[1].auth \in BOOLEAN
    BY FirstOut DEF Transactions
  <2> QED
    BY <2>1, <2>2
<1>2. tr \in Transactions /\ tr.ask = state
  <2> HIDE DEF n, auth
  <2> QED
    BY <1>1, TransactionTyped
<1>3. /\ jn.live /\ jn.state = "confirmed"
      /\ jn' = [jn EXCEPT !.cseq = n, !.outs = outs]
      /\ net' = net \cup {Notify(tr, jn.tag)}
      /\ seen' = IF state = TERMINATED THEN [seen EXCEPT !.closing = TRUE] ELSE seen
      /\ UNCHANGED <<js, replaced, stranded, trouble>>
  BY DEF SendNotify
<1> HIDE DEF n, auth, tr
<1>4. outs \in Seq(Transactions)
  BY <1>2, Single
<1> HIDE DEF outs
<1>5. jn' = [jn EXCEPT !.outs = outs, !.cseq = n, !.retry = retry]
  BY <1>3 DEF TypeOK, Notifiers
<1> HIDE DEF retry
<1>6. KeepsNotifier /\ jn'.outs = outs
  BY <1>1, <1>4, <1>5, NotifierWith
<1> QED
  BY <1>2, <1>3, <1>6 DEF Notifies, outs

LEMMA RemoveEffect ==
  ASSUME TypeOK, eXosip_insubscription_remove
  PROVE  DropsNotifier /\ UNCHANGED <<js, replaced, stranded, net, trouble, seen>>
  BY Drops DEF eXosip_insubscription_remove, Drop

LEMMA ClosedEffect ==
  ASSUME TypeOK, NEW why, Closed(why)
  PROVE  DropsNotifier /\ seen' = [seen EXCEPT !.closed = why]
  BY Drops DEF Closed, Drop

\* One NOTIFY has another state.
LEMMA NotifyChanged ==
  ASSUME TypeOK, jn.outs # <<>>, NEW tr \in Transactions, NEW retry \in Nat,
         jn' = [jn EXCEPT !.outs = [jn.outs EXCEPT ![1] = tr], !.retry = retry]
  PROVE  KeepsNotifier /\ jn'.outs # <<>>
<1> DEFINE outs == [jn.outs EXCEPT ![1] = tr]
           cseq == jn.cseq
<1>1. outs \in Seq(Transactions) /\ Len(outs) = Len(jn.outs) /\ jn.outs \in Seq(Transactions)
  <2>1. jn.outs \in Seq(Transactions)
    BY Parts
  <2> QED
    BY <2>1
<1>2. outs # <<>>
  BY <1>1
<1> HIDE DEF outs
<1>3. jn' = [jn EXCEPT !.outs = outs, !.cseq = cseq, !.retry = retry] /\ cseq \in Nat
  BY DEF TypeOK, Notifiers, outs
<1> HIDE DEF cseq
<1> QED
  BY <1>1, <1>2, <1>3, NotifierWith

LEMMA RcvNotifyAnswerEffect ==
  ASSUME TypeOK, RcvNotifyAnswer
  PROVE  /\ \E m \in net :
               /\ m.kind = "to NOTIFY" /\ net' = net \ {m}
               /\ \/ /\ DropsNotifier /\ seen' = [seen EXCEPT !.closed = "answered"]
                     /\ m.code = "2xx" /\ m.ask = TERMINATED
                  \/ KeepsNotifier /\ seen' = seen /\ (jn'.outs # <<>> => jn.outs # <<>>)
         /\ UNCHANGED <<js, replaced, stranded, trouble>>
<1>1. PICK m \in net :
          /\ m.kind = "to NOTIFY" /\ net' = net \ {m}
          /\ IF jn.live /\ m.tag = jn.tag /\ jn.outs # <<>> /\ jn.outs[1].n = m.n
                /\ jn.outs[1].st = "trying"
             THEN IF m.code = "2xx" /\ m.ask = TERMINATED THEN Closed("answered")
                  ELSE /\ jn' = [jn EXCEPT !.outs[1].resp = m.code, !.outs[1].st = "completed",
                                           !.retry = IF m.code = "2xx" THEN 0 ELSE @]
                       /\ UNCHANGED seen
             ELSE UNCHANGED <<jn, seen>>
  BY DEF RcvNotifyAnswer
<1>2. UNCHANGED <<js, replaced, stranded, trouble>>
  BY DEF RcvNotifyAnswer
<1>3. CASE Closed("answered") /\ m.code = "2xx" /\ m.ask = TERMINATED
  BY <1>1, <1>2, <1>3, ClosedEffect
<1>4. CASE UNCHANGED <<jn, seen>>
  <2>1. KeepsNotifier
    BY <1>4 DEF KeepsNotifier, TypeOK
  <2> QED
    BY <1>1, <1>2, <1>4, <2>1
<1>5. CASE /\ jn.outs # <<>>
           /\ jn' = [jn EXCEPT !.outs[1].resp = m.code, !.outs[1].st = "completed",
                               !.retry = IF m.code = "2xx" THEN 0 ELSE @]
           /\ UNCHANGED seen
  <2> DEFINE tr == [jn.outs[1] EXCEPT !.resp = m.code, !.st = "completed"]
             retry == IF m.code = "2xx" THEN 0 ELSE jn.retry
  <2>1. tr \in Transactions
    <3>1. m.code \in Codes /\ jn.outs[1] \in Transactions
      BY <1>5, FirstOut DEF TypeOK, Messages
    <3> QED
      BY <3>1 DEF Transactions
  <2>2. retry \in Nat
    BY Parts
  <2>3. jn' = [jn EXCEPT !.outs = [jn.outs EXCEPT ![1] = tr], !.retry = retry]
    BY <1>5
  <2> HIDE DEF tr, retry
  <2>4. KeepsNotifier
    BY <1>5, <2>1, <2>2, <2>3, NotifyChanged
  <2> QED
    BY <1>1, <1>2, <1>5, <2>4
<1> QED
  BY <1>1, <1>3, <1>4, <1>5

LEMMA KillNotifyEffect ==
  ASSUME TypeOK, KillNotify
  PROVE  /\ jn.live /\ jn.outs # <<>>
         /\ \/ DropsNotifier /\ seen' = [seen EXCEPT !.closed = "killed"]
            \/ KeepsNotifier /\ seen' = seen
         /\ UNCHANGED <<js, replaced, stranded, net, trouble>>
<1>1. /\ jn.live /\ jn.outs # <<>>
      /\ UNCHANGED <<js, replaced, stranded, net, trouble>>
      /\ \/ Closed("killed")
         \/ jn' = [jn EXCEPT !.outs[1].st = "terminated"] /\ UNCHANGED seen
  BY DEF KillNotify
<1>2. CASE Closed("killed")
  BY <1>1, <1>2, ClosedEffect
<1>3. CASE jn' = [jn EXCEPT !.outs[1].st = "terminated"] /\ UNCHANGED seen
  <2> DEFINE tr == [jn.outs[1] EXCEPT !.st = "terminated"]
             retry == jn.retry
  <2>1. tr \in Transactions
    BY <1>1, FirstOut DEF Transactions
  <2>2. retry \in Nat
    BY Parts
  <2>3. jn' = [jn EXCEPT !.outs = [jn.outs EXCEPT ![1] = tr]]
    BY <1>3
  <2> HIDE DEF tr
  <2>4. jn' = [jn EXCEPT !.outs = [jn.outs EXCEPT ![1] = tr], !.retry = retry]
    BY <2>3 DEF TypeOK, Notifiers
  <2> HIDE DEF retry
  <2>5. KeepsNotifier
    BY <1>1, <2>1, <2>2, <2>4, NotifyChanged
  <2> QED
    BY <1>1, <1>3, <2>5
<1> QED
  BY <1>1, <1>2, <1>3

LEMMA AutomaticNotifyEffect ==
  ASSUME TypeOK, eXosip_automatic_notify
  PROVE  /\ jn.live /\ jn.outs # <<>>
         /\ \E tr : Notifies(tr)
         /\ UNCHANGED <<js, replaced, stranded, trouble, seen>>
<1> DEFINE n == jn.outs[1].n + 1
           ask == jn.outs[1].ask
           tr == Transaction(n, ask, TRUE, 0)
           outs == <<tr>>
           cseq == jn.cseq + 1
           retry == jn.retry + 1
<1>1. /\ jn.live /\ jn.outs # <<>>
      /\ jn' = [jn EXCEPT !.outs = outs, !.cseq = cseq, !.retry = retry]
      /\ net' = net \cup {Notify(tr, jn.tag)}
      /\ UNCHANGED <<js, replaced, stranded, trouble, seen>>
  BY DEF eXosip_automatic_notify, RetriesNotify
<1>2. n \in Nat /\ ask \in Nat /\ cseq \in Nat /\ retry \in Nat
  <2>1. jn.outs[1].n \in Nat /\ jn.outs[1].ask \in Nat /\ jn.cseq \in Nat /\ jn.retry \in Nat
    BY <1>1, FirstOut, Parts DEF Transactions
  <2> QED
    BY <2>1
<1> HIDE DEF n, ask, cseq, retry
<1>3. tr \in Transactions
  BY <1>2, TransactionTyped
<1> HIDE DEF tr
<1>4. outs \in Seq(Transactions)
  BY <1>3, Single
<1> HIDE DEF outs
<1>5. KeepsNotifier
  BY <1>1, <1>2, <1>4, NotifierWith
<1> QED
  BY <1>1, <1>3, <1>5 DEF Notifies

\* A tick keeps the NOTIFYs.
LEMMA TickOuts ==
  ASSUME TypeOK, TickTime, jn.live
  PROVE  jn.outs = <<>> => jn'.outs = <<>>
<1> DEFINE outs == Aged(jn.outs)
           left == IF jn.left > 0 THEN jn.left - Tick ELSE -Tick
<1>1. jn' = [jn EXCEPT !.left = left, !.outs = outs]
  BY DEF TickTime
<1>2. outs \in Seq(Transactions) /\ Len(outs) = Len(jn.outs)
  BY Parts, AgedTyped
<1> HIDE DEF outs
<1>3. jn'.outs = outs
  BY <1>1 DEF TypeOK, Notifiers
<1> QED
  BY <1>2, <1>3, Parts

LEMMA ProxyEffect ==
  ASSUME TypeOK, ProxyAnswers
  PROVE  /\ \E m \in net, code \in {"401", "4xx"} :
               /\ m.kind \in {"SUBSCRIBE", "NOTIFY"}
               /\ net' = (net \ {m}) \cup {Answer(m, code, m.tag, 0)}
         /\ trouble' = trouble + 1 /\ UNCHANGED <<js, replaced, jn, stranded, seen>>
  BY DEF ProxyAnswers

LEMMA Prepended ==
  ASSUME NEW s \in Seq(Transactions), NEW tr \in Transactions
  PROVE  LET t == <<tr>> \o s
         IN /\ t \in Seq(Transactions) /\ t # <<>> /\ t[1] = tr /\ Len(t) = Len(s) + 1
            /\ \A i \in DOMAIN t : i = 1 \/ (i - 1 \in DOMAIN s /\ t[i] = s[i - 1])
  OBVIOUS

\* The dialogs of s stay as they are, but for d, which gets x.
LEMMA KeptDialog ==
  ASSUME TypeOK, js' \in Subscriptions, NEW d \in DOMAIN js.dlgs, NEW x \in Dialogs, Dialog2(d, x),
         js'.out.jd <= Len(js.dlgs),
         \A i \in DOMAIN x.outs : x.outs[i].jd = d
  PROVE  Kept(js')
<1>1. /\ js'.dlgs \in Seq(Dialogs) /\ Len(js'.dlgs) = Len(js.dlgs) /\ js'.dlgs[d] = x
      /\ \A e \in DOMAIN js.dlgs : e # d => js'.dlgs[e] = js.dlgs[e]
  BY DEF Dialog2
<1>2. DOMAIN js'.dlgs = DOMAIN js.dlgs
  BY <1>1, Parts
<1>3. \A e \in DOMAIN js.dlgs : \A i \in DOMAIN js.dlgs[e].outs : js.dlgs[e].outs[i].jd = e
  BY DEF TypeOK, Kept
<1>4. \A e \in DOMAIN js'.dlgs : \A i \in DOMAIN js'.dlgs[e].outs : js'.dlgs[e].outs[i].jd = e
  BY <1>1, <1>2, <1>3
<1> QED
  BY <1>1, <1>4 DEF Kept

LEMMA KeptAdds ==
  ASSUME TypeOK, js' \in Subscriptions, NEW d \in DOMAIN js.dlgs, NEW tr \in Transactions,
         Adds(d, tr), tr.jd = d, js'.out = js.out
  PROVE  Kept(js')
<1>1. PICK x \in Dialogs : Dialog2(d, x) /\ x.outs = <<tr>> \o js.dlgs[d].outs
  BY DEF Adds
<1>2. js.dlgs[d].outs \in Seq(Transactions)
  BY Parts DEF Dialogs
<1>3. \A i \in DOMAIN js.dlgs[d].outs : js.dlgs[d].outs[i].jd = d
  BY DEF TypeOK, Kept
<1>4. js.out.jd <= Len(js.dlgs)
  BY DEF TypeOK, Kept
<1> DEFINE outs == js.dlgs[d].outs
           t == <<tr>> \o outs
<1>5. \A i \in DOMAIN t : i = 1 \/ (i - 1 \in DOMAIN outs /\ t[i] = outs[i - 1])
  BY <1>2, Prepended
<1>6. t[1] = tr
  BY <1>2, Prepended
<1>7. x.outs = t
  BY <1>1
<1> HIDE DEF t
<1>8. \A i \in DOMAIN x.outs : x.outs[i].jd = d
  BY <1>3, <1>5, <1>6, <1>7
<1> QED
  BY <1>1, <1>4, <1>8, KeptDialog

LEMMA KeptTakes ==
  ASSUME NEW t \in Subscriptions, NEW s \in Subscriptions, NEW now \in Transactions, Kept(s),
         Takes(t, s, now), now.jd <= Len(s.dlgs), s.out.n # now.n => now.jd \in DOMAIN s.dlgs
  PROVE  Kept(t)
<1>1. s.dlgs \in Seq(Dialogs) /\ t.dlgs \in Seq(Dialogs)
  BY DEF Subscriptions
<1>2. CASE s.out.n = now.n
  BY <1>2 DEF Takes, Kept
<1>3. CASE s.out.n # now.n
  <2> DEFINE u == s.dlgs[now.jd]
             v == t.dlgs[now.jd]
  <2>1. /\ t.out = s.out /\ Len(t.dlgs) = Len(s.dlgs)
        /\ \A d \in DOMAIN s.dlgs : d # now.jd => t.dlgs[d] = s.dlgs[d]
        /\ \E i \in DOMAIN u.outs : u.outs[i].n = now.n /\ v.outs = [u.outs EXCEPT ![i] = now]
    BY <1>3 DEF Takes
  <2>2. DOMAIN t.dlgs = DOMAIN s.dlgs
    BY <1>1, <2>1
  <2>3. \A i \in DOMAIN u.outs : u.outs[i].jd = now.jd
    BY <1>3 DEF Kept
  <2>4. \A i \in DOMAIN v.outs : v.outs[i].jd = now.jd
    <3>1. PICK i \in DOMAIN u.outs : v.outs = [u.outs EXCEPT ![i] = now]
      BY <2>1
    <3>2. DOMAIN v.outs = DOMAIN u.outs
      BY <3>1
    <3>3. \A j \in DOMAIN u.outs : v.outs[j] = IF j = i THEN now ELSE u.outs[j]
      BY <3>1
    <3> QED
      BY <2>3, <3>2, <3>3
  <2>5. \A d \in DOMAIN t.dlgs : \A i \in DOMAIN t.dlgs[d].outs : t.dlgs[d].outs[i].jd = d
    <3> SUFFICES ASSUME NEW d \in DOMAIN t.dlgs PROVE \A i \in DOMAIN t.dlgs[d].outs : t.dlgs[d].outs[i].jd = d
      OBVIOUS
    <3>1. CASE d = now.jd
      BY <2>4, <3>1
    <3>2. CASE d # now.jd
      BY <2>1, <2>2, <3>2 DEF Kept
    <3> QED
      BY <3>1, <3>2
  <2> QED
    BY <2>1, <2>5 DEF Kept
<1> QED
  BY <1>2, <1>3

\* What is like js has its transactions where js has them.
LEMMA KeptLike ==
  ASSUME TypeOK, NEW s \in Subscriptions, s.out = js.out,
         Len(js.dlgs) <= Len(s.dlgs),
         \A d \in DOMAIN s.dlgs : \/ d \in DOMAIN js.dlgs /\ s.dlgs[d].outs = js.dlgs[d].outs
                                  \/ s.dlgs[d].outs = <<>>
  PROVE  Kept(s)
<1>1. js.dlgs \in Seq(Dialogs) /\ s.dlgs \in Seq(Dialogs) /\ js.out.jd \in Nat
  BY Parts DEF Subscriptions, Transactions
<1>2. s.out.jd <= Len(s.dlgs)
  <2>1. js.out.jd <= Len(js.dlgs)
    BY DEF TypeOK, Kept
  <2> QED
    BY <1>1, <2>1
<1>3. \A d \in DOMAIN s.dlgs : \A i \in DOMAIN s.dlgs[d].outs : s.dlgs[d].outs[i].jd = d
  <2> SUFFICES ASSUME NEW d \in DOMAIN s.dlgs, NEW i \in DOMAIN s.dlgs[d].outs PROVE s.dlgs[d].outs[i].jd = d
    OBVIOUS
  <2>1. CASE d \in DOMAIN js.dlgs /\ s.dlgs[d].outs = js.dlgs[d].outs
    BY <2>1 DEF TypeOK, Kept
  <2>2. CASE s.dlgs[d].outs = <<>>
    <3> DEFINE e == <<>>
    <3>1. DOMAIN e = {}
      OBVIOUS
    <3> QED
      BY <2>2, <3>1
  <2> QED
    BY <2>1, <2>2
<1> QED
  BY <1>2, <1>3 DEF Kept

LEMMA KeptAnswer ==
  ASSUME TypeOK, NEW m \in net, NEW tr \in TransactionsOf(js), js' \in Subscriptions,
         IF m.code \in {"1xx", "2xx"} THEN \E now : AcceptedBy(m, tr, now)
         ELSE RefusedBy(m, tr, Now(tr, m))
  PROVE  Kept(js')
<1>0. /\ tr \in Transactions
      /\ \/ tr = js.out
         \/ tr.jd \in DOMAIN js.dlgs /\ \E i \in DOMAIN js.dlgs[tr.jd].outs : js.dlgs[tr.jd].outs[i] = tr
      /\ tr.jd <= Len(js.dlgs)
  BY TransactionsAre
<1>1. CASE m.code \in {"1xx", "2xx"}
  <2>1. PICK now : AcceptedBy(m, tr, now)
    BY <1>1
  <2>2. PICK s \in Subscriptions :
          /\ Takes(js', s, now) /\ s.out = js.out
          /\ \A d \in DOMAIN js.dlgs : s.dlgs[d].outs = js.dlgs[d].outs
          /\ \/ now.jd = Len(js.dlgs) + 1 /\ Len(s.dlgs) = now.jd /\ tr.jd = 0 /\ s.dlgs[now.jd].outs = <<>>
             \/ now.jd \in DOMAIN js.dlgs /\ Len(s.dlgs) = Len(js.dlgs)
    BY <2>1 DEF AcceptedBy
  <2>3. now \in Transactions /\ now.n = tr.n
    BY <2>1 DEF AcceptedBy
  <2>4. js.dlgs \in Seq(Dialogs) /\ s.dlgs \in Seq(Dialogs)
    BY Parts DEF Subscriptions
  <2>5. now.jd \in DOMAIN s.dlgs /\ now.jd <= Len(s.dlgs) /\ Len(js.dlgs) <= Len(s.dlgs)
    BY <2>2, <2>4
  <2>6. \A d \in DOMAIN s.dlgs : \/ d \in DOMAIN js.dlgs /\ s.dlgs[d].outs = js.dlgs[d].outs
                                 \/ s.dlgs[d].outs = <<>>
    BY <2>2, <2>4
  <2>7. Kept(s)
    BY <2>2, <2>5, <2>6, KeptLike
  <2> QED
    BY <2>2, <2>3, <2>5, <2>7, KeptTakes
<1>2. CASE m.code \notin {"1xx", "2xx"}
  <2> DEFINE now == Now(tr, m)
  <2>1. RefusedBy(m, tr, now)
    BY <1>2
  <2> HIDE DEF now
  <2>2. PICK s \in Subscriptions :
          /\ Takes(js', s, now) /\ s.out = js.out /\ Len(s.dlgs) = Len(js.dlgs)
          /\ \A d \in DOMAIN js.dlgs : s.dlgs[d].outs = js.dlgs[d].outs
    BY <2>1 DEF RefusedBy
  <2>3. now \in Transactions /\ now.n = tr.n /\ now.jd = tr.jd
    BY <2>1 DEF RefusedBy
  <2>4. js.dlgs \in Seq(Dialogs) /\ s.dlgs \in Seq(Dialogs)
    BY Parts DEF Subscriptions
  <2>5. DOMAIN s.dlgs = DOMAIN js.dlgs /\ Len(js.dlgs) <= Len(s.dlgs) /\ now.jd <= Len(s.dlgs)
    BY <1>0, <2>2, <2>3, <2>4
  <2>6. Kept(s)
    BY <2>2, <2>5, KeptLike
  <2>7. s.out.n # now.n => now.jd \in DOMAIN s.dlgs
    BY <1>0, <2>2, <2>3, <2>5
  <2> QED
    BY <2>2, <2>3, <2>5, <2>6, <2>7, KeptTakes
<1> QED
  BY <1>1, <1>2

LEMMA KeptFreed == Kept(Freed)
<1> DEFINE e == <<>>
<1>1. DOMAIN e = {} /\ Len(e) = 0
  OBVIOUS
<1> HIDE DEF e
<1>2. Freed.dlgs = e /\ Freed.out.jd = 0
  BY FreedTyped DEF e
<1> QED
  BY <1>1, <1>2 DEF Kept

-----------------------------------------------------------------------------
(* Type correctness *)

LEMMA TagTyped ==
  ASSUME TypeOK, NEW d \in DOMAIN js.dlgs
  PROVE  js.dlgs[d].tag \in Nat /\ js.dlgs[d].cseq \in Nat /\ js.dlgs[d].outs \in Seq(Transactions)
  BY Parts DEF Dialogs

LEMMA MessageTyped ==
  ASSUME TypeOK, NEW m \in net
  PROVE  /\ m \in Messages /\ m.kind \in Kinds /\ m.n \in Nat /\ m.tag \in Nat /\ m.ask \in Nat
         /\ m.code \in Codes /\ m.value \in Nat
  BY DEF TypeOK, Messages

LEMMA RefreshTyped ==
  ASSUME TypeOK, NEW d \in DOMAIN js.dlgs, NEW e \in Nat, SendRefresh(d, e), UNCHANGED <<jn, stranded, trouble>>
  PROVE  TypeOK'
<1>1. PICK tr : /\ New(tr, d) /\ Adds(d, tr)
                /\ js'.out = js.out /\ js' \in Subscriptions
                /\ net' = net \cup {Subscribe(tr, js.dlgs[d].tag)}
                /\ replaced' = replaced
                /\ RefreshSeen(e)
  BY SendRefreshEffect
<1>2. tr \in Transactions /\ tr.jd = d
  BY <1>1 DEF New
<1>3. Kept(js')
  BY <1>1, <1>2, KeptAdds
<1>4. net' \subseteq Messages
  BY <1>1, <1>2, TagTyped, SubscribeTyped DEF TypeOK
<1>5. seen' \in History
  BY <1>1 DEF RefreshSeen
<1> QED
  BY <1>1, <1>3, <1>4, <1>5 DEF TypeOK

LEMMA CountTyped ==
  ASSUME TypeOK, seen' = [seen EXCEPT !.subscribes = @ + 1]
  PROVE  seen' \in History
<1> DEFINE n == seen.subscribes + 1
<1>1. n \in Nat
  BY DEF TypeOK, History
<1>2. seen' = [seen EXCEPT !.subscribes = n]
  OBVIOUS
<1> HIDE DEF n
<1> QED
  BY <1>1, <1>2 DEF TypeOK, History

LEMMA RetryFirstTyped ==
  ASSUME TypeOK, SendWithCredential(0), UNCHANGED <<jn, stranded, trouble>>
  PROVE  TypeOK'
<1>1. PICK tr : /\ New(tr, 0) /\ js'.out = tr /\ js'.dlgs = js.dlgs
                /\ js' \in Subscriptions
                /\ net' = net \cup {Subscribe(tr, 0)}
                /\ replaced' = replaced \cup {js.out}
                /\ seen' = [seen EXCEPT !.subscribes = @ + 1]
  BY RetryFirstEffect
<1>2. tr \in Transactions /\ tr.jd = 0 /\ js.dlgs \in Seq(Dialogs) /\ js.out \in Transactions
  BY <1>1, Parts DEF New
<1>3. Kept(js')
  BY <1>1, <1>2 DEF TypeOK, Kept
<1>4. net' \subseteq Messages
  BY <1>1, <1>2, SubscribeTyped DEF TypeOK
<1>5. seen' \in History
  BY <1>1, CountTyped
<1> QED
  BY <1>1, <1>2, <1>3, <1>4, <1>5 DEF TypeOK

LEMMA RetryInTyped ==
  ASSUME TypeOK, NEW d \in DOMAIN js.dlgs, SendWithCredential(d), UNCHANGED <<jn, stranded, trouble>>
  PROVE  TypeOK'
<1>1. PICK tr : /\ New(tr, d) /\ js' \in Subscriptions
                /\ net' = net \cup {Subscribe(tr, js.dlgs[d].tag)}
                /\ seen' = [seen EXCEPT !.subscribes = @ + 1]
                /\ IF js.dlgs[d].outs = <<>>
                   THEN /\ js'.out = tr /\ replaced' = replaced \cup {js.out}
                        /\ \E x \in Dialogs : Dialog2(d, x) /\ x.outs = <<>>
                   ELSE js'.out = js.out /\ replaced' = replaced /\ Adds(d, tr)
  BY RetryInEffect
<1>2. tr \in Transactions /\ tr.jd = d /\ js.dlgs \in Seq(Dialogs) /\ js.out \in Transactions
  BY <1>1, Parts DEF New
<1>3. Kept(js') /\ replaced' \subseteq Transactions
  <2>1. CASE js.dlgs[d].outs = <<>>
    <3>1. PICK x \in Dialogs : Dialog2(d, x) /\ x.outs = <<>>
      BY <1>1, <2>1
    <3> DEFINE e == <<>>
    <3>2. DOMAIN e = {}
      OBVIOUS
    <3>3. \A i \in DOMAIN x.outs : x.outs[i].jd = d
      BY <3>1, <3>2
    <3>4. js'.out.jd <= Len(js.dlgs)
      BY <1>1, <1>2, <2>1
    <3> QED
      BY <1>1, <1>2, <2>1, <3>1, <3>3, <3>4, KeptDialog DEF TypeOK
  <2>2. CASE js.dlgs[d].outs # <<>>
    BY <1>1, <1>2, <2>2, KeptAdds DEF TypeOK
  <2> QED
    BY <2>1, <2>2
<1>4. net' \subseteq Messages
  BY <1>1, <1>2, TagTyped, SubscribeTyped DEF TypeOK
<1>5. seen' \in History
  BY <1>1, CountTyped
<1> QED
  BY <1>1, <1>3, <1>4, <1>5 DEF TypeOK

LEMMA FreedKeepsType ==
  ASSUME TypeOK, js' = Freed, jn' \in Notifiers, stranded' \in Nat, net' \subseteq Messages,
         replaced' \subseteq Transactions, trouble' \in Nat, seen' \in History
  PROVE  TypeOK'
  BY FreedTyped, KeptFreed DEF TypeOK

LEMMA AnswerKeepsType ==
  ASSUME TypeOK, RcvAnswer
  PROVE  TypeOK'
<1>1. PICK m \in net, tr \in TransactionsOf(js) :
         /\ js' \in Subscriptions
         /\ IF m.code \in {"1xx", "2xx"} THEN \E now : AcceptedBy(m, tr, now)
            ELSE RefusedBy(m, tr, Now(tr, m))
         /\ net' = net \ {m}
         /\ seen' = IF m.code = "2xx" THEN [seen EXCEPT !.confirmed = TRUE] ELSE seen
         /\ UNCHANGED <<replaced, jn, stranded, trouble>>
  BY RcvAnswerEffect
<1>2. Kept(js')
  BY <1>1, KeptAnswer
<1>3. seen' \in History
  BY <1>1 DEF TypeOK, History
<1> QED
  BY <1>1, <1>2, <1>3 DEF TypeOK

\* One message is answered.
LEMMA AnsweredTyped ==
  ASSUME TypeOK, NEW m \in net, NEW code \in Codes, net' = (net \ {m}) \cup {Answer(m, code, m.tag, 0)}
  PROVE  net' \subseteq Messages
<1>1. m \in Messages /\ m.tag \in Nat
  BY MessageTyped
<1>2. Answer(m, code, m.tag, 0) \in Messages
  BY <1>1, AnswerTyped
<1> QED
  BY <1>2 DEF TypeOK

LEMMA NotifyKeepsType ==
  ASSUME TypeOK, RcvNotify
  PROVE  TypeOK'
<1>1. PICK m \in net :
           /\ IF ~js.live THEN net' = net \ {m} /\ js' = js
              ELSE NotifiedBy(m) /\ net' = (net \ {m}) \cup {Answer(m, "2xx", m.tag, 0)}
           /\ UNCHANGED <<replaced, jn, stranded, trouble, seen>>
  BY RcvNotifyEffect
<1>2. net' \subseteq Messages
  <2>1. "2xx" \in Codes
    BY DEF Codes
  <2>2. CASE ~js.live
    BY <1>1, <2>2 DEF TypeOK
  <2>3. CASE js.live
    BY <1>1, <2>1, <2>3, AnsweredTyped
  <2> QED
    BY <2>2, <2>3
<1>3. js' \in Subscriptions /\ Kept(js')
  <2>1. CASE ~js.live
    BY <1>1, <2>1 DEF TypeOK
  <2>2. CASE js.live /\ js' = Freed
    BY <2>2, FreedTyped, KeptFreed
  <2>3. CASE /\ js.live /\ js' \in Subscriptions /\ js'.out = js.out /\ js'.dlgs = js.dlgs
    BY <2>3 DEF TypeOK, Kept
  <2>4. CASE /\ js.live /\ js' \in Subscriptions /\ js'.out = js.out
             /\ \E x \in Dialogs : js'.dlgs = Append(js.dlgs, x) /\ x.outs = <<>>
    <3>1. PICK x \in Dialogs : js'.dlgs = Append(js.dlgs, x) /\ x.outs = <<>>
      BY <2>4
    <3>2. js.dlgs \in Seq(Dialogs)
      BY Parts
    <3>3. /\ Len(js'.dlgs) = Len(js.dlgs) + 1
          /\ \A d \in DOMAIN js'.dlgs : \/ d \in DOMAIN js.dlgs /\ js'.dlgs[d] = js.dlgs[d]
                                        \/ js'.dlgs[d] = x
      BY <3>1, <3>2
    <3>4. Len(js.dlgs) <= Len(js'.dlgs)
      BY <3>2, <3>3
    <3> DEFINE s == js'
    <3>5. /\ s \in Subscriptions /\ s.out = js.out /\ Len(js.dlgs) <= Len(s.dlgs)
          /\ \A d \in DOMAIN s.dlgs : \/ d \in DOMAIN js.dlgs /\ s.dlgs[d].outs = js.dlgs[d].outs
                                      \/ s.dlgs[d].outs = <<>>
      BY <2>4, <3>1, <3>3, <3>4
    <3> HIDE DEF s
    <3>6. Kept(s)
      BY <3>5, KeptLike
    <3> QED
      BY <2>4, <3>6 DEF s
  <2> QED
    BY <1>1, <2>1, <2>2, <2>3, <2>4 DEF NotifiedBy
<1> QED
  BY <1>1, <1>2, <1>3 DEF TypeOK

LEMMA KillKeepsType ==
  ASSUME TypeOK, KillSubscribe
  PROVE  TypeOK'
<1>1. PICK tr \in TransactionsOf(js) :
           /\ \/ js' = Freed
              \/ /\ \E now : Over2(tr, now) /\ Takes(js', js, now)
                 /\ js' \in Subscriptions
           /\ UNCHANGED <<replaced, jn, stranded, net, trouble, seen>>
  BY KillSubscribeEffect
<1>2. CASE js' = Freed
  BY <1>1, <1>2, FreedKeepsType DEF TypeOK
<1>3. CASE (\E now : Over2(tr, now) /\ Takes(js', js, now)) /\ js' \in Subscriptions
  <2>1. PICK now : Over2(tr, now) /\ Takes(js', js, now)
    BY <1>3
  <2>2. /\ tr \in Transactions /\ tr.jd <= Len(js.dlgs)
        /\ \/ tr = js.out
           \/ tr.jd \in DOMAIN js.dlgs /\ \E i \in DOMAIN js.dlgs[tr.jd].outs : js.dlgs[tr.jd].outs[i] = tr
    BY TransactionsAre
  <2>3. now \in Transactions /\ now.n = tr.n /\ now.jd = tr.jd
    BY <2>1 DEF Over2
  <2>4. js.out.n # now.n => now.jd \in DOMAIN js.dlgs
    BY <2>2, <2>3
  <2>5. Kept(js')
    BY <1>3, <2>1, <2>2, <2>3, <2>4, KeptTakes DEF TypeOK
  <2> QED
    BY <1>1, <1>3, <2>5 DEF TypeOK
<1> QED
  BY <1>1, <1>2, <1>3

LEMMA ReplacedKeepsType ==
  ASSUME TypeOK, KillReplaced
  PROVE  TypeOK'
<1>1. PICK tr \in replaced :
          /\ replaced' = replaced \ {tr}
          /\ js' = IF KillFrees(tr) THEN Freed ELSE js
          /\ seen' = [seen EXCEPT !.stale = @ \/ (KillFrees(tr) /\ ~js.live)]
  BY DEF KillReplaced
<1>2. UNCHANGED <<jn, stranded, net, trouble>>
  BY DEF KillReplaced
<1>3. seen' \in History
  <2> DEFINE b == seen.stale \/ (KillFrees(tr) /\ ~js.live)
  <2>1. b \in BOOLEAN
    BY DEF TypeOK, History
  <2>2. seen' = [seen EXCEPT !.stale = b]
    BY <1>1
  <2> HIDE DEF b
  <2> QED
    BY <2>1, <2>2 DEF TypeOK, History
<1>4. js' \in Subscriptions /\ Kept(js')
  <2>1. js' = Freed \/ js' = js
    BY <1>1
  <2> QED
    BY <2>1, FreedTyped, KeptFreed DEF TypeOK
<1> QED
  BY <1>1, <1>2, <1>3, <1>4 DEF TypeOK

\* Dialogs that keep their places, with transactions of the same dialog.
LEMMA MappedKept ==
  ASSUME TypeOK, js' \in Subscriptions, NEW new, DialogsMapped(js'.dlgs, new),
         js'.out.jd = js.out.jd,
         \A d \in DOMAIN js.dlgs : \A i \in DOMAIN new[d] : new[d][i].jd = d
  PROVE  Kept(js')
<1>1. /\ js'.dlgs \in Seq(Dialogs) /\ Len(js'.dlgs) = Len(js.dlgs)
      /\ \A d \in DOMAIN js.dlgs : js'.dlgs[d].outs = new[d]
  BY DEF DialogsMapped
<1>2. DOMAIN js'.dlgs = DOMAIN js.dlgs
  BY <1>1, Parts
<1>3. js.out.jd <= Len(js.dlgs)
  BY DEF TypeOK, Kept
<1> QED
  BY <1>1, <1>2, <1>3 DEF Kept

LEMMA ReleaseKeepsType ==
  ASSUME TypeOK, ReleaseSubscription
  PROVE  TypeOK'
<1>1. /\ \/ js' = Freed
         \/ /\ js'.out = js.out /\ js' \in Subscriptions
            /\ \E new : /\ DialogsMapped(js'.dlgs, new)
                        /\ \A d \in DOMAIN js.dlgs : Fewer(new[d], js.dlgs[d].outs)
      /\ UNCHANGED <<replaced, jn, stranded, net, trouble, seen>>
  BY ReleaseEffect
<1>2. CASE js' = Freed
  BY <1>1, <1>2, FreedKeepsType DEF TypeOK
<1>3. CASE /\ js'.out = js.out /\ js' \in Subscriptions
           /\ \E new : /\ DialogsMapped(js'.dlgs, new)
                       /\ \A d \in DOMAIN js.dlgs : Fewer(new[d], js.dlgs[d].outs)
  <2>1. PICK new : /\ DialogsMapped(js'.dlgs, new)
                   /\ \A d \in DOMAIN js.dlgs : Fewer(new[d], js.dlgs[d].outs)
    BY <1>3
  <2>2. \A d \in DOMAIN js.dlgs : \A i \in DOMAIN js.dlgs[d].outs : js.dlgs[d].outs[i].jd = d
    BY DEF TypeOK, Kept
  <2>3. \A d \in DOMAIN js.dlgs : \A i \in DOMAIN new[d] : new[d][i].jd = d
    BY <2>1, <2>2 DEF Fewer
  <2>4. Kept(js')
    BY <1>3, <2>1, <2>3, MappedKept
  <2> QED
    BY <1>1, <1>3, <2>4 DEF TypeOK
<1> QED
  BY <1>1, <1>2, <1>3

LEMMA TickKeepsType ==
  ASSUME TypeOK, TickTime
  PROVE  TypeOK'
<1>1. /\ IF js.live
         THEN /\ js' \in Subscriptions /\ Grown(js'.out, js.out)
              /\ \E new : /\ DialogsMapped(js'.dlgs, new)
                          /\ \A d \in DOMAIN js.dlgs :
                               /\ DOMAIN new[d] = DOMAIN js.dlgs[d].outs
                               /\ \A i \in DOMAIN js.dlgs[d].outs : Grown(new[d][i], js.dlgs[d].outs[i])
         ELSE js' = js
      /\ IF jn.live THEN jn' \in Notifiers ELSE jn' = jn
      /\ UNCHANGED <<replaced, stranded, net, trouble, seen>>
  BY TickEffect
<1>2. js' \in Subscriptions /\ Kept(js')
  <2>1. CASE ~js.live
    BY <1>1, <2>1 DEF TypeOK
  <2>2. CASE js.live
    <3>1. PICK new : /\ DialogsMapped(js'.dlgs, new)
                     /\ \A d \in DOMAIN js.dlgs :
                          /\ DOMAIN new[d] = DOMAIN js.dlgs[d].outs
                          /\ \A i \in DOMAIN js.dlgs[d].outs : Grown(new[d][i], js.dlgs[d].outs[i])
      BY <1>1, <2>2
    <3>2. \A d \in DOMAIN js.dlgs : \A i \in DOMAIN js.dlgs[d].outs : js.dlgs[d].outs[i].jd = d
      BY DEF TypeOK, Kept
    <3>3. \A d \in DOMAIN js.dlgs : \A i \in DOMAIN new[d] : new[d][i].jd = d
      BY <3>1, <3>2 DEF Grown
    <3>4. js' \in Subscriptions /\ js'.out.jd = js.out.jd
      BY <1>1, <2>2 DEF Grown
    <3> QED
      BY <3>1, <3>3, <3>4, MappedKept
  <2> QED
    BY <2>1, <2>2
<1> QED
  BY <1>1, <1>2 DEF TypeOK

LEMMA SubscribeKeepsType ==
  ASSUME TypeOK, RcvSubscribe
  PROVE  TypeOK'
<1>1. PICK m \in net : NewSubscribe(m) \/ UnknownSubscribe(m) \/ SubscribeWithin(m)
  BY DEF RcvSubscribe
<1>2. UNCHANGED <<js, replaced, trouble, seen>>
  BY DEF RcvSubscribe
<1>3. "4xx" \in Codes
  BY DEF Codes
<1>4. jn' \in Notifiers /\ stranded' \in Nat /\ net' \subseteq Messages
  <2>1. CASE NewSubscribe(m)
    BY <2>1, NewSubscribeEffect DEF TypeOK
  <2>2. CASE UnknownSubscribe(m)
    BY <1>3, <2>2, UnknownSubscribeEffect, AnsweredTyped DEF TypeOK
  <2>3. CASE SubscribeWithin(m)
    <3>1. CASE jn.inc.st = "open"
      BY <1>3, <2>3, <3>1, SubscribeWithinEffect, AnsweredTyped DEF TypeOK
    <3>2. CASE jn.inc.st # "open"
      BY <2>3, <3>2, SubscribeWithinEffect DEF TypeOK
    <3> QED
      BY <3>1, <3>2
  <2> QED
    BY <1>1, <2>1, <2>2, <2>3
<1> QED
  BY <1>2, <1>4 DEF TypeOK

LEMMA SendAnswerKeepsType ==
  ASSUME TypeOK, eXosip_insubscription_send_answer
  PROVE  TypeOK'
<1>1. PICK code \in Codes : \E a :
              /\ AnswersWith(code, a)
              /\ \/ Accepts /\ trouble' = trouble
                 \/ Refuses /\ trouble' = trouble
                 \/ jn' = jn /\ trouble' = trouble + 1
                 \/ Refuses /\ trouble' = trouble + 1
  BY SendAnswerEffect
<1>2. UNCHANGED <<js, replaced, stranded, seen>>
  BY SendAnswerEffect
<1>3. net' \subseteq Messages
  BY <1>1 DEF AnswersWith, TypeOK
<1>4. jn' \in Notifiers /\ trouble' \in Nat
  BY <1>1 DEF Accepts, Refuses, TypeOK
<1> QED
  BY <1>2, <1>3, <1>4 DEF TypeOK

LEMMA NotifiesTyped ==
  ASSUME TypeOK, NEW tr, Notifies(tr)
  PROVE  net' \subseteq Messages /\ jn' \in Notifiers
<1>1. tr \in Transactions /\ jn.tag \in Nat /\ net' = net \cup {Notify(tr, jn.tag)} /\ jn' \in Notifiers
  BY Parts DEF Notifies, KeepsNotifier
<1>2. Notify(tr, jn.tag) \in Messages
  BY <1>1, NotifyTyped
<1> QED
  BY <1>1, <1>2 DEF TypeOK

LEMMA SendNotifyKeepsType ==
  ASSUME TypeOK, NEW state \in Nat, SendNotify(state)
  PROVE  TypeOK'
<1>1. PICK tr : Notifies(tr)
  BY SendNotifyEffect
<1>2. /\ seen' = IF state = TERMINATED THEN [seen EXCEPT !.closing = TRUE] ELSE seen
      /\ UNCHANGED <<js, replaced, stranded, trouble>>
  BY SendNotifyEffect
<1>3. seen' \in History
  BY <1>2 DEF TypeOK, History
<1> QED
  BY <1>1, <1>2, <1>3, NotifiesTyped DEF TypeOK

LEMMA ClosedTyped ==
  ASSUME TypeOK, NEW why \in {"none", "answered", "killed", "unreachable"},
         seen' = [seen EXCEPT !.closed = why]
  PROVE  seen' \in History
  BY DEF TypeOK, History

LEMMA NotifyAnswerKeepsType ==
  ASSUME TypeOK, RcvNotifyAnswer
  PROVE  TypeOK'
<1>1. PICK m \in net :
               /\ net' = net \ {m}
               /\ \/ DropsNotifier /\ seen' = [seen EXCEPT !.closed = "answered"]
                  \/ KeepsNotifier /\ seen' = seen
  BY RcvNotifyAnswerEffect
<1>2. UNCHANGED <<js, replaced, stranded, trouble>>
  BY RcvNotifyAnswerEffect
<1>3. jn' \in Notifiers /\ seen' \in History
  BY <1>1, ClosedTyped DEF DropsNotifier, KeepsNotifier, TypeOK
<1> QED
  BY <1>1, <1>2, <1>3 DEF TypeOK

LEMMA KillNotifyKeepsType ==
  ASSUME TypeOK, KillNotify
  PROVE  TypeOK'
<1>1. /\ \/ DropsNotifier /\ seen' = [seen EXCEPT !.closed = "killed"]
         \/ KeepsNotifier /\ seen' = seen
      /\ UNCHANGED <<js, replaced, stranded, net, trouble>>
  BY KillNotifyEffect
<1>2. jn' \in Notifiers /\ seen' \in History
  BY <1>1, ClosedTyped DEF DropsNotifier, KeepsNotifier, TypeOK
<1> QED
  BY <1>1, <1>2 DEF TypeOK

LEMMA AutomaticNotifyKeepsType ==
  ASSUME TypeOK, eXosip_automatic_notify
  PROVE  TypeOK'
<1>1. PICK tr : Notifies(tr)
  BY AutomaticNotifyEffect
<1>2. UNCHANGED <<js, replaced, stranded, trouble, seen>>
  BY AutomaticNotifyEffect
<1> QED
  BY <1>1, <1>2, NotifiesTyped DEF TypeOK

LEMMA ProxyKeepsType ==
  ASSUME TypeOK, ProxyAnswers
  PROVE  TypeOK'
<1>1. PICK m \in net, code \in {"401", "4xx"} : net' = (net \ {m}) \cup {Answer(m, code, m.tag, 0)}
  BY ProxyEffect
<1>2. trouble' = trouble + 1 /\ UNCHANGED <<js, replaced, jn, stranded, seen>>
  BY ProxyEffect
<1>3. code \in Codes
  BY DEF Codes
<1>4. net' \subseteq Messages
  BY <1>1, <1>3, AnsweredTyped
<1> QED
  BY <1>2, <1>4 DEF TypeOK

LEMMA TransportKeepsType ==
  ASSUME TypeOK, TransportError
  PROVE  TypeOK'
<1>1. UNCHANGED <<replaced, stranded, net>> /\ trouble' = trouble + 1
  BY DEF TransportError
<1>2. CASE js' = Freed /\ UNCHANGED <<jn, seen>>
  BY <1>1, <1>2, FreedKeepsType DEF TypeOK
<1>3. CASE Closed("unreachable") /\ UNCHANGED js
  <2>1. DropsNotifier /\ seen' = [seen EXCEPT !.closed = "unreachable"]
    BY <1>3, ClosedEffect
  <2>2. jn' \in Notifiers /\ seen' \in History
    BY <2>1, ClosedTyped DEF DropsNotifier
  <2> QED
    BY <1>1, <1>3, <2>2 DEF TypeOK
<1> QED
  BY <1>2, <1>3 DEF TransportError

LEMMA InitTyped ==
  ASSUME Init
  PROVE  TypeOK
<1>1. PICK e \in Asks :
        LET tr == Transaction(1, e, FALSE, 0)
        IN /\ js = [live |-> TRUE, period |-> RefreshInterval(3600, e), retry |-> 0,
                    status |-> UNKNOWN, dlgs |-> <<>>, out |-> tr]
           /\ net = {Subscribe(tr, 0)}
           /\ jn = NoNotify
           /\ replaced = {}
           /\ stranded = 0 /\ trouble = 0
           /\ seen = [subscribes |-> 1, confirmed |-> FALSE, wants |-> TRUE, closing |-> FALSE,
                      closed |-> "none", stale |-> FALSE, short |-> FALSE]
  BY DEF Init
<1> DEFINE tr == Transaction(1, e, FALSE, 0)
           period == RefreshInterval(3600, e)
           none == <<>>
<1>2. e \in Nat
  OBVIOUS
<1>3. tr \in Transactions /\ tr.jd = 0
  BY <1>2 DEF Transaction, Transactions, Codes
<1>4. period \in Nat
  BY <1>2, RefreshIntervalTyped
<1>5. none \in Seq(Dialogs) /\ DOMAIN none = {} /\ Len(none) = 0
  OBVIOUS
<1>6. js = [live |-> TRUE, period |-> period, retry |-> 0, status |-> 0, dlgs |-> none, out |-> tr]
  BY <1>1 DEF UNKNOWN
<1> HIDE DEF tr, period, none
<1>7. js \in Subscriptions
  BY <1>3, <1>4, <1>5, <1>6, SubscriptionTyped
<1>8. Kept(js)
  BY <1>3, <1>5, <1>6 DEF Kept
<1>9. net \subseteq Messages
  <2>1. Subscribe(tr, 0) \in Messages
    BY <1>3, SubscribeTyped
  <2> QED
    BY <1>1, <2>1 DEF tr
<1>10. jn \in Notifiers
  <2> DEFINE outs == <<>>
             inc == [n |-> 0, ask |-> 0, st |-> "answered"]
  <2>1. outs \in Seq(Transactions) /\ inc \in [n : Nat, ask : Nat, st : {"open", "answered"}]
    OBVIOUS
  <2>2. jn = [live |-> FALSE, tag |-> 0, left |-> 0, status |-> 0, state |-> "deleted",
              cseq |-> 0, retry |-> 0, inc |-> inc, outs |-> outs]
    BY <1>1 DEF NoNotify, UNKNOWN
  <2> HIDE DEF outs, inc
  <2> QED
    BY <2>1, <2>2 DEF Notifiers, DialogStates
<1>11. seen \in History
  BY <1>1 DEF History
<1> QED
  BY <1>1, <1>7, <1>8, <1>9, <1>10, <1>11 DEF TypeOK

\* The type is kept by every step.
LEMMA StepTyped ==
  ASSUME TypeOK, [Next]_vars
  PROVE  TypeOK'
<1>1. CASE eXosip_subscribe_send_refresh_request
  BY <1>1, RefreshTyped DEF eXosip_subscribe_send_refresh_request
<1>2. CASE eXosip_subscribe_remove
  BY <1>2, FreedKeepsType DEF eXosip_subscribe_remove, TypeOK
<1>3. CASE eXosip_automatic_action
  <2>1. UNCHANGED <<jn, stranded, trouble>>
    BY <1>3 DEF eXosip_automatic_action
  <2>2. CASE SendWithCredential(0)
    BY <2>1, <2>2, RetryFirstTyped
  <2>3. ASSUME NEW d \in DOMAIN js.dlgs, SendWithCredential(d) PROVE TypeOK'
    BY <2>1, <2>3, RetryInTyped
  <2>4. ASSUME NEW d \in DOMAIN js.dlgs, AutomaticRefresh(d) PROVE TypeOK'
    <3>1. LastOut(js, d).ask \in Nat
      BY LastOutTyped DEF Transactions
    <3> QED
      BY <2>1, <2>4, <3>1, RefreshTyped DEF AutomaticRefresh
  <2> QED
    BY <1>3, <2>2, <2>3, <2>4 DEF eXosip_automatic_action
<1>4. CASE RcvLateAnswer
  BY <1>4 DEF RcvLateAnswer, TypeOK
<1>5. CASE Outage
  <2>1. trouble' \in Nat /\ net' \subseteq Messages
    BY <1>5 DEF Outage, TypeOK
  <2> QED
    BY <1>5, <2>1 DEF Outage, TypeOK
<1>6. CASE eXosip_insubscription_remove
  BY <1>6, RemoveEffect DEF DropsNotifier, TypeOK
<1>7. CASE SendState \/ SendEnd
  <2>1. ACTIVE \in Nat /\ TERMINATED \in Nat
    BY DEF ACTIVE, TERMINATED
  <2> QED
    BY <1>7, <2>1, SendNotifyKeepsType DEF SendState, SendEnd
<1>8. CASE UNCHANGED vars
  BY <1>8 DEF vars, TypeOK, Kept
<1> QED
  BY <1>1, <1>2, <1>3, <1>4, <1>5, <1>6, <1>7, <1>8, AnswerKeepsType, NotifyKeepsType, KillKeepsType,
     ReplacedKeepsType, ReleaseKeepsType, SubscribeKeepsType, NotifyAnswerKeepsType,
     KillNotifyKeepsType, SendAnswerKeepsType, AutomaticNotifyKeepsType, ProxyKeepsType,
     TransportKeepsType, TickKeepsType
  DEF Next, SubscriberThread, NotifierThread

\* No field of a subscription leaves its type, and every transaction names the dialog it is
\* kept in, for all periods, ticks and bounds.
THEOREM SubTypes == Spec => []TypeOK
<1>1. Init => TypeOK
  BY InitTyped
<1>2. TypeOK /\ [Next]_vars => TypeOK'
  BY StepTyped
<1> QED
  BY <1>1, <1>2, PTL DEF Spec

-----------------------------------------------------------------------------
(* A request that was replaced by one with credentials *)

\* The kill callback of tr leaves the subscription alone.
Harmless(tr) == tr.resp \in {"401", "423"} /\ (tr.resp = "423" => tr.ask # 0)

\* As long as there is no dialog the first request asks for something, and so it does when
\* a 423 has it sent again.
FirstAsks(s) == s.live /\ s.dlgs = <<>> => /\ s.out.ask # 0
                                           /\ s.out.resp = "423" => MinExpires # 0

Says423(n) == \A m \in n : m.code = "423" => MinExpires # 0

Stale == /\ \A tr \in replaced : Harmless(tr)
         /\ FirstAsks(js)
         /\ Says423(net)
         /\ ~seen.stale

LEMMA AnswerSays ==
  ASSUME TypeOK, NEW m \in net, NEW code \in Codes
  PROVE  LET a == Answer(m, code, m.tag, 0)
         IN /\ a \in Messages /\ a.kind = IF m.kind = "NOTIFY" THEN "to NOTIFY" ELSE "to SUBSCRIBE"
            /\ a.n = m.n /\ a.tag = m.tag /\ a.ask = m.ask /\ a.code = code
<1>1. m \in Messages /\ m.tag \in Nat
  BY MessageTyped
<1> QED
  BY <1>1 DEF Answer, Messages, Kinds

LEMMA FreedAsks == FirstAsks(Freed)
  BY FreedTyped DEF FirstAsks

LEMMA NonEmpty ==
  ASSUME NEW s \in Seq(Dialogs), s # <<>>, NEW t \in Seq(Dialogs), Len(s) <= Len(t)
  PROVE  t # <<>>
  OBVIOUS

LEMMA DialogOfNone ==
  ASSUME TypeOK, NEW d \in DOMAIN js.dlgs
  PROVE  js.dlgs # <<>>
<1> DEFINE e == <<>>
<1>1. DOMAIN e = {}
  OBVIOUS
<1> QED
  BY <1>1

LEMMA AnswerStale ==
  ASSUME TypeOK, Stale, RcvAnswer
  PROVE  Stale'
<1>1. PICK m \in net, tr \in TransactionsOf(js) :
         /\ js'.live = js.live /\ js' \in Subscriptions
         /\ IF m.code \in {"1xx", "2xx"} THEN \E now : AcceptedBy(m, tr, now)
            ELSE RefusedBy(m, tr, Now(tr, m))
         /\ net' = net \ {m}
         /\ seen' = IF m.code = "2xx" THEN [seen EXCEPT !.confirmed = TRUE] ELSE seen
         /\ UNCHANGED <<replaced, jn, stranded, trouble>>
  BY RcvAnswerEffect
<1>0. /\ tr \in Transactions
      /\ \/ tr = js.out
         \/ tr.jd \in DOMAIN js.dlgs /\ \E i \in DOMAIN js.dlgs[tr.jd].outs : js.dlgs[tr.jd].outs[i] = tr
  BY TransactionsAre
<1>2. js.dlgs \in Seq(Dialogs) /\ js'.dlgs \in Seq(Dialogs)
  BY <1>1, Parts DEF Subscriptions
<1>3. FirstAsks(js')
  <2>1. CASE m.code \in {"1xx", "2xx"}
    <3>1. PICK now : AcceptedBy(m, tr, now)
      BY <1>1, <2>1
    <3>2. PICK s \in Subscriptions :
            /\ Takes(js', s, now)
            /\ \/ now.jd = Len(js.dlgs) + 1 /\ Len(s.dlgs) = now.jd
               \/ now.jd \in DOMAIN js.dlgs /\ Len(s.dlgs) = Len(js.dlgs)
      BY <3>1 DEF AcceptedBy
    <3>3. s.dlgs \in Seq(Dialogs)
      BY DEF Subscriptions
    <3>4. Len(js'.dlgs) = Len(s.dlgs)
      BY <3>2 DEF Takes
    <3>5. Len(s.dlgs) > 0
      BY <1>2, <3>2
    <3>6. js'.dlgs # <<>>
      BY <1>2, <3>4, <3>5
    <3> QED
      BY <3>6 DEF FirstAsks
  <2>2. CASE m.code \notin {"1xx", "2xx"}
    <3> DEFINE now == Now(tr, m)
    <3>1. RefusedBy(m, tr, now)
      BY <1>1, <2>2
    <3> HIDE DEF now
    <3>2. PICK s \in Subscriptions : Takes(js', s, now) /\ s.out = js.out /\ Len(s.dlgs) = Len(js.dlgs)
      BY <3>1 DEF RefusedBy
    <3>3. now.ask = tr.ask /\ now.resp = m.code /\ now.n = tr.n
      BY <3>1 DEF RefusedBy
    <3>4. SUFFICES ASSUME js'.live, js'.dlgs = <<>>
                   PROVE  js'.out.ask # 0 /\ (js'.out.resp = "423" => MinExpires # 0)
      BY DEF FirstAsks
    <3>5. s.dlgs \in Seq(Dialogs)
      BY DEF Subscriptions
    <3>6. Len(js'.dlgs) = Len(s.dlgs)
      BY <3>2 DEF Takes
    <3>7. js.dlgs = <<>>
      BY <1>2, <3>2, <3>4, <3>5, <3>6
    <3>8. tr = js.out
      BY <1>0, <3>7, DialogOfNone
    <3>9. js'.out = now
      BY <3>2, <3>3, <3>8 DEF Takes
    <3>10. m.code = "423" => MinExpires # 0
      BY DEF Stale, Says423
    <3>11. js.out.ask # 0
      BY <1>1, <3>4, <3>7 DEF Stale, FirstAsks
    <3> QED
      BY <3>3, <3>8, <3>9, <3>10, <3>11
  <2> QED
    BY <2>1, <2>2
<1>4. seen'.stale = seen.stale
  BY <1>1 DEF TypeOK, History
<1> QED
  BY <1>1, <1>3, <1>4 DEF Stale, Says423

LEMMA NotifyStale ==
  ASSUME TypeOK, Stale, RcvNotify
  PROVE  Stale'
<1>1. PICK m \in net :
           /\ m.kind = "NOTIFY"
           /\ IF ~js.live THEN net' = net \ {m} /\ js' = js
              ELSE NotifiedBy(m) /\ net' = (net \ {m}) \cup {Answer(m, "2xx", m.tag, 0)}
           /\ UNCHANGED <<replaced, jn, stranded, trouble, seen>>
  BY RcvNotifyEffect
<1>2. Says423(net')
  <2>1. Answer(m, "2xx", m.tag, 0).code = "2xx"
    <3>1. "2xx" \in Codes
      BY DEF Codes
    <3> QED
      BY <3>1, AnswerSays
  <2> QED
    BY <1>1, <2>1 DEF Stale, Says423
<1>3. FirstAsks(js')
  <2>1. CASE js' = js
    BY <2>1 DEF Stale
  <2>2. CASE js' = Freed
    BY <2>2, FreedAsks
  <2>3. CASE js.live /\ js' \in Subscriptions /\ js'.out = js.out /\ js'.dlgs = js.dlgs
    BY <2>3 DEF Stale, FirstAsks
  <2>4. CASE \E x \in Dialogs : js'.dlgs = Append(js.dlgs, x)
    <3>1. PICK x \in Dialogs : js'.dlgs = Append(js.dlgs, x)
      BY <2>4
    <3>2. js'.dlgs # <<>>
      <4>1. js.dlgs \in Seq(Dialogs)
        BY Parts
      <4> QED
        BY <3>1, <4>1
    <3> QED
      BY <3>2 DEF FirstAsks
  <2> QED
    BY <1>1, <2>1, <2>2, <2>3, <2>4, SMTT(30) DEF NotifiedBy
<1> QED
  BY <1>1, <1>2, <1>3 DEF Stale

LEMMA KillStale ==
  ASSUME TypeOK, Stale, KillSubscribe
  PROVE  Stale'
<1>1. PICK tr \in TransactionsOf(js) :
           /\ \/ js' = Freed
              \/ /\ \E now : Over2(tr, now) /\ Takes(js', js, now)
                 /\ js'.live = js.live /\ js' \in Subscriptions
           /\ UNCHANGED <<replaced, jn, stranded, net, trouble, seen>>
  BY KillSubscribeEffect
<1>2. FirstAsks(js')
  <2>1. CASE js' = Freed
    BY <2>1, FreedAsks
  <2>2. CASE (\E now : Over2(tr, now) /\ Takes(js', js, now)) /\ js'.live = js.live /\ js' \in Subscriptions
    <3>1. PICK now : Over2(tr, now) /\ Takes(js', js, now)
      BY <2>2
    <3>2. \/ tr = js.out
          \/ tr.jd \in DOMAIN js.dlgs /\ \E i \in DOMAIN js.dlgs[tr.jd].outs : js.dlgs[tr.jd].outs[i] = tr
      BY TransactionsAre
    <3>3. SUFFICES ASSUME js'.live, js'.dlgs = <<>>
                   PROVE  js'.out.ask # 0 /\ (js'.out.resp = "423" => MinExpires # 0)
      BY DEF FirstAsks
    <3>4. js.dlgs \in Seq(Dialogs) /\ js'.dlgs \in Seq(Dialogs) /\ Len(js'.dlgs) = Len(js.dlgs)
      BY <2>2, <3>1, Parts DEF Subscriptions, Takes
    <3>5. js.dlgs = <<>>
      BY <3>3, <3>4
    <3>6. tr = js.out
      BY <3>2, <3>5, DialogOfNone
    <3>7. js'.out = now /\ now.ask = js.out.ask /\ now.resp = js.out.resp
      BY <3>1, <3>6 DEF Takes, Over2
    <3> QED
      BY <2>2, <3>3, <3>5, <3>7 DEF Stale, FirstAsks
  <2> QED
    BY <1>1, <2>1, <2>2
<1> QED
  BY <1>1, <1>2 DEF Stale

LEMMA ReplacedStale ==
  ASSUME TypeOK, Stale, KillReplaced
  PROVE  Stale'
<1>1. PICK tr \in replaced :
          /\ replaced' = replaced \ {tr}
          /\ js' = IF KillFrees(tr) THEN Freed ELSE js
          /\ seen' = [seen EXCEPT !.stale = @ \/ (KillFrees(tr) /\ ~js.live)]
  BY DEF KillReplaced
<1>2. UNCHANGED <<jn, stranded, net, trouble>>
  BY DEF KillReplaced
<1>3. ~KillFrees(tr)
  BY DEF Stale, Harmless, KillFrees
<1>4. js' = js
  BY <1>1, <1>3
<1>5. ~seen'.stale
  BY <1>1, <1>3 DEF Stale, TypeOK, History
<1> QED
  BY <1>1, <1>2, <1>4, <1>5 DEF Stale

\* Dialogs that keep their places: there is one if there was one.
LEMMA MappedAsks ==
  ASSUME TypeOK, Stale, js' \in Subscriptions, js.live, NEW new, DialogsMapped(js'.dlgs, new),
         js'.out.ask = js.out.ask, js'.out.resp = js.out.resp
  PROVE  FirstAsks(js')
<1>1. js.dlgs \in Seq(Dialogs) /\ js'.dlgs \in Seq(Dialogs) /\ Len(js'.dlgs) = Len(js.dlgs)
  BY Parts DEF DialogsMapped
<1>2. js'.dlgs = <<>> => js.dlgs = <<>>
  BY <1>1
<1> QED
  BY <1>2 DEF Stale, FirstAsks

LEMMA ReleaseStale ==
  ASSUME TypeOK, Stale, ReleaseSubscription
  PROVE  Stale'
<1>1. /\ \/ js' = Freed
         \/ /\ js.live /\ js'.out = js.out /\ js' \in Subscriptions
            /\ \E new : DialogsMapped(js'.dlgs, new)
      /\ UNCHANGED <<replaced, jn, stranded, net, trouble, seen>>
  BY ReleaseEffect
<1>2. FirstAsks(js')
  BY <1>1, FreedAsks, MappedAsks
<1> QED
  BY <1>1, <1>2 DEF Stale

LEMMA TickStale ==
  ASSUME TypeOK, Stale, TickTime
  PROVE  Stale'
<1>1. /\ IF js.live
         THEN /\ js' \in Subscriptions /\ Grown(js'.out, js.out)
              /\ \E new : DialogsMapped(js'.dlgs, new)
         ELSE js' = js
      /\ UNCHANGED <<replaced, stranded, net, trouble, seen>>
  BY TickEffect
<1>2. FirstAsks(js')
  <2>1. CASE ~js.live
    BY <1>1, <2>1 DEF FirstAsks
  <2>2. CASE js.live
    BY <1>1, <2>2, MappedAsks DEF Grown
  <2> QED
    BY <2>1, <2>2
<1> QED
  BY <1>1, <1>2 DEF Stale

LEMMA RefreshStale ==
  ASSUME TypeOK, Stale, NEW d \in DOMAIN js.dlgs, NEW e \in Nat, SendRefresh(d, e)
  PROVE  Stale'
<1>1. PICK tr : /\ New(tr, d) /\ Adds(d, tr)
                /\ js' \in Subscriptions
                /\ net' = net \cup {Subscribe(tr, js.dlgs[d].tag)}
                /\ replaced' = replaced
                /\ RefreshSeen(e)
  BY SendRefreshEffect
<1>2. Subscribe(tr, js.dlgs[d].tag).code = "none"
  BY <1>1, TagTyped, SubscribeTyped DEF New
<1>3. FirstAsks(js')
  <2>1. js'.dlgs \in Seq(Dialogs) /\ Len(js'.dlgs) = Len(js.dlgs) /\ js.dlgs \in Seq(Dialogs)
    BY <1>1, Parts DEF Adds, Dialog2
  <2>2. js'.dlgs # <<>>
    BY <2>1, DialogOfNone
  <2> QED
    BY <2>2 DEF FirstAsks
<1> QED
  BY <1>1, <1>2, <1>3 DEF Stale, Says423, RefreshSeen

LEMMA RetryFirstStale ==
  ASSUME TypeOK, Stale, RetriesInitial, SendWithCredential(0)
  PROVE  Stale'
<1>1. PICK tr : /\ New(tr, 0) /\ tr.ask = AskAgain(js.out)
                /\ js'.out = tr /\ js'.dlgs = js.dlgs /\ js'.live = js.live
                /\ net' = net \cup {Subscribe(tr, 0)}
                /\ replaced' = replaced \cup {js.out}
                /\ seen' = [seen EXCEPT !.subscribes = @ + 1]
  BY RetryFirstEffect
<1>2. js.live /\ js.dlgs = <<>> /\ js.out.resp \in {"401", "423"}
  BY DEF RetriesInitial, Challenged
<1>3. js.out.ask # 0 /\ (js.out.resp = "423" => MinExpires # 0)
  BY <1>2 DEF Stale, FirstAsks
<1>4. Harmless(js.out)
  BY <1>2, <1>3 DEF Harmless
<1>5. Subscribe(tr, 0).code = "none"
  BY <1>1, SubscribeTyped DEF New
<1>6. FirstAsks(js')
  BY <1>1, <1>3 DEF FirstAsks, AskAgain, New
<1>7. seen'.stale = seen.stale
  BY <1>1 DEF TypeOK, History
<1> QED
  BY <1>1, <1>4, <1>5, <1>6, <1>7 DEF Stale, Says423

LEMMA RetryInStale ==
  ASSUME TypeOK, Stale, NEW d \in DOMAIN js.dlgs, RetriesIn(d), SendWithCredential(d)
  PROVE  Stale'
<1>1. PICK tr : /\ New(tr, d) /\ js' \in Subscriptions
                /\ net' = net \cup {Subscribe(tr, js.dlgs[d].tag)}
                /\ seen' = [seen EXCEPT !.subscribes = @ + 1]
                /\ IF js.dlgs[d].outs = <<>>
                   THEN /\ js'.out = tr /\ replaced' = replaced \cup {js.out}
                        /\ \E x \in Dialogs : Dialog2(d, x) /\ x.outs = <<>>
                   ELSE js'.out = js.out /\ replaced' = replaced /\ Adds(d, tr)
  BY RetryInEffect
<1>2. Subscribe(tr, js.dlgs[d].tag).code = "none"
  BY <1>1, TagTyped, SubscribeTyped DEF New
<1>3. FirstAsks(js')
  <2>1. js'.dlgs \in Seq(Dialogs) /\ Len(js'.dlgs) = Len(js.dlgs) /\ js.dlgs \in Seq(Dialogs)
    BY <1>1, Parts DEF Adds, Dialog2
  <2>2. js'.dlgs # <<>>
    BY <2>1, DialogOfNone
  <2> QED
    BY <2>2 DEF FirstAsks
<1>4. js.dlgs[d].outs = <<>> => Harmless(js.out)
  BY DEF RetriesIn, Challenged, LastOut, Harmless
<1>5. seen'.stale = seen.stale
  BY <1>1 DEF TypeOK, History
<1> QED
  BY <1>1, <1>2, <1>3, <1>4, <1>5 DEF Stale, Says423

\* The other steps send no 423, but for the one that has a reason to, and leave the
\* subscription alone or free it.
LEMMA OthersStale ==
  ASSUME TypeOK, Stale, js' = js \/ js' = Freed, replaced' = replaced, seen'.stale = seen.stale,
         Says423(net')
  PROVE  Stale'
  BY FreedAsks DEF Stale

LEMMA Answered423 ==
  ASSUME TypeOK, Stale, NEW m \in net, NEW code \in Codes, code # "423",
         net' = (net \ {m}) \cup {Answer(m, code, m.tag, 0)}
  PROVE  Says423(net')
<1>1. Answer(m, code, m.tag, 0).code = code
  BY AnswerSays
<1> QED
  BY <1>1 DEF Stale, Says423

LEMMA Notifies423 ==
  ASSUME TypeOK, Stale, NEW tr, Notifies(tr)
  PROVE  Says423(net')
<1>1. Notify(tr, jn.tag).code = "none"
  BY Parts, NotifyTyped DEF Notifies
<1> QED
  BY <1>1 DEF Stale, Says423, Notifies

LEMMA SubscribeStale ==
  ASSUME TypeOK, Stale, RcvSubscribe
  PROVE  Stale'
<1>1. PICK m \in net : NewSubscribe(m) \/ UnknownSubscribe(m) \/ SubscribeWithin(m)
  BY DEF RcvSubscribe
<1>2. UNCHANGED <<js, replaced, trouble, seen>>
  BY DEF RcvSubscribe
<1>3. net' = net \ {m} \/ net' = (net \ {m}) \cup {Answer(m, "4xx", m.tag, 0)}
  BY <1>1, NewSubscribeEffect, UnknownSubscribeEffect, SubscribeWithinEffect
<1>4. Says423(net')
  <2>1. "4xx" \in Codes
    BY DEF Codes
  <2>2. CASE net' = net \ {m}
    BY <2>2 DEF Stale, Says423
  <2> QED
    BY <1>3, <2>1, <2>2, Answered423
<1> QED
  BY <1>2, <1>4, OthersStale

LEMMA SendAnswerStale ==
  ASSUME TypeOK, Stale, eXosip_insubscription_send_answer
  PROVE  Stale'
<1>1. PICK code \in Codes : \E a :
              /\ AnswersWith(code, a)
              /\ \/ code = "2xx"
                 \/ code = "423" /\ jn.inc.ask # 0 /\ jn.inc.ask < MinExpires
                 \/ code = "1xx"
                 \/ code \in {"401", "4xx"}
  BY SendAnswerEffect
<1>2. UNCHANGED <<js, replaced, stranded, seen>>
  BY SendAnswerEffect
<1>3. jn.inc.ask \in Nat
  BY Parts
<1>4. code = "423" => MinExpires # 0
  BY <1>1, <1>3
<1>5. Says423(net')
  BY <1>1, <1>4 DEF AnswersWith, Stale, Says423
<1> QED
  BY <1>2, <1>5, OthersStale

LEMMA NothingStale ==
  ASSUME TypeOK, Stale, [Next]_vars
  PROVE  Stale'
<1>1. CASE eXosip_subscribe_send_refresh_request
  <2>1. PICK d \in DOMAIN js.dlgs, e \in Asks \cup {0} : SendRefresh(d, e)
    BY <1>1 DEF eXosip_subscribe_send_refresh_request
  <2>2. e \in Nat
    OBVIOUS
  <2> QED
    BY <2>1, <2>2, RefreshStale
<1>2. CASE eXosip_subscribe_remove
  BY <1>2, OthersStale DEF eXosip_subscribe_remove, Stale
<1>3. CASE eXosip_automatic_action
  <2>1. CASE RetriesInitial /\ SendWithCredential(0)
    BY <2>1, RetryFirstStale
  <2>2. ASSUME NEW d \in DOMAIN js.dlgs, RetriesIn(d), SendWithCredential(d) PROVE Stale'
    BY <2>2, RetryInStale
  <2>3. ASSUME NEW d \in DOMAIN js.dlgs, AutomaticRefresh(d) PROVE Stale'
    <3>1. LastOut(js, d).ask \in Nat
      BY LastOutTyped DEF Transactions
    <3> QED
      BY <2>3, <3>1, RefreshStale DEF AutomaticRefresh
  <2> QED
    BY <1>3, <2>1, <2>2, <2>3 DEF eXosip_automatic_action
<1>4. CASE RcvLateAnswer
  BY <1>4 DEF RcvLateAnswer, Stale, Says423
<1>5. CASE Outage
  BY <1>5 DEF Outage, Stale, Says423
<1>6. CASE eXosip_insubscription_remove
  BY <1>6 DEF eXosip_insubscription_remove, Stale
<1>7. CASE SendState \/ SendEnd
  <2>1. PICK state \in Nat : SendNotify(state)
    BY <1>7 DEF SendState, SendEnd, ACTIVE, TERMINATED
  <2>2. PICK tr : Notifies(tr)
    BY <2>1, SendNotifyEffect
  <2>3. /\ seen' = IF state = TERMINATED THEN [seen EXCEPT !.closing = TRUE] ELSE seen
        /\ UNCHANGED <<js, replaced>>
    BY <2>1, SendNotifyEffect
  <2>4. seen'.stale = seen.stale
    BY <2>3 DEF TypeOK, History
  <2> QED
    BY <2>2, <2>3, <2>4, Notifies423, OthersStale
<1>8. CASE RcvNotifyAnswer
  <2>1. UNCHANGED <<js, replaced>> /\ (\E m \in net : net' = net \ {m})
        /\ (seen' = [seen EXCEPT !.closed = "answered"] \/ seen' = seen)
    BY <1>8, RcvNotifyAnswerEffect
  <2>2. seen'.stale = seen.stale
    BY <2>1 DEF TypeOK, History
  <2> QED
    BY <2>1, <2>2 DEF Stale, Says423
<1>9. CASE KillNotify
  <2>1. UNCHANGED <<js, replaced, net>> /\ (seen' = [seen EXCEPT !.closed = "killed"] \/ seen' = seen)
    BY <1>9, KillNotifyEffect
  <2>2. seen'.stale = seen.stale
    BY <2>1 DEF TypeOK, History
  <2> QED
    BY <2>1, <2>2 DEF Stale
<1>10. CASE eXosip_automatic_notify
  <2>1. PICK tr : Notifies(tr)
    BY <1>10, AutomaticNotifyEffect
  <2>2. UNCHANGED <<js, replaced, seen>>
    BY <1>10, AutomaticNotifyEffect
  <2> QED
    BY <2>1, <2>2, Notifies423, OthersStale
<1>11. CASE ProxyAnswers
  <2>1. PICK m \in net, code \in {"401", "4xx"} : net' = (net \ {m}) \cup {Answer(m, code, m.tag, 0)}
    BY <1>11, ProxyEffect
  <2>2. UNCHANGED <<js, replaced, seen>>
    BY <1>11, ProxyEffect
  <2>3. code \in Codes /\ code # "423"
    BY DEF Codes
  <2> QED
    BY <2>1, <2>2, <2>3, Answered423, OthersStale
<1>12. CASE TransportError
  <2>1. UNCHANGED <<replaced, net>> /\ (js' = Freed \/ js' = js)
        /\ (seen' = seen \/ seen' = [seen EXCEPT !.closed = "unreachable"])
    BY <1>12 DEF TransportError, Closed
  <2>2. seen'.stale = seen.stale
    BY <2>1 DEF TypeOK, History
  <2> QED
    BY <2>1, <2>2, OthersStale DEF Stale
<1>13. CASE UNCHANGED vars
  BY <1>13 DEF vars, Stale
<1> QED
  BY <1>1, <1>2, <1>3, <1>4, <1>5, <1>6, <1>7, <1>8, <1>9, <1>10, <1>11, <1>12, <1>13,
     AnswerStale, NotifyStale, KillStale, ReplacedStale, ReleaseStale, TickStale,
     SubscribeStale, SendAnswerStale
  DEF Next, SubscriberThread, NotifierThread

\* The first SUBSCRIBE is on its way.
LEMMA InitEffect ==
  ASSUME Init
  PROVE  \E e \in Asks : \E tr :
           /\ New(tr, 0) /\ tr.ask = e /\ tr.n = 1
           /\ js.live /\ js.period = RefreshInterval(3600, e) /\ js.dlgs = <<>> /\ js.out = tr
           /\ net = {Subscribe(tr, 0)} /\ jn = NoNotify /\ replaced = {} /\ trouble = 0
           /\ seen.subscribes = 1 /\ ~seen.confirmed /\ seen.closed = "none" /\ ~seen.stale /\ ~seen.short
<1>1. PICK e \in Asks :
        LET tr == Transaction(1, e, FALSE, 0)
        IN /\ js = [live |-> TRUE, period |-> RefreshInterval(3600, e), retry |-> 0,
                    status |-> UNKNOWN, dlgs |-> <<>>, out |-> tr]
           /\ net = {Subscribe(tr, 0)}
           /\ jn = NoNotify
           /\ replaced = {}
           /\ stranded = 0 /\ trouble = 0
           /\ seen = [subscribes |-> 1, confirmed |-> FALSE, wants |-> TRUE, closing |-> FALSE,
                      closed |-> "none", stale |-> FALSE, short |-> FALSE]
  BY DEF Init
<1> DEFINE tr == Transaction(1, e, FALSE, 0)
           period == RefreshInterval(3600, e)
<1>2. e \in Nat
  OBVIOUS
<1>3. New(tr, 0) /\ tr.ask = e /\ tr.n = 1
  BY <1>2 DEF Transaction, Transactions, Codes, New
<1>4. /\ js = [live |-> TRUE, period |-> period, retry |-> 0, status |-> UNKNOWN, dlgs |-> <<>>, out |-> tr]
      /\ net = {Subscribe(tr, 0)} /\ jn = NoNotify /\ replaced = {} /\ trouble = 0
      /\ seen = [subscribes |-> 1, confirmed |-> FALSE, wants |-> TRUE, closing |-> FALSE,
                 closed |-> "none", stale |-> FALSE, short |-> FALSE]
  BY <1>1
<1> HIDE DEF tr, period
<1>5. js.live /\ js.period = period /\ js.dlgs = <<>> /\ js.out = tr
  BY <1>4
<1>6. seen.subscribes = 1 /\ ~seen.confirmed /\ seen.closed = "none" /\ ~seen.stale /\ ~seen.short
  BY <1>4
<1> QED
  BY <1>3, <1>4, <1>5, <1>6 DEF period

LEMMA InitStale ==
  ASSUME Init
  PROVE  Stale
<1>1. PICK e \in Asks : \E tr :
           /\ New(tr, 0) /\ tr.ask = e /\ js.out = tr
           /\ net = {Subscribe(tr, 0)} /\ replaced = {} /\ ~seen.stale
  BY InitEffect
<1>2. PICK tr : /\ New(tr, 0) /\ tr.ask = e /\ js.out = tr
                /\ net = {Subscribe(tr, 0)} /\ replaced = {} /\ ~seen.stale
  BY <1>1
<1>3. e # 0
  OBVIOUS
<1>4. Subscribe(tr, 0).code = "none"
  BY <1>2, SubscribeTyped DEF New
<1> QED
  BY <1>2, <1>3, <1>4 DEF Stale, FirstAsks, Says423, New

\* The kill callback of a request that was replaced never uses a subscription that has been
\* freed, for all periods, ticks and bounds: a request is replaced only when it was
\* challenged or too brief, and such a one frees nothing (eXosip.c 1103-1162,
\* jcallback.c).
THEOREM NothingUsedStale == Spec => []NoStaleUse
<1>1. Init => TypeOK /\ Stale
  BY InitTyped, InitStale
<1>2. TypeOK /\ Stale /\ [Next]_vars => (TypeOK /\ Stale)'
  BY StepTyped, NothingStale
<1>3. Stale => NoStaleUse
  BY DEF Stale, NoStaleUse
<1> QED
  BY <1>1, <1>2, <1>3, PTL DEF Spec

-----------------------------------------------------------------------------
(* One subscription for both *)

Turned(tr) == tr.st # "trying" /\ tr.resp \in {"401", "423", "4xx"}
Refusal(code) == code \in {"401", "423", "4xx"}
NoNotifies(n) == \A m \in n : m.kind # "NOTIFY"

\* An answer to the first request o.
ToFirst(m, o) == m.kind = "to SUBSCRIBE" /\ m.n = o.n

\* The dialog d of the subscriber, whose first request is o, is that of the notifier.
DialogOf(o, d, tag) ==
  /\ d.tag = tag /\ tag >= 1 /\ d.cseq >= o.n
  /\ \A i \in DOMAIN d.outs : d.outs[i].n > o.n
  /\ d.state = "early" => d.outs = <<>> /\ o.jd = 1 /\ o.st = "trying"
  /\ d.state = "deleted" => d.outs = <<>> /\ Turned(o)
  /\ d.state = "confirmed" => ~Turned(o)
  /\ d.outs # <<>> => o.resp = "2xx"
  /\ o.jd = 0 => d.state = "confirmed"

Dialogue(o, dlgs, tag) ==
  /\ Len(dlgs) <= 1
  /\ o.st = "trying" <=> o.resp \in {"none", "1xx"}
  /\ dlgs = <<>> => o.jd = 0 /\ o.resp \in {"none", "401", "423", "4xx"}
  /\ dlgs # <<>> => DialogOf(o, dlgs[1], tag)

\* Once the first request was refused the notifier has nothing.
Quiet(o, j, n) == Turned(o) => j.state = "deleted" /\ NoNotifies(n)

\* An early dialog of the notifier has the first request before it.
Ringing(o, dlgs, j, n) == j.state = "early" =>
    /\ j.inc.st = "open" /\ j.inc.n = o.n /\ o.st = "trying" /\ NoNotifies(n)
    /\ \A m \in n : ToFirst(m, o) => m.code = "1xx"
    /\ dlgs # <<>> => dlgs[1].state = "early"

Agreed(o, j) == j.state = "confirmed" =>
    /\ ~Turned(o)
    /\ j.inc.st = "open" => j.inc.n > o.n /\ o.resp = "2xx"

\* The first request is on its way: nothing else is, and nobody has heard of it.
Waiting(m, o, dlgs, j, n) ==
    /\ m.n = o.n /\ o.resp = "none" /\ dlgs = <<>>
    /\ j.state = "deleted" /\ NoNotifies(n)
    /\ \A x \in n : x.kind = "to SUBSCRIBE" => x.n < o.n
    /\ \A x \in n : x.kind = "SUBSCRIBE" => x = m

\* Its refusal is on its way.
Refusing(m, o, dlgs, j, n) ==
    /\ o.st = "trying" /\ j.state = "deleted" /\ NoNotifies(n)
    /\ \A x \in n : ToFirst(x, o) /\ x.code # "1xx" => x = m
    /\ dlgs # <<>> => dlgs[1].state = "early"

OnItsWay(m, o, dlgs, j, n) ==
  /\ m.kind = "SUBSCRIBE" => \/ m.tag = 0 /\ Waiting(m, o, dlgs, j, n)
                             \/ m.tag # 0 /\ m.n > o.n /\ o.resp = "2xx"
  /\ m.kind = "NOTIFY" => m.tag = j.tag /\ j.tag >= 1 /\ ~Turned(o)
  /\ m.kind = "to SUBSCRIBE" => m.code # "none" /\ (m.n > o.n => o.resp = "2xx")
  /\ ToFirst(m, o) =>
       /\ ~Refusal(m.code) => m.tag = j.tag /\ j.tag >= 1
       /\ m.code = "2xx" => j.state # "early" /\ ~Turned(o)
       /\ Refusal(m.code) => Refusing(m, o, dlgs, j, n)

SharedBy(o, dlgs, j, n) ==
  /\ Dialogue(o, dlgs, j.tag)
  /\ Quiet(o, j, n)
  /\ Ringing(o, dlgs, j, n)
  /\ Agreed(o, j)
  /\ \A m \in n : OnItsWay(m, o, dlgs, j, n)

Shared == js.live => SharedBy(js.out, js.dlgs, jn, net)

\* The subscriber has let go of what it was told has ended.
Left(s, closed, n) ==
  /\ closed = "answered" => ~s.live
  /\ \A m \in n : m.kind = "to NOTIFY" /\ m.code = "2xx" /\ m.ask = TERMINATED => ~s.live
  /\ ~s.live => s.dlgs = <<>>

\* What the notifier keeps when.
Held(j) == /\ j.live => j.tag >= 1
           /\ j.state # "deleted" => j.live
           /\ j.inc.st = "open" => j.state # "deleted"
           /\ j.outs # <<>> => j.state = "confirmed"

OneInv == Shared /\ Left(js, seen.closed, net) /\ Held(jn)

\* Messages that are lost or taken leave the rest as it was.
LEMMA NetFewer ==
  ASSUME NEW o, NEW dlgs, NEW j, NEW n, NEW n2, SharedBy(o, dlgs, j, n), n2 \subseteq n
  PROVE  SharedBy(o, dlgs, j, n2)
<1>1. NoNotifies(n) => NoNotifies(n2)
  BY DEF NoNotifies
<1>2. Dialogue(o, dlgs, j.tag) /\ Quiet(o, j, n2) /\ Agreed(o, j)
  BY <1>1 DEF SharedBy, Quiet
<1>3. Ringing(o, dlgs, j, n2)
  BY <1>1 DEF SharedBy, Ringing
<1>4. ASSUME NEW m \in n2 PROVE OnItsWay(m, o, dlgs, j, n2)
  <2>1. OnItsWay(m, o, dlgs, j, n)
    BY DEF SharedBy
  <2>2. Waiting(m, o, dlgs, j, n) => Waiting(m, o, dlgs, j, n2)
    BY <1>1 DEF Waiting
  <2>3. Refusing(m, o, dlgs, j, n) => Refusing(m, o, dlgs, j, n2)
    BY <1>1 DEF Refusing
  <2> QED
    BY <2>1, <2>2, <2>3 DEF OnItsWay
<1> QED
  BY <1>2, <1>3, <1>4 DEF SharedBy

LikeFirst(p, o) == /\ p.n = o.n /\ p.resp = o.resp /\ p.jd = o.jd
                   /\ p.st = "trying" <=> o.st = "trying"

\* Dialogs as they were, but for later requests.
LikeDialog(e, d, o) ==
  /\ e.tag = d.tag /\ e.state = d.state /\ e.cseq >= o.n
  /\ \A i \in DOMAIN e.outs : e.outs[i].n > o.n
  /\ e.outs # <<>> => o.resp = "2xx" /\ e.state = "confirmed"

LikeAll(t, s, o) == /\ Len(t) = Len(s) /\ (t = <<>> <=> s = <<>>)
                    /\ s # <<>> => LikeDialog(t[1], s[1], o)

LEMMA LikeShared ==
  ASSUME NEW o, NEW dlgs, NEW j, NEW n, NEW p, NEW t, SharedBy(o, dlgs, j, n),
         LikeFirst(p, o), LikeAll(t, dlgs, o)
  PROVE  SharedBy(p, t, j, n)
<1>1. Turned(p) <=> Turned(o)
  BY DEF LikeFirst, Turned
<1>2. \A m : ToFirst(m, p) <=> ToFirst(m, o)
  BY DEF LikeFirst, ToFirst
<1>3. Dialogue(p, t, j.tag)
  <2>1. dlgs # <<>> => DialogOf(p, t[1], j.tag)
    <3> SUFFICES ASSUME dlgs # <<>> PROVE DialogOf(p, t[1], j.tag)
      OBVIOUS
    <3>1. DialogOf(o, dlgs[1], j.tag)
      BY DEF SharedBy, Dialogue
    <3>2. LikeDialog(t[1], dlgs[1], o)
      BY DEF LikeAll
    <3> HIDE DEF DialogOf
    <3> DEFINE e == t[1]
               d == dlgs[1]
    <3>3. DialogOf(o, d, j.tag) /\ LikeDialog(e, d, o)
      BY <3>1, <3>2
    <3> HIDE DEF e, d
    <3>4. DialogOf(p, e, j.tag)
      BY <1>1, <3>3 DEF DialogOf, LikeDialog, LikeFirst
    <3> QED
      BY <3>4 DEF e
  <2> QED
    BY <2>1 DEF SharedBy, Dialogue, LikeAll, LikeFirst
<1>4. Quiet(p, j, n) /\ Agreed(p, j)
  BY <1>1 DEF SharedBy, Quiet, Agreed, LikeFirst
<1>5. t # <<>> => dlgs # <<>> /\ t[1].state = dlgs[1].state
  BY DEF LikeAll, LikeDialog
<1>6. Ringing(p, t, j, n)
  BY <1>2, <1>5 DEF SharedBy, Ringing, LikeFirst
<1>7. ASSUME NEW m \in n PROVE OnItsWay(m, p, t, j, n)
  <2>1. OnItsWay(m, o, dlgs, j, n)
    BY DEF SharedBy
  <2>2. Waiting(m, o, dlgs, j, n) => Waiting(m, p, t, j, n)
    BY DEF Waiting, LikeFirst, LikeAll
  <2>3. Refusing(m, o, dlgs, j, n) => Refusing(m, p, t, j, n)
    BY <1>2, <1>5 DEF Refusing, LikeFirst
  <2>4. p.n = o.n /\ p.resp = o.resp
    BY DEF LikeFirst
  <2> QED
    BY <1>1, <1>2, <2>1, <2>2, <2>3, <2>4 DEF OnItsWay
<1> QED
  BY <1>3, <1>4, <1>6, <1>7 DEF SharedBy

\* The notifier keeps its dialog.
LEMMA KeepsShared ==
  ASSUME NEW o, NEW dlgs, NEW j, NEW n, NEW k, SharedBy(o, dlgs, j, n),
         k.tag = j.tag, k.state = j.state, k.inc = j.inc
  PROVE  SharedBy(o, dlgs, k, n)
<1>1. ASSUME NEW m \in n PROVE OnItsWay(m, o, dlgs, k, n)
  <2>1. OnItsWay(m, o, dlgs, j, n)
    BY DEF SharedBy
  <2>2. Waiting(m, o, dlgs, j, n) => Waiting(m, o, dlgs, k, n)
    BY DEF Waiting
  <2>3. Refusing(m, o, dlgs, j, n) => Refusing(m, o, dlgs, k, n)
    BY DEF Refusing
  <2> QED
    BY <2>1, <2>2, <2>3 DEF OnItsWay
<1>2. Quiet(o, k, n) /\ Ringing(o, dlgs, k, n) /\ Agreed(o, k) /\ Dialogue(o, dlgs, k.tag)
  BY DEF SharedBy, Quiet, Ringing, Agreed
<1> QED
  BY <1>1, <1>2 DEF SharedBy

\* The notifier is gone, and its tag is left.
LEMMA DropsShared ==
  ASSUME NEW o, NEW dlgs, NEW j, NEW n, NEW k, SharedBy(o, dlgs, j, n),
         k.tag = j.tag, k.state = "deleted"
  PROVE  SharedBy(o, dlgs, k, n)
<1>1. ASSUME NEW m \in n PROVE OnItsWay(m, o, dlgs, k, n)
  <2>1. OnItsWay(m, o, dlgs, j, n)
    BY DEF SharedBy
  <2>2. Waiting(m, o, dlgs, j, n) => Waiting(m, o, dlgs, k, n)
    BY DEF Waiting
  <2>3. Refusing(m, o, dlgs, j, n) => Refusing(m, o, dlgs, k, n)
    BY DEF Refusing
  <2> QED
    BY <2>1, <2>2, <2>3 DEF OnItsWay
<1>2. Quiet(o, k, n) /\ Ringing(o, dlgs, k, n) /\ Agreed(o, k) /\ Dialogue(o, dlgs, k.tag)
  BY DEF SharedBy, Quiet, Ringing, Agreed
<1> QED
  BY <1>1, <1>2 DEF SharedBy

\* A message that concerns nothing but itself.
Apart(a, o, j) ==
  \/ a.kind = "to NOTIFY"
  \/ a.kind = "to SUBSCRIBE" /\ a.n > o.n /\ o.resp = "2xx" /\ a.code # "none"
  \/ a.kind = "SUBSCRIBE" /\ a.tag # 0 /\ a.n > o.n /\ o.resp = "2xx"
  \/ a.kind = "NOTIFY" /\ a.tag = j.tag /\ j.tag >= 1 /\ j.state = "confirmed"

LEMMA MoreShared ==
  ASSUME NEW o \in Transactions, NEW dlgs, NEW j, NEW n, NEW a \in Messages, SharedBy(o, dlgs, j, n),
         Apart(a, o, j)
  PROVE  SharedBy(o, dlgs, j, n \cup {a})
<1> DEFINE n2 == n \cup {a}
<1>0. o.n \in Nat /\ a.n \in Nat
  BY DEF Transactions, Messages
<1>1. ~ToFirst(a, o)
  <2>1. a.n > o.n => a.n # o.n
    BY <1>0
  <2> QED
    BY <2>1 DEF Apart, ToFirst
<1>2. o.resp = "2xx" => ~Turned(o) /\ o.st # "trying"
  BY DEF SharedBy, Dialogue, Turned
<1>3. a.kind = "NOTIFY" => ~Turned(o) /\ j.state = "confirmed"
  BY DEF Apart, SharedBy, Agreed
<1>4. Dialogue(o, dlgs, j.tag) /\ Agreed(o, j)
  BY DEF SharedBy
<1>5. Quiet(o, j, n2)
  BY <1>3 DEF SharedBy, Quiet, NoNotifies
<1>6. Ringing(o, dlgs, j, n2)
  BY <1>1, <1>3 DEF SharedBy, Ringing, NoNotifies
<1>7. ASSUME NEW m \in n PROVE OnItsWay(m, o, dlgs, j, n2)
  <2>1. OnItsWay(m, o, dlgs, j, n)
    BY DEF SharedBy
  <2>2. Waiting(m, o, dlgs, j, n) => Waiting(m, o, dlgs, j, n2)
    <3> SUFFICES ASSUME Waiting(m, o, dlgs, j, n) PROVE Waiting(m, o, dlgs, j, n2)
      OBVIOUS
    <3>1. o.resp = "none" /\ j.state = "deleted"
      BY DEF Waiting
    <3>2. a.kind = "to NOTIFY"
      BY <3>1 DEF Apart
    <3> QED
      BY <3>2 DEF Waiting, NoNotifies
  <2>3. Refusing(m, o, dlgs, j, n) => Refusing(m, o, dlgs, j, n2)
    <3> SUFFICES ASSUME Refusing(m, o, dlgs, j, n) PROVE Refusing(m, o, dlgs, j, n2)
      OBVIOUS
    <3>1. NoNotifies(n2)
      BY <1>3 DEF Refusing, NoNotifies
    <3> QED
      BY <1>1, <3>1 DEF Refusing
  <2> QED
    BY <2>1, <2>2, <2>3 DEF OnItsWay
<1>8. OnItsWay(a, o, dlgs, j, n2)
  BY <1>1, <1>3 DEF Apart, OnItsWay
<1> QED
  BY <1>4, <1>5, <1>6, <1>7, <1>8 DEF SharedBy

\* The first request is given a provisional answer or accepted: its dialog is made, or the
\* one a NOTIFY or an earlier answer has made is found.
Made(m, o, p, t) ==
  /\ p.n = o.n /\ p.resp = m.code /\ p.jd = 1
  /\ p.st = IF m.code = "2xx" THEN "completed" ELSE o.st
  /\ Len(t) = 1 /\ t # <<>> /\ t[1].tag = m.tag /\ t[1].cseq = o.n /\ t[1].outs = <<>>
  /\ t[1].state = IF m.code = "1xx" THEN "early" ELSE "confirmed"

FoundAgain(m, o, dlgs, p, t) ==
  /\ p.n = o.n /\ p.resp = m.code /\ p.jd = 1
  /\ p.st = IF m.code = "2xx" THEN "completed" ELSE o.st
  /\ Len(t) = 1 /\ t # <<>> /\ t[1].tag = dlgs[1].tag /\ t[1].cseq = dlgs[1].cseq
  /\ t[1].outs = dlgs[1].outs
  /\ t[1].state = IF m.code = "1xx" THEN dlgs[1].state ELSE "confirmed"

LEMMA AcceptedShared ==
  ASSUME NEW o \in Transactions, NEW dlgs, NEW j, NEW n, SharedBy(o, dlgs, j, n),
         NEW m \in n, ToFirst(m, o), m.code \in {"1xx", "2xx"}, o.st = "trying",
         NEW p, NEW t,
         IF dlgs = <<>> THEN Made(m, o, p, t) ELSE FoundAgain(m, o, dlgs, p, t)
  PROVE  SharedBy(p, t, j, n \ {m})
<1> DEFINE n2 == n \ {m}
           e == <<>>
<1>0. DOMAIN e = {} /\ o.n \in Nat /\ o.n >= o.n
  BY DEF Transactions
<1> HIDE DEF e
<1>1. OnItsWay(m, o, dlgs, j, n)
  BY DEF SharedBy
<1>2. m.tag = j.tag /\ j.tag >= 1 /\ (m.code = "2xx" => j.state # "early")
  BY <1>1 DEF OnItsWay, Refusal
<1>3. o.resp \in {"none", "1xx"} /\ o.resp # "2xx" /\ ~Turned(o)
  BY DEF SharedBy, Dialogue, Turned
<1>4. /\ p.n = o.n /\ p.resp = m.code /\ p.jd = 1 /\ Len(t) = 1 /\ t # <<>>
      /\ p.st = IF m.code = "2xx" THEN "completed" ELSE o.st
      /\ t[1].state \in {"early", "confirmed", dlgs[1].state}
  BY DEF Made, FoundAgain
<1>5. ~Turned(p) /\ (p.st = "trying" <=> p.resp \in {"none", "1xx"})
  BY <1>4 DEF Turned
<1>6. \A x : ToFirst(x, p) <=> ToFirst(x, o)
  BY <1>4 DEF ToFirst
<1>7. DialogOf(p, t[1], j.tag)
  <2>1. CASE dlgs = <<>>
    <3>1. t[1].tag = m.tag /\ t[1].cseq = o.n /\ t[1].outs = e
          /\ t[1].state = IF m.code = "1xx" THEN "early" ELSE "confirmed"
      BY <2>1 DEF Made, e
    <3>2. m.code = "1xx" => p.st = "trying"
      BY <1>4
    <3> QED
      BY <1>0, <1>2, <1>4, <1>5, <3>1, <3>2 DEF DialogOf, e
  <2>2. CASE dlgs # <<>>
    <3>1. DialogOf(o, dlgs[1], j.tag)
      BY <2>2 DEF SharedBy, Dialogue
    <3>2. dlgs[1].outs = <<>> /\ dlgs[1].state # "deleted"
      BY <1>3, <3>1 DEF DialogOf
    <3>3. /\ t[1].tag = dlgs[1].tag /\ t[1].cseq = dlgs[1].cseq /\ t[1].outs = dlgs[1].outs
          /\ t[1].state = IF m.code = "1xx" THEN dlgs[1].state ELSE "confirmed"
      BY <2>2 DEF FoundAgain
    <3>4. m.code = "1xx" => p.st = "trying"
      BY <1>4
    <3>5. m.code = "2xx" => t[1].state = "confirmed"
      BY <3>3
    <3>6. t[1].state # "deleted"
      BY <3>2, <3>3
    <3> QED
      BY <1>2, <1>4, <1>5, <3>1, <3>2, <3>3, <3>4, <3>5, <3>6 DEF DialogOf
  <2> QED
    BY <2>1, <2>2
<1>8. Dialogue(p, t, j.tag)
  BY <1>4, <1>5, <1>7 DEF Dialogue
<1>9. Quiet(p, j, n2)
  BY <1>5 DEF Quiet
<1>10. Ringing(p, t, j, n2)
  <2> SUFFICES ASSUME j.state = "early" PROVE Ringing(p, t, j, n2)
    BY DEF Ringing
  <2>1. m.code = "1xx"
    BY <1>2
  <2>2. /\ j.inc.st = "open" /\ j.inc.n = o.n /\ o.st = "trying" /\ NoNotifies(n)
        /\ \A x \in n : ToFirst(x, o) => x.code = "1xx"
        /\ dlgs # <<>> => dlgs[1].state = "early"
    BY DEF SharedBy, Ringing
  <2>3. t[1].state = "early"
    BY <2>1, <2>2 DEF Made, FoundAgain
  <2> QED
    BY <1>4, <1>6, <2>1, <2>2, <2>3 DEF Ringing, NoNotifies
<1>11. Agreed(p, j)
  BY <1>3, <1>5 DEF SharedBy, Agreed
<1>12. ASSUME NEW x \in n2 PROVE OnItsWay(x, p, t, j, n2)
  <2>1. OnItsWay(x, o, dlgs, j, n) /\ x # m
    BY DEF SharedBy
  <2>2. x.kind # "SUBSCRIBE"
    <3>1. ~Waiting(x, o, dlgs, j, n)
      <4>1. ASSUME Waiting(x, o, dlgs, j, n) PROVE FALSE
        <5>1. m.n < o.n /\ m.n = o.n
          BY <4>1 DEF Waiting, ToFirst
        <5> QED
          BY <1>0, <5>1
      <4> QED
        BY <4>1
    <3> QED
      BY <1>3, <2>1, <3>1 DEF OnItsWay
  <2>3. ASSUME ToFirst(x, o), Refusal(x.code) PROVE Refusing(x, p, t, j, n2)
    <3>1. Refusing(x, o, dlgs, j, n)
      BY <2>1, <2>3 DEF OnItsWay
    <3>2. m.code = "1xx"
      BY <2>1, <3>1 DEF Refusing
    <3>3. t[1].state = "early"
      BY <3>1, <3>2 DEF Refusing, Made, FoundAgain
    <3>4. p.st = "trying"
      BY <1>4, <3>2
    <3> QED
      BY <1>6, <3>1, <3>3, <3>4 DEF Refusing, NoNotifies
  <2>4. x.kind = "to SUBSCRIBE" => x.code # "none" /\ ~(x.n > o.n)
    BY <1>3, <2>1 DEF OnItsWay
  <2>5. x.kind = "NOTIFY" => x.tag = j.tag /\ j.tag >= 1
    BY <2>1 DEF OnItsWay
  <2>6. ToFirst(x, o) => /\ ~Refusal(x.code) => x.tag = j.tag /\ j.tag >= 1
                         /\ x.code = "2xx" => j.state # "early"
    BY <2>1 DEF OnItsWay
  <2> QED
    BY <1>4, <1>5, <1>6, <2>2, <2>3, <2>4, <2>5, <2>6 DEF OnItsWay
<1> QED
  BY <1>8, <1>9, <1>10, <1>11, <1>12 DEF SharedBy

\* The first request is refused: its early dialog is deleted.
LEMMA RefusedShared ==
  ASSUME NEW o \in Transactions, NEW dlgs, NEW j, NEW n, SharedBy(o, dlgs, j, n),
         NEW m \in n, ToFirst(m, o), Refusal(m.code), o.st = "trying",
         NEW p, p.n = o.n, p.resp = m.code, p.jd = o.jd, p.st = "completed",
         NEW t, Len(t) = Len(dlgs), t = <<>> <=> dlgs = <<>>,
         dlgs # <<>> => /\ t[1].tag = dlgs[1].tag /\ t[1].cseq = dlgs[1].cseq /\ t[1].outs = dlgs[1].outs
                        /\ dlgs[1].state = "early" /\ o.jd = 1 => t[1].state = "deleted"
  PROVE  SharedBy(p, t, j, n \ {m})
<1> DEFINE n2 == n \ {m}
<1>0. o.n \in Nat
  BY DEF Transactions
<1>1. OnItsWay(m, o, dlgs, j, n)
  BY DEF SharedBy
<1>2. /\ o.st = "trying" /\ j.state = "deleted" /\ NoNotifies(n)
      /\ \A x \in n : ToFirst(x, o) /\ x.code # "1xx" => x = m
      /\ dlgs # <<>> => dlgs[1].state = "early"
  BY <1>1 DEF OnItsWay, Refusing
<1>3. o.resp \in {"none", "1xx"} /\ o.resp # "2xx"
  BY DEF SharedBy, Dialogue
<1>4. Turned(p) /\ p.resp \in {"401", "423", "4xx"} /\ p.resp \notin {"none", "1xx"}
  BY DEF Turned, Refusal
<1>5. \A x : ToFirst(x, p) <=> ToFirst(x, o)
  BY DEF ToFirst
<1>6. NoNotifies(n2)
  BY <1>2 DEF NoNotifies
<1>7. dlgs # <<>> => DialogOf(p, t[1], j.tag)
  <2> SUFFICES ASSUME dlgs # <<>> PROVE DialogOf(p, t[1], j.tag)
    OBVIOUS
  <2>1. DialogOf(o, dlgs[1], j.tag)
    BY DEF SharedBy, Dialogue
  <2>2. o.jd = 1 /\ dlgs[1].outs = <<>>
    BY <1>2, <2>1 DEF DialogOf
  <2>3. t[1].state = "deleted"
    BY <1>2, <2>2
  <2> QED
    BY <1>4, <2>1, <2>2, <2>3 DEF DialogOf
<1>8. Dialogue(p, t, j.tag)
  BY <1>4, <1>7 DEF SharedBy, Dialogue
<1>9. Quiet(p, j, n2) /\ Ringing(p, t, j, n2) /\ Agreed(p, j)
  BY <1>2, <1>6 DEF Quiet, Ringing, Agreed
<1>10. ASSUME NEW x \in n2 PROVE OnItsWay(x, p, t, j, n2)
  <2>1. OnItsWay(x, o, dlgs, j, n) /\ x # m
    BY DEF SharedBy
  <2>2. x.kind # "SUBSCRIBE"
    <3>1. ASSUME Waiting(x, o, dlgs, j, n) PROVE FALSE
      <4>1. m.n < o.n /\ m.n = o.n
        BY <3>1 DEF Waiting, ToFirst
      <4> QED
        BY <1>0, <4>1
    <3> QED
      BY <1>3, <2>1, <3>1 DEF OnItsWay
  <2>3. ToFirst(x, o) => x.code = "1xx" /\ x.tag = j.tag /\ j.tag >= 1
    BY <1>2, <2>1 DEF OnItsWay, Refusal
  <2>4. x.kind = "to SUBSCRIBE" => x.code # "none" /\ ~(x.n > o.n)
    BY <1>3, <2>1 DEF OnItsWay
  <2>5. x.kind # "NOTIFY"
    BY <1>2 DEF NoNotifies
  <2> QED
    BY <1>5, <2>2, <2>3, <2>4, <2>5 DEF OnItsWay, Refusal
<1> QED
  BY <1>8, <1>9, <1>10 DEF SharedBy

\* A NOTIFY makes the dialog of a subscription that has none.
LEMMA NotifyShared ==
  ASSUME NEW o \in Transactions, NEW j, NEW n, NEW dlgs, dlgs = <<>>, SharedBy(o, dlgs, j, n),
         NEW m \in n, m.kind = "NOTIFY",
         NEW t, Len(t) = 1, t # <<>>, t[1].tag = m.tag, t[1].state = "confirmed", t[1].cseq = o.n,
         t[1].outs = <<>>
  PROVE  SharedBy(o, t, j, n)
<1> DEFINE e == <<>>
<1>0. DOMAIN e = {} /\ o.n \in Nat /\ o.n >= o.n
  BY DEF Transactions
<1> HIDE DEF e
<1>1. m.tag = j.tag /\ j.tag >= 1 /\ ~Turned(o)
  BY DEF SharedBy, OnItsWay
<1>2. ~NoNotifies(n)
  BY DEF NoNotifies
<1>3. DialogOf(o, t[1], j.tag)
  BY <1>0, <1>1 DEF DialogOf, e
<1>4. Dialogue(o, t, j.tag) /\ Quiet(o, j, n) /\ Agreed(o, j)
  BY <1>3 DEF SharedBy, Dialogue
<1>5. Ringing(o, t, j, n)
  BY <1>2 DEF SharedBy, Ringing
<1>6. ASSUME NEW x \in n PROVE OnItsWay(x, o, t, j, n)
  <2>1. OnItsWay(x, o, dlgs, j, n)
    BY DEF SharedBy
  <2>2. ~Waiting(x, o, dlgs, j, n) /\ ~Refusing(x, o, dlgs, j, n)
    BY <1>2 DEF Waiting, Refusing
  <2> QED
    BY <2>1, <2>2 DEF OnItsWay
<1> QED
  BY <1>4, <1>5, <1>6 DEF SharedBy

\* The first request is sent again, with credentials.
LEMMA AgainShared ==
  ASSUME NEW o \in Transactions, NEW dlgs, NEW j, NEW n, n \subseteq Messages, SharedBy(o, dlgs, j, n),
         dlgs = <<>>, Turned(o),
         NEW p, p.n = o.n + 1, p.st = "trying", p.resp = "none", p.jd = 0,
         NEW a, a.kind = "SUBSCRIBE", a.tag = 0, a.n = p.n
  PROVE  SharedBy(p, dlgs, j, n \cup {a})
<1> DEFINE n2 == n \cup {a}
<1>1. o.n \in Nat /\ (\A x \in n : x.n \in Nat)
  BY DEF Transactions, Messages
<1>0. ASSUME NEW k \in Nat PROVE (~(k > o.n) => k < p.n /\ k # p.n /\ ~(k > p.n))
  <2> DEFINE i == o.n
  <2>1. i \in Nat /\ p.n = i + 1
    BY <1>1
  <2> HIDE DEF i
  <2>2. ~(k > i) => k < i + 1 /\ k # i + 1 /\ ~(k > i + 1)
    BY <2>1
  <2> QED
    BY <2>1, <2>2 DEF i
<1>2. j.state = "deleted" /\ NoNotifies(n)
  BY DEF SharedBy, Quiet
<1>3. o.resp \in {"401", "423", "4xx"} /\ o.resp # "none" /\ o.resp # "2xx"
  BY DEF Turned
<1>4. ASSUME NEW x \in n
       PROVE  /\ x.kind # "SUBSCRIBE"
              /\ x.kind = "to SUBSCRIBE" => /\ x.n < p.n /\ x.n # p.n /\ ~(x.n > p.n)
                                           /\ x.code # "none"
  <2>1. OnItsWay(x, o, dlgs, j, n)
    BY DEF SharedBy
  <2>2. x.kind # "SUBSCRIBE"
    BY <1>3, <2>1 DEF OnItsWay, Waiting
  <2>3. x.kind = "to SUBSCRIBE" => ~(x.n > o.n) /\ x.code # "none"
    BY <1>3, <2>1 DEF OnItsWay
  <2> DEFINE k == x.n
  <2>4. k \in Nat
    BY <1>1
  <2>5. ~(k > o.n) => k < p.n /\ k # p.n /\ ~(k > p.n)
    BY <1>0, <2>4
  <2> QED
    BY <2>2, <2>3, <2>5
<1>5. NoNotifies(n2)
  BY <1>2 DEF NoNotifies
<1>6. Len(dlgs) = 0
  OBVIOUS
<1>7. ~Turned(p)
  BY DEF Turned
<1>8. Dialogue(p, dlgs, j.tag)
  BY <1>6 DEF Dialogue
<1>9. Quiet(p, j, n2) /\ Ringing(p, dlgs, j, n2) /\ Agreed(p, j)
  BY <1>2, <1>7 DEF Quiet, Ringing, Agreed
<1>10. OnItsWay(a, p, dlgs, j, n2)
  <2>1. Waiting(a, p, dlgs, j, n2)
    BY <1>2, <1>4, <1>5 DEF Waiting
  <2> QED
    BY <2>1 DEF OnItsWay, ToFirst
<1>11. ASSUME NEW x \in n PROVE OnItsWay(x, p, dlgs, j, n2)
  <2> QED
    BY <1>2, <1>4 DEF OnItsWay, ToFirst, NoNotifies
<1> QED
  BY <1>8, <1>9, <1>10, <1>11 DEF SharedBy

LEMMA NotAfter ==
  ASSUME NEW o \in Transactions
  PROVE  o.n \in Nat /\ ~(o.n > o.n)
<1> DEFINE k == o.n
<1>1. k \in Nat
  BY DEF Transactions
<1> HIDE DEF k
<1>2. ~(k > k)
  BY <1>1
<1> QED
  BY <1>1, <1>2 DEF k

\* The first SUBSCRIBE reaches the notifier.
LEMMA ReachedShared ==
  ASSUME NEW o \in Transactions, NEW dlgs, NEW j, NEW n, SharedBy(o, dlgs, j, n),
         NEW m \in n, m.kind = "SUBSCRIBE", m.tag = 0,
         NEW k, k.state = "early", k.inc.st = "open", k.inc.n = m.n
  PROVE  SharedBy(o, dlgs, k, n \ {m})
<1> DEFINE n2 == n \ {m}
<1>0. o.n \in Nat
  BY DEF Transactions
<1>1. Waiting(m, o, dlgs, j, n)
  BY DEF SharedBy, OnItsWay
<1>2. /\ m.n = o.n /\ o.resp = "none" /\ dlgs = <<>> /\ NoNotifies(n2)
      /\ \A x \in n : x.kind = "to SUBSCRIBE" => x.n < o.n
      /\ \A x \in n2 : x.kind # "SUBSCRIBE"
  BY <1>1 DEF Waiting, NoNotifies
<1>3. o.st = "trying" /\ ~Turned(o) /\ Dialogue(o, dlgs, k.tag)
  BY <1>2 DEF SharedBy, Dialogue, Turned
<1>4. \A x \in n : ~ToFirst(x, o)
  <2> SUFFICES ASSUME NEW x \in n, ToFirst(x, o) PROVE FALSE
    OBVIOUS
  <2>1. x.n < o.n /\ x.n = o.n
    BY <1>2 DEF ToFirst
  <2> QED
    BY <1>0, <2>1
<1>5. Quiet(o, k, n2) /\ Ringing(o, dlgs, k, n2) /\ Agreed(o, k)
  BY <1>2, <1>3, <1>4 DEF Quiet, Ringing, Agreed
<1>6. ASSUME NEW x \in n2 PROVE OnItsWay(x, o, dlgs, k, n2)
  <2>1. OnItsWay(x, o, dlgs, j, n)
    BY DEF SharedBy
  <2> QED
    BY <1>2, <1>4, <2>1 DEF OnItsWay, NoNotifies
<1> QED
  BY <1>3, <1>5, <1>6 DEF SharedBy

\* The notifier has confirmed its dialog, and answers or gets a later request.
LEMMA ConfirmedShared ==
  ASSUME NEW o, NEW dlgs, NEW j, NEW n, SharedBy(o, dlgs, j, n),
         NEW k, k.tag = j.tag, j.state = "confirmed", k.state = "confirmed",
         k.inc.st = "open" => k.inc.n > o.n /\ o.resp = "2xx"
  PROVE  SharedBy(o, dlgs, k, n)
<1>1. ~Turned(o)
  BY DEF SharedBy, Agreed
<1>2. Dialogue(o, dlgs, k.tag) /\ Quiet(o, k, n) /\ Ringing(o, dlgs, k, n) /\ Agreed(o, k)
  BY <1>1 DEF SharedBy, Quiet, Ringing, Agreed
<1>3. ASSUME NEW x \in n PROVE OnItsWay(x, o, dlgs, k, n)
  <2>1. OnItsWay(x, o, dlgs, j, n)
    BY DEF SharedBy
  <2>2. ~Waiting(x, o, dlgs, j, n) /\ ~Refusing(x, o, dlgs, j, n)
    BY DEF Waiting, Refusing
  <2> QED
    BY <2>1, <2>2 DEF OnItsWay
<1> QED
  BY <1>2, <1>3 DEF SharedBy

\* The notifier answers the first SUBSCRIBE.
LEMMA RungShared ==
  ASSUME NEW o \in Transactions, NEW dlgs, NEW j, NEW n, SharedBy(o, dlgs, j, n), Held(j),
         j.state = "early", j.live,
         NEW a, a.kind = "to SUBSCRIBE", a.n = j.inc.n, a.tag = j.tag,
         NEW k, k.tag = j.tag,
         \/ a.code = "2xx" /\ k.state = "confirmed" /\ k.inc.st = "answered"
         \/ Refusal(a.code) /\ k.state = "deleted"
         \/ a.code = "1xx" /\ k = j
  PROVE  SharedBy(o, dlgs, k, n \cup {a})
<1> DEFINE n2 == n \cup {a}
<1>0. o.n \in Nat /\ ~(o.n > o.n) /\ j.tag >= 1
  BY NotAfter DEF Held
<1>1. /\ j.inc.st = "open" /\ j.inc.n = o.n /\ o.st = "trying" /\ NoNotifies(n)
      /\ \A x \in n : ToFirst(x, o) => x.code = "1xx"
      /\ dlgs # <<>> => dlgs[1].state = "early"
  BY DEF SharedBy, Ringing
<1>2. ~Turned(o) /\ Dialogue(o, dlgs, k.tag)
  BY <1>1 DEF SharedBy, Turned
<1>3. NoNotifies(n2) /\ ToFirst(a, o) /\ ~(a.n > o.n)
  BY <1>0, <1>1 DEF NoNotifies, ToFirst
<1>4. Quiet(o, k, n2)
  BY <1>2 DEF Quiet
<1>5. Ringing(o, dlgs, k, n2)
  <2>1. CASE k.state = "early"
    <3>1. a.code = "1xx" /\ k = j
      BY <2>1 
    <3> QED
      BY <1>1, <1>3, <3>1 DEF Ringing
  <2> QED
    BY <2>1 DEF Ringing
<1>6. Agreed(o, k)
  BY <1>2 DEF Agreed
<1>7. OnItsWay(a, o, dlgs, k, n2)
  <2>1. Refusal(a.code) => Refusing(a, o, dlgs, k, n2)
    BY <1>1, <1>3 DEF Refusing, Refusal
  <2>2. a.code # "none"
    BY DEF Refusal
  <2>3. a.code = "2xx" => k.state # "early"
    BY DEF Refusal
  <2> QED
    BY <1>0, <1>2, <1>3, <2>1, <2>2, <2>3 DEF OnItsWay
<1>8. ASSUME NEW x \in n PROVE OnItsWay(x, o, dlgs, k, n2)
  <2>1. OnItsWay(x, o, dlgs, j, n)
    BY DEF SharedBy
  <2>2. ~Waiting(x, o, dlgs, j, n) /\ ~Refusing(x, o, dlgs, j, n)
    BY DEF Waiting, Refusing
  <2>3. ToFirst(x, o) => x.code = "1xx"
    BY <1>1
  <2>4. ToFirst(x, o) => ~Refusal(x.code) /\ x.code # "2xx"
    BY <2>3 DEF Refusal
  <2>5. x.kind # "NOTIFY"
    BY <1>1 DEF NoNotifies
  <2> QED
    BY <2>1, <2>2, <2>4, <2>5 DEF OnItsWay
<1> QED
  BY <1>2, <1>4, <1>5, <1>6, <1>7, <1>8 DEF SharedBy

\* A proxy refuses the first SUBSCRIBE.
LEMMA TurnedShared ==
  ASSUME NEW o \in Transactions, NEW dlgs, NEW j, NEW n, SharedBy(o, dlgs, j, n),
         NEW m \in n, m.kind = "SUBSCRIBE", m.tag = 0,
         NEW a, a.kind = "to SUBSCRIBE", a.n = m.n, Refusal(a.code)
  PROVE  SharedBy(o, dlgs, j, (n \ {m}) \cup {a})
<1> DEFINE n2 == (n \ {m}) \cup {a}
<1>0. o.n \in Nat /\ ~(o.n > o.n)
  BY NotAfter
<1>1. Waiting(m, o, dlgs, j, n)
  BY DEF SharedBy, OnItsWay
<1>2. /\ m.n = o.n /\ o.resp = "none" /\ dlgs = <<>> /\ NoNotifies(n2) /\ j.state = "deleted"
      /\ \A x \in n : x.kind = "to SUBSCRIBE" => x.n < o.n
      /\ \A x \in n2 : x.kind # "SUBSCRIBE"
  BY <1>1 DEF Waiting, NoNotifies
<1>3. o.st = "trying" /\ ~Turned(o) /\ Dialogue(o, dlgs, j.tag)
  BY <1>2 DEF SharedBy, Dialogue, Turned
<1>4. \A x \in n : ~ToFirst(x, o)
  <2> SUFFICES ASSUME NEW x \in n, ToFirst(x, o) PROVE FALSE
    OBVIOUS
  <2>1. x.n < o.n /\ x.n = o.n
    BY <1>2 DEF ToFirst
  <2> QED
    BY <1>0, <2>1
<1>5. Quiet(o, j, n2) /\ Ringing(o, dlgs, j, n2) /\ Agreed(o, j)
  BY <1>2, <1>3 DEF Quiet, Ringing, Agreed
<1>6. OnItsWay(a, o, dlgs, j, n2)
  <2>1. Refusing(a, o, dlgs, j, n2)
    BY <1>2, <1>3, <1>4 DEF Refusing
  <2> QED
    BY <1>0, <1>2, <2>1 DEF OnItsWay, Refusal
<1>7. ASSUME NEW x \in n, x # m PROVE OnItsWay(x, o, dlgs, j, n2)
  <2>1. OnItsWay(x, o, dlgs, j, n)
    BY DEF SharedBy
  <2> QED
    BY <1>2, <1>4, <1>7, <2>1 DEF OnItsWay, NoNotifies
<1> QED
  BY <1>3, <1>5, <1>6, <1>7 DEF SharedBy

\* What the subscriber has, as the notifier sees it.
Both(j, n) == SharedBy(js.out, js.dlgs, j, n)

\* An answer takes the place of what it answers.
LEMMA AnsweredShared ==
  ASSUME TypeOK, NEW m \in net, NEW code \in Codes, code # "none", Both(jn, net),
         m.kind = "NOTIFY" \/ (m.kind = "SUBSCRIBE" /\ m.n > js.out.n /\ js.out.resp = "2xx")
  PROVE  Both(jn, (net \ {m}) \cup {Answer(m, code, m.tag, 0)})
<1> DEFINE a == Answer(m, code, m.tag, 0)
<1>1. /\ a \in Messages /\ a.kind = IF m.kind = "NOTIFY" THEN "to NOTIFY" ELSE "to SUBSCRIBE"
      /\ a.n = m.n /\ a.code = code
  BY AnswerSays
<1> HIDE DEF a
<1>2. Both(jn, net \ {m})
  <2>1. net \ {m} \subseteq net
    OBVIOUS
  <2> QED
    BY <2>1, NetFewer DEF Both
<1>3. Apart(a, js.out, jn)
  BY <1>1 DEF Apart
<1>4. js.out \in Transactions
  BY Parts
<1>5. Both(jn, (net \ {m}) \cup {a})
  BY <1>1, <1>2, <1>3, <1>4, MoreShared DEF Both
<1> QED
  BY <1>5 DEF a

LEMMA SubscribeShared ==
  ASSUME TypeOK, Held(jn), RcvSubscribe, Both(jn, net)
  PROVE  Both(jn', net')
<1>1. PICK m \in net : m.kind = "SUBSCRIBE" /\ (NewSubscribe(m) \/ UnknownSubscribe(m) \/ SubscribeWithin(m))
  BY DEF RcvSubscribe
<1>2. js.out \in Transactions /\ "4xx" \in Codes
  BY Parts DEF Codes
<1>3. OnItsWay(m, js.out, js.dlgs, jn, net)
  BY DEF Both, SharedBy
<1>4. m.tag # 0 => m.n > js.out.n /\ js.out.resp = "2xx"
  BY <1>1, <1>3 DEF OnItsWay
<1>5. CASE NewSubscribe(m)
  <2>1. m.tag = 0 /\ jn'.state = "early" /\ jn'.inc.n = m.n /\ jn'.inc.st = "open" /\ net' = net \ {m}
    BY <1>5, NewSubscribeEffect
  <2> QED
    BY <1>1, <1>2, <2>1, ReachedShared DEF Both
<1>6. CASE UnknownSubscribe(m)
  <2>1. m.tag # 0 /\ jn' = jn /\ net' = (net \ {m}) \cup {Answer(m, "4xx", m.tag, 0)}
    BY <1>6, UnknownSubscribeEffect
  <2> QED
    BY <1>1, <1>2, <1>4, <2>1, AnsweredShared
<1>7. CASE SubscribeWithin(m)
  <2>1. /\ jn.live /\ jn.state # "deleted" /\ m.tag = jn.tag
        /\ IF jn.inc.st = "open"
           THEN jn' = jn /\ net' = (net \ {m}) \cup {Answer(m, "4xx", m.tag, 0)}
           ELSE /\ jn'.tag = jn.tag /\ jn'.state = jn.state /\ jn'.inc.n = m.n
                /\ net' = net \ {m}
    BY <1>7, SubscribeWithinEffect
  <2>2. m.tag # 0
    <3>1. jn.tag >= 1 /\ jn.tag \in Nat
      BY <2>1, Parts DEF Held
    <3> QED
      BY <2>1, <3>1
  <2>3. CASE jn.inc.st = "open"
    BY <1>1, <1>2, <1>4, <2>1, <2>2, <2>3, AnsweredShared
  <2>4. CASE jn.inc.st # "open"
    <3>1. jn.state = "confirmed"
      <4>1. jn.state \in DialogStates
        BY Parts
      <4>2. jn.state # "early"
        BY <2>4 DEF Both, SharedBy, Ringing
      <4> QED
        BY <2>1, <4>1, <4>2 DEF DialogStates
    <3>2. jn'.inc.n > js.out.n /\ js.out.resp = "2xx"
      BY <1>4, <2>1, <2>2, <2>4
    <3>3. Both(jn, net')
      <4>1. net' \subseteq net
        BY <2>1, <2>4
      <4> QED
        BY <4>1, NetFewer DEF Both
    <3> QED
      BY <2>1, <2>4, <3>1, <3>2, <3>3, ConfirmedShared DEF Both
  <2> QED
    BY <2>3, <2>4
<1> QED
  BY <1>1, <1>5, <1>6, <1>7

LEMMA SendAnswerShared ==
  ASSUME TypeOK, Held(jn), eXosip_insubscription_send_answer, Both(jn, net)
  PROVE  Both(jn', net')
<1>1. PICK code \in Codes : \E a :
              /\ AnswersWith(code, a)
              /\ \/ code = "2xx" /\ Accepts
                 \/ code = "423" /\ Refuses
                 \/ code = "1xx" /\ jn' = jn
                 \/ code \in {"401", "4xx"} /\ Refuses
  BY SendAnswerEffect
<1>2. jn.live /\ jn.inc.st = "open"
  BY SendAnswerEffect
<1>3. PICK a : /\ AnswersWith(code, a)
               /\ \/ code = "2xx" /\ Accepts
                  \/ code = "423" /\ Refuses
                  \/ code = "1xx" /\ jn' = jn
                  \/ code \in {"401", "4xx"} /\ Refuses
  BY <1>1
<1>4. /\ a \in Messages /\ a.kind = "to SUBSCRIBE" /\ a.n = jn.inc.n /\ a.tag = jn.tag /\ a.code = code
      /\ net' = net \cup {a}
  BY <1>3 DEF AnswersWith
<1>5. js.out \in Transactions /\ jn.state \in DialogStates
  BY Parts
<1>6. jn'.tag = jn.tag
  BY <1>3 DEF Accepts, Refuses
<1>7. CASE jn.state = "early"
  <2>1. \/ a.code = "2xx" /\ jn'.state = "confirmed" /\ jn'.inc.st = "answered"
        \/ Refusal(a.code) /\ jn'.state = "deleted"
        \/ a.code = "1xx" /\ jn' = jn
    BY <1>3, <1>4, <1>7 DEF Accepts, Refuses, Refusal
  <2>2. Both(jn', net \cup {a})
    BY <1>2, <1>4, <1>5, <1>6, <1>7, <2>1, RungShared DEF Both
  <2> QED
    BY <1>4, <2>2
<1>8. CASE jn.state # "early"
  <2>1. jn.state = "confirmed"
    BY <1>2, <1>5, <1>8 DEF Held, DialogStates
  <2>2. jn.inc.n > js.out.n /\ js.out.resp = "2xx"
    BY <1>2, <2>1 DEF Both, SharedBy, Agreed
  <2>3. jn'.state = "confirmed" /\ (jn'.inc.st = "open" => jn'.inc.n > js.out.n /\ js.out.resp = "2xx")
    BY <1>3, <2>1, <2>2 DEF Accepts, Refuses
  <2>4. Both(jn', net)
    BY <1>6, <2>1, <2>3, ConfirmedShared DEF Both
  <2>5. a.code # "none"
    BY <1>3, <1>4
  <2>6. Apart(a, js.out, jn')
    BY <1>4, <2>2, <2>5 DEF Apart
  <2>7. Both(jn', net \cup {a})
    BY <1>4, <1>5, <2>4, <2>6, MoreShared DEF Both
  <2> QED
    BY <1>4, <2>7
<1> QED
  BY <1>7, <1>8

LEMMA ProxyShared ==
  ASSUME TypeOK, ProxyAnswers, Both(jn, net)
  PROVE  Both(jn', net')
<1>1. PICK m \in net, code \in {"401", "4xx"} :
                /\ m.kind \in {"SUBSCRIBE", "NOTIFY"}
                /\ net' = (net \ {m}) \cup {Answer(m, code, m.tag, 0)}
  BY ProxyEffect
<1>2. jn' = jn
  BY ProxyEffect
<1>3. code \in Codes /\ code # "none" /\ Refusal(code) /\ js.out \in Transactions
  BY Parts DEF Codes, Refusal
<1>4. OnItsWay(m, js.out, js.dlgs, jn, net)
  BY DEF Both, SharedBy
<1>5. CASE m.kind = "SUBSCRIBE" /\ m.tag = 0
  <2> DEFINE a == Answer(m, code, m.tag, 0)
  <2>1. a.kind = "to SUBSCRIBE" /\ a.n = m.n /\ a.code = code
    BY <1>3, <1>5, AnswerSays
  <2> HIDE DEF a
  <2>2. Both(jn, (net \ {m}) \cup {a})
    BY <1>3, <1>5, <2>1, TurnedShared DEF Both
  <2> QED
    BY <1>1, <1>2, <2>2 DEF a
<1>6. CASE ~(m.kind = "SUBSCRIBE" /\ m.tag = 0)
  <2>1. m.kind = "NOTIFY" \/ (m.kind = "SUBSCRIBE" /\ m.n > js.out.n /\ js.out.resp = "2xx")
    BY <1>1, <1>4, <1>6 DEF OnItsWay
  <2>2. Both(jn, (net \ {m}) \cup {Answer(m, code, m.tag, 0)})
    BY <1>3, <2>1, AnsweredShared
  <2> QED
    BY <1>1, <1>2, <2>2
<1> QED
  BY <1>5, <1>6

LEMMA NotifiesShared ==
  ASSUME TypeOK, Held(jn), jn.live, jn.state = "confirmed", NEW tr, Notifies(tr), Both(jn, net)
  PROVE  Both(jn', net')
<1> DEFINE a == Notify(tr, jn.tag)
<1>1. tr \in Transactions /\ net' = net \cup {a} /\ jn'.tag = jn.tag /\ jn'.state = jn.state /\ jn'.inc = jn.inc
  BY DEF Notifies, KeepsNotifier
<1>2. a \in Messages /\ a.kind = "NOTIFY" /\ a.tag = jn.tag
  BY <1>1, Parts, NotifyTyped
<1> HIDE DEF a
<1>3. js.out \in Transactions /\ jn.tag >= 1
  BY Parts DEF Held
<1>4. Both(jn', net)
  BY <1>1, KeepsShared DEF Both
<1>5. Apart(a, js.out, jn')
  BY <1>1, <1>2, <1>3 DEF Apart
<1>6. Both(jn', net \cup {a})
  BY <1>2, <1>3, <1>4, <1>5, MoreShared DEF Both
<1> QED
  BY <1>1, <1>6

LEMMA KeepsOrDrops ==
  ASSUME TypeOK, KeepsNotifier \/ DropsNotifier, net' \subseteq net, Both(jn, net)
  PROVE  Both(jn', net')
<1>1. Both(jn', net)
  BY KeepsShared, DropsShared DEF Both, KeepsNotifier, DropsNotifier
<1> QED
  BY <1>1, NetFewer DEF Both

-----------------------------------------------------------------------------
\* What the notifier keeps.
LEMMA HeldDropped == 
  ASSUME DropsNotifier
  PROVE  Held(jn')
  BY DEF DropsNotifier, Held

LEMMA HeldKept ==
  ASSUME Held(jn), KeepsNotifier, jn'.outs # <<>> => jn.outs # <<>> \/ jn.state = "confirmed"
  PROVE  Held(jn')
  BY DEF KeepsNotifier, Held

LEMMA SubscribeHeld ==
  ASSUME TypeOK, Held(jn), RcvSubscribe
  PROVE  Held(jn')
<1>1. PICK m \in net : NewSubscribe(m) \/ UnknownSubscribe(m) \/ SubscribeWithin(m)
  BY DEF RcvSubscribe
<1>2. CASE NewSubscribe(m)
  <2>1. jn'.live /\ jn'.tag = jn.tag + 1 /\ jn'.state = "early" /\ jn'.outs = <<>>
    BY <1>2, NewSubscribeEffect
  <2>2. jn.tag \in Nat
    BY Parts
  <2>3. jn'.tag >= 1
    BY <2>1, <2>2
  <2> QED
    BY <2>1, <2>3 DEF Held
<1>3. CASE UnknownSubscribe(m)
  BY <1>3, UnknownSubscribeEffect
<1>4. CASE SubscribeWithin(m)
  <2>1. /\ jn.live /\ jn.state # "deleted"
        /\ jn' = jn \/ (jn'.live = jn.live /\ jn'.tag = jn.tag /\ jn'.state = jn.state /\ jn'.outs = jn.outs)
    BY <1>4, SubscribeWithinEffect
  <2>2. jn'.live
    BY <2>1
  <2>3. jn'.tag = jn.tag /\ jn'.state = jn.state /\ jn'.outs = jn.outs
    BY <2>1
  <2> QED
    BY <2>1, <2>2, <2>3 DEF Held
<1> QED
  BY <1>1, <1>2, <1>3, <1>4

LEMMA SendAnswerHeld ==
  ASSUME TypeOK, Held(jn), eXosip_insubscription_send_answer
  PROVE  Held(jn')
<1>1. jn.live /\ (Accepts \/ Refuses \/ jn' = jn)
  <2>1. PICK code \in Codes : \E a :
              /\ AnswersWith(code, a)
              /\ \/ code = "2xx" /\ Accepts
                 \/ code = "423" /\ Refuses
                 \/ code = "1xx" /\ jn' = jn
                 \/ code \in {"401", "4xx"} /\ Refuses
    BY SendAnswerEffect
  <2> QED
    BY <2>1, SendAnswerEffect
<1>2. CASE jn' = jn
  BY <1>2
<1>3. CASE Accepts
  <2>1. jn'.live /\ jn'.tag = jn.tag /\ jn'.state = "confirmed"
    BY <1>1, <1>3 DEF Accepts
  <2> QED
    BY <1>1, <2>1 DEF Held
<1>4. CASE Refuses
  <2>1. /\ jn'.live /\ jn'.tag = jn.tag /\ jn'.outs = jn.outs /\ jn'.inc.st = "answered"
        /\ jn'.state = IF jn.state = "early" THEN "deleted" ELSE jn.state
    BY <1>1, <1>4 DEF Refuses
  <2> QED
    BY <1>1, <2>1 DEF Held
<1> QED
  BY <1>1, <1>2, <1>3, <1>4

\* The subscription has at most one dialog.
LEMMA Only ==
  ASSUME TypeOK, Both(jn, net), NEW d \in DOMAIN js.dlgs
  PROVE  /\ d = 1 /\ js.dlgs # <<>> /\ Len(js.dlgs) = 1 /\ DOMAIN js.dlgs = {1}
         /\ DialogOf(js.out, js.dlgs[1], jn.tag) /\ js.dlgs[1] \in Dialogs
<1>1. Len(js.dlgs) <= 1 /\ (js.dlgs # <<>> => DialogOf(js.out, js.dlgs[1], jn.tag))
  BY DEF Both, SharedBy, Dialogue
<1>2. js.dlgs \in Seq(Dialogs) /\ js.dlgs # <<>>
  BY Parts, DialogOfNone
<1>3. d = 1 /\ Len(js.dlgs) = 1 /\ DOMAIN js.dlgs = {1}
  <2> DEFINE k == Len(js.dlgs)
  <2>1. k \in Nat /\ DOMAIN js.dlgs = 1 .. k /\ k <= 1
    BY <1>1, <1>2
  <2> HIDE DEF k
  <2>2. d \in 1 .. k
    BY <2>1
  <2>3. d = 1 /\ k = 1
    BY <2>1, <2>2
  <2>4. 1 .. 1 = {1}
    OBVIOUS
  <2> QED
    BY <2>1, <2>3, <2>4 DEF k
<1> QED
  BY <1>1, <1>2, <1>3

\* Once the first request is accepted its dialog is confirmed.
LEMMA Accepted ==
  ASSUME TypeOK, Both(jn, net), NEW d \in DOMAIN js.dlgs, js.out.resp = "2xx"
  PROVE  js.dlgs[1].state = "confirmed" /\ js.out.st # "trying"
<1>1. DialogOf(js.out, js.dlgs[1], jn.tag) /\ js.dlgs[1].state \in DialogStates
  BY Only DEF Dialogs
<1>2. js.out.st # "trying" /\ ~Turned(js.out)
  BY DEF Both, SharedBy, Dialogue, Turned
<1> QED
  BY <1>1, <1>2 DEF DialogOf, DialogStates

\* A request goes out when the last one is over, which has been accepted then.
LEMMA FinishedAccepted ==
  ASSUME TypeOK, Both(jn, net), NEW d \in DOMAIN js.dlgs, Usable(js.dlgs[d]), Finished(LastOut(js, d))
  PROVE  js.out.resp = "2xx"
<1>1. d = 1 /\ DialogOf(js.out, js.dlgs[1], jn.tag) /\ js.dlgs[1].state \in DialogStates
  BY Only DEF Dialogs
<1>2. CASE js.dlgs[1].outs # <<>>
  BY <1>1, <1>2 DEF DialogOf
<1>3. CASE js.dlgs[1].outs = <<>>
  <2>1. LastOut(js, d) = js.out
    BY <1>1, <1>3 DEF LastOut
  <2>2. js.out.st # "trying"
    BY <2>1 DEF Finished
  <2>3. js.out.resp \notin {"none", "1xx"} /\ js.out.resp \in Codes
    BY <2>2, Parts DEF Both, SharedBy, Dialogue, Transactions
  <2>4. js.dlgs[1].state = "confirmed"
    BY <1>1, <2>2 DEF DialogOf, Usable, DialogStates
  <2>5. ~Turned(js.out)
    BY <1>1, <2>4 DEF DialogOf
  <2> QED
    BY <2>2, <2>3, <2>5 DEF Turned, Codes
<1> QED
  BY <1>2, <1>3

LEMMA LikeSelf == ASSUME NEW o PROVE LikeFirst(o, o)
  BY DEF LikeFirst

LEMMA AddsShared ==
  ASSUME TypeOK, Held(jn), Both(jn, net), NEW d \in DOMAIN js.dlgs, js.out.resp = "2xx",
         NEW tr, New(tr, d), Adds(d, tr), tr.n > js.out.n, js' \in Subscriptions, js'.out = js.out,
         net' = net \cup {Subscribe(tr, js.dlgs[d].tag)}, jn' = jn
  PROVE  Both(jn, net)'
<1> DEFINE o == js.out
           a == Subscribe(tr, js.dlgs[d].tag)
<1>1. /\ d = 1 /\ js.dlgs # <<>> /\ Len(js.dlgs) = 1 /\ DOMAIN js.dlgs = {1}
      /\ DialogOf(o, js.dlgs[1], jn.tag) /\ js.dlgs[1] \in Dialogs
  BY Only
<1>2. js.dlgs[1].state = "confirmed"
  BY Accepted
<1>3. o \in Transactions /\ tr \in Transactions /\ o.n \in Nat
  BY Parts DEF New, Transactions
<1>4. PICK x \in Dialogs :
         /\ Dialog2(d, x) /\ x.tag = js.dlgs[d].tag /\ x.state = js.dlgs[d].state
         /\ x.cseq = js.dlgs[d].cseq + 1
         /\ x.outs = <<tr>> \o js.dlgs[d].outs
  BY DEF Adds
<1> HIDE DEF o
<1>5. x.cseq >= o.n
  <2>1. js.dlgs[1].cseq >= o.n
    BY <1>1 DEF DialogOf
  <2>2. js.dlgs[1].cseq \in Nat
    BY <1>1 DEF Dialogs
  <2> QED
    BY <1>1, <1>3, <1>4, <2>1, <2>2
<1>6. \A i \in DOMAIN x.outs : x.outs[i].n > o.n
  <2> DEFINE outs == js.dlgs[1].outs
             t == <<tr>> \o outs
  <2>1. outs \in Seq(Transactions)
    BY <1>1 DEF Dialogs
  <2>2. t[1] = tr /\ \A i \in DOMAIN t : i = 1 \/ (i - 1 \in DOMAIN outs /\ t[i] = outs[i - 1])
    BY <1>3, <2>1, Prepended
  <2>3. \A i \in DOMAIN outs : outs[i].n > o.n
    BY <1>1 DEF DialogOf
  <2>4. x.outs = t
    BY <1>1, <1>4
  <2>5. tr.n > o.n
    BY DEF o
  <2> HIDE DEF t, outs
  <2> QED
    BY <2>2, <2>3, <2>4, <2>5
<1>7. LikeDialog(x, js.dlgs[1], o)
  BY <1>1, <1>2, <1>4, <1>5, <1>6 DEF LikeDialog, o
<1>8. LikeAll(js'.dlgs, js.dlgs, o)
  <2>1. js'.dlgs \in Seq(Dialogs) /\ Len(js'.dlgs) = 1 /\ js'.dlgs[1] = x
    BY <1>1, <1>4 DEF Dialog2
  <2>2. js'.dlgs # <<>>
    BY <2>1
  <2> QED
    BY <1>1, <1>7, <2>1, <2>2 DEF LikeAll
<1>9. SharedBy(o, js'.dlgs, jn, net)
  BY <1>8, LikeSelf, LikeShared DEF Both, o
<1>10. /\ a \in Messages /\ a.kind = "SUBSCRIBE" /\ a.n = tr.n /\ a.tag = js.dlgs[d].tag
  BY <1>3, TagTyped, SubscribeTyped
<1> HIDE DEF a
<1>11. a.tag # 0
  <2>1. a.tag = jn.tag /\ jn.tag >= 1 /\ jn.tag \in Nat
    BY <1>1, <1>10, Parts DEF DialogOf
  <2> QED
    BY <2>1
<1>12. Apart(a, o, jn)
  BY <1>10, <1>11 DEF Apart, o
<1>13. SharedBy(o, js'.dlgs, jn, net \cup {a})
  BY <1>3, <1>9, <1>10, <1>12, MoreShared
<1> QED
  BY <1>13 DEF Both, a, o

LEMMA RefreshShared ==
  ASSUME TypeOK, Held(jn), Both(jn, net), NEW d \in DOMAIN js.dlgs, NEW e \in Nat, SendRefresh(d, e), jn' = jn
  PROVE  Both(jn, net)'
<1>1. PICK tr : /\ New(tr, d) /\ tr.n = js.dlgs[d].cseq + 1
                /\ Adds(d, tr)
                /\ js'.out = js.out
                /\ js' \in Subscriptions
                /\ Usable(js.dlgs[d]) /\ Finished(LastOut(js, d))
                /\ net' = net \cup {Subscribe(tr, js.dlgs[d].tag)}
  BY SendRefreshEffect
<1>2. js.out.resp = "2xx"
  BY <1>1, FinishedAccepted
<1>3. tr.n > js.out.n
  <2>1. js.dlgs[d].cseq >= js.out.n
    BY Only DEF DialogOf
  <2>2. js.dlgs[d].cseq \in Nat /\ js.out.n \in Nat
    BY TagTyped, Parts DEF Transactions
  <2> QED
    BY <1>1, <2>1, <2>2
<1> QED
  BY <1>1, <1>2, <1>3, AddsShared

LEMMA RetryInShared ==
  ASSUME TypeOK, Held(jn), Both(jn, net), NEW d \in DOMAIN js.dlgs, RetriesIn(d), SendWithCredential(d), jn' = jn
  PROVE  Both(jn, net)'
<1> DEFINE last == LastOut(js, d)
<1>1. PICK tr : /\ New(tr, d) /\ tr.n = LastOut(js, d).n + 1
                /\ js' \in Subscriptions
                /\ net' = net \cup {Subscribe(tr, js.dlgs[d].tag)}
                /\ IF js.dlgs[d].outs = <<>>
                    THEN /\ js'.out = tr /\ replaced' = replaced \cup {js.out}
                         /\ \E x \in Dialogs : Dialog2(d, x) /\ x.outs = <<>>
                    ELSE js'.out = js.out /\ replaced' = replaced /\ Adds(d, tr)
  BY RetryInEffect
<1>2. Usable(js.dlgs[d]) /\ Finished(last) /\ last.resp = "401"
  BY DEF RetriesIn, Challenged
<1>3. js.out.resp = "2xx"
  BY <1>2, FinishedAccepted
<1>4. js.dlgs[d].outs # <<>> /\ last = js.dlgs[d].outs[1]
  BY <1>2, <1>3, Parts DEF LastOut
<1>5. last.n > js.out.n
  <2>1. js.dlgs[d].outs \in Seq(Transactions)
    BY TagTyped
  <2>2. 1 \in DOMAIN js.dlgs[d].outs
    BY <1>4, <2>1
  <2>3. \A i \in DOMAIN js.dlgs[d].outs : js.dlgs[d].outs[i].n > js.out.n
    BY Only DEF DialogOf
  <2> QED
    BY <1>4, <2>2, <2>3
<1>6. last.n \in Nat /\ js.out.n \in Nat
  BY LastOutTyped, Parts DEF Transactions
<1> HIDE DEF last
<1>7. tr.n > js.out.n
  <2>1. tr.n = last.n + 1
    BY <1>1 DEF last
  <2> QED
    BY <1>5, <1>6, <2>1
<1> QED
  BY <1>1, <1>3, <1>4, <1>7, AddsShared

LEMMA RetryFirstShared ==
  ASSUME TypeOK, Both(jn, net), RetriesInitial, SendWithCredential(0), jn' = jn
  PROVE  Both(jn, net)'
<1>1. PICK tr : /\ New(tr, 0) /\ tr.n = js.out.n + 1
                /\ js'.out = tr /\ js'.dlgs = js.dlgs
                /\ net' = net \cup {Subscribe(tr, 0)}
  BY RetryFirstEffect
<1>2. js.dlgs = <<>> /\ Turned(js.out)
  BY DEF RetriesInitial, Challenged, Turned, Finished
<1> DEFINE a == Subscribe(tr, 0)
<1>3. a.kind = "SUBSCRIBE" /\ a.tag = 0 /\ a.n = tr.n
  BY <1>1, SubscribeTyped DEF New
<1> HIDE DEF a
<1>4. js.out \in Transactions /\ net \subseteq Messages
  BY Parts DEF TypeOK
<1>5. tr.st = "trying" /\ tr.resp = "none" /\ tr.jd = 0
  BY <1>1 DEF New
<1>6. SharedBy(tr, js.dlgs, jn, net \cup {a})
  BY <1>1, <1>2, <1>3, <1>4, <1>5, AgainShared DEF Both
<1> QED
  BY <1>1, <1>6 DEF Both, a

LEMMA OneIsSome ==
  ASSUME NEW s \in Seq(Dialogs), Len(s) = 1
  PROVE  s # <<>>
<1>1. DOMAIN s = 1 .. 1 /\ 1 \in DOMAIN s
  OBVIOUS
<1> DEFINE e == <<>>
<1>2. DOMAIN e = {}
  OBVIOUS
<1> HIDE DEF e
<1>3. s # e
  BY <1>1, <1>2
<1> QED
  BY <1>3 DEF e

LEMMA LikeShared2 ==
  ASSUME TypeOK, Both(jn, net), LikeFirst(js'.out, js.out), LikeAll(js'.dlgs, js.dlgs, js.out),
         net' \subseteq net, jn' = jn
  PROVE  Both(jn, net)'
<1>1. SharedBy(js'.out, js'.dlgs, jn, net)
  BY LikeShared DEF Both
<1>2. SharedBy(js'.out, js'.dlgs, jn, net')
  BY <1>1, NetFewer
<1> QED
  BY <1>2 DEF Both

\* The only dialog changes in its later requests.
LEMMA LikeOnly ==
  ASSUME TypeOK, Both(jn, net), NEW t \in Seq(Dialogs), Len(t) = Len(js.dlgs), js.dlgs # <<>>,
         LikeDialog(t[1], js.dlgs[1], js.out)
  PROVE  LikeAll(t, js.dlgs, js.out)
<1>1. js.dlgs \in Seq(Dialogs)
  BY Parts
<1>2. t # <<>>
  BY <1>1
<1> QED
  BY <1>2 DEF LikeAll

\* A later request is answered, or is over.
LEMMA TookShared ==
  ASSUME TypeOK, Both(jn, net), NEW tr \in TransactionsOf(js), tr # js.out,
         NEW s \in Subscriptions, s.out = js.out, Len(s.dlgs) = Len(js.dlgs),
         \A d \in DOMAIN js.dlgs : /\ s.dlgs[d].tag = js.dlgs[d].tag /\ s.dlgs[d].cseq = js.dlgs[d].cseq
                                   /\ s.dlgs[d].outs = js.dlgs[d].outs
                                   /\ js.dlgs[d].state = "confirmed" => s.dlgs[d].state = "confirmed",
         NEW now, now.n = tr.n, now.jd = tr.jd, Takes(js', s, now), js' \in Subscriptions
  PROVE  js'.out = js.out /\ LikeAll(js'.dlgs, js.dlgs, js.out)
<1> DEFINE o == js.out
<1>1. /\ tr \in Transactions /\ tr.jd \in DOMAIN js.dlgs
      /\ \E i \in DOMAIN js.dlgs[tr.jd].outs : js.dlgs[tr.jd].outs[i] = tr
  BY TransactionsAre
<1>2. /\ tr.jd = 1 /\ js.dlgs # <<>> /\ Len(js.dlgs) = 1 /\ DOMAIN js.dlgs = {1}
      /\ DialogOf(o, js.dlgs[1], jn.tag) /\ js.dlgs[1] \in Dialogs
  BY <1>1, Only
<1>3. tr.n > o.n /\ o.n \in Nat /\ tr.n \in Nat
  <2>1. \A i \in DOMAIN js.dlgs[1].outs : js.dlgs[1].outs[i].n > o.n
    BY <1>2 DEF DialogOf
  <2>2. tr.n > o.n
    BY <1>1, <1>2, <2>1
  <2> QED
    BY <1>1, <2>2, Parts DEF Transactions
<1>4. o.n # tr.n
  BY <1>3
<1> DEFINE u == s.dlgs[1]
           v == js'.dlgs[1]
<1>5. /\ js'.out = s.out /\ Len(js'.dlgs) = Len(s.dlgs)
      /\ v.tag = u.tag /\ v.state = u.state /\ v.cseq = u.cseq
      /\ \E i \in DOMAIN u.outs : u.outs[i].n = now.n /\ v.outs = [u.outs EXCEPT ![i] = now]
  BY <1>2, <1>4 DEF Takes
<1>6. js.dlgs[1].outs # <<>>
  <2> DEFINE e == <<>>
  <2>1. DOMAIN e = {}
    OBVIOUS
  <2> HIDE DEF e
  <2>2. js.dlgs[1].outs # e
    BY <1>1, <1>2, <2>1
  <2> QED
    BY <2>2 DEF e
<1>7. o.resp = "2xx"
  BY <1>2, <1>6 DEF DialogOf
<1>8. js.dlgs[1].state = "confirmed"
  BY <1>1, <1>7, Accepted
<1>9. u.tag = js.dlgs[1].tag /\ u.cseq = js.dlgs[1].cseq /\ u.outs = js.dlgs[1].outs /\ u.state = "confirmed"
  BY <1>2, <1>8
<1>10. \A i \in DOMAIN js.dlgs[1].outs : js.dlgs[1].outs[i].n > o.n
  BY <1>2 DEF DialogOf
<1>11. js.dlgs[1].cseq >= o.n
  BY <1>2 DEF DialogOf
<1> HIDE DEF o, u, v
<1>12. \A i \in DOMAIN v.outs : v.outs[i].n > o.n
  <2>1. PICK i \in DOMAIN u.outs : v.outs = [u.outs EXCEPT ![i] = now]
    BY <1>5
  <2>2. \A k \in DOMAIN v.outs : k \in DOMAIN u.outs /\ v.outs[k] = IF k = i THEN now ELSE u.outs[k]
    BY <2>1
  <2>3. now.n > o.n
    BY <1>3
  <2>4. \A k \in DOMAIN u.outs : u.outs[k].n > o.n
    BY <1>9, <1>10
  <2> QED
    BY <2>2, <2>3, <2>4
<1>13. LikeDialog(v, js.dlgs[1], o)
  BY <1>5, <1>7, <1>8, <1>9, <1>11, <1>12 DEF LikeDialog
<1>14. js'.dlgs \in Seq(Dialogs) /\ Len(js'.dlgs) = Len(js.dlgs)
  BY <1>5 DEF Subscriptions
<1> QED
  BY <1>2, <1>5, <1>13, <1>14, LikeOnly DEF o, v

LEMMA AnswerShared ==
  ASSUME TypeOK, Both(jn, net), RcvAnswer
  PROVE  Both(jn, net)'
<1>1. PICK m \in net, tr \in TransactionsOf(js) :
         /\ m.kind = "to SUBSCRIBE" /\ m.n = tr.n /\ tr.st = "trying"
         /\ js'.live = js.live /\ js' \in Subscriptions
         /\ IF m.code \in {"1xx", "2xx"} THEN \E now : AcceptedBy(m, tr, now)
            ELSE RefusedBy(m, tr, Now(tr, m))
         /\ net' = net \ {m}
         /\ seen' = IF m.code = "2xx" THEN [seen EXCEPT !.confirmed = TRUE] ELSE seen
         /\ UNCHANGED <<replaced, jn, stranded, trouble>>
  BY RcvAnswerEffect
<1> DEFINE o == js.out
<1>2. jn' = jn /\ net' \subseteq net
  BY <1>1
<1>3. o \in Transactions /\ js.dlgs \in Seq(Dialogs) /\ js'.dlgs \in Seq(Dialogs)
  BY <1>1, Parts DEF Subscriptions
<1>4. OnItsWay(m, o, js.dlgs, jn, net)
  BY DEF Both, SharedBy
<1>5. CASE tr = js.out
  <2>1. ToFirst(m, o)
    BY <1>1, <1>5 DEF ToFirst
  <2>2. CASE m.code \in {"1xx", "2xx"}
    <3>1. PICK now : AcceptedBy(m, tr, now)
      BY <1>1, <2>2
    <3>2. PICK s \in Subscriptions :
            /\ Takes(js', s, now) /\ s.out = js.out
            /\ \A d \in DOMAIN js.dlgs :
                 /\ s.dlgs[d].tag = js.dlgs[d].tag /\ s.dlgs[d].cseq = js.dlgs[d].cseq
                 /\ s.dlgs[d].outs = js.dlgs[d].outs
                 /\ s.dlgs[d].state = IF d = now.jd /\ m.code # "1xx" THEN "confirmed" ELSE js.dlgs[d].state
            /\ \/ /\ tr.jd = 0 /\ NoneHas(m.tag)
                  /\ now.jd = Len(js.dlgs) + 1 /\ Len(s.dlgs) = now.jd
                  /\ LET x == s.dlgs[now.jd]
                     IN /\ x.tag = m.tag /\ x.cseq = tr.n /\ x.outs = <<>>
                        /\ x.state = IF m.code = "1xx" THEN "early" ELSE "confirmed"
               \/ /\ now.jd \in DOMAIN js.dlgs /\ Len(s.dlgs) = Len(js.dlgs)
                  /\ IF tr.jd # 0 THEN now.jd = tr.jd ELSE js.dlgs[now.jd].tag = m.tag
      BY <3>1 DEF AcceptedBy
    <3>3. now.n = o.n /\ now.resp = m.code /\ now.st = IF m.code = "2xx" THEN "completed" ELSE o.st
      BY <1>5, <2>2, <3>1 DEF AcceptedBy, Final
    <3>4. js'.out = now /\ js'.dlgs = s.dlgs
      BY <3>2, <3>3 DEF Takes
    <3>5. m.tag = jn.tag
      BY <1>4, <2>1, <2>2 DEF OnItsWay, Refusal
    <3>6. CASE js.dlgs = <<>>
      <4>1. Len(js.dlgs) = 0 /\ DOMAIN js.dlgs = {}
        BY <3>6
      <4>2. now.jd = 1 /\ Len(s.dlgs) = 1
        <5> DEFINE k == Len(js.dlgs)
        <5>1. k = 0
          BY <4>1
        <5>2. now.jd = k + 1 /\ Len(s.dlgs) = now.jd
          BY <3>2, <4>1
        <5> HIDE DEF k
        <5> QED
          BY <5>1, <5>2
      <4>3. s.dlgs[1].tag = m.tag /\ s.dlgs[1].cseq = o.n /\ s.dlgs[1].outs = <<>>
            /\ s.dlgs[1].state = IF m.code = "1xx" THEN "early" ELSE "confirmed"
        BY <1>5, <3>2, <4>1, <4>2
      <4>4. js'.dlgs # <<>>
        BY <1>3, <3>4, <4>2, OneIsSome
      <4>5. Made(m, o, js'.out, js'.dlgs)
        BY <3>3, <3>4, <4>2, <4>3, <4>4 DEF Made
      <4>6. SharedBy(js'.out, js'.dlgs, jn, net \ {m})
        BY <1>1, <1>3, <1>5, <2>1, <2>2, <3>6, <4>5, AcceptedShared DEF Both
      <4> QED
        BY <1>1, <4>6 DEF Both
    <3>7. CASE js.dlgs # <<>>
      <4>1. 1 \in DOMAIN js.dlgs
        BY <1>3, <3>7
      <4>2. /\ Len(js.dlgs) = 1 /\ DOMAIN js.dlgs = {1} /\ DialogOf(o, js.dlgs[1], jn.tag)
        BY <4>1, Only
      <4>3. ~NoneHas(m.tag)
        BY <3>5, <4>1, <4>2 DEF NoneHas, DialogOf
      <4>4. now.jd = 1 /\ Len(s.dlgs) = 1
        BY <3>2, <4>2, <4>3
      <4>5. /\ s.dlgs[1].tag = js.dlgs[1].tag /\ s.dlgs[1].cseq = js.dlgs[1].cseq
            /\ s.dlgs[1].outs = js.dlgs[1].outs
            /\ s.dlgs[1].state = IF m.code # "1xx" THEN "confirmed" ELSE js.dlgs[1].state
        BY <3>2, <4>1, <4>4
      <4>6. js'.dlgs # <<>>
        BY <1>3, <3>4, <4>4, OneIsSome
      <4>7. FoundAgain(m, o, js.dlgs, js'.out, js'.dlgs)
        BY <3>3, <3>4, <4>4, <4>5, <4>6 DEF FoundAgain
      <4>8. SharedBy(js'.out, js'.dlgs, jn, net \ {m})
        BY <1>1, <1>3, <1>5, <2>1, <2>2, <3>7, <4>7, AcceptedShared DEF Both
      <4> QED
        BY <1>1, <4>8 DEF Both
    <3> QED
      BY <3>6, <3>7
  <2>3. CASE m.code \notin {"1xx", "2xx"}
    <3> DEFINE now == Now(tr, m)
    <3>1. RefusedBy(m, tr, now)
      BY <1>1, <2>3
    <3> HIDE DEF now
    <3>2. PICK s \in Subscriptions :
            /\ Takes(js', s, now) /\ s.out = js.out /\ Len(s.dlgs) = Len(js.dlgs)
            /\ \A d \in DOMAIN js.dlgs :
                 /\ s.dlgs[d].tag = js.dlgs[d].tag /\ s.dlgs[d].cseq = js.dlgs[d].cseq
                 /\ s.dlgs[d].outs = js.dlgs[d].outs
                 /\ s.dlgs[d].state = IF d = tr.jd /\ js.dlgs[d].state = "early" THEN "deleted"
                                      ELSE js.dlgs[d].state
      BY <3>1 DEF RefusedBy
    <3>3. Refusal(m.code) /\ m.code \in Final
      <4>1. m.code # "none" /\ m.code \in Codes
        BY <1>1, <1>4, MessageTyped DEF OnItsWay
      <4> QED
        BY <2>3, <4>1 DEF Codes, Refusal, Final
    <3>4. now.n = o.n /\ now.resp = m.code /\ now.st = "completed" /\ now.jd = o.jd
      BY <1>5, <3>1, <3>3 DEF RefusedBy
    <3>5. js'.out = now /\ js'.dlgs = s.dlgs
      BY <3>2, <3>4 DEF Takes
    <3>6. Len(js'.dlgs) = Len(js.dlgs) /\ (js'.dlgs = <<>> <=> js.dlgs = <<>>)
      BY <1>3, <3>2, <3>5
    <3>7. js.dlgs # <<>> =>
            /\ js'.dlgs[1].tag = js.dlgs[1].tag /\ js'.dlgs[1].cseq = js.dlgs[1].cseq
            /\ js'.dlgs[1].outs = js.dlgs[1].outs
            /\ js.dlgs[1].state = "early" /\ o.jd = 1 => js'.dlgs[1].state = "deleted"
      <4>1. js.dlgs # <<>> => 1 \in DOMAIN js.dlgs
        BY <1>3
      <4> QED
        BY <1>5, <3>2, <3>5, <4>1
    <3>8. o.st = "trying"
      BY <1>1, <1>5
    <3> HIDE DEF o
    <3>9. SharedBy(o, js.dlgs, jn, net)
      BY DEF Both, o
    <3>10. SharedBy(js'.out, js'.dlgs, jn, net \ {m})
      BY <1>3, <2>1, <3>3, <3>4, <3>5, <3>6, <3>7, <3>8, <3>9, RefusedShared
    <3> QED
      BY <1>1, <3>10 DEF Both
  <2> QED
    BY <2>2, <2>3
<1>6. CASE tr # js.out
  <2>0. tr.jd \in DOMAIN js.dlgs /\ tr.jd # 0
    BY <1>6, TransactionsAre, Parts
  <2>1. js'.out = js.out /\ LikeAll(js'.dlgs, js.dlgs, js.out)
    <3>1. CASE m.code \in {"1xx", "2xx"}
      <4>1. PICK now : AcceptedBy(m, tr, now)
        BY <1>1, <3>1
      <4>2. PICK s \in Subscriptions :
              /\ Takes(js', s, now) /\ s.out = js.out
              /\ \A d \in DOMAIN js.dlgs :
                   /\ s.dlgs[d].tag = js.dlgs[d].tag /\ s.dlgs[d].cseq = js.dlgs[d].cseq
                   /\ s.dlgs[d].outs = js.dlgs[d].outs
                   /\ s.dlgs[d].state = IF d = now.jd /\ m.code # "1xx" THEN "confirmed" ELSE js.dlgs[d].state
              /\ now.jd = tr.jd /\ Len(s.dlgs) = Len(js.dlgs)
        <5>1. PICK s \in Subscriptions :
               /\ Takes(js', s, now) /\ s.out = js.out
               /\ \A d \in DOMAIN js.dlgs :
                    /\ s.dlgs[d].tag = js.dlgs[d].tag /\ s.dlgs[d].cseq = js.dlgs[d].cseq
                    /\ s.dlgs[d].outs = js.dlgs[d].outs
                    /\ s.dlgs[d].state = IF d = now.jd /\ m.code # "1xx" THEN "confirmed" ELSE js.dlgs[d].state
               /\ \/ /\ tr.jd = 0 /\ NoneHas(m.tag)
                     /\ now.jd = Len(js.dlgs) + 1 /\ Len(s.dlgs) = now.jd
                     /\ LET x == s.dlgs[now.jd]
                        IN /\ x.tag = m.tag /\ x.cseq = tr.n /\ x.outs = <<>>
                           /\ x.state = IF m.code = "1xx" THEN "early" ELSE "confirmed"
                  \/ /\ now.jd \in DOMAIN js.dlgs /\ Len(s.dlgs) = Len(js.dlgs)
                     /\ IF tr.jd # 0 THEN now.jd = tr.jd ELSE js.dlgs[now.jd].tag = m.tag
          BY <4>1 DEF AcceptedBy
        <5>2. now.jd = tr.jd /\ Len(s.dlgs) = Len(js.dlgs)
          BY <2>0, <5>1
        <5> QED
          BY <5>1, <5>2
      <4>3. now.n = tr.n
        BY <4>1 DEF AcceptedBy
      <4>4. \A d \in DOMAIN js.dlgs : js.dlgs[d].state = "confirmed" => s.dlgs[d].state = "confirmed"
        BY <4>2
      <4> QED
        BY <1>1, <1>6, <4>2, <4>3, <4>4, TookShared
    <3>2. CASE m.code \notin {"1xx", "2xx"}
      <4> DEFINE now == Now(tr, m)
      <4>1. RefusedBy(m, tr, now)
        BY <1>1, <3>2
      <4> HIDE DEF now
      <4>2. PICK s \in Subscriptions :
              /\ Takes(js', s, now) /\ s.out = js.out /\ Len(s.dlgs) = Len(js.dlgs)
              /\ \A d \in DOMAIN js.dlgs :
                   /\ s.dlgs[d].tag = js.dlgs[d].tag /\ s.dlgs[d].cseq = js.dlgs[d].cseq
                   /\ s.dlgs[d].outs = js.dlgs[d].outs
                   /\ s.dlgs[d].state = IF d = tr.jd /\ js.dlgs[d].state = "early" THEN "deleted"
                                        ELSE js.dlgs[d].state
        BY <4>1 DEF RefusedBy
      <4>3. now.n = tr.n /\ now.jd = tr.jd
        BY <4>1 DEF RefusedBy
      <4>4. \A d \in DOMAIN js.dlgs : js.dlgs[d].state = "confirmed" => s.dlgs[d].state = "confirmed"
        BY <4>2
      <4> QED
        BY <1>1, <1>6, <4>2, <4>3, <4>4, TookShared
    <3> QED
      BY <3>1, <3>2
  <2>2. LikeFirst(js'.out, js.out)
    BY <2>1, LikeSelf
  <2> QED
    BY <1>2, <2>1, <2>2, LikeShared2
<1> QED
  BY <1>5, <1>6

LEMMA NotifiedShared ==
  ASSUME TypeOK, Both(jn, net), NEW m \in net, m.kind = "NOTIFY", NotifiedBy(m), js'.live,
         net' = (net \ {m}) \cup {Answer(m, "2xx", m.tag, 0)}, jn' = jn
  PROVE  Both(jn, net)'
<1> DEFINE o == js.out
           n2 == (net \ {m}) \cup {Answer(m, "2xx", m.tag, 0)}
<1>1. "2xx" \in Codes /\ o \in Transactions
  BY Parts DEF Codes
<1>2. Both(jn, n2)
  BY <1>1, AnsweredShared
<1>3. m.tag = jn.tag /\ jn.tag >= 1 /\ ~Turned(o)
  BY DEF Both, SharedBy, OnItsWay
<1>4. /\ js' \in Subscriptions /\ js'.out = js.out
      /\ \/ js'.dlgs = js.dlgs
         \/ /\ \A d \in DOMAIN js.dlgs : js.dlgs[d].tag = m.tag => ~Usable(js.dlgs[d])
            /\ \E x \in Dialogs : /\ js'.dlgs = Append(js.dlgs, x)
                                  /\ x.tag = m.tag /\ x.state = "confirmed" /\ x.cseq = js.out.n
                                  /\ x.outs = <<>>
  BY FreedTyped DEF NotifiedBy
<1>5. CASE js'.dlgs = js.dlgs
  BY <1>2, <1>4, <1>5 DEF Both
<1>6. CASE js'.dlgs # js.dlgs
  <2>1. PICK x \in Dialogs : /\ js'.dlgs = Append(js.dlgs, x)
                             /\ x.tag = m.tag /\ x.state = "confirmed" /\ x.cseq = js.out.n
                             /\ x.outs = <<>>
    BY <1>4, <1>6
  <2>2. js.dlgs = <<>>
    <3> SUFFICES ASSUME js.dlgs # <<>> PROVE FALSE
      OBVIOUS
    <3>1. 1 \in DOMAIN js.dlgs
      BY Parts
    <3>2. DialogOf(o, js.dlgs[1], jn.tag)
      BY <3>1, Only
    <3>3. js.dlgs[1].state = "deleted"
      BY <1>3, <1>4, <1>6, <3>1, <3>2 DEF DialogOf, Usable
    <3> QED
      BY <1>3, <3>2, <3>3 DEF DialogOf
  <2>3. Len(js'.dlgs) = 1 /\ js'.dlgs[1] = x
    BY <2>1, <2>2
  <2>4. js'.dlgs # <<>>
    BY <1>4, <2>3, OneIsSome DEF Subscriptions
  <2>5. SharedBy(o, js'.dlgs, jn, net)
    BY <1>1, <2>1, <2>2, <2>3, <2>4, NotifyShared DEF Both
  <2> DEFINE a == Answer(m, "2xx", m.tag, 0)
  <2>6. a \in Messages /\ a.kind = "to NOTIFY"
    BY <1>1, AnswerSays
  <2> HIDE DEF a
  <2>7. Apart(a, o, jn)
    BY <2>6 DEF Apart
  <2>8. SharedBy(o, js'.dlgs, jn, net \ {m})
    <3>1. net \ {m} \subseteq net
      OBVIOUS
    <3> QED
      BY <2>5, <3>1, NetFewer
  <2>9. SharedBy(o, js'.dlgs, jn, (net \ {m}) \cup {a})
    BY <1>1, <2>6, <2>7, <2>8, MoreShared
  <2> QED
    BY <1>4, <2>9 DEF Both, a
<1> QED
  BY <1>5, <1>6

LEMMA KillShared ==
  ASSUME TypeOK, Both(jn, net), KillSubscribe, js'.live
  PROVE  Both(jn, net)'
<1>1. PICK tr \in TransactionsOf(js) :
           /\ Overdue(tr) \/ tr.st = "completed"
           /\ \/ KillFrees(tr) /\ js' = Freed
              \/ /\ ~KillFrees(tr)
                 /\ \E now : Over2(tr, now) /\ Takes(js', js, now)
                 /\ js'.live = js.live /\ js' \in Subscriptions
           /\ UNCHANGED <<replaced, jn, stranded, net, trouble, seen>>
  BY KillSubscribeEffect
<1>2. ~KillFrees(tr) /\ (\E now : Over2(tr, now) /\ Takes(js', js, now)) /\ js' \in Subscriptions
  BY <1>1, FreedTyped
<1>3. PICK now : Over2(tr, now) /\ Takes(js', js, now)
  BY <1>2
<1>4. tr.resp \notin {"none", "1xx"}
  BY <1>2 DEF KillFrees
<1>5. now.n = tr.n /\ now.jd = tr.jd /\ now.resp = tr.resp /\ now.st = "terminated"
  BY <1>3 DEF Over2
<1>6. jn' = jn /\ net' \subseteq net
  BY <1>1
<1>7. CASE tr = js.out
  <2>1. js'.out = now /\ js'.dlgs = js.dlgs
    BY <1>3, <1>5, <1>7 DEF Takes
  <2>2. js.out.st # "trying"
    BY <1>4, <1>7 DEF Both, SharedBy, Dialogue
  <2>3. LikeFirst(js'.out, js.out)
    BY <1>5, <1>7, <2>1, <2>2 DEF LikeFirst
  <2>4. Both(jn, net) /\ LikeAll(js.dlgs, js.dlgs, js.out)
    <3>1. js.dlgs # <<>> => LikeDialog(js.dlgs[1], js.dlgs[1], js.out)
      <4> SUFFICES ASSUME js.dlgs # <<>> PROVE LikeDialog(js.dlgs[1], js.dlgs[1], js.out)
        OBVIOUS
      <4>1. 1 \in DOMAIN js.dlgs
        BY Parts
      <4>2. DialogOf(js.out, js.dlgs[1], jn.tag)
        BY <4>1, Only
      <4>3. js.dlgs[1].outs # <<>> => js.out.resp = "2xx" /\ js.dlgs[1].state = "confirmed"
        BY <4>1, <4>2, Accepted DEF DialogOf
      <4> QED
        BY <4>2, <4>3 DEF DialogOf, LikeDialog
    <3> QED
      BY <3>1 DEF LikeAll
  <2> QED
    BY <1>6, <2>1, <2>3, <2>4, LikeShared2
<1>8. CASE tr # js.out
  <2>1. js \in Subscriptions
    BY DEF TypeOK
  <2>2. js'.out = js.out /\ LikeAll(js'.dlgs, js.dlgs, js.out)
    BY <1>2, <1>3, <1>5, <1>8, <2>1, TookShared
  <2> QED
    BY <1>6, <2>2, LikeSelf, LikeShared2
<1> QED
  BY <1>7, <1>8

\* Dialogs whose later requests are among those they had.
LEMMA MappedShared ==
  ASSUME TypeOK, Both(jn, net), NEW new, DialogsMapped(js'.dlgs, new),
         \A d \in DOMAIN js.dlgs : /\ new[d] = <<>> <=> js.dlgs[d].outs = <<>>
                                   /\ \A i \in DOMAIN new[d] : \E k \in DOMAIN js.dlgs[d].outs :
                                         new[d][i].n = js.dlgs[d].outs[k].n
  PROVE  LikeAll(js'.dlgs, js.dlgs, js.out)
<1>1. js.dlgs \in Seq(Dialogs) /\ js'.dlgs \in Seq(Dialogs) /\ Len(js'.dlgs) = Len(js.dlgs)
  BY Parts DEF DialogsMapped
<1>2. CASE js.dlgs = <<>>
  <2>1. js'.dlgs = <<>>
    BY <1>1, <1>2
  <2> QED
    BY <1>1, <1>2, <2>1 DEF LikeAll
<1>3. CASE js.dlgs # <<>>
  <2>1. 1 \in DOMAIN js.dlgs
    BY <1>1, <1>3
  <2>2. DialogOf(js.out, js.dlgs[1], jn.tag)
    BY <2>1, Only
  <2>3. js.dlgs[1].outs # <<>> => js.out.resp = "2xx" /\ js.dlgs[1].state = "confirmed"
    BY <2>1, <2>2, Accepted DEF DialogOf
  <2> DEFINE d == js.dlgs[1]
             e == js'.dlgs[1]
             o == js.out
  <2>4. /\ e.tag = d.tag /\ e.state = d.state /\ e.cseq = d.cseq
        /\ e.outs = <<>> <=> d.outs = <<>>
        /\ \A i \in DOMAIN e.outs : \E k \in DOMAIN d.outs : e.outs[i].n = d.outs[k].n
    BY <2>1 DEF DialogsMapped
  <2>5. d.cseq >= o.n /\ (\A i \in DOMAIN d.outs : d.outs[i].n > o.n)
    BY <2>2 DEF DialogOf
  <2> HIDE DEF d, e, o
  <2>6. \A i \in DOMAIN e.outs : e.outs[i].n > o.n
    BY <2>4, <2>5
  <2>7. LikeDialog(e, d, o)
    BY <2>3, <2>4, <2>5, <2>6 DEF LikeDialog, d, o
  <2> QED
    BY <1>1, <1>3, <2>7, LikeOnly DEF d, e, o
<1> QED
  BY <1>2, <1>3

LEMMA ReleaseShared ==
  ASSUME TypeOK, Both(jn, net), ReleaseSubscription, js'.live
  PROVE  Both(jn, net)'
<1>1. /\ \/ Releases /\ js' = Freed
         \/ /\ js.live /\ js'.live /\ js'.period = js.period /\ js'.out = js.out /\ js' \in Subscriptions
            /\ \E new : /\ DialogsMapped(js'.dlgs, new)
                        /\ \A d \in DOMAIN js.dlgs : Fewer(new[d], js.dlgs[d].outs)
      /\ UNCHANGED <<replaced, jn, stranded, net, trouble, seen>>
  BY ReleaseEffect
<1>2. PICK new : DialogsMapped(js'.dlgs, new) /\ \A d \in DOMAIN js.dlgs : Fewer(new[d], js.dlgs[d].outs)
  BY <1>1, FreedTyped
<1>3. js'.out = js.out /\ jn' = jn /\ net' \subseteq net
  BY <1>1, FreedTyped
<1>4. \A d \in DOMAIN js.dlgs : /\ new[d] = <<>> <=> js.dlgs[d].outs = <<>>
                                /\ \A i \in DOMAIN new[d] : \E k \in DOMAIN js.dlgs[d].outs :
                                         new[d][i].n = js.dlgs[d].outs[k].n
  BY <1>2 DEF Fewer
<1>5. LikeAll(js'.dlgs, js.dlgs, js.out)
  BY <1>2, <1>4, MappedShared
<1> QED
  BY <1>3, <1>5, LikeSelf, LikeShared2

\* The dialogs of the subscriber with older transactions.
GrownIn(new) == \A d \in DOMAIN js.dlgs :
    /\ DOMAIN new[d] = DOMAIN js.dlgs[d].outs
    /\ Len(new[d]) = Len(js.dlgs[d].outs)
    /\ \A i \in DOMAIN js.dlgs[d].outs : Grown(new[d][i], js.dlgs[d].outs[i])

LEMMA GrownSome ==
  ASSUME TypeOK, NEW new, DialogsMapped(js'.dlgs, new), GrownIn(new), NEW d \in DOMAIN js.dlgs
  PROVE  /\ new[d] = <<>> <=> js.dlgs[d].outs = <<>>
         /\ js.dlgs[d].outs # <<>> => 1 \in DOMAIN js.dlgs[d].outs
         /\ DOMAIN new[d] = DOMAIN js.dlgs[d].outs
         /\ \A i \in DOMAIN js.dlgs[d].outs : Grown(new[d][i], js.dlgs[d].outs[i])
<1> DEFINE s == new[d]
           t == js.dlgs[d].outs
           d2 == js'.dlgs[d]
<1>1. t \in Seq(Transactions)
  BY TagTyped
<1>2. d2.outs = s /\ js'.dlgs \in Seq(Dialogs) /\ Len(js'.dlgs) = Len(js.dlgs)
  BY DEF DialogsMapped
<1>3. d2 \in Dialogs
  <2>1. d \in DOMAIN js'.dlgs
    BY <1>2, Parts
  <2> QED
    BY <1>2, <2>1
<1>4. s \in Seq(Transactions)
  BY <1>2, <1>3 DEF Dialogs
<1>5. Len(s) = Len(t) /\ DOMAIN s = DOMAIN t /\ \A i \in DOMAIN t : Grown(s[i], t[i])
  BY DEF GrownIn
<1> HIDE DEF s, t
<1>6. s = <<>> <=> t = <<>>
  BY <1>1, <1>4, <1>5
<1>7. t # <<>> => 1 \in DOMAIN t
  BY <1>1
<1> QED
  BY <1>5, <1>6, <1>7 DEF s, t

LEMMA TickShared ==
  ASSUME TypeOK, Both(jn, net), TickTime, js.live
  PROVE  Both(jn, net)'
<1>1. /\ js'.live /\ js' \in Subscriptions /\ Grown(js'.out, js.out)
      /\ \E new : /\ DialogsMapped(js'.dlgs, new)
                  /\ \A d \in DOMAIN js.dlgs :
                        /\ DOMAIN new[d] = DOMAIN js.dlgs[d].outs
                        /\ Len(new[d]) = Len(js.dlgs[d].outs)
                        /\ \A i \in DOMAIN js.dlgs[d].outs : Grown(new[d][i], js.dlgs[d].outs[i])
      /\ UNCHANGED <<replaced, stranded, net, trouble, seen>>
  BY TickEffect
<1>2. jn'.tag = jn.tag /\ jn'.state = jn.state /\ jn'.inc = jn.inc
  BY TickEffect
<1>3. PICK new : /\ DialogsMapped(js'.dlgs, new)
                 /\ \A d \in DOMAIN js.dlgs :
                        /\ DOMAIN new[d] = DOMAIN js.dlgs[d].outs
                        /\ Len(new[d]) = Len(js.dlgs[d].outs)
                        /\ \A i \in DOMAIN js.dlgs[d].outs : Grown(new[d][i], js.dlgs[d].outs[i])
  BY <1>1
<1>4. \A d \in DOMAIN js.dlgs : /\ new[d] = <<>> <=> js.dlgs[d].outs = <<>>
                                /\ \A i \in DOMAIN new[d] : \E k \in DOMAIN js.dlgs[d].outs :
                                         new[d][i].n = js.dlgs[d].outs[k].n
  <2> SUFFICES ASSUME NEW d \in DOMAIN js.dlgs
               PROVE  /\ new[d] = <<>> <=> js.dlgs[d].outs = <<>>
                      /\ \A i \in DOMAIN new[d] : \E k \in DOMAIN js.dlgs[d].outs :
                                         new[d][i].n = js.dlgs[d].outs[k].n
    OBVIOUS
  <2>1. GrownIn(new)
    BY <1>3 DEF GrownIn
  <2>2. /\ new[d] = <<>> <=> js.dlgs[d].outs = <<>>
        /\ DOMAIN new[d] = DOMAIN js.dlgs[d].outs
        /\ \A i \in DOMAIN js.dlgs[d].outs : Grown(new[d][i], js.dlgs[d].outs[i])
    BY <1>3, <2>1, GrownSome
  <2> QED
    BY <2>2 DEF Grown
<1>5. LikeAll(js'.dlgs, js.dlgs, js.out)
  BY <1>3, <1>4, MappedShared
<1>6. LikeFirst(js'.out, js.out)
  BY <1>1 DEF Grown, LikeFirst
<1>7. SharedBy(js'.out, js'.dlgs, jn, net)
  BY <1>5, <1>6, LikeShared DEF Both
<1>8. SharedBy(js'.out, js'.dlgs, jn', net)
  BY <1>2, <1>7, KeepsShared
<1> QED
  BY <1>1, <1>8 DEF Both

LEMMA TickHeld ==
  ASSUME TypeOK, Held(jn), TickTime
  PROVE  Held(jn')
<1>1. CASE jn.live
  <2>1. jn'.live /\ jn'.tag = jn.tag /\ jn'.state = jn.state /\ jn'.inc = jn.inc
    BY <1>1, TickEffect
  <2>2. jn.outs = <<>> => jn'.outs = <<>>
    BY <1>1, TickOuts
  <2> QED
    BY <1>1, <2>1, <2>2 DEF Held
<1>2. CASE ~jn.live
  <2>1. jn' = jn
    BY <1>2, TickEffect
  <2> QED
    BY <2>1
<1> QED
  BY <1>1, <1>2

\* The answer to the NOTIFY that ends the subscription.
Ends(x) == x.kind = "to NOTIFY" /\ x.code = "2xx" /\ x.ask = TERMINATED

LEMMA LeftMore ==
  ASSUME Left(js, seen.closed, net), js'.live => js.live, ~js'.live => js'.dlgs = <<>>,
         seen'.closed = seen.closed \/ seen'.closed # "answered",
         \A x \in net' : x \in net \/ ~Ends(x)
  PROVE  Left(js, seen.closed, net)'
  BY DEF Left, Ends

\* ... and the subscription is the same or is freed.
LEMMA LeftSame ==
  ASSUME Left(js, seen.closed, net), js' = js \/ js' = Freed \/ (js.live /\ js'.live),
         seen'.closed = seen.closed \/ seen'.closed # "answered",
         \A x \in net' : x \in net \/ ~Ends(x)
  PROVE  Left(js, seen.closed, net)'
<1>1. js'.live => js.live
  BY FreedTyped
<1>2. ~js'.live => js'.dlgs = <<>>
  BY FreedTyped DEF Left
<1> QED
  BY <1>1, <1>2, LeftMore

\* The subscriber sends a request.
LEMMA SentNotEnds ==
  ASSUME NEW tr \in Transactions, NEW tag \in Nat
  PROVE  ~Ends(Subscribe(tr, tag)) /\ ~Ends(Notify(tr, tag))
<1>1. Subscribe(tr, tag).code = "none" /\ Notify(tr, tag).code = "none"
  BY SubscribeTyped, NotifyTyped
<1> QED
  BY <1>1 DEF Ends

LEMMA RefreshSends ==
  ASSUME TypeOK, NEW d \in DOMAIN js.dlgs, NEW e \in Nat, SendRefresh(d, e)
  PROVE  /\ js'.live = js.live /\ seen'.closed = seen.closed
         /\ \E x : net' = net \cup {x} /\ ~Ends(x)
<1>1. PICK tr : /\ New(tr, d) /\ tr.n = js.dlgs[d].cseq + 1
                /\ Adds(d, tr)
                /\ js'.live = js.live /\ js'.out = js.out
                /\ js' \in Subscriptions
                /\ net' = net \cup {Subscribe(tr, js.dlgs[d].tag)}
                /\ RefreshSeen(e)
  BY SendRefreshEffect
<1>2. ~Ends(Subscribe(tr, js.dlgs[d].tag))
  BY <1>1, TagTyped, SentNotEnds DEF New
<1>3. seen'.closed = seen.closed
  BY <1>1 DEF RefreshSeen
<1> QED
  BY <1>1, <1>2, <1>3

LEMMA RefreshLeft ==
  ASSUME TypeOK, Left(js, seen.closed, net), js.live, NEW d \in DOMAIN js.dlgs, NEW e \in Nat, SendRefresh(d, e)
  PROVE  Left(js, seen.closed, net)'
<1>1. PICK x : net' = net \cup {x} /\ ~Ends(x)
  BY RefreshSends
<1>2. js'.live /\ seen'.closed = seen.closed
  BY RefreshSends
<1> QED
  BY <1>1, <1>2, LeftSame

LEMMA RetryLeft ==
  ASSUME TypeOK, Left(js, seen.closed, net), js.live, NEW d \in Nat, d = 0 \/ d \in DOMAIN js.dlgs,
         SendWithCredential(d)
  PROVE  Left(js, seen.closed, net)'
<1>1. \E tr, tag : /\ tr \in Transactions /\ tag \in Nat /\ js'.live = js.live
                   /\ net' = net \cup {Subscribe(tr, tag)} /\ seen' = [seen EXCEPT !.subscribes = @ + 1]
  <2>1. CASE d = 0
    <3>1. PICK tr : /\ New(tr, 0) /\ js'.live = js.live
                    /\ net' = net \cup {Subscribe(tr, 0)} /\ seen' = [seen EXCEPT !.subscribes = @ + 1]
      BY <2>1, RetryFirstEffect
    <3> QED
      BY <3>1 DEF New
  <2>2. CASE d \in DOMAIN js.dlgs
    <3>1. PICK tr : /\ New(tr, d) /\ js'.live = js.live
                    /\ net' = net \cup {Subscribe(tr, js.dlgs[d].tag)}
                    /\ seen' = [seen EXCEPT !.subscribes = @ + 1]
      BY <2>2, RetryInEffect
    <3>2. js.dlgs[d].tag \in Nat
      BY <2>2, TagTyped
    <3> QED
      BY <3>1, <3>2 DEF New
  <2> QED
    BY <2>1, <2>2
<1>2. PICK tr, tag : /\ tr \in Transactions /\ tag \in Nat /\ js'.live = js.live
                     /\ net' = net \cup {Subscribe(tr, tag)} /\ seen' = [seen EXCEPT !.subscribes = @ + 1]
  BY <1>1
<1>3. ~Ends(Subscribe(tr, tag))
  BY <1>2, SentNotEnds
<1>4. seen'.closed = seen.closed
  BY <1>2 DEF TypeOK, History
<1> QED
  BY <1>2, <1>3, <1>4, LeftSame

LEMMA AnswerLeft ==
  ASSUME TypeOK, Left(js, seen.closed, net), RcvAnswer
  PROVE  Left(js, seen.closed, net)'
<1>1. PICK m \in net, tr \in TransactionsOf(js) :
         /\ js'.live = js.live
         /\ net' = net \ {m}
         /\ seen' = IF m.code = "2xx" THEN [seen EXCEPT !.confirmed = TRUE] ELSE seen
  BY RcvAnswerEffect
<1>2. js.live
  BY TransactionsAre
<1>3. seen'.closed = seen.closed
  BY <1>1 DEF TypeOK, History
<1> QED
  BY <1>1, <1>2, <1>3, LeftSame

LEMMA NotifyLeft ==
  ASSUME TypeOK, Left(js, seen.closed, net), RcvNotify
  PROVE  Left(js, seen.closed, net)'
<1>1. PICK m \in net :
           /\ m.kind = "NOTIFY"
           /\ IF ~js.live THEN net' = net \ {m} /\ js' = js
              ELSE NotifiedBy(m) /\ net' = (net \ {m}) \cup {Answer(m, "2xx", m.tag, 0)}
           /\ UNCHANGED <<replaced, jn, stranded, trouble, seen>>
  BY RcvNotifyEffect
<1>2. CASE ~js.live
  BY <1>1, <1>2, LeftSame
<1>3. CASE js.live /\ ~js'.live
  <2>1. js' = Freed
    BY <1>1, <1>3 DEF NotifiedBy
  <2> QED
    BY <2>1, FreedTyped DEF Left
<1>4. CASE js.live /\ js'.live
  <2>1. m.ask # TERMINATED
    BY <1>1, <1>4, FreedTyped DEF NotifiedBy, NotifyEnds
  <2>2. Answer(m, "2xx", m.tag, 0).ask = m.ask
    <3>1. "2xx" \in Codes
      BY DEF Codes
    <3> QED
      BY <3>1, AnswerSays
  <2>3. ~Ends(Answer(m, "2xx", m.tag, 0))
    BY <2>1, <2>2 DEF Ends
  <2> QED
    BY <1>1, <1>4, <2>3, LeftSame
<1> QED
  BY <1>2, <1>3, <1>4

LEMMA NotifyAnswerLeft ==
  ASSUME TypeOK, Left(js, seen.closed, net), RcvNotifyAnswer
  PROVE  Left(js, seen.closed, net)'
<1>1. PICK m \in net :
                /\ m.kind = "to NOTIFY" /\ net' = net \ {m}
                /\ \/ /\ seen' = [seen EXCEPT !.closed = "answered"]
                      /\ m.code = "2xx" /\ m.ask = TERMINATED
                   \/ seen' = seen
  BY RcvNotifyAnswerEffect
<1>2. js' = js
  BY RcvNotifyAnswerEffect
<1>3. CASE seen' = seen
  BY <1>1, <1>2, <1>3, LeftSame
<1>4. CASE m.code = "2xx" /\ m.ask = TERMINATED
  <2>1. ~js.live
    BY <1>1, <1>4 DEF Left
  <2> QED
    BY <1>2, <2>1 DEF Left
<1> QED
  BY <1>1, <1>3, <1>4

\* An answer of the notifier, or of a proxy, ends nothing.
LEMMA OtherNotEnds ==
  ASSUME TypeOK, NEW m \in net, NEW code \in Codes, m.kind = "SUBSCRIBE" \/ code # "2xx"
  PROVE  ~Ends(Answer(m, code, m.tag, 0))
<1>1. Answer(m, code, m.tag, 0).kind = (IF m.kind = "NOTIFY" THEN "to NOTIFY" ELSE "to SUBSCRIBE")
      /\ Answer(m, code, m.tag, 0).code = code
  BY AnswerSays
<1> QED
  BY <1>1 DEF Ends

LEMMA OthersLeft ==
  ASSUME TypeOK, Left(js, seen.closed, net), RcvSubscribe \/ eXosip_insubscription_send_answer \/ ProxyAnswers
  PROVE  Left(js, seen.closed, net)'
<1>1. CASE RcvSubscribe
  <2>1. PICK m \in net : m.kind = "SUBSCRIBE" /\ (NewSubscribe(m) \/ UnknownSubscribe(m) \/ SubscribeWithin(m))
    BY <1>1 DEF RcvSubscribe
  <2>2. UNCHANGED <<js, seen>>
    BY <1>1 DEF RcvSubscribe
  <2>3. net' = net \ {m} \/ net' = (net \ {m}) \cup {Answer(m, "4xx", m.tag, 0)}
    BY <2>1, NewSubscribeEffect, UnknownSubscribeEffect, SubscribeWithinEffect
  <2>4. ~Ends(Answer(m, "4xx", m.tag, 0))
    <3>1. "4xx" \in Codes
      BY DEF Codes
    <3> QED
      BY <2>1, <3>1, OtherNotEnds
  <2> QED
    BY <2>2, <2>3, <2>4, LeftSame
<1>2. CASE eXosip_insubscription_send_answer
  <2>1. PICK code \in Codes : \E a : AnswersWith(code, a)
    BY <1>2, SendAnswerEffect
  <2>2. UNCHANGED <<js, seen>>
    BY <1>2, SendAnswerEffect
  <2>3. PICK a : AnswersWith(code, a)
    BY <2>1
  <2>4. ~Ends(a) /\ net' = net \cup {a}
    BY <2>3 DEF AnswersWith, Ends
  <2> QED
    BY <2>2, <2>4, LeftSame
<1>3. CASE ProxyAnswers
  <2>1. PICK m \in net, code \in {"401", "4xx"} : net' = (net \ {m}) \cup {Answer(m, code, m.tag, 0)}
    BY <1>3, ProxyEffect
  <2>2. UNCHANGED <<js, seen>>
    BY <1>3, ProxyEffect
  <2>3. ~Ends(Answer(m, code, m.tag, 0))
    <3>1. code \in Codes /\ code # "2xx"
      BY DEF Codes
    <3> QED
      BY <3>1, OtherNotEnds
  <2> QED
    BY <2>1, <2>2, <2>3, LeftSame
<1> QED
  BY <1>1, <1>2, <1>3

-----------------------------------------------------------------------------
\* A step after which the three parts hold.
LEMMA Joined ==
  ASSUME js'.live => Both(jn, net)', Left(js, seen.closed, net)', Held(jn')
  PROVE  OneInv'
  BY DEF OneInv, Shared, Both

LEMMA SubscriberShared ==
  ASSUME TypeOK, OneInv,
         \/ eXosip_subscribe_send_refresh_request \/ eXosip_automatic_action
         \/ RcvAnswer \/ RcvNotify \/ KillSubscribe \/ ReleaseSubscription
  PROVE  OneInv'
<1>0. (js.live => Both(jn, net)) /\ Left(js, seen.closed, net) /\ Held(jn)
  BY DEF OneInv, Shared, Both
<1>1. CASE eXosip_subscribe_send_refresh_request
  <2>1. PICK d \in DOMAIN js.dlgs, e \in Asks \cup {0} : SendRefresh(d, e)
    BY <1>1 DEF eXosip_subscribe_send_refresh_request
  <2>2. e \in Nat /\ js.live /\ jn' = jn
    BY <1>1 DEF eXosip_subscribe_send_refresh_request
  <2> QED
    BY <1>0, <2>1, <2>2, RefreshShared, RefreshLeft, Joined
<1>2. CASE eXosip_automatic_action
  <2>0. js.live /\ jn' = jn
    BY <1>2 DEF eXosip_automatic_action
  <2>1. CASE RetriesInitial /\ SendWithCredential(0)
    BY <1>0, <2>0, <2>1, RetryFirstShared, RetryLeft, Joined
  <2>2. ASSUME NEW d \in DOMAIN js.dlgs, RetriesIn(d), SendWithCredential(d) PROVE OneInv'
    <3>1. d \in Nat
      BY Parts
    <3> QED
      BY <1>0, <2>0, <2>2, <3>1, RetryInShared, RetryLeft, Joined
  <2>3. ASSUME NEW d \in DOMAIN js.dlgs, AutomaticRefresh(d) PROVE OneInv'
    <3>1. LastOut(js, d).ask \in Nat
      BY LastOutTyped DEF Transactions
    <3> QED
      BY <1>0, <2>0, <2>3, <3>1, RefreshShared, RefreshLeft, Joined DEF AutomaticRefresh
  <2> QED
    BY <1>2, <2>1, <2>2, <2>3 DEF eXosip_automatic_action
<1>3. CASE RcvAnswer
  <2>1. js.live
    <3>1. PICK tr \in TransactionsOf(js) : TRUE
      BY <1>3 DEF RcvAnswer
    <3> QED
      BY <3>1, TransactionsAre
  <2>2. jn' = jn
    BY <1>3, RcvAnswerEffect
  <2> QED
    BY <1>0, <1>3, <2>1, <2>2, AnswerShared, AnswerLeft, Joined
<1>4. CASE RcvNotify
  <2>1. PICK m \in net :
           /\ m.kind = "NOTIFY"
           /\ IF ~js.live THEN net' = net \ {m} /\ js' = js
              ELSE NotifiedBy(m) /\ net' = (net \ {m}) \cup {Answer(m, "2xx", m.tag, 0)}
           /\ UNCHANGED <<replaced, jn, stranded, trouble, seen>>
    BY <1>4, RcvNotifyEffect
  <2>2. js'.live => Both(jn, net)'
    BY <1>0, <2>1, NotifiedShared
  <2> QED
    BY <1>0, <1>4, <2>1, <2>2, NotifyLeft, Joined
<1>5. CASE KillSubscribe
  <2>1. \E tr \in TransactionsOf(js) : js' = Freed \/ js'.live = js.live
    BY <1>5, KillSubscribeEffect
  <2>2. js.live
    BY <2>1, TransactionsAre
  <2>3. UNCHANGED <<jn, net, seen>>
    BY <1>5, KillSubscribeEffect
  <2>4. js' = Freed \/ (js.live /\ js'.live)
    BY <2>1, <2>2
  <2>5. Left(js, seen.closed, net)'
    BY <1>0, <2>3, <2>4, LeftSame
  <2> QED
    BY <1>0, <1>5, <2>2, <2>3, <2>5, KillShared, Joined
<1>6. CASE ReleaseSubscription
  <2>1. js.live
    BY <1>6 DEF ReleaseSubscription, Releases
  <2>2. UNCHANGED <<jn, net, seen>> /\ (js' = Freed \/ js'.live)
    BY <1>6, ReleaseEffect
  <2>3. Left(js, seen.closed, net)'
    BY <1>0, <2>1, <2>2, LeftSame
  <2> QED
    BY <1>0, <1>6, <2>1, <2>2, <2>3, ReleaseShared, Joined
<1> QED
  BY <1>1, <1>2, <1>3, <1>4, <1>5, <1>6

\* The notifier's steps leave the subscriber alone.
LEMMA NotifierShared ==
  ASSUME TypeOK, OneInv,
         \/ RcvSubscribe \/ eXosip_insubscription_send_answer \/ SendState \/ SendEnd
         \/ eXosip_insubscription_remove \/ eXosip_automatic_notify \/ RcvNotifyAnswer \/ KillNotify
         \/ ProxyAnswers
  PROVE  OneInv'
<1>0. (js.live => Both(jn, net)) /\ Left(js, seen.closed, net) /\ Held(jn)
  BY DEF OneInv, Shared, Both
<1>1. ASSUME js' = js, Both(jn, net) => Both(jn', net')
      PROVE  js'.live => Both(jn, net)'
  BY <1>0, <1>1 DEF Both
<1>2. CASE RcvSubscribe
  <2>1. js' = js
    BY <1>2 DEF RcvSubscribe
  <2>2. js'.live => Both(jn, net)'
    BY <1>0, <1>1, <1>2, <2>1, SubscribeShared
  <2> QED
    BY <1>0, <1>2, <2>2, OthersLeft, SubscribeHeld, Joined
<1>3. CASE eXosip_insubscription_send_answer
  <2>1. js' = js
    BY <1>3, SendAnswerEffect
  <2>2. js'.live => Both(jn, net)'
    BY <1>0, <1>1, <1>3, <2>1, SendAnswerShared
  <2> QED
    BY <1>0, <1>3, <2>2, OthersLeft, SendAnswerHeld, Joined
<1>4. CASE ProxyAnswers
  <2>1. js' = js /\ jn' = jn
    BY <1>4, ProxyEffect
  <2>2. js'.live => Both(jn, net)'
    BY <1>0, <1>1, <1>4, <2>1, ProxyShared
  <2> QED
    BY <1>0, <1>4, <2>1, <2>2, OthersLeft, Joined
<1>5. ASSUME NEW tr, Notifies(tr), jn.live, jn.state = "confirmed", js' = js, seen'.closed = seen.closed
      PROVE  OneInv'
  <2>1. js'.live => Both(jn, net)'
    BY <1>0, <1>1, <1>5, NotifiesShared
  <2>2. ~Ends(Notify(tr, jn.tag)) /\ net' = net \cup {Notify(tr, jn.tag)}
    BY <1>5, Parts, SentNotEnds DEF Notifies
  <2>3. Left(js, seen.closed, net)'
    BY <1>0, <1>5, <2>2, LeftSame
  <2>4. Held(jn')
    BY <1>0, <1>5, HeldKept DEF Notifies
  <2> QED
    BY <2>1, <2>3, <2>4, Joined
<1>6. CASE SendState \/ SendEnd
  <2>1. PICK state \in Nat : SendNotify(state)
    BY <1>6 DEF SendState, SendEnd, ACTIVE, TERMINATED
  <2>2. PICK tr : Notifies(tr)
    BY <2>1, SendNotifyEffect
  <2>3. /\ jn.live /\ jn.state = "confirmed"
        /\ seen' = IF state = TERMINATED THEN [seen EXCEPT !.closing = TRUE] ELSE seen
        /\ js' = js
    BY <2>1, SendNotifyEffect
  <2>4. seen'.closed = seen.closed
    BY <2>3 DEF TypeOK, History
  <2> QED
    BY <1>5, <2>2, <2>3, <2>4
<1>7. CASE eXosip_automatic_notify
  <2>1. PICK tr : Notifies(tr)
    BY <1>7, AutomaticNotifyEffect
  <2>2. jn.live /\ jn.outs # <<>> /\ UNCHANGED <<js, replaced, seen>>
    BY <1>7, AutomaticNotifyEffect
  <2>3. jn.state = "confirmed"
    BY <1>0, <2>2 DEF Held
  <2> QED
    BY <1>5, <2>1, <2>2, <2>3
<1>8. CASE eXosip_insubscription_remove
  <2>1. DropsNotifier /\ UNCHANGED <<js, replaced, stranded, net, trouble, seen>>
    BY <1>8, RemoveEffect
  <2>2. js'.live => Both(jn, net)'
    BY <1>0, <1>1, <2>1, KeepsOrDrops
  <2> QED
    BY <1>0, <2>1, <2>2, LeftSame, HeldDropped, Joined
<1>9. CASE RcvNotifyAnswer
  <2>1. net' \subseteq net /\ (DropsNotifier \/ (KeepsNotifier /\ (jn'.outs # <<>> => jn.outs # <<>>)))
    BY <1>9, RcvNotifyAnswerEffect
  <2>2. js' = js
    BY <1>9, RcvNotifyAnswerEffect
  <2>3. js'.live => Both(jn, net)'
    BY <1>0, <1>1, <2>1, <2>2, KeepsOrDrops
  <2>4. Held(jn')
    BY <1>0, <2>1, HeldDropped, HeldKept
  <2> QED
    BY <1>0, <1>9, <2>3, <2>4, NotifyAnswerLeft, Joined
<1>10. CASE KillNotify
  <2>1. /\ jn.outs # <<>> /\ (DropsNotifier \/ KeepsNotifier)
        /\ seen' = [seen EXCEPT !.closed = "killed"] \/ seen' = seen
        /\ UNCHANGED <<js, net>>
    BY <1>10, KillNotifyEffect
  <2>2. js'.live => Both(jn, net)'
    BY <1>0, <1>1, <2>1, KeepsOrDrops
  <2>3. Held(jn')
    BY <1>0, <2>1, HeldDropped, HeldKept
  <2>4. seen'.closed = seen.closed \/ seen'.closed # "answered"
    BY <2>1 DEF TypeOK, History
  <2>5. Left(js, seen.closed, net)'
    BY <1>0, <2>1, <2>4, LeftSame
  <2> QED
    BY <2>2, <2>3, <2>5, Joined
<1> QED
  BY <1>2, <1>3, <1>4, <1>6, <1>7, <1>8, <1>9, <1>10

LEMMA StaysOne ==
  ASSUME TypeOK, OneInv, [Next]_vars
  PROVE  OneInv'
<1>0. (js.live => Both(jn, net)) /\ Left(js, seen.closed, net) /\ Held(jn)
  BY DEF OneInv, Shared, Both
<1>1. ASSUME net' \subseteq net, jn' = jn, seen'.closed = seen.closed, js' = js \/ js' = Freed
      PROVE  OneInv'
  <2>1. js'.live => Both(jn, net)'
    BY <1>0, <1>1, FreedTyped, NetFewer DEF Both
  <2>2. Left(js, seen.closed, net)'
    BY <1>0, <1>1, LeftSame
  <2> QED
    BY <1>0, <1>1, <2>1, <2>2, Joined
<1>2. CASE eXosip_subscribe_remove
  BY <1>1, <1>2 DEF eXosip_subscribe_remove
<1>3. CASE RcvLateAnswer
  <2>1. UNCHANGED <<js, jn, seen>> /\ net' \subseteq net
    BY <1>3 DEF RcvLateAnswer
  <2> QED
    BY <1>1, <2>1
<1>4. CASE KillReplaced
  <2>1. UNCHANGED <<jn, net>> /\ (js' = js \/ js' = Freed)
    BY <1>4 DEF KillReplaced
  <2>2. seen'.closed = seen.closed
    BY <1>4 DEF KillReplaced, TypeOK, History
  <2> QED
    BY <1>1, <2>1, <2>2
<1>5. CASE Outage
  <2>1. UNCHANGED <<js, jn, seen>> /\ net' \subseteq net
    BY <1>5 DEF Outage
  <2> QED
    BY <1>1, <2>1
<1>6. CASE TransportError
  <2>1. CASE js' = Freed /\ UNCHANGED <<jn, seen>>
    <3>1. UNCHANGED net
      BY <1>6 DEF TransportError
    <3> QED
      BY <1>1, <2>1, <3>1
  <2>2. CASE Closed("unreachable") /\ js' = js
    <3>1. DropsNotifier /\ seen' = [seen EXCEPT !.closed = "unreachable"]
      BY <2>2, ClosedEffect
    <3>2. UNCHANGED net
      BY <1>6 DEF TransportError
    <3>3. js'.live => Both(jn, net)'
      <4>1. Both(jn, net) => Both(jn', net')
        BY <3>1, <3>2, KeepsOrDrops
      <4> QED
        BY <1>0, <2>2, <4>1 DEF Both
    <3>4. seen'.closed # "answered"
      BY <3>1 DEF TypeOK, History
    <3>5. Left(js, seen.closed, net)'
      BY <1>0, <2>2, <3>2, <3>4, LeftSame
    <3> QED
      BY <3>1, <3>3, <3>5, HeldDropped, Joined
  <2> QED
    BY <1>6, <2>1, <2>2 DEF TransportError
<1>7. CASE TickTime
  <2>1. UNCHANGED <<net, seen>> /\ (js.live => js'.live) /\ (~js.live => js' = js)
    BY <1>7, TickEffect
  <2>2. js'.live => Both(jn, net)'
    BY <1>0, <1>7, <2>1, TickShared
  <2>3. Left(js, seen.closed, net)'
    BY <1>0, <2>1, LeftSame
  <2> QED
    BY <1>0, <1>7, <2>2, <2>3, TickHeld, Joined
<1>8. CASE UNCHANGED vars
  <2>1. UNCHANGED <<js, jn, net, seen>>
    BY <1>8 DEF vars
  <2> QED
    BY <1>1, <2>1
<1> QED
  BY <1>2, <1>3, <1>4, <1>5, <1>6, <1>7, <1>8, SubscriberShared, NotifierShared
  DEF Next, SubscriberThread, NotifierThread

LEMMA InitOne ==
  ASSUME Init
  PROVE  OneInv
<1>1. PICK e \in Asks : \E tr :
           /\ New(tr, 0) /\ js.live /\ js.dlgs = <<>> /\ js.out = tr
           /\ net = {Subscribe(tr, 0)} /\ jn = NoNotify /\ seen.closed = "none"
  BY InitEffect
<1>2. PICK tr : /\ New(tr, 0) /\ js.live /\ js.dlgs = <<>> /\ js.out = tr
                /\ net = {Subscribe(tr, 0)} /\ jn = NoNotify /\ seen.closed = "none"
  BY <1>1
<1> DEFINE m == Subscribe(tr, 0)
           d == js.dlgs
<1>3. m.kind = "SUBSCRIBE" /\ m.n = tr.n /\ m.tag = 0
  BY <1>2, SubscribeTyped DEF New
<1>4. net = {m}
  BY <1>2
<1>5. Len(d) <= 1 /\ d = <<>>
  BY <1>2
<1>6. ~jn.live /\ jn.state = "deleted" /\ jn.outs = <<>> /\ jn.inc.st = "answered"
  BY <1>2 DEF NoNotify
<1> HIDE DEF m, d
<1>7. tr.st = "trying" /\ tr.resp = "none" /\ tr.jd = 0
  BY <1>2 DEF New
<1>8. NoNotifies(net) /\ ~Turned(tr)
  BY <1>3, <1>4, <1>7 DEF NoNotifies, Turned
<1>9. Dialogue(tr, d, jn.tag) /\ Quiet(tr, jn, net) /\ Ringing(tr, d, jn, net) /\ Agreed(tr, jn)
  BY <1>5, <1>6, <1>7, <1>8 DEF Dialogue, Quiet, Ringing, Agreed
<1>10. OnItsWay(m, tr, d, jn, net)
  BY <1>3, <1>4, <1>5, <1>6, <1>7, <1>8 DEF OnItsWay, Waiting, ToFirst
<1>11. SharedBy(tr, d, jn, net)
  BY <1>4, <1>9, <1>10 DEF SharedBy
<1>12. Left(js, seen.closed, net)
  BY <1>2, <1>3, <1>4 DEF Left
<1>13. Held(jn)
  BY <1>6 DEF Held
<1> QED
  BY <1>2, <1>11, <1>12, <1>13 DEF OneInv, Shared, d

LEMMA OneIsSame ==
  ASSUME TypeOK, OneInv
  PROVE  SameForBoth
<1>1. CASE js.live
  <2>1. Both(jn, net)
    BY <1>1 DEF OneInv, Shared, Both
  <2>2. \A d \in DOMAIN js.dlgs : d = 1 /\ js.dlgs[d].tag = jn.tag
    <3> SUFFICES ASSUME NEW d \in DOMAIN js.dlgs PROVE d = 1 /\ js.dlgs[d].tag = jn.tag
      OBVIOUS
    <3>1. d = 1 /\ DialogOf(js.out, js.dlgs[1], jn.tag)
      BY <2>1, Only
    <3> QED
      BY <3>1 DEF DialogOf
  <2>3. OneDialog
    BY <2>2 DEF OneDialog
  <2>4. ClosedTogether
    BY DEF OneInv, Left, ClosedTogether
  <2> QED
    BY <2>3, <2>4 DEF SameForBoth
<1>2. CASE ~js.live
  <2> DEFINE e == <<>>
  <2>1. DOMAIN e = {}
    OBVIOUS
  <2> HIDE DEF e
  <2>2. js.dlgs = e
    BY <1>2 DEF OneInv, Left, e
  <2>3. OneDialog
    BY <2>1, <2>2 DEF OneDialog
  <2> QED
    BY <1>2, <2>3 DEF SameForBoth, ClosedTogether
<1> QED
  BY <1>1, <1>2

\* Subscriber and notifier have the same subscription, for all periods, ticks and bounds: in
\* whatever order a provisional answer, the 2xx and the NOTIFYs arrive there is one dialog, it
\* is that of the notifier, and the answer to the last NOTIFY comes from a subscriber that has
\* let go.
THEOREM OneForBoth == Spec => []SameForBoth
<1>1. Init => TypeOK /\ OneInv
  BY InitTyped, InitOne
<1>2. TypeOK /\ OneInv /\ [Next]_vars => (TypeOK /\ OneInv)'
  BY StepTyped, StaysOne
<1>3. TypeOK /\ OneInv => SameForBoth
  BY OneIsSame
<1> QED
  BY <1>1, <1>2, <1>3, PTL DEF Spec

-----------------------------------------------------------------------------
(* The refreshes come in time *)

\* The last SUBSCRIBE of the subscriber whose first one is o.
Current(o, dlgs) == IF dlgs = <<>> \/ dlgs[1].outs = <<>> THEN o ELSE dlgs[1].outs[1]

\* It is the newest, and all the others have been answered.
Behind(l, dlgs) == dlgs # <<>> =>
    /\ l.n <= dlgs[1].cseq
    /\ \A i \in DOMAIN dlgs[1].outs :
          i > 1 => dlgs[1].outs[i].n < l.n /\ dlgs[1].outs[i].st # "trying"

Asking(m) == m.kind = "SUBSCRIBE"
To(m) == m.kind = "to SUBSCRIBE"

Newest(l, j, n) == /\ \A m \in n : Asking(m) \/ To(m) => m.n <= l.n
                   /\ j.state # "deleted" => j.inc.n <= l.n

\* What is on its way, and what the notifier has, is what l asks for.
Says(l, j, n) ==
  /\ l.ask \in Asks \cup {0, MinExpires}
  /\ l.st = "trying" <=> l.resp \in {"none", "1xx"}
  /\ \E k \in Nat : l.age = k * Tick
  /\ l.resp = "423" => l.ask < MinExpires
  /\ \A m \in n : m.n = l.n => /\ Asking(m) => m.ask = l.ask /\ l.age = 0
                               /\ To(m) /\ m.code = "423" => l.ask < MinExpires
  /\ j.state # "deleted" /\ j.inc.n = l.n => j.inc.ask = l.ask

\* The period is no longer than what was asked for.
Period(p, ask) == p >= 1 /\ p <= RefreshInterval(3600, ask)

Opening(o, p) == o.resp # "2xx" => o.ask > 0 /\ Period(p, o.ask)

\* A notifier that has refused has not accepted before.
Confirms(o, j, n, confirmed) ==
  /\ confirmed => o.resp = "2xx"
  /\ j.live /\ j.state = "deleted" => /\ o.resp # "2xx"
                                      /\ \A m \in n : ToFirst(m, o) => m.code # "2xx"

\* Before the first answer.
Rings(o, j, n) == j.state = "early" =>
  /\ o.ask >= MinExpires => j.left = o.ask - o.age /\ j.left > 0
  /\ \A m \in n : ~ToFirst(m, o)

\* The notifier's time is what is left of what l asks for, but while l is on its way there.
Travels(m, l, j, n) ==
  /\ m.n = l.n /\ m.tag = j.tag /\ l.st = "trying" /\ j.inc.st = "answered"
  /\ \A x \in n : Asking(x) => x = m
  /\ \A x \in n : To(x) => x.n # l.n

Keeps(l, p, j, n) == j.state = "confirmed" /\ j.status # TERMINATED =>
  /\ l.ask >= MinExpires /\ j.left > 0
  /\ l.ask > 0 => Period(p, l.ask)
  /\ l.st # "trying" => l.resp = "2xx"
  /\ \A m \in n : /\ Asking(m) => Travels(m, l, j, n)
                  /\ To(m) /\ m.n = l.n => m.code = "2xx" /\ m.value = j.left
  /\ (\A m \in n : ~Asking(m)) => l.ask > 0 /\ j.left = l.ask - l.age
  /\ j.inc.st = "open" => /\ j.inc.n = l.n /\ l.st = "trying"
                          /\ \A m \in n : ~Asking(m) /\ (To(m) => m.n # l.n)

Covers(o, l, p, j, n, confirmed, quiet) ==
  /\ Newest(l, j, n) /\ Says(l, j, n) /\ Opening(o, p) /\ Confirms(o, j, n, confirmed)
  /\ quiet => Rings(o, j, n) /\ Keeps(l, p, j, n)

Quietly == trouble = 0 /\ ~seen.short /\ seen.subscribes < MaxSubscribes
Latest == Current(js.out, js.dlgs)

TimeInv == js.live => /\ Behind(Latest, js.dlgs)
                      /\ Covers(js.out, Latest, js.period, jn, net, seen.confirmed, Quietly)

\* A request as it was, but that it may be over.
LikeRequest(p, o) == /\ p.n = o.n /\ p.ask = o.ask /\ p.resp = o.resp /\ p.age = o.age
                     /\ p.st = "trying" <=> o.st = "trying"

\* The notifier's subscription as it was, or none.
LikeNotifier(k, j) == \/ /\ k.live = j.live /\ k.tag = j.tag /\ k.left = j.left /\ k.status = j.status
                         /\ k.state = j.state /\ k.inc = j.inc
                      \/ ~k.live /\ k.state = "deleted"

\* No request less, and no answer more.
LikeNet(n2, n) == /\ \A m \in n2 : Asking(m) \/ To(m) => m \in n
                  /\ \A m \in n : Asking(m) => m \in n2

LEMMA FirstIs ==
  ASSUME NEW m, NEW o
  PROVE  ToFirst(m, o) <=> To(m) /\ m.n = o.n
  BY DEF ToFirst, To

LEMMA LikeCovers ==
  ASSUME NEW o, NEW l, NEW p, NEW j, NEW n, NEW c, NEW q, Covers(o, l, p, j, n, c, q),
         NEW o2, NEW l2, NEW j2, NEW n2, NEW q2,
         LikeRequest(o2, o), LikeRequest(l2, l), LikeNotifier(j2, j), LikeNet(n2, n), q2 => q
  PROVE  Covers(o2, l2, p, j2, n2, c, q2)
<1>1. Newest(l2, j2, n2)
  BY DEF Covers, Newest, LikeRequest, LikeNotifier, LikeNet
<1>2. Says(l2, j2, n2)
  BY DEF Covers, Says, LikeRequest, LikeNotifier, LikeNet
<1>3. Opening(o2, p)
  BY DEF Covers, Opening, LikeRequest
<1>4. \A m : ToFirst(m, o2) <=> ToFirst(m, o) /\ To(m)
  BY DEF ToFirst, To, LikeRequest
<1>5. Confirms(o2, j2, n2, c)
  BY <1>4 DEF Covers, Confirms, LikeRequest, LikeNotifier, LikeNet
<1>6. ASSUME q2 PROVE Rings(o2, j2, n2)
  BY <1>4, <1>6 DEF Covers, Rings, LikeRequest, LikeNotifier, LikeNet
<1>7. ASSUME q2 PROVE Keeps(l2, p, j2, n2)
  <2> SUFFICES ASSUME j2.state = "confirmed", j2.status # TERMINATED PROVE Keeps(l2, p, j2, n2)
    BY DEF Keeps
  <2>1. /\ j2.tag = j.tag /\ j2.left = j.left /\ j.state = "confirmed" /\ j.status # TERMINATED /\ j2.inc = j.inc
    BY DEF LikeNotifier
  <2>2. Keeps(l, p, j, n)
    BY <1>7 DEF Covers
  <2>3. ASSUME NEW m \in n2, Asking(m) PROVE Travels(m, l2, j2, n2)
    <3>1. m \in n
      BY <2>3 DEF LikeNet
    <3>2. Travels(m, l, j, n)
      BY <2>1, <2>2, <2>3, <3>1 DEF Keeps
    <3> QED
      BY <2>1, <3>2 DEF Travels, LikeRequest, LikeNet
  <2>4. ASSUME NEW m \in n2, To(m), m.n = l2.n PROVE m.code = "2xx" /\ m.value = j2.left
    <3>1. m \in n /\ m.n = l.n
      BY <2>4 DEF LikeNet, LikeRequest
    <3> QED
      BY <2>1, <2>2, <2>4, <3>1 DEF Keeps
  <2>5. (\A m \in n2 : ~Asking(m)) => \A m \in n : ~Asking(m)
    BY DEF LikeNet
  <2>6. j.inc.st = "open" => \A m \in n2 : ~Asking(m) /\ (To(m) => m.n # l.n)
    BY <2>1, <2>2 DEF Keeps, LikeNet
  <2>7. l2.n = l.n /\ l2.ask = l.ask /\ l2.resp = l.resp /\ l2.age = l.age /\ (l2.st = "trying" <=> l.st = "trying")
    BY DEF LikeRequest
  <2> QED
    BY <2>1, <2>2, <2>3, <2>4, <2>5, <2>6, <2>7 DEF Keeps
<1> QED
  BY <1>1, <1>2, <1>3, <1>5, <1>6, <1>7 DEF Covers

\* Once there was trouble only the answers count, and it makes none that accepts.
LEMMA TroubleCovers ==
  ASSUME NEW o, NEW l, NEW p, NEW j, NEW n, NEW c, NEW q, Covers(o, l, p, j, n, c, q), NEW n2, NEW q2, ~q2,
         \A m \in n2 : Asking(m) \/ To(m) =>
             m \in n \/ (To(m) /\ m.n <= l.n /\ m.code \in {"1xx", "401", "4xx"})
  PROVE  Covers(o, l, p, j, n2, c, q2)
<1>1. Newest(l, j, n2)
  BY DEF Covers, Newest
<1>2. Says(l, j, n2)
  BY DEF Covers, Says, To, Asking
<1>3. \A m : ToFirst(m, o) => To(m)
  BY DEF ToFirst, To
<1>4. Confirms(o, j, n2, c)
  BY <1>3 DEF Covers, Confirms
<1> QED
  BY <1>1, <1>2, <1>4 DEF Covers

-----------------------------------------------------------------------------
\* The notifier's part.

\* The first SUBSCRIBE gets there.
LEMMA NewCovers ==
  ASSUME NEW o \in Transactions, NEW dlgs, NEW j, NEW n, NEW p, NEW c, NEW q, Covers(o, o, p, j, n, c, q),
         NEW m \in n, Asking(m), Waiting(m, o, dlgs, j, n),
         NEW k, k.state = "early", k.left = m.ask, k.inc.n = m.n, k.inc.ask = m.ask
  PROVE  Covers(o, o, p, k, n \ {m}, c, q)
<1>1. m.n = o.n /\ o.resp = "none" /\ \A x \in n : To(x) => x.n < o.n
  BY DEF Waiting, To
<1>2. o.ask \in Nat /\ o.n \in Nat /\ o.ask > 0
  BY <1>1 DEF Covers, Opening, Transactions
<1>3. m.ask = o.ask /\ o.age = 0
  BY <1>1 DEF Covers, Says
<1>4. Newest(o, k, n \ {m})
  BY <1>1, <1>2 DEF Covers, Newest
<1>5. Says(o, k, n \ {m})
  BY <1>3 DEF Covers, Says
<1>6. Opening(o, p) /\ Confirms(o, k, n \ {m}, c)
  BY DEF Covers, Confirms
<1>7. Rings(o, k, n \ {m})
  <2>1. \A x \in n : ~ToFirst(x, o)
    BY <1>1, <1>2, FirstIs
  <2> QED
    BY <1>2, <1>3, <2>1 DEF Rings
<1>8. Keeps(o, p, k, n \ {m})
  BY DEF Keeps
<1> QED
  BY <1>4, <1>5, <1>6, <1>7, <1>8 DEF Covers

\* A refresh gets there.
LEMMA WithinCovers ==
  ASSUME NEW o, NEW l \in Transactions, NEW j, NEW n, NEW p, NEW c, NEW q, Covers(o, l, p, j, n, c, q),
         NEW m \in n, Asking(m), j.state = "confirmed", m.ask \in Nat,
         NEW k, k.state = "confirmed", k.left = m.ask, k.inc.n = m.n, k.inc.ask = m.ask,
         k.status = IF m.ask = 0 THEN TERMINATED ELSE j.status
  PROVE  Covers(o, l, p, k, n \ {m}, c, q)
<1>1. Newest(l, k, n \ {m})
  BY DEF Covers, Newest
<1>2. Says(l, k, n \ {m})
  BY DEF Covers, Says
<1>3. Opening(o, p) /\ Confirms(o, k, n \ {m}, c)
  BY DEF Covers, Confirms
<1>4. Rings(o, k, n \ {m})
  BY DEF Rings
<1>5. ASSUME q, k.status # TERMINATED PROVE Keeps(l, p, k, n \ {m})
  <2>1. m.ask # 0 /\ j.status # TERMINATED
    BY <1>5
  <2>2. Keeps(l, p, j, n)
    BY <1>5 DEF Covers
  <2>3. Travels(m, l, j, n) /\ l.ask >= MinExpires /\ (l.ask > 0 => Period(p, l.ask))
    BY <2>1, <2>2 DEF Keeps
  <2>4. m.ask = l.ask /\ l.age = 0 /\ l.st = "trying" /\ m.n = l.n
    BY <2>3 DEF Travels, Covers, Says
  <2>5. \A x \in n \ {m} : ~Asking(x) /\ (To(x) => x.n # l.n)
    BY <2>3 DEF Travels
  <2>6. l.ask > 0 /\ k.left > 0 /\ k.left = l.ask - l.age
    BY <2>1, <2>4
  <2> QED
    BY <2>3, <2>4, <2>5, <2>6 DEF Keeps
<1>6. q => Keeps(l, p, k, n \ {m})
  BY <1>5 DEF Keeps
<1> QED
  BY <1>1, <1>2, <1>3, <1>4, <1>6 DEF Covers

\* It comes to a dialog that is no more, or before the last one has been answered: not while
\* all goes well.
LEMMA FailedCovers ==
  ASSUME NEW o \in Transactions, NEW l, NEW dlgs, NEW j, NEW n, NEW p, NEW c, NEW q, Covers(o, l, p, j, n, c, q),
         Ringing(o, dlgs, j, n), o.st # "trying",
         NEW m \in n, Asking(m), m.n > o.n,
         NEW a, To(a), a.n = m.n, a.code = "4xx",
         q => ~(j.state = "confirmed" /\ j.status # TERMINATED)
  PROVE  Covers(o, l, p, j, (n \ {m}) \cup {a}, c, q)
<1> DEFINE n2 == (n \ {m}) \cup {a}
<1>1. a.n <= l.n
  BY DEF Covers, Newest
<1>2. Newest(l, j, n2)
  BY <1>1 DEF Covers, Newest
<1>3. Says(l, j, n2)
  BY DEF Covers, Says, To, Asking
<1>4. ~ToFirst(a, o)
  BY FirstIs DEF Transactions
<1>5. Opening(o, p) /\ Confirms(o, j, n2, c)
  BY <1>4 DEF Covers, Confirms
<1>6. Rings(o, j, n2)
  BY DEF Rings, Ringing
<1>7. q => Keeps(l, p, j, n2)
  BY DEF Keeps
<1> QED
  BY <1>2, <1>3, <1>5, <1>6, <1>7 DEF Covers

\* The application answers the first SUBSCRIBE, or a refresh.
LEMMA RepliedCovers ==
  ASSUME NEW o \in Transactions, NEW l \in Transactions, NEW dlgs, NEW j, NEW n, NEW p, NEW c, NEW q,
         Covers(o, l, p, j, n, c, q), SharedBy(o, dlgs, j, n), l = Current(o, dlgs),
         j.inc.st = "open", j.state \in {"early", "confirmed"}, j.left \in Int,
         NEW a, To(a), a.n = j.inc.n, NEW q2, q2 => q,
         NEW k, k.left = j.left, k.status = j.status, k.inc.n = j.inc.n, k.inc.ask = j.inc.ask, k.tag = j.tag,
         \/ /\ a.code = "2xx" /\ a.value = (IF j.left < 0 THEN 0 ELSE j.left)
            /\ j.inc.ask = 0 \/ j.inc.ask >= MinExpires
            /\ k.state = "confirmed" /\ k.inc.st = "answered"
         \/ /\ a.code = "423" /\ j.inc.ask < MinExpires
            /\ k.state = IF j.state = "early" THEN "deleted" ELSE j.state
         \/ a.code = "1xx" /\ k = j /\ ~q2
         \/ /\ a.code \in {"401", "4xx"} /\ ~q2
            /\ k.state = IF j.state = "early" THEN "deleted" ELSE j.state
  PROVE  Covers(o, l, p, k, n \cup {a}, c, q2)
<1> DEFINE n2 == n \cup {a}
<1>1. Newest(l, k, n2)
  BY DEF Covers, Newest
<1>2. l.n \in Nat /\ l.ask \in Nat /\ o.n \in Nat /\ l.age \in Nat
  BY DEF Transactions
<1>3. j.inc.n = l.n => j.inc.ask = l.ask
  BY DEF Covers, Says
<1>4. Says(l, k, n2)
  BY <1>2, <1>3 DEF Covers, Says, To, Asking
<1>5. Opening(o, p)
  BY DEF Covers
<1>6. Confirms(o, k, n2, c)
  <2>1. c => o.resp = "2xx"
    BY DEF Covers, Confirms
  <2>2. ASSUME k.state = "deleted"
        PROVE  o.resp # "2xx" /\ \A m \in n2 : ToFirst(m, o) => m.code # "2xx"
    <3>1. j.state = "early" /\ a.code # "2xx"
      BY <2>2
    <3>2. o.st = "trying" /\ \A m \in n : ToFirst(m, o) => m.code = "1xx"
      BY <3>1 DEF SharedBy, Ringing
    <3>3. o.resp \in {"none", "1xx"}
      BY <3>2 DEF SharedBy, Dialogue
    <3> QED
      BY <3>1, <3>2, <3>3
  <2> QED
    BY <2>1, <2>2 DEF Confirms
<1>7. q2 => Rings(o, k, n2)
  BY DEF Rings
<1>8. ASSUME q2, k.state = "confirmed", k.status # TERMINATED PROVE Keeps(l, p, k, n2)
  <2>1. CASE j.state = "early"
    <3>1. /\ a.code = "2xx" /\ a.value = (IF j.left < 0 THEN 0 ELSE j.left)
          /\ j.inc.ask = 0 \/ j.inc.ask >= MinExpires
          /\ k.inc.st = "answered"
      BY <1>8, <2>1
    <3>2. o.st = "trying" /\ j.inc.n = o.n /\ (dlgs # <<>> => dlgs[1].state = "early")
      BY <2>1 DEF SharedBy, Ringing
    <3>3. o.resp \in {"none", "1xx"}
      BY <3>2 DEF SharedBy, Dialogue
    <3>4. l = o
      BY <3>2 DEF Current, SharedBy, Dialogue, DialogOf
    <3>5. o.ask > 0 /\ Period(p, o.ask)
      BY <3>3, <1>5 DEF Opening
    <3>6. o.ask >= MinExpires
      BY <1>2, <1>3, <3>1, <3>2, <3>4, <3>5
    <3>7. j.left = o.ask - o.age /\ j.left > 0 /\ \A m \in n : ~ToFirst(m, o)
      BY <1>8, <2>1, <3>6 DEF Covers, Rings
    <3>8. \A m \in n : ~Asking(m)
      BY <2>1, <3>3 DEF SharedBy, OnItsWay, Asking, Waiting
    <3>9. \A m \in n2 : ~Asking(m)
      BY <3>8 DEF Asking, To
    <3>10. \A m \in n2 : To(m) /\ m.n = l.n => m = a
      BY <3>4, <3>7 DEF ToFirst, To
    <3>11. a.value = k.left
      BY <3>1, <3>7
    <3> QED
      BY <1>8, <3>1, <3>2, <3>4, <3>5, <3>6, <3>7, <3>9, <3>10, <3>11 DEF Keeps
  <2>2. CASE j.state = "confirmed"
    <3>1. Keeps(l, p, j, n)
      BY <1>8 DEF Covers
    <3>2. /\ l.ask >= MinExpires /\ j.left > 0 /\ (l.ask > 0 => Period(p, l.ask))
          /\ j.inc.n = l.n /\ l.st = "trying" /\ \A m \in n : ~Asking(m) /\ (To(m) => m.n # l.n)
          /\ l.ask > 0 /\ j.left = l.ask - l.age
      BY <1>8, <2>2, <3>1 DEF Keeps
    <3>3. a.code # "423"
      BY <1>2, <1>3, <3>2
    <3>4. a.code = "2xx" /\ a.value = k.left /\ k.inc.st = "answered"
      BY <1>8, <3>2, <3>3
    <3>5. \A m \in n2 : ~Asking(m)
      BY <3>2 DEF Asking, To
    <3>6. \A m \in n2 : To(m) /\ m.n = l.n => m = a
      BY <3>2
    <3> QED
      BY <3>2, <3>4, <3>5, <3>6 DEF Keeps
  <2> QED
    BY <2>1, <2>2
<1>9. q2 => Keeps(l, p, k, n2)
  BY <1>8 DEF Keeps
<1> QED
  BY <1>1, <1>4, <1>5, <1>6, <1>7, <1>9 DEF Covers

-----------------------------------------------------------------------------
\* The subscriber's part.

\* The period that is left after an answer.
LEMMA ShorterPeriod ==
  ASSUME NEW p \in Nat, NEW ask \in Nat, Period(p, ask), NEW left \in Nat, left > 0
  PROVE  Period(RefreshInterval(p, left), ask)
<1>1. RefreshInterval(3600, ask) \in Nat
  BY RefreshIntervalTyped
<1>2. RefreshInterval(p, left) = left \/ RefreshInterval(p, left) = p
  BY RefreshIntervalIs
<1>3. RefreshInterval(p, left) = left => left < p - 15 \/ left = p
  BY RefreshIntervalIs
<1> QED
  BY <1>1, <1>2, <1>3 DEF Period

\* Now is what an answer makes of the last request.
IsNow(now, l, m) ==
  /\ now \in Transactions /\ now.n = l.n /\ now.ask = l.ask /\ now.age = l.age /\ now.resp = m.code
  /\ now.st = IF m.code \in Final THEN "completed" ELSE l.st

\* What else an answer m to the last request l changes.
AfterAnswer(m, o, l, now, o2, p, p2, c, c2) ==
  /\ o2 = IF l = o THEN now ELSE o
  /\ l # o => o.resp = "2xx"
  /\ p2 = IF m.code = "2xx" THEN RefreshInterval(p, m.value) ELSE p
  /\ c \in BOOLEAN /\ c2 \in BOOLEAN
  /\ c2 = TRUE <=> c = TRUE \/ m.code = "2xx"

LEMMA AnsweredCovers ==
  ASSUME NEW o \in Transactions, NEW l \in Transactions, NEW dlgs, NEW j, NEW n, NEW p \in Nat, NEW c, NEW q,
         Covers(o, l, p, j, n, c, q), SharedBy(o, dlgs, j, n), Held(j),
         NEW m \in n, To(m), m.n = l.n, l.st = "trying", m.code \in Codes, m.value \in Nat,
         NEW now, IsNow(now, l, m),
         NEW o2, NEW p2, NEW c2, AfterAnswer(m, o, l, now, o2, p, p2, c, c2),
         NEW n2, n2 = n \ {m}
  PROVE  Covers(o2, now, p2, j, n2, c2, q)
<1>0. /\ o2 = IF l = o THEN now ELSE o
      /\ l # o => o.resp = "2xx"
      /\ p2 = IF m.code = "2xx" THEN RefreshInterval(p, m.value) ELSE p
      /\ c \in BOOLEAN /\ c2 \in BOOLEAN
      /\ c2 = TRUE <=> c = TRUE \/ m.code = "2xx"
  BY DEF AfterAnswer
<1>1. Newest(now, j, n2)
  BY DEF Covers, Newest, IsNow
<1>2. Says(now, j, n2)
  <2>1. now.st = "trying" <=> now.resp \in {"none", "1xx"}
    BY DEF IsNow, Final, Codes
  <2>2. now.resp = "423" => now.ask < MinExpires
    BY DEF Covers, Says, IsNow
  <2> QED
    BY <2>1, <2>2 DEF Covers, Says, IsNow
<1>3. o.st = "trying" <=> o.resp \in {"none", "1xx"}
  BY DEF SharedBy, Dialogue
<1>4. o2.n = o.n /\ o2.ask = o.ask
  BY <1>0 DEF IsNow
<1>5. Opening(o2, p2)
  <2>1. CASE l = o
    <3>1. o.resp # "2xx"
      BY <1>3, <2>1
    <3> QED
      BY <1>0, <2>1, <3>1 DEF Covers, Opening, IsNow
  <2>2. CASE l # o
    BY <1>0, <2>2 DEF Opening
  <2> QED
    BY <2>1, <2>2
<1>6. \A x : ToFirst(x, o2) <=> ToFirst(x, o)
  BY <1>4 DEF ToFirst
<1>7. Confirms(o2, j, n2, c2)
  <2>1. CASE l = o
    <3>1. ToFirst(m, o)
      BY <2>1 DEF ToFirst, To
    <3>2. o.resp # "2xx" /\ o2.resp = m.code
      BY <1>0, <1>3, <2>1 DEF IsNow
    <3> QED
      BY <1>0, <1>6, <3>1, <3>2 DEF Covers, Confirms
  <2>2. CASE l # o
    BY <1>0, <1>6, <2>2 DEF Covers, Confirms
  <2> QED
    BY <2>1, <2>2
<1>8. ASSUME q PROVE Rings(o2, j, n2)
  <2> SUFFICES ASSUME j.state = "early" PROVE FALSE
    BY DEF Rings
  <2>1. o.st = "trying" /\ o.resp # "2xx"
    BY <1>3 DEF SharedBy, Ringing
  <2>2. l = o
    BY <1>0, <2>1
  <2>3. ToFirst(m, o)
    BY <2>2 DEF ToFirst, To
  <2> QED
    BY <1>8, <2>3 DEF Covers, Rings
<1>9. ASSUME q PROVE Keeps(now, p2, j, n2)
  <2> SUFFICES ASSUME j.state = "confirmed", j.status # TERMINATED PROVE Keeps(now, p2, j, n2)
    BY DEF Keeps
  <2>1. Keeps(l, p, j, n)
    BY <1>9 DEF Covers
  <2>2. \A x \in n : ~Asking(x)
    BY <2>1 DEF Keeps, Travels
  <2>3. m.code = "2xx" /\ m.value = j.left /\ j.left > 0 /\ l.ask >= MinExpires
    BY <2>1 DEF Keeps
  <2>4. l.ask > 0 /\ j.left = l.ask - l.age /\ Period(p, l.ask)
    BY <2>1, <2>2 DEF Keeps
  <2>5. j.inc.st # "open"
    BY <2>1 DEF Keeps
  <2>6. Period(p2, l.ask)
    <3>1. l.ask \in Nat
      BY DEF Transactions
    <3> QED
      BY <1>0, <2>3, <2>4, <3>1, ShorterPeriod
  <2>7. \A x \in n2 : To(x) /\ x.n = now.n => x.code = "2xx" /\ x.value = j.left
    BY <2>1 DEF Keeps, IsNow
  <2>8. now.resp = "2xx" /\ now.ask = l.ask /\ now.age = l.age
    BY <2>3 DEF IsNow
  <2> QED
    BY <2>2, <2>3, <2>4, <2>5, <2>6, <2>7, <2>8 DEF Keeps
<1> QED
  BY <1>1, <1>2, <1>5, <1>7, <1>8, <1>9 DEF Covers

\* A refresh, or a refresh again with credentials.
LEMMA AddsCovers ==
  ASSUME NEW o \in Transactions, NEW l \in Transactions, NEW dlgs, NEW j, NEW n, n \subseteq Messages,
         NEW p, NEW c, NEW q,
         Covers(o, l, p, j, n, c, q), SharedBy(o, dlgs, j, n), o.resp = "2xx", l.st # "trying",
         j.inc.n \in Nat, j.inc.st \in {"open", "answered"},
         NEW tr \in Transactions, tr.n > l.n, tr.st = "trying", tr.resp = "none", tr.age = 0,
         tr.ask \in Asks \cup {0, MinExpires},
         NEW a, Asking(a), a.n = tr.n, a.ask = tr.ask, a.tag = j.tag,
         NEW p2, NEW q2, q2 => q,
         q2 /\ l.resp = "2xx" => tr.ask >= MinExpires /\ (tr.ask > 0 => Period(p2, tr.ask))
  PROVE  Covers(o, tr, p2, j, n \cup {a}, c, q2)
<1> DEFINE n2 == n \cup {a}
<1>1. l.n \in Nat /\ tr.n \in Nat /\ l.n # tr.n
  BY DEF Transactions
<1>2. \A m \in n : Asking(m) \/ To(m) => m.n \in Nat /\ m.n < tr.n
  BY <1>1 DEF Covers, Newest, Messages
<1>3. j.state # "deleted" => j.inc.n < tr.n
  BY <1>1 DEF Covers, Newest
<1>4. ~To(a)
  BY DEF To, Asking
<1>5. Newest(tr, j, n2)
  BY <1>1, <1>2, <1>3, <1>4 DEF Newest
<1>6. Says(tr, j, n2)
  <2>1. tr.age = 0 * Tick /\ 0 \in Nat
    BY ExSubscriptionAssumption
  <2>2. \A m \in n2 : m.n = tr.n /\ (Asking(m) \/ To(m)) => m = a
    BY <1>2
  <2>3. j.state # "deleted" => j.inc.n # tr.n
    BY <1>1, <1>3
  <2> QED
    BY <1>4, <2>1, <2>2, <2>3 DEF Says
<1>7. Opening(o, p2)
  BY DEF Opening
<1>8. ~ToFirst(a, o)
  BY <1>4 DEF ToFirst, To
<1>9. Confirms(o, j, n2, c)
  BY <1>8 DEF Covers, Confirms
<1>10. Rings(o, j, n2)
  BY DEF Rings, SharedBy, Ringing, Dialogue
<1>11. ASSUME q2, j.state = "confirmed", j.status # TERMINATED PROVE Keeps(tr, p2, j, n2)
  <2>1. Keeps(l, p, j, n)
    BY <1>11 DEF Covers
  <2>2. l.resp = "2xx" /\ j.left > 0 /\ j.inc.st = "answered"
    BY <1>11, <2>1 DEF Keeps
  <2>3. \A m \in n : ~Asking(m)
    BY <1>11, <2>1 DEF Keeps, Travels
  <2>4. tr.ask >= MinExpires /\ (tr.ask > 0 => Period(p2, tr.ask))
    BY <1>11, <2>2
  <2>5. \A m \in n2 : Asking(m) => m = a
    BY <2>3
  <2>6. \A m \in n2 : To(m) => m.n # tr.n
    BY <1>1, <1>2, <1>4
  <2>7. Travels(a, tr, j, n2)
    BY <2>2, <2>5, <2>6 DEF Travels
  <2> QED
    BY <2>2, <2>4, <2>5, <2>6, <2>7 DEF Keeps
<1>12. q2 => Keeps(tr, p2, j, n2)
  BY <1>11 DEF Keeps
<1> QED
  BY <1>5, <1>6, <1>7, <1>9, <1>10, <1>12 DEF Covers

LEMMA LongerInterval ==
  ASSUME NEW a \in Nat, NEW b \in Nat, a <= b, a > 0
  PROVE  RefreshInterval(3600, a) <= RefreshInterval(3600, b) /\ RefreshInterval(3600, a) >= 1
<1>1. RefreshInterval(3600, a) = IF a < 3600 - 15 THEN a ELSE 3600
  BY RefreshIntervalIs
<1>2. RefreshInterval(3600, b) = IF b < 3600 - 15 THEN b ELSE 3600
  BY RefreshIntervalIs
<1> QED
  BY <1>1, <1>2

\* The first SUBSCRIBE again, with credentials or for longer.
LEMMA AgainCovers ==
  ASSUME NEW o \in Transactions, NEW dlgs, NEW j, NEW n, n \subseteq Messages, NEW p \in Nat, NEW c, NEW q,
         Covers(o, o, p, j, n, c, q), SharedBy(o, dlgs, j, n), Turned(o),
         NEW tr \in Transactions, tr.n = o.n + 1, tr.st = "trying", tr.resp = "none", tr.age = 0,
         tr.ask = AskAgain(o),
         NEW a, Asking(a), a.n = tr.n, a.ask = tr.ask,
         NEW q2
  PROVE  Covers(tr, tr, p, j, n \cup {a}, c, q2)
<1> DEFINE n2 == n \cup {a}
<1>1. o.n \in Nat /\ tr.n \in Nat /\ o.ask \in Nat
  BY DEF Transactions
<1>2. j.state = "deleted"
  BY DEF SharedBy, Quiet
<1>3. \A m \in n : Asking(m) \/ To(m) => m.n \in Nat /\ m.n < tr.n
  BY <1>1 DEF Covers, Newest, Messages
<1>4. ~To(a)
  BY DEF To, Asking
<1>5. Newest(tr, j, n2)
  BY <1>1, <1>2, <1>3, <1>4 DEF Newest
<1>6. o.resp # "2xx"
  BY DEF Turned
<1>7. o.ask > 0 /\ Period(p, o.ask)
  BY <1>6 DEF Covers, Opening
<1>8. tr.ask \in Asks \cup {0, MinExpires}
  BY DEF AskAgain, Covers, Says
<1>9. Says(tr, j, n2)
  <2>1. tr.age = 0 * Tick /\ 0 \in Nat
    BY ExSubscriptionAssumption
  <2>2. \A m \in n2 : m.n = tr.n /\ (Asking(m) \/ To(m)) => m = a
    BY <1>1, <1>3
  <2> QED
    BY <1>2, <1>4, <1>8, <2>1, <2>2 DEF Says
<1>10. tr.ask >= o.ask
  <2>1. o.resp = "423" => o.ask < MinExpires
    BY DEF Covers, Says
  <2> QED
    BY <1>1, <2>1, ExSubscriptionAssumption DEF AskAgain
<1>11. Opening(tr, p)
  <2>1. tr.ask \in Nat
    BY DEF Transactions
  <2>2. RefreshInterval(3600, o.ask) <= RefreshInterval(3600, tr.ask)
    BY <1>1, <1>7, <1>10, <2>1, LongerInterval
  <2>3. RefreshInterval(3600, o.ask) \in Nat /\ RefreshInterval(3600, tr.ask) \in Nat
    BY <1>1, <2>1, RefreshIntervalTyped
  <2>4. Period(p, tr.ask)
    BY <1>7, <2>2, <2>3 DEF Period
  <2> QED
    BY <1>1, <1>7, <1>10, <2>1, <2>4 DEF Opening
<1>12. \A m \in n2 : ~ToFirst(m, tr)
  <2>1. \A m \in n : To(m) => m.n \in Nat /\ m.n < tr.n
    BY <1>3
  <2> QED
    BY <1>1, <1>4, <2>1, FirstIs
<1>13. Confirms(tr, j, n2, c)
  BY <1>6, <1>12 DEF Covers, Confirms
<1>14. Rings(tr, j, n2) /\ Keeps(tr, p, j, n2)
  BY <1>2 DEF Rings, Keeps
<1> QED
  BY <1>5, <1>9, <1>11, <1>13, <1>14 DEF Covers

-----------------------------------------------------------------------------
\* Time goes on.

LEMMA InTime ==
  ASSUME ShortTicks, NEW ask \in Asks \cup {MinExpires}, ask > 0, ask >= MinExpires,
         NEW k \in Nat, NEW age, age = Seconds(k),
         NEW p \in Nat,
         age <= 32 \/ (Period(p, ask) /\ age <= p - p \div 10 /\ age <= p - 6)
  PROVE  age + Tick < ask
<1> DEFINE refresh == RefreshInterval(3600, ask)
<1>1. ask \in Nat /\ Tick \in Nat /\ Tick - 1 \in Nat
  BY ExSubscriptionAssumption
<1>2. refresh \in Nat /\ refresh <= 3600
  BY <1>1, RefreshIntervalTyped, RefreshIntervalIs
<1>3. age \in Nat /\ k <= age
  <2>1. k * (Tick - 1) \in Nat
    BY <1>1
  <2>2. age = k * (Tick - 1) + k
    BY <1>1 DEF Seconds
  <2> QED
    BY <2>1, <2>2
<1>4. age <= 32 \/ (p <= refresh /\ age <= p - p \div 10 /\ age <= p - 6)
  BY DEF Period
<1>5. age <= 32 \/ (age <= refresh - refresh \div 10 /\ age <= refresh - 6)
  <2> HIDE DEF refresh
  <2> QED
    BY <1>2, <1>3, <1>4
<1>6. k \in 0 .. Longest
  <2> HIDE DEF refresh
  <2>1. age <= 32 \/ age <= refresh - 6
    BY <1>5, Zenon
  <2>2. age <= 3600
    BY <1>2, <1>3, <2>1, SMTT(30)
  <2> QED
    BY <1>3, <2>2 DEF Longest
<1>7. Waits(ask, age)
  <2> HIDE DEF refresh
  <2>1. age <= 32 \/ (age <= refresh - refresh \div 10 /\ age <= refresh - 6)
    BY <1>5
  <2> QED
    BY <2>1, Zenon DEF Waits, refresh
<1>8. age + Tick < ask
  <2>1. Waits(ask, Seconds(k))
    BY <1>7, Zenon
  <2>2. ask > 0 /\ ask >= MinExpires /\ Waits(ask, Seconds(k)) => Seconds(k) + Tick < ask
    <3>1. \A n \in 0 .. Longest :
             ask > 0 /\ ask >= MinExpires /\ Waits(ask, Seconds(n)) => Seconds(n) + Tick < ask
      BY Zenon DEF ShortTicks
    <3> QED
      BY <1>6, <3>1, Zenon
  <2>3. Seconds(k) + Tick < ask
    BY <2>1, <2>2, Zenon
  <2> QED
    BY <2>3, Zenon
<1> QED
  BY <1>8

LEMMA TickCovers ==
  ASSUME ShortTicks, NEW o \in Transactions, NEW l \in Transactions, NEW dlgs, NEW j, NEW p \in Nat, NEW c, NEW q,
         Covers(o, l, p, j, {}, c, q), SharedBy(o, dlgs, j, {}), Held(j), l = Current(o, dlgs), j.left \in Int,
         NEW o2, Grown(o2, o), NEW l2, Grown(l2, l),
         NEW k, IF j.live
                THEN /\ k.live /\ k.tag = j.tag /\ k.status = j.status /\ k.state = j.state /\ k.inc = j.inc
                     /\ k.left = IF j.left > 0 THEN j.left - Tick ELSE -Tick
                ELSE k = j,
         \A t \in {o, l} : t.st = "trying" => t.age <= 32,
         q /\ l.st # "trying" /\ l.resp = "2xx" /\ p >= 1 => l.age <= p - p \div 10 /\ l.age <= p - 6
  PROVE  Covers(o2, l2, p, k, {}, c, q)
<1>1. Tick \in Nat /\ Tick >= 1
  BY ExSubscriptionAssumption
<1>2. o2.n = o.n /\ o2.ask = o.ask /\ o2.st = o.st /\ o2.resp = o.resp
      /\ l2.n = l.n /\ l2.ask = l.ask /\ l2.st = l.st /\ l2.resp = l.resp
  BY DEF Grown
<1>3. k.state = j.state /\ k.inc = j.inc /\ (k.live <=> j.live) /\ k.status = j.status
  OBVIOUS
<1>4. Newest(l2, k, {})
  BY <1>2, <1>3 DEF Covers, Newest
<1>5. PICK i \in Nat : l.age = i * Tick
  BY DEF Covers, Says
<1>6. \E i2 \in Nat : l2.age = i2 * Tick
  <2>1. l.age + Tick = (i + 1) * Tick /\ i + 1 \in Nat
    BY <1>1, <1>5
  <2> QED
    BY <1>5, <2>1 DEF Grown
<1>7. Says(l2, k, {})
  BY <1>2, <1>3, <1>6 DEF Covers, Says
<1>8. Opening(o2, p) /\ Confirms(o2, k, {}, c)
  BY <1>2, <1>3 DEF Covers, Opening, Confirms
<1>9. l.ask \in Nat /\ l.age \in Nat /\ (l.ask > 0 => l.ask \in Asks \cup {MinExpires})
  BY DEF Covers, Says, Transactions
<1>10. ASSUME q, l.ask > 0, l.ask >= MinExpires, j.left = l.ask - l.age, j.left > 0, j.live,
              l.st = "trying" \/ (l.resp = "2xx" /\ Period(p, l.ask))
       PROVE  k.left = l2.ask - l2.age /\ k.left > 0
  <2>1. l.age <= 32 \/ (Period(p, l.ask) /\ l.age <= p - p \div 10 /\ l.age <= p - 6)
    BY <1>10 DEF Period
  <2>2. l.age + Tick < l.ask
    <3> DEFINE ask == l.ask
               age == l.age
    <3>1. ask \in Asks \cup {MinExpires} /\ ask > 0 /\ ask >= MinExpires
      BY <1>9, <1>10
    <3>0. age = Seconds(i)
      BY <1>5 DEF Seconds
    <3>2. age <= 32 \/ (Period(p, ask) /\ age <= p - p \div 10 /\ age <= p - 6)
      BY <2>1
    <3>3. age + Tick < ask
      <4> HIDE DEF ask, age
      <4> QED
        BY <3>0, <3>1, <3>2, InTime
    <3> QED
      BY <3>3
  <2>3. l2.age = l.age + Tick
    BY <1>1, <1>9, <2>2 DEF Grown
  <2>4. k.left = j.left - Tick
    BY <1>10
  <2> QED
    BY <1>1, <1>2, <1>9, <1>10, <2>2, <2>3, <2>4
<1>11. ASSUME q, k.state = "early", o2.ask >= MinExpires PROVE k.left = o2.ask - o2.age /\ k.left > 0
  <2>1. j.state = "early" /\ j.live
    BY <1>3, <1>11 DEF Held
  <2>2. o.st = "trying" /\ (dlgs # <<>> => dlgs[1].state = "early")
    BY <2>1 DEF SharedBy, Ringing
  <2>3. o.resp \in {"none", "1xx"}
    BY <2>2 DEF SharedBy, Dialogue
  <2>4. l = o
    BY <2>2 DEF Current, SharedBy, Dialogue, DialogOf
  <2>5. o.ask > 0
    BY <2>3 DEF Covers, Opening
  <2>6. j.left = o.ask - o.age /\ j.left > 0
    BY <1>2, <1>11, <2>1 DEF Covers, Rings
  <2>7. l2.age = o2.age
    BY <2>4 DEF Grown
  <2> QED
    BY <1>2, <1>10, <1>11, <2>1, <2>2, <2>4, <2>5, <2>6, <2>7
<1>12. q => Rings(o2, k, {})
  BY <1>11 DEF Rings
<1>13. ASSUME q, k.state = "confirmed", k.status # TERMINATED PROVE Keeps(l2, p, k, {})
  <2>1. j.state = "confirmed" /\ j.live /\ j.status # TERMINATED
    BY <1>3, <1>13 DEF Held
  <2>2. Keeps(l, p, j, {})
    BY <1>13 DEF Covers
  <2>3. /\ l.ask >= MinExpires /\ j.left > 0 /\ l.ask > 0 /\ Period(p, l.ask)
        /\ l.st # "trying" => l.resp = "2xx"
        /\ j.left = l.ask - l.age
        /\ j.inc.st = "open" => j.inc.n = l.n /\ l.st = "trying"
    BY <2>1, <2>2 DEF Keeps
  <2>4. k.left = l2.ask - l2.age /\ k.left > 0
    BY <1>10, <1>13, <2>1, <2>3
  <2> QED
    BY <1>2, <1>3, <2>3, <2>4 DEF Keeps
<1>14. q => Keeps(l2, p, k, {})
  BY <1>13 DEF Keeps
<1> QED
  BY <1>4, <1>7, <1>8, <1>12, <1>14 DEF Covers

-----------------------------------------------------------------------------
\* The steps.

Timed == /\ Behind(Latest, js.dlgs)
         /\ Covers(js.out, Latest, js.period, jn, net, seen.confirmed, Quietly)

LEMMA LatestIs ==
  ASSUME TypeOK, js.live, Both(jn, net)
  PROVE  /\ Latest \in Transactions /\ Latest \in TransactionsOf(js)
         /\ js.dlgs = <<>> => Latest = js.out
         /\ js.dlgs # <<>> =>
              /\ 1 \in DOMAIN js.dlgs /\ Latest = LastOut(js, 1)
              /\ js.dlgs[1].outs = <<>> => Latest = js.out
              /\ js.dlgs[1].outs # <<>> => /\ 1 \in DOMAIN js.dlgs[1].outs /\ Latest = js.dlgs[1].outs[1]
                                           /\ Latest.n > js.out.n /\ js.out.resp = "2xx"
<1>1. js.out \in Transactions /\ js.dlgs \in Seq(Dialogs)
  BY Parts
<1>2. js.out \in TransactionsOf(js)
  BY DEF TransactionsOf
<1>3. CASE js.dlgs = <<>>
  BY <1>1, <1>2, <1>3 DEF Latest, Current
<1>4. CASE js.dlgs # <<>>
  <2>1. 1 \in DOMAIN js.dlgs
    BY <1>1, <1>4
  <2>2. DialogOf(js.out, js.dlgs[1], jn.tag) /\ js.dlgs[1].outs \in Seq(Transactions)
    BY <2>1, Only, TagTyped
  <2>3. Latest = LastOut(js, 1)
    BY <1>4 DEF Latest, Current, LastOut
  <2>4. CASE js.dlgs[1].outs = <<>>
    BY <1>1, <1>2, <1>4, <2>1, <2>3, <2>4 DEF LastOut
  <2>5. CASE js.dlgs[1].outs # <<>>
    <3>1. 1 \in DOMAIN js.dlgs[1].outs
      BY <2>2, <2>5
    <3>2. Latest = js.dlgs[1].outs[1]
      BY <2>3, <2>5 DEF LastOut
    <3>3. Latest \in Transactions
      BY <2>2, <3>1, <3>2
    <3>4. Latest \in Range(js.dlgs[1].outs)
      BY <3>1, <3>2 DEF Range
    <3>5. Latest \in TransactionsOf(js)
      BY <2>1, <3>4 DEF TransactionsOf
    <3>6. Latest.n > js.out.n /\ js.out.resp = "2xx"
      BY <2>2, <2>5, <3>1, <3>2 DEF DialogOf
    <3> QED
      BY <1>4, <2>1, <2>3, <2>5, <3>1, <3>2, <3>3, <3>5, <3>6
  <2> QED
    BY <2>4, <2>5
<1> QED
  BY <1>3, <1>4

\* Nothing happens to the subscriber, and nothing new for it to the notifier.
LEMMA SameTimed ==
  ASSUME Timed, js' = js, LikeNotifier(jn', jn), LikeNet(net', net), seen'.confirmed = seen.confirmed,
         Quietly' => Quietly
  PROVE  Timed'
<1>1. LikeRequest(js.out, js.out) /\ LikeRequest(Latest, Latest)
  BY DEF LikeRequest
<1>2. Covers(js.out, Latest, js.period, jn', net', seen.confirmed, Quietly')
  BY <1>1, LikeCovers DEF Timed
<1>3. Latest' = Latest
  BY DEF Latest
<1> QED
  BY <1>2, <1>3 DEF Timed

LEMMA LikeKept ==
  ASSUME KeepsNotifier \/ DropsNotifier \/ jn' = jn
  PROVE  LikeNotifier(jn', jn)
  BY DEF KeepsNotifier, DropsNotifier, LikeNotifier

\* Trouble, the bound and the history only grow.
LEMMA StillQuiet ==
  ASSUME TypeOK, \/ trouble' = trouble
                 \/ trouble' = trouble + 1,
         seen'.short = seen.short, seen'.subscribes = seen.subscribes
  PROVE  /\ Quietly' => Quietly
         /\ trouble' = trouble + 1 => ~Quietly'
  BY DEF Quietly, TypeOK

LEMMA SubscribeTimed ==
  ASSUME TypeOK, js.live, Both(jn, net), Held(jn), Timed, RcvSubscribe
  PROVE  Timed'
<1> DEFINE o == js.out
           l == Latest
<1>1. PICK m \in net : m.kind = "SUBSCRIBE" /\ (NewSubscribe(m) \/ UnknownSubscribe(m) \/ SubscribeWithin(m))
  BY DEF RcvSubscribe
<1>2. UNCHANGED <<js, replaced, trouble, seen>>
  BY DEF RcvSubscribe
<1>3. Quietly' = Quietly /\ Latest' = Latest
  BY <1>2 DEF Quietly, Latest
<1>4. Covers(o, l, js.period, jn, net, seen.confirmed, Quietly)
  BY DEF Timed
<1>5. OnItsWay(m, o, js.dlgs, jn, net) /\ Ringing(o, js.dlgs, jn, net) /\ Dialogue(o, js.dlgs, jn.tag)
  BY DEF Both, SharedBy
<1>6. Asking(m) /\ m.n \in Nat /\ m.ask \in Nat /\ o \in Transactions /\ l \in Transactions
  BY <1>1, MessageTyped, Parts, LatestIs DEF Asking
<1>7. SUFFICES Covers(o, l, js.period, jn', net', seen.confirmed, Quietly)
  BY <1>2, <1>3 DEF Timed
<1>8. CASE NewSubscribe(m)
  <2>1. /\ m.tag = 0 /\ jn'.live /\ jn'.left = m.ask /\ jn'.state = "early"
        /\ jn'.inc.n = m.n /\ jn'.inc.ask = m.ask /\ net' = net \ {m}
    BY <1>8, NewSubscribeEffect
  <2>2. Waiting(m, o, js.dlgs, jn, net)
    BY <1>1, <1>5, <2>1 DEF OnItsWay
  <2>3. l = o
    BY <2>2, LatestIs DEF Waiting
  <2> HIDE DEF o, l
  <2>4. Covers(o, o, js.period, jn', net \ {m}, seen.confirmed, Quietly)
    BY <1>4, <1>6, <2>1, <2>2, <2>3, NewCovers
  <2> QED
    BY <2>1, <2>3, <2>4
<1>9. ASSUME m.tag # 0 PROVE m.n > o.n /\ o.resp = "2xx" /\ o.st # "trying"
  BY <1>1, <1>5, <1>9 DEF OnItsWay, Dialogue
<1> DEFINE a == Answer(m, "4xx", m.tag, 0)
<1>10. To(a) /\ a.n = m.n /\ a.code = "4xx"
  <2>1. "4xx" \in Codes
    BY DEF Codes
  <2> QED
    BY <1>1, <2>1, AnswerSays DEF To
<1>11. ASSUME m.tag # 0, net' = (net \ {m}) \cup {a}, jn' = jn,
              Quietly => ~(jn.state = "confirmed" /\ jn.status # TERMINATED)
       PROVE  Covers(o, l, js.period, jn', net', seen.confirmed, Quietly)
  <2>1. m.n > o.n /\ o.st # "trying"
    BY <1>9, <1>11
  <2> HIDE DEF o, l, a
  <2>2. Covers(o, l, js.period, jn, (net \ {m}) \cup {a}, seen.confirmed, Quietly)
    BY <1>4, <1>5, <1>6, <1>10, <1>11, <2>1, FailedCovers
  <2> QED
    BY <1>11, <2>2
<1>12. ASSUME Quietly, jn.state = "confirmed", jn.status # TERMINATED
       PROVE  Travels(m, l, jn, net) /\ jn.inc.st # "open"
  <2>1. Keeps(l, js.period, jn, net)
    BY <1>4, <1>12 DEF Covers
  <2> QED
    BY <1>6, <1>12, <2>1 DEF Keeps
<1>13. CASE UnknownSubscribe(m)
  <2>1. m.tag # 0 /\ ~OfDialog(m) /\ jn' = jn /\ net' = (net \ {m}) \cup {a}
    BY <1>13, UnknownSubscribeEffect
  <2>2. Quietly => ~(jn.state = "confirmed" /\ jn.status # TERMINATED)
    BY <1>12, <2>1 DEF OfDialog, Travels, Held
  <2> QED
    BY <1>11, <2>1, <2>2
<1>14. CASE SubscribeWithin(m)
  <2>1. /\ jn.live /\ jn.state # "deleted" /\ m.tag = jn.tag
        /\ IF jn.inc.st = "open"
           THEN jn' = jn /\ net' = (net \ {m}) \cup {a}
           ELSE /\ jn'.state = jn.state
                /\ jn'.left = m.ask /\ jn'.inc.n = m.n /\ jn'.inc.ask = m.ask
                /\ jn'.status = IF m.ask = 0 THEN TERMINATED ELSE jn.status
                /\ net' = net \ {m}
    BY <1>14, SubscribeWithinEffect
  <2>2. m.tag # 0
    <3>1. jn.tag \in Nat /\ jn.tag >= 1
      BY <2>1, Parts DEF Held
    <3> QED
      BY <2>1, <3>1
  <2>3. CASE jn.inc.st = "open"
    <3>1. Quietly => ~(jn.state = "confirmed" /\ jn.status # TERMINATED)
      BY <1>12, <2>3
    <3> QED
      BY <1>11, <2>1, <2>2, <2>3, <3>1
  <2>4. CASE jn.inc.st # "open"
    <3>1. jn.state = "confirmed"
      <4>1. jn.state # "early"
        BY <1>5, <1>9, <2>2 DEF Ringing
      <4> QED
        BY <2>1, <4>1, Parts DEF DialogStates
    <3> HIDE DEF o, l, a
    <3>2. Covers(o, l, js.period, jn', net \ {m}, seen.confirmed, Quietly)
      BY <1>4, <1>6, <2>1, <2>4, <3>1, WithinCovers
    <3> QED
      BY <2>1, <2>4, <3>2
  <2> QED
    BY <2>3, <2>4
<1> QED
  BY <1>1, <1>8, <1>13, <1>14

LEMMA SendAnswerTimed ==
  ASSUME TypeOK, js.live, Both(jn, net), Held(jn), Timed, eXosip_insubscription_send_answer
  PROVE  Timed'
<1> DEFINE o == js.out
           l == Latest
<1>1. /\ jn.live /\ jn.inc.st = "open"
      /\ UNCHANGED <<js, replaced, stranded, seen>>
  BY SendAnswerEffect
<1>2. PICK code \in Codes : \E a :
         /\ AnswersWith(code, a)
         /\ \/ /\ code = "2xx" /\ Accepts /\ a.value = TimeLeft /\ trouble' = trouble
               /\ jn.inc.ask = 0 \/ jn.inc.ask >= MinExpires
            \/ /\ code = "423" /\ Refuses /\ trouble' = trouble
               /\ jn.inc.ask # 0 /\ jn.inc.ask < MinExpires
            \/ code = "1xx" /\ jn' = jn /\ trouble' = trouble + 1
            \/ code \in {"401", "4xx"} /\ Refuses /\ trouble' = trouble + 1
  BY SendAnswerEffect
<1>3. PICK a :
         /\ AnswersWith(code, a)
         /\ \/ /\ code = "2xx" /\ Accepts /\ a.value = TimeLeft /\ trouble' = trouble
               /\ jn.inc.ask = 0 \/ jn.inc.ask >= MinExpires
            \/ /\ code = "423" /\ Refuses /\ trouble' = trouble
               /\ jn.inc.ask # 0 /\ jn.inc.ask < MinExpires
            \/ code = "1xx" /\ jn' = jn /\ trouble' = trouble + 1
            \/ code \in {"401", "4xx"} /\ Refuses /\ trouble' = trouble + 1
  BY <1>2
<1>4. To(a) /\ a.n = jn.inc.n /\ a.code = code /\ net' = net \cup {a}
  BY <1>3 DEF AnswersWith, To
<1>5. (Quietly' => Quietly) /\ (trouble' = trouble + 1 => ~Quietly')
  BY <1>1, <1>3, StillQuiet
<1>6. Latest' = Latest
  BY <1>1 DEF Latest
<1>7. /\ jn'.left = jn.left /\ jn'.status = jn.status /\ jn'.inc.n = jn.inc.n /\ jn'.inc.ask = jn.inc.ask
      /\ jn'.tag = jn.tag
      /\ \/ /\ a.code = "2xx" /\ a.value = (IF jn.left < 0 THEN 0 ELSE jn.left)
            /\ jn.inc.ask = 0 \/ jn.inc.ask >= MinExpires
            /\ jn'.state = "confirmed" /\ jn'.inc.st = "answered"
         \/ /\ a.code = "423" /\ jn.inc.ask < MinExpires
            /\ jn'.state = IF jn.state = "early" THEN "deleted" ELSE jn.state
         \/ a.code = "1xx" /\ jn' = jn /\ ~Quietly'
         \/ /\ a.code \in {"401", "4xx"} /\ ~Quietly'
            /\ jn'.state = IF jn.state = "early" THEN "deleted" ELSE jn.state
  BY <1>3, <1>4, <1>5 DEF Accepts, Refuses, TimeLeft
<1>8. jn.state \in {"early", "confirmed"} /\ jn.left \in Int
  BY <1>1, Parts DEF Held, DialogStates
<1>9. o \in Transactions /\ l \in Transactions
  BY Parts, LatestIs
<1>10. SharedBy(o, js.dlgs, jn, net) /\ l = Current(o, js.dlgs)
  BY DEF Both, Latest
<1>11. Covers(o, l, js.period, jn, net, seen.confirmed, Quietly)
  BY DEF Timed
<1> HIDE DEF o, l
<1>12. Covers(o, l, js.period, jn', net \cup {a}, seen.confirmed, Quietly')
  BY <1>1, <1>4, <1>5, <1>7, <1>8, <1>9, <1>10, <1>11, RepliedCovers
<1> QED
  BY <1>1, <1>4, <1>6, <1>12 DEF Timed, o, l

LEMMA AnswerTo ==
  ASSUME TypeOK, NEW m \in net, m.kind \in {"SUBSCRIBE", "NOTIFY"}, NEW code \in Codes
  PROVE  LET a == Answer(m, code, m.tag, 0)
         IN (To(a) => Asking(m)) /\ ~Asking(a) /\ a.n = m.n /\ a.code = code
<1> DEFINE a == Answer(m, code, m.tag, 0)
<1>1. /\ a.kind = IF m.kind = "NOTIFY" THEN "to NOTIFY" ELSE "to SUBSCRIBE"
      /\ a.n = m.n /\ a.code = code
  BY AnswerSays
<1> HIDE DEF a
<1>2. (To(a) => Asking(m)) /\ ~Asking(a)
  BY <1>1 DEF To, Asking
<1> QED
  BY <1>1, <1>2 DEF a

LEMMA ProxyTimed ==
  ASSUME TypeOK, js.live, Both(jn, net), Timed, ProxyAnswers
  PROVE  Timed'
<1> DEFINE l == Latest
<1>1. PICK m \in net, code \in {"401", "4xx"} :
         /\ m.kind \in {"SUBSCRIBE", "NOTIFY"}
         /\ net' = (net \ {m}) \cup {Answer(m, code, m.tag, 0)}
  BY ProxyEffect
<1>2. trouble' = trouble + 1 /\ UNCHANGED <<js, replaced, jn, stranded, seen>>
  BY ProxyEffect
<1> DEFINE a == Answer(m, code, m.tag, 0)
<1>3. code \in Codes
  BY DEF Codes
<1>4. (To(a) => Asking(m)) /\ ~Asking(a) /\ a.n = m.n /\ a.code = code
  BY <1>1, <1>3, AnswerTo
<1>7. Asking(m) => m.n <= l.n
  BY DEF Timed, Covers, Newest
<1>8. ~Quietly'
  BY <1>2, StillQuiet
<1>9. Covers(js.out, l, js.period, jn, net, seen.confirmed, Quietly)
  BY DEF Timed
<1> DEFINE n2 == (net \ {m}) \cup {a}
<1>10. \A x \in n2 : Asking(x) \/ To(x) =>
             x \in net \/ (To(x) /\ x.n <= l.n /\ x.code \in {"1xx", "401", "4xx"})
  <2> HIDE DEF a
  <2> QED
    BY <1>4, <1>7
<1>11. net' = n2
  BY <1>1
<1> HIDE DEF l, n2
<1>12. Covers(js.out, l, js.period, jn, n2, seen.confirmed, Quietly')
  BY <1>8, <1>9, <1>10, TroubleCovers
<1>13. Latest' = Latest
  BY <1>2 DEF Latest
<1> QED
  BY <1>2, <1>11, <1>12, <1>13 DEF Timed, l

LEMMA OutageTimed ==
  ASSUME TypeOK, js.live, Timed, Outage
  PROVE  Timed'
<1>1. trouble' = trouble + 1 /\ UNCHANGED <<js, replaced, jn, stranded, seen>> /\ net' \subseteq net
  BY DEF Outage
<1>2. ~Quietly'
  BY <1>1, StillQuiet
<1>3. \A x \in net' : Asking(x) \/ To(x) =>
             x \in net \/ (To(x) /\ x.n <= Latest.n /\ x.code \in {"1xx", "401", "4xx"})
  BY <1>1
<1>4. Covers(js.out, Latest, js.period, jn, net', seen.confirmed, Quietly')
  BY <1>2, <1>3, TroubleCovers DEF Timed
<1>5. Latest' = Latest
  BY <1>1 DEF Latest
<1> QED
  BY <1>1, <1>4, <1>5 DEF Timed

LEMMA NotifiesTimed ==
  ASSUME TypeOK, Timed, js' = js, NEW tr, Notifies(tr), trouble' = trouble,
         seen'.confirmed = seen.confirmed, seen'.short = seen.short, seen'.subscribes = seen.subscribes
  PROVE  Timed'
<1>1. LikeNotifier(jn', jn)
  BY LikeKept DEF Notifies
<1>2. Notify(tr, jn.tag).kind = "NOTIFY" /\ net' = net \cup {Notify(tr, jn.tag)}
  BY Parts, NotifyTyped DEF Notifies
<1>3. LikeNet(net', net)
  BY <1>2 DEF LikeNet, Asking, To
<1>4. Quietly' => Quietly
  BY StillQuiet
<1> QED
  BY <1>1, <1>3, <1>4, SameTimed

\* What concerns NOTIFYs only, and what is lost by the notifier.
LEMMA NotifierTimed ==
  ASSUME TypeOK, js.live, Timed,
         \/ SendState \/ SendEnd \/ eXosip_insubscription_remove \/ eXosip_automatic_notify
         \/ RcvNotifyAnswer \/ KillNotify \/ RcvLateAnswer
         \/ TransportError /\ Closed("unreachable")
  PROVE  js'.live => Timed'
<1>0. seen \in History
  BY DEF TypeOK
<1>1. CASE SendState \/ SendEnd
  <2>1. PICK state \in Nat : SendNotify(state)
    BY <1>1 DEF SendState, SendEnd, ACTIVE, TERMINATED
  <2>2. PICK tr : Notifies(tr)
    BY <2>1, SendNotifyEffect
  <2>3. /\ seen' = IF state = TERMINATED THEN [seen EXCEPT !.closing = TRUE] ELSE seen
        /\ js' = js /\ trouble' = trouble
    BY <2>1, SendNotifyEffect
  <2>4. seen'.confirmed = seen.confirmed /\ seen'.short = seen.short /\ seen'.subscribes = seen.subscribes
    BY <1>0, <2>3 DEF History
  <2> QED
    BY <2>2, <2>3, <2>4, NotifiesTimed
<1>2. CASE eXosip_automatic_notify
  <2>1. PICK tr : Notifies(tr)
    BY <1>2, AutomaticNotifyEffect
  <2>2. UNCHANGED <<js, trouble, seen>>
    BY <1>2, AutomaticNotifyEffect
  <2> QED
    BY <2>1, <2>2, NotifiesTimed
<1>3. ASSUME KeepsNotifier \/ DropsNotifier \/ jn' = jn, js' = js, LikeNet(net', net),
             trouble' = trouble \/ trouble' = trouble + 1,
             seen' = seen \/ \E why : seen' = [seen EXCEPT !.closed = why]
      PROVE  Timed'
  <2>1. seen'.confirmed = seen.confirmed /\ seen'.short = seen.short /\ seen'.subscribes = seen.subscribes
    BY <1>0, <1>3 DEF History
  <2>2. Quietly' => Quietly
    BY <1>3, <2>1, StillQuiet
  <2> QED
    BY <1>3, <2>1, <2>2, LikeKept, SameTimed
<1>4. LikeNet(net, net)
  BY DEF LikeNet
<1>5. CASE eXosip_insubscription_remove
  <2>1. DropsNotifier /\ UNCHANGED <<js, net, trouble, seen>>
    BY <1>5, RemoveEffect
  <2> QED
    BY <1>3, <1>4, <2>1
<1>6. CASE RcvNotifyAnswer
  <2>1. PICK m \in net :
           /\ m.kind = "to NOTIFY" /\ net' = net \ {m}
           /\ \/ DropsNotifier /\ seen' = [seen EXCEPT !.closed = "answered"]
              \/ KeepsNotifier /\ seen' = seen
    BY <1>6, RcvNotifyAnswerEffect
  <2>2. UNCHANGED <<js, trouble>>
    BY <1>6, RcvNotifyAnswerEffect
  <2>3. LikeNet(net', net)
    BY <2>1 DEF LikeNet, Asking
  <2> QED
    BY <1>3, <2>1, <2>2, <2>3
<1>7. CASE KillNotify
  <2>1. /\ \/ DropsNotifier /\ seen' = [seen EXCEPT !.closed = "killed"]
           \/ KeepsNotifier /\ seen' = seen
        /\ UNCHANGED <<js, net, trouble>>
    BY <1>7, KillNotifyEffect
  <2> QED
    BY <1>3, <1>4, <2>1
<1>8. CASE RcvLateAnswer
  <2>1. PICK m \in net : m.kind = "to SUBSCRIBE" /\ net' = net \ {m}
    BY <1>8 DEF RcvLateAnswer
  <2>2. UNCHANGED <<js, jn, trouble, seen>>
    BY <1>8 DEF RcvLateAnswer
  <2>3. LikeNet(net', net)
    BY <2>1 DEF LikeNet, Asking
  <2> QED
    BY <1>3, <2>2, <2>3
<1>9. CASE TransportError /\ Closed("unreachable")
  <2>1. trouble' = trouble + 1 /\ UNCHANGED net
    BY <1>9 DEF TransportError
  <2>2. DropsNotifier /\ seen' = [seen EXCEPT !.closed = "unreachable"]
    BY <1>9, ClosedEffect
  <2>3. js' = Freed \/ js' = js
    BY <1>9 DEF TransportError
  <2>4. js' = Freed => ~js'.live
    BY FreedTyped
  <2> QED
    BY <1>3, <1>4, <2>1, <2>2, <2>3, <2>4
<1> QED
  BY <1>1, <1>2, <1>5, <1>6, <1>7, <1>8, <1>9

\* The subscriber's transactions as they were, but that they may be over.
LEMMA LikeTimed ==
  ASSUME Timed, Behind(Latest', js'.dlgs), LikeRequest(js'.out, js.out), LikeRequest(Latest', Latest),
         js'.period = js.period, LikeNotifier(jn', jn), LikeNet(net', net),
         seen'.confirmed = seen.confirmed, Quietly' => Quietly
  PROVE  Timed'
<1>1. Covers(js'.out, Latest', js.period, jn', net', seen.confirmed, Quietly')
  BY LikeCovers DEF Timed
<1> QED
  BY <1>1 DEF Timed

LEMMA NotifyTimed ==
  ASSUME TypeOK, js.live, Both(jn, net), Timed, RcvNotify, js'.live
  PROVE  Timed'
<1> DEFINE o == js.out
<1>1. PICK m \in net :
           /\ m.kind = "NOTIFY"
           /\ NotifiedBy(m) /\ net' = (net \ {m}) \cup {Answer(m, "2xx", m.tag, 0)}
           /\ UNCHANGED <<replaced, jn, stranded, trouble, seen>>
  BY RcvNotifyEffect
<1>2. m.tag = jn.tag /\ ~Turned(o)
  BY <1>1 DEF Both, SharedBy, OnItsWay
<1>3. /\ js' \in Subscriptions /\ js'.out = js.out /\ js'.period = js.period
      /\ \/ js'.dlgs = js.dlgs
         \/ /\ \A d \in DOMAIN js.dlgs : js.dlgs[d].tag = m.tag => ~Usable(js.dlgs[d])
            /\ \E x \in Dialogs : /\ js'.dlgs = Append(js.dlgs, x)
                                  /\ x.tag = m.tag /\ x.state = "confirmed" /\ x.cseq = js.out.n
                                  /\ x.outs = <<>>
  BY <1>1, FreedTyped DEF NotifiedBy
<1>4. Latest' = Latest /\ Behind(Latest', js'.dlgs)
  <2>1. CASE js'.dlgs = js.dlgs
    BY <1>3, <2>1 DEF Latest, Timed
  <2>2. CASE js'.dlgs # js.dlgs
    <3>1. PICK x \in Dialogs : /\ js'.dlgs = Append(js.dlgs, x)
                               /\ x.tag = m.tag /\ x.state = "confirmed" /\ x.cseq = js.out.n
                               /\ x.outs = <<>>
      BY <1>3, <2>2
    <3>2. js.dlgs = <<>>
      <4> SUFFICES ASSUME js.dlgs # <<>> PROVE FALSE
        OBVIOUS
      <4>1. 1 \in DOMAIN js.dlgs
        BY Parts
      <4>2. DialogOf(o, js.dlgs[1], jn.tag)
        BY <4>1, Only
      <4>3. js.dlgs[1].state = "deleted"
        BY <1>2, <1>3, <2>2, <4>1, <4>2 DEF DialogOf, Usable
      <4> QED
        BY <1>2, <4>2, <4>3 DEF DialogOf
    <3>3. js'.dlgs[1] = x
      BY <3>1, <3>2
    <3>4. Latest' = o
      BY <1>3, <3>1, <3>3 DEF Latest, Current
    <3>5. Latest = o
      BY <3>2, LatestIs
    <3>6. Behind(o, js'.dlgs)
      <4>1. o.n \in Nat
        BY Parts DEF Transactions
      <4> QED
        BY <3>1, <3>3, <4>1 DEF Behind
    <3> QED
      BY <3>4, <3>5, <3>6
  <2> QED
    BY <2>1, <2>2
<1> DEFINE a == Answer(m, "2xx", m.tag, 0)
<1>5. a.kind = "to NOTIFY"
  <2>1. "2xx" \in Codes
    BY DEF Codes
  <2> QED
    BY <1>1, <2>1, AnswerSays
<1>6. LikeNet(net', net)
  BY <1>1, <1>5 DEF LikeNet, Asking, To
<1>7. LikeRequest(js'.out, js.out) /\ LikeRequest(Latest', Latest) /\ LikeNotifier(jn', jn)
  BY <1>1, <1>3, <1>4 DEF LikeRequest, LikeNotifier
<1>8. Quietly' => Quietly
  BY <1>1, StillQuiet
<1> QED
  BY <1>1, <1>3, <1>4, <1>6, <1>7, <1>8, LikeTimed

\* The transaction now has taken the place of an earlier state of it.
Replaces(now, outs, outs2) ==
  \E k \in DOMAIN outs : outs[k].n = now.n /\ outs2 = [outs EXCEPT ![k] = now]

LEMMA TakesLater ==
  ASSUME NEW t, NEW s, NEW now, Takes(t, s, now), now.n # s.out.n, now.jd = 1
  PROVE  /\ t.out = s.out /\ Len(t.dlgs) = Len(s.dlgs)
         /\ LET u == s.dlgs[1]
                w == t.dlgs[1]
            IN /\ w.cseq = u.cseq
               /\ Replaces(now, u.outs, w.outs)
<1> DEFINE u == s.dlgs[1]
           w == t.dlgs[1]
<1>1. t.out = s.out /\ Len(t.dlgs) = Len(s.dlgs)
  BY DEF Takes
<1>2. w.cseq = u.cseq
  BY DEF Takes
<1>3. Replaces(now, u.outs, w.outs)
  BY Zenon DEF Takes, Replaces
<1> QED
  BY <1>1, <1>2, <1>3

\* A later request is answered, or is over.
LEMMA TookLater ==
  ASSUME TypeOK, js.live, Both(jn, net), Behind(Latest, js.dlgs), js.dlgs # <<>>,
         NEW tr \in Transactions, NEW i \in DOMAIN js.dlgs[1].outs, tr = js.dlgs[1].outs[i],
         NEW s \in Subscriptions, s.out = js.out, Len(s.dlgs) = Len(js.dlgs),
         s.dlgs[1].cseq = js.dlgs[1].cseq, s.dlgs[1].outs = js.dlgs[1].outs,
         NEW now \in Transactions, now.n = tr.n, now.jd = 1, now.st = "trying" => tr.st = "trying",
         Takes(js', s, now), js' \in Subscriptions
  PROVE  /\ js'.out = js.out /\ Behind(Latest', js'.dlgs)
         /\ tr.n = Latest.n => Latest' = now /\ tr = Latest
         /\ tr.n # Latest.n => Latest' = Latest
<1> DEFINE o == js.out
           l == Latest
           outs == js.dlgs[1].outs
           v == js'.dlgs[1]
<1>1. 1 \in DOMAIN js.dlgs /\ outs \in Seq(Transactions) /\ o.n \in Nat /\ Len(js.dlgs) = 1
  <2>1. 1 \in DOMAIN js.dlgs
    BY LatestIs
  <2> QED
    BY <2>1, TagTyped, Only, Parts DEF Transactions
<1>2. outs # <<>>
  <2> DEFINE e == <<>>
  <2>1. DOMAIN e = {}
    OBVIOUS
  <2> HIDE DEF e
  <2>2. outs # e
    BY <2>1
  <2> QED
    BY <2>2 DEF e
<1>3. /\ 1 \in DOMAIN outs /\ l = outs[1] /\ l \in Transactions
      /\ \A k \in DOMAIN outs : outs[k].n > o.n
  <2>1. DialogOf(o, js.dlgs[1], jn.tag)
    BY <1>1, Only
  <2> QED
    BY <1>2, <2>1, LatestIs DEF DialogOf
<1>4. /\ l.n <= js.dlgs[1].cseq
      /\ \A k \in DOMAIN outs : k > 1 => outs[k].n < l.n /\ outs[k].st # "trying"
  BY DEF Behind
<1>5. now.n # o.n
  <2>1. now.n \in Nat /\ now.n > o.n
    BY <1>3 DEF Transactions
  <2> QED
    BY <1>1, <2>1
<1>6. /\ js'.out = o /\ Len(js'.dlgs) = 1 /\ js'.dlgs \in Seq(Dialogs) /\ v.cseq = js.dlgs[1].cseq
      /\ Replaces(now, outs, v.outs)
  <2>1. /\ js'.out = s.out /\ Len(js'.dlgs) = Len(s.dlgs)
        /\ LET u == s.dlgs[1]
               w == js'.dlgs[1]
           IN /\ w.cseq = u.cseq
              /\ Replaces(now, u.outs, w.outs)
    BY <1>5, TakesLater
  <2>2. js'.dlgs \in Seq(Dialogs)
    BY DEF Subscriptions
  <2> QED
    BY <1>1, <2>1, <2>2
<1>7. PICK k \in DOMAIN outs : outs[k].n = now.n /\ v.outs = [outs EXCEPT ![k] = now]
  BY <1>6 DEF Replaces
<1>8. js'.dlgs # <<>>
  BY <1>6, OneIsSome
<1>9. /\ DOMAIN v.outs = DOMAIN outs
      /\ \A x \in DOMAIN outs : v.outs[x] = IF x = k THEN now ELSE outs[x]
  BY <1>7
<1>10. v.outs # <<>>
  <2> DEFINE e == <<>>
  <2>1. DOMAIN e = {}
    OBVIOUS
  <2> HIDE DEF e, v, outs
  <2>2. v.outs # e
    BY <1>3, <1>9, <2>1
  <2> QED
    BY <2>2 DEF e
<1>11. Latest' = v.outs[1]
  BY <1>8, <1>10 DEF Latest, Current
<1>12. k \in Nat /\ i \in Nat /\ k >= 1 /\ i >= 1 /\ l.n \in Nat
  <2>1. k \in DOMAIN outs /\ i \in DOMAIN outs /\ outs \in Seq(Transactions) /\ l \in Transactions
    BY <1>1, <1>3
  <2> HIDE DEF outs, l
  <2>2. k \in Nat /\ i \in Nat /\ k >= 1 /\ i >= 1
    BY <2>1
  <2>3. l.n \in Nat
    BY <2>1 DEF Transactions
  <2> QED
    BY <2>2, <2>3
<1>13. tr.n = l.n <=> i = 1
  BY <1>3, <1>4, <1>12
<1>14. now.n = l.n <=> k = 1
  BY <1>3, <1>4, <1>7, <1>12
<1>15. Latest' = IF k = 1 THEN now ELSE l
  BY <1>3, <1>9, <1>11
<1> HIDE DEF o, l, outs, v
<1>16. v.cseq >= l.n
  <2>1. js.dlgs[1].cseq \in Nat
    BY <1>1, TagTyped
  <2> QED
    BY <1>4, <1>6, <1>12, <2>1
<1>17. \A x \in DOMAIN v.outs : x > 1 => v.outs[x].n < l.n /\ v.outs[x].st # "trying"
  <2> SUFFICES ASSUME NEW x \in DOMAIN outs, x > 1 PROVE v.outs[x].n < l.n /\ v.outs[x].st # "trying"
    BY <1>9
  <2>1. outs[x].n < l.n /\ outs[x].st # "trying"
    BY <1>4
  <2>2. CASE x = k
    <3>1. v.outs[x] = now /\ now.n < l.n
      BY <1>7, <1>9, <2>1, <2>2
    <3>2. i # 1
      BY <1>12, <1>13, <3>1
    <3>3. tr.st # "trying"
      BY <1>4, <1>12, <3>2 DEF outs
    <3> QED
      BY <3>1, <3>3
  <2>3. CASE x # k
    BY <1>9, <2>1, <2>3
  <2> QED
    BY <2>2, <2>3
<1>18. Latest'.n = l.n
  BY <1>14, <1>15
<1>19. Behind(Latest', js'.dlgs)
  <2> DEFINE l2 == Latest'
  <2>1. l2.n <= v.cseq
    <3>1. v.cseq \in Nat
      BY <1>1, <1>6, TagTyped
    <3> QED
      BY <1>12, <1>16, <1>18, <3>1
  <2>2. \A x \in DOMAIN v.outs : x > 1 => v.outs[x].n < l2.n /\ v.outs[x].st # "trying"
    BY <1>17, <1>18
  <2> QED
    BY <2>1, <2>2 DEF Behind, v
<1> QED
  BY <1>3, <1>6, <1>13, <1>14, <1>15, <1>19 DEF o, l, outs

LEMMA KillTimed ==
  ASSUME TypeOK, js.live, Both(jn, net), Timed, KillSubscribe, js'.live
  PROVE  Timed'
<1>1. PICK tr \in TransactionsOf(js) :
           /\ Overdue(tr) \/ tr.st = "completed"
           /\ \/ KillFrees(tr) /\ js' = Freed
              \/ /\ ~KillFrees(tr)
                 /\ \E now : Over2(tr, now) /\ Takes(js', js, now)
                 /\ js'.live = js.live /\ js'.period = js.period /\ js' \in Subscriptions
           /\ UNCHANGED <<replaced, jn, stranded, net, trouble, seen>>
  BY KillSubscribeEffect
<1>2. /\ ~KillFrees(tr) /\ (\E now : Over2(tr, now) /\ Takes(js', js, now))
      /\ js' \in Subscriptions /\ js'.period = js.period
  BY <1>1, FreedTyped
<1>3. PICK now : Over2(tr, now) /\ Takes(js', js, now)
  BY <1>2
<1>4. tr.resp \notin {"none", "1xx"}
  BY <1>2 DEF KillFrees
<1>5. /\ now \in Transactions /\ now.n = tr.n /\ now.jd = tr.jd /\ now.resp = tr.resp /\ now.st = "terminated"
      /\ now.ask = tr.ask /\ now.age = tr.age
  BY <1>3 DEF Over2
<1>6. Behind(Latest, js.dlgs)
  BY DEF Timed
<1>7. LikeNotifier(jn', jn) /\ LikeNet(net', net) /\ seen'.confirmed = seen.confirmed /\ (Quietly' => Quietly)
  BY <1>1 DEF LikeNotifier, LikeNet, Quietly
<1>8. CASE tr = js.out
  <2>1. js'.out = now /\ js'.dlgs = js.dlgs
    BY <1>3, <1>5, <1>8 DEF Takes
  <2>2. js.out.st # "trying"
    BY <1>4, <1>8 DEF Both, SharedBy, Dialogue
  <2>3. LikeRequest(js'.out, js.out)
    BY <1>5, <1>8, <2>1, <2>2 DEF LikeRequest
  <2>4. LikeRequest(Latest', Latest)
    <3>1. LikeRequest(Current(now, js.dlgs), Current(js.out, js.dlgs))
      BY <2>1, <2>3 DEF Current, LikeRequest
    <3> QED
      BY <2>1, <3>1 DEF Latest
  <2>5. Behind(Latest', js'.dlgs)
    BY <1>6, <2>1, <2>4 DEF Behind, LikeRequest
  <2> QED
    BY <1>2, <1>7, <2>3, <2>4, <2>5, LikeTimed
<1>9. CASE tr # js.out
  <2>1. /\ tr \in Transactions /\ tr.jd \in DOMAIN js.dlgs
        /\ \E i \in DOMAIN js.dlgs[tr.jd].outs : js.dlgs[tr.jd].outs[i] = tr
    BY <1>9, TransactionsAre
  <2>2. tr.jd = 1 /\ js.dlgs # <<>>
    BY <2>1, Only
  <2>3. PICK i \in DOMAIN js.dlgs[1].outs : tr = js.dlgs[1].outs[i]
    BY <2>1, <2>2
  <2>4. js \in Subscriptions
    BY DEF TypeOK
  <2>5. /\ js'.out = js.out /\ Behind(Latest', js'.dlgs)
        /\ tr.n = Latest.n => Latest' = now /\ tr = Latest
        /\ tr.n # Latest.n => Latest' = Latest
    BY <1>2, <1>3, <1>5, <1>6, <2>1, <2>2, <2>3, <2>4, TookLater
  <2>6. Latest.st = "trying" <=> Latest.resp \in {"none", "1xx"}
    BY DEF Timed, Covers, Says
  <2>7. LikeRequest(Latest', Latest)
    <3>1. CASE tr.n = Latest.n
      <4>1. tr = Latest /\ Latest' = now
        BY <2>5, <3>1
      <4>2. tr.st # "trying"
        BY <1>4, <2>6, <4>1
      <4>3. LikeRequest(now, tr)
        BY <1>5, <4>2 DEF LikeRequest
      <4> QED
        BY <4>1, <4>3
    <3>2. CASE tr.n # Latest.n
      BY <2>5, <3>2 DEF LikeRequest
    <3> QED
      BY <3>1, <3>2
  <2>8. LikeRequest(js'.out, js.out)
    BY <2>5 DEF LikeRequest
  <2> QED
    BY <1>2, <1>7, <2>5, <2>7, <2>8, LikeTimed
<1> QED
  BY <1>8, <1>9

\* What an answer m makes of the transaction tr, and of the subscription.
AnsweredBy(m, tr, now, s) ==
  /\ IsNow(now, tr, m) /\ s \in Subscriptions /\ Takes(js', s, now) /\ s.out = js.out
  /\ \A d \in DOMAIN js.dlgs : s.dlgs[d].cseq = js.dlgs[d].cseq /\ s.dlgs[d].outs = js.dlgs[d].outs
  /\ \/ Len(s.dlgs) = Len(js.dlgs) /\ (tr.jd # 0 => now.jd = tr.jd)
     \/ /\ tr.jd = 0 /\ Len(s.dlgs) = Len(js.dlgs) + 1 /\ now.jd = Len(s.dlgs)
        /\ s.dlgs[now.jd].cseq = tr.n /\ s.dlgs[now.jd].outs = <<>>

LEMMA AnswerTakes ==
  ASSUME TypeOK, js.live, RcvAnswer
  PROVE  \E m \in net, tr \in TransactionsOf(js) : \E now, s :
           /\ To(m) /\ m.n = tr.n /\ tr.st = "trying" /\ AnsweredBy(m, tr, now, s)
           /\ js'.live /\ js' \in Subscriptions
           /\ js'.period = IF m.code = "2xx" THEN RefreshInterval(js.period, m.value) ELSE js.period
           /\ net' = net \ {m}
           /\ seen.confirmed \in BOOLEAN /\ seen'.confirmed \in BOOLEAN
           /\ seen'.confirmed = TRUE <=> seen.confirmed = TRUE \/ m.code = "2xx"
           /\ Quietly' = Quietly /\ jn' = jn
<1>1. PICK m \in net, tr \in TransactionsOf(js) :
           /\ m.kind = "to SUBSCRIBE" /\ m.n = tr.n /\ tr.st = "trying"
           /\ js'.live = js.live /\ js' \in Subscriptions
           /\ IF m.code \in {"1xx", "2xx"} THEN \E now : AcceptedBy(m, tr, now)
              ELSE RefusedBy(m, tr, Now(tr, m))
           /\ net' = net \ {m}
           /\ seen' = IF m.code = "2xx" THEN [seen EXCEPT !.confirmed = TRUE] ELSE seen
           /\ UNCHANGED <<replaced, jn, stranded, trouble>>
  BY RcvAnswerEffect
<1>2. \E now, s : AnsweredBy(m, tr, now, s)
  <2>1. CASE m.code \in {"1xx", "2xx"}
    <3>1. PICK now : AcceptedBy(m, tr, now)
      BY <1>1, <2>1
    <3>2. IsNow(now, tr, m)
      BY <3>1 DEF AcceptedBy, IsNow
    <3>3. PICK s \in Subscriptions :
            /\ Takes(js', s, now) /\ s.out = js.out
            /\ \A d \in DOMAIN js.dlgs : s.dlgs[d].cseq = js.dlgs[d].cseq /\ s.dlgs[d].outs = js.dlgs[d].outs
            /\ \/ /\ tr.jd = 0 /\ now.jd = Len(js.dlgs) + 1 /\ Len(s.dlgs) = now.jd
                  /\ s.dlgs[now.jd].cseq = tr.n /\ s.dlgs[now.jd].outs = <<>>
               \/ Len(s.dlgs) = Len(js.dlgs) /\ (tr.jd # 0 => now.jd = tr.jd)
      BY <3>1 DEF AcceptedBy
    <3>4. AnsweredBy(m, tr, now, s)
      BY <3>2, <3>3 DEF AnsweredBy
    <3> QED
      BY <3>4
  <2>2. CASE m.code \notin {"1xx", "2xx"}
    <3> DEFINE now == Now(tr, m)
    <3>1. RefusedBy(m, tr, now)
      BY <1>1, <2>2
    <3> HIDE DEF now
    <3>2. IsNow(now, tr, m) /\ now.jd = tr.jd
      BY <3>1 DEF RefusedBy, IsNow
    <3>3. PICK s \in Subscriptions :
            /\ Takes(js', s, now) /\ s.out = js.out /\ Len(s.dlgs) = Len(js.dlgs)
            /\ \A d \in DOMAIN js.dlgs : s.dlgs[d].cseq = js.dlgs[d].cseq /\ s.dlgs[d].outs = js.dlgs[d].outs
      BY <3>1 DEF RefusedBy
    <3>4. AnsweredBy(m, tr, now, s)
      BY <3>2, <3>3 DEF AnsweredBy
    <3> QED
      BY <3>4
  <2> QED
    BY <2>1, <2>2
<1>3. js'.period = IF m.code = "2xx" THEN RefreshInterval(js.period, m.value) ELSE js.period
  BY <1>1 DEF AcceptedBy, RefusedBy
<1>4. /\ seen.confirmed \in BOOLEAN /\ seen'.confirmed \in BOOLEAN
      /\ seen'.confirmed = TRUE <=> seen.confirmed = TRUE \/ m.code = "2xx"
      /\ seen'.short = seen.short /\ seen'.subscribes = seen.subscribes
  BY <1>1 DEF TypeOK, History
<1>5. Quietly' = Quietly
  BY <1>1, <1>4 DEF Quietly
<1> QED
  BY <1>1, <1>2, <1>3, <1>4, <1>5 DEF To

\* The transaction the answer is for is the last one.
LEMMA AnswersLatest ==
  ASSUME TypeOK, js.live, Both(jn, net), Behind(Latest, js.dlgs), js' \in Subscriptions,
         NEW m \in net, NEW tr \in TransactionsOf(js), tr.st = "trying",
         NEW now, NEW s, AnsweredBy(m, tr, now, s)
  PROVE  /\ tr = Latest /\ Latest' = now /\ Behind(Latest', js'.dlgs)
         /\ js'.out = IF tr = js.out THEN now ELSE js.out
         /\ tr # js.out => js.out.resp = "2xx"
<1> DEFINE o == js.out
           u == js.dlgs[1]
           v == s.dlgs[1]
<1>1. tr \in Transactions /\ o \in Transactions /\ tr.n \in Nat /\ js.dlgs \in Seq(Dialogs)
      /\ s.dlgs \in Seq(Dialogs) /\ now \in Transactions /\ now.n = tr.n /\ tr.jd \in Nat
  BY TransactionsAre, Parts DEF AnsweredBy, IsNow, Transactions, Subscriptions
<1>2. CASE tr = o
  <2>1. o.resp # "2xx"
    BY <1>2 DEF Both, SharedBy, Dialogue
  <2>2. Latest = o /\ (js.dlgs # <<>> => 1 \in DOMAIN js.dlgs /\ u.outs = <<>>)
    BY <2>1, LatestIs
  <2>3. js'.out = now /\ js'.dlgs = s.dlgs
    BY <1>1, <1>2 DEF AnsweredBy, Takes
  <2>4. s.dlgs # <<>> => v.outs = <<>> /\ v.cseq >= now.n
    <3>1. CASE js.dlgs # <<>>
      <4>1. 1 \in DOMAIN js.dlgs /\ u.outs = <<>>
        BY <2>2, <3>1
      <4>2. u.cseq >= o.n
        BY <4>1, Only DEF DialogOf
      <4> QED
        BY <1>1, <1>2, <4>1, <4>2 DEF AnsweredBy
    <3>2. CASE js.dlgs = <<>> /\ Len(s.dlgs) = Len(js.dlgs)
      <4>1. Len(s.dlgs) = 0
        BY <3>2
      <4> QED
        BY <1>1, <4>1
    <3>3. CASE js.dlgs = <<>> /\ Len(s.dlgs) # Len(js.dlgs)
      <4>1. Len(js.dlgs) = 0
        BY <3>3
      <4>2. now.jd = Len(js.dlgs) + 1 /\ s.dlgs[now.jd].cseq = tr.n /\ s.dlgs[now.jd].outs = <<>>
        BY <3>3 DEF AnsweredBy
      <4>3. now.jd = 1
        BY <4>1, <4>2
      <4> QED
        BY <1>1, <4>2, <4>3
    <3> QED
      BY <3>1, <3>2, <3>3
  <2>5. Latest' = now
    BY <2>3, <2>4 DEF Latest, Current
  <2>6. Behind(now, s.dlgs)
    BY <1>1, <2>4 DEF Behind
  <2> QED
    BY <1>2, <2>2, <2>3, <2>5, <2>6
<1>3. CASE tr # o
  <2>1. tr.jd \in DOMAIN js.dlgs /\ \E i \in DOMAIN js.dlgs[tr.jd].outs : js.dlgs[tr.jd].outs[i] = tr
    BY <1>3, TransactionsAre
  <2>2. tr.jd = 1 /\ js.dlgs # <<>> /\ 1 \in DOMAIN js.dlgs
    BY <2>1, Only
  <2>3. PICK i \in DOMAIN u.outs : tr = u.outs[i]
    BY <2>1, <2>2
  <2>4. i = 1
    <3>1. u.outs \in Seq(Transactions)
      BY <2>2, TagTyped
    <3>2. i \in Nat /\ i >= 1
      BY <2>3, <3>1
    <3>3. ~(i > 1)
      BY <2>2, <2>3 DEF Behind
    <3> QED
      BY <3>2, <3>3
  <2>5. u.outs # <<>>
    <3> DEFINE e == <<>>
    <3>1. DOMAIN e = {}
      OBVIOUS
    <3> HIDE DEF e, u
    <3>2. u.outs # e
      BY <2>3, <3>1
    <3> QED
      BY <3>2 DEF e
  <2>6. Latest = tr /\ o.resp = "2xx"
    BY <2>2, <2>3, <2>4, <2>5, LatestIs
  <2>7. /\ now.jd = 1 /\ Len(s.dlgs) = Len(js.dlgs) /\ s.out = js.out /\ Takes(js', s, now)
        /\ s.dlgs[1].cseq = js.dlgs[1].cseq /\ s.dlgs[1].outs = js.dlgs[1].outs /\ s \in Subscriptions
    BY <2>2 DEF AnsweredBy
  <2>8. now.st = "trying" => tr.st = "trying"
    OBVIOUS
  <2>9. js'.out = js.out /\ Behind(Latest', js'.dlgs) /\ (tr.n = Latest.n => Latest' = now)
    BY <1>1, <2>2, <2>3, <2>7, <2>8, TookLater
  <2> QED
    BY <1>3, <2>6, <2>9
<1> QED
  BY <1>2, <1>3

LEMMA AnswerTimed ==
  ASSUME TypeOK, js.live, Both(jn, net), Held(jn), Timed, RcvAnswer
  PROVE  Timed'
<1>0. PICK m \in net, tr \in TransactionsOf(js) : \E now, s :
           /\ To(m) /\ m.n = tr.n /\ tr.st = "trying" /\ AnsweredBy(m, tr, now, s)
           /\ js'.live /\ js' \in Subscriptions
           /\ js'.period = IF m.code = "2xx" THEN RefreshInterval(js.period, m.value) ELSE js.period
           /\ net' = net \ {m}
           /\ seen.confirmed \in BOOLEAN /\ seen'.confirmed \in BOOLEAN
           /\ seen'.confirmed = TRUE <=> seen.confirmed = TRUE \/ m.code = "2xx"
           /\ Quietly' = Quietly /\ jn' = jn
  BY AnswerTakes
<1>1. PICK now, s :
           /\ To(m) /\ m.n = tr.n /\ tr.st = "trying" /\ AnsweredBy(m, tr, now, s)
           /\ js'.live /\ js' \in Subscriptions
           /\ js'.period = IF m.code = "2xx" THEN RefreshInterval(js.period, m.value) ELSE js.period
           /\ net' = net \ {m}
           /\ seen.confirmed \in BOOLEAN /\ seen'.confirmed \in BOOLEAN
           /\ seen'.confirmed = TRUE <=> seen.confirmed = TRUE \/ m.code = "2xx"
           /\ Quietly' = Quietly /\ jn' = jn
  BY <1>0
<1>2. /\ tr = Latest /\ Latest' = now /\ Behind(Latest', js'.dlgs)
      /\ js'.out = IF tr = js.out THEN now ELSE js.out
      /\ tr # js.out => js.out.resp = "2xx"
  BY <1>1, AnswersLatest DEF Timed
<1>3. /\ js.out \in Transactions /\ Latest \in Transactions /\ js.period \in Nat /\ m.code \in Codes
      /\ m.value \in Nat /\ IsNow(now, Latest, m)
  BY <1>1, <1>2, Parts, LatestIs DEF TypeOK, Messages, AnsweredBy
<1>4. Covers(js.out, Latest, js.period, jn, net, seen.confirmed, Quietly) /\ SharedBy(js.out, js.dlgs, jn, net)
  BY DEF Timed, Both
<1> DEFINE l == Latest
           p2 == js'.period
           o2 == js'.out
           c2 == seen'.confirmed
<1> DEFINE n2 == net'
<1>5. Covers(o2, now, p2, jn, n2, c2, Quietly)
  <2>1. l = tr /\ l.st = "trying" /\ m.n = l.n /\ o2 = (IF l = js.out THEN now ELSE js.out)
        /\ (l # js.out => js.out.resp = "2xx")
    BY <1>1, <1>2
  <2>2. p2 = (IF m.code = "2xx" THEN RefreshInterval(js.period, m.value) ELSE js.period)
        /\ (c2 = TRUE <=> seen.confirmed = TRUE \/ m.code = "2xx") /\ To(m)
        /\ c2 \in BOOLEAN /\ seen.confirmed \in BOOLEAN /\ n2 = net \ {m}
    BY <1>1
  <2>3. /\ Covers(js.out, l, js.period, jn, net, seen.confirmed, Quietly)
        /\ l \in Transactions /\ IsNow(now, l, m)
    BY <1>3, <1>4
  <2> HIDE DEF l, p2, o2, c2, n2
  <2>4. AfterAnswer(m, js.out, l, now, o2, js.period, p2, seen.confirmed, c2)
    BY <2>1, <2>2 DEF AfterAnswer
  <2> QED
    BY <1>3, <1>4, <2>1, <2>2, <2>3, <2>4, AnsweredCovers
<1> QED
  BY <1>1, <1>2, <1>5 DEF Timed

\* The replaced requests are not looked at.
LEMMA ReplacedTimed ==
  ASSUME TypeOK, js.live, Timed, KillReplaced, js'.live
  PROVE  Timed'
<1>1. PICK tr \in replaced :
         /\ js' = IF KillFrees(tr) THEN Freed ELSE js
         /\ seen' = [seen EXCEPT !.stale = @ \/ (KillFrees(tr) /\ ~js.live)]
  BY DEF KillReplaced
<1>2. UNCHANGED <<jn, stranded, net, trouble>>
  BY DEF KillReplaced
<1>3. js' = js
  BY <1>1, FreedTyped
<1>4. seen'.confirmed = seen.confirmed /\ seen'.short = seen.short /\ seen'.subscribes = seen.subscribes
  BY <1>1 DEF TypeOK, History
<1>5. LikeNotifier(jn', jn) /\ LikeNet(net', net)
  BY <1>2 DEF LikeNotifier, LikeNet
<1>6. Quietly' => Quietly
  BY <1>2, <1>4 DEF Quietly
<1> QED
  BY <1>3, <1>4, <1>5, <1>6, SameTimed

\* Some of the later transactions are released, or all of them age.
LEMMA MappedLatest ==
  ASSUME TypeOK, js.live, Both(jn, net), Behind(Latest, js.dlgs), js'.out.n = js.out.n,
         NEW new, DialogsMapped(js'.dlgs, new),
         \A d \in DOMAIN js.dlgs :
            /\ new[d] = <<>> <=> js.dlgs[d].outs = <<>>
            /\ js.dlgs[d].outs # <<>> => new[d][1].n = js.dlgs[d].outs[1].n
            /\ \A i \in DOMAIN new[d] : i > 1 => \E k \in DOMAIN js.dlgs[d].outs :
                  k > 1 /\ new[d][i].n = js.dlgs[d].outs[k].n /\ new[d][i].st = js.dlgs[d].outs[k].st
  PROVE  /\ Behind(Latest', js'.dlgs)
         /\ js.dlgs = <<>> \/ js.dlgs[1].outs = <<>> => Latest = js.out /\ Latest' = js'.out
         /\ js.dlgs # <<>> /\ js.dlgs[1].outs # <<>> => Latest = js.dlgs[1].outs[1] /\ Latest' = new[1][1]
<1>1. js.dlgs \in Seq(Dialogs) /\ js'.dlgs \in Seq(Dialogs) /\ Len(js'.dlgs) = Len(js.dlgs)
  BY Parts DEF DialogsMapped
<1>2. CASE js.dlgs = <<>>
  <2>1. js'.dlgs = <<>>
    BY <1>1, <1>2
  <2> QED
    BY <1>2, <2>1, LatestIs DEF Latest, Current, Behind
<1>3. CASE js.dlgs # <<>>
  <2> DEFINE d == js.dlgs[1]
             e == js'.dlgs[1]
             l == Latest
  <2>1. 1 \in DOMAIN js.dlgs /\ js'.dlgs # <<>>
    <3>1. Len(js.dlgs) > 0
      BY <1>1, <1>3
    <3> QED
      BY <1>1, <3>1
  <2>2. e.cseq = d.cseq /\ e.outs = new[1]
    BY <2>1 DEF DialogsMapped
  <2>3. /\ e.outs = <<>> <=> d.outs = <<>>
        /\ d.outs # <<>> => e.outs[1].n = d.outs[1].n
        /\ \A i \in DOMAIN e.outs : i > 1 => \E k \in DOMAIN d.outs :
              k > 1 /\ e.outs[i].n = d.outs[k].n /\ e.outs[i].st = d.outs[k].st
    BY <2>1, <2>2
  <2>4. /\ d.outs = <<>> => l = js.out
        /\ d.outs # <<>> => l = d.outs[1]
    BY <1>3, LatestIs
  <2>5. Latest' = IF e.outs = <<>> THEN js'.out ELSE e.outs[1]
    BY <2>1 DEF Latest, Current
  <2>6. /\ l.n <= d.cseq
        /\ \A k \in DOMAIN d.outs : k > 1 => d.outs[k].n < l.n /\ d.outs[k].st # "trying"
    BY <1>3 DEF Behind
  <2> HIDE DEF d, e, l
  <2>7. Latest'.n = l.n
    BY <2>3, <2>4, <2>5
  <2>8. \A i \in DOMAIN e.outs : i > 1 => e.outs[i].n < l.n /\ e.outs[i].st # "trying"
    BY <2>3, <2>6
  <2>9. Behind(Latest', js'.dlgs)
    BY <2>2, <2>6, <2>7, <2>8 DEF Behind, e
  <2>10. d.outs = <<>> => Latest' = js'.out
    BY <2>3, <2>5
  <2>11. d.outs # <<>> => Latest' = new[1][1]
    BY <2>2, <2>3, <2>5
  <2> QED
    BY <1>3, <2>4, <2>9, <2>10, <2>11 DEF d, l
<1> QED
  BY <1>2, <1>3

LEMMA ReleaseTimed ==
  ASSUME TypeOK, js.live, Both(jn, net), Timed, ReleaseSubscription, js'.live
  PROVE  Timed'
<1>1. /\ \/ Releases /\ js' = Freed
         \/ /\ js.live /\ js'.live /\ js'.period = js.period /\ js'.out = js.out /\ js' \in Subscriptions
            /\ \E new : /\ DialogsMapped(js'.dlgs, new)
                        /\ \A d \in DOMAIN js.dlgs : Fewer(new[d], js.dlgs[d].outs)
      /\ UNCHANGED <<replaced, jn, stranded, net, trouble, seen>>
  BY ReleaseEffect
<1>2. PICK new : DialogsMapped(js'.dlgs, new) /\ \A d \in DOMAIN js.dlgs : Fewer(new[d], js.dlgs[d].outs)
  BY <1>1, FreedTyped
<1>3. js'.out = js.out /\ js'.period = js.period
  BY <1>1, FreedTyped
<1>4. \A d \in DOMAIN js.dlgs :
            /\ new[d] = <<>> <=> js.dlgs[d].outs = <<>>
            /\ js.dlgs[d].outs # <<>> => new[d][1] = js.dlgs[d].outs[1]
            /\ \A i \in DOMAIN new[d] : i > 1 => \E k \in DOMAIN js.dlgs[d].outs :
                  k > 1 /\ new[d][i] = js.dlgs[d].outs[k]
  BY <1>2 DEF Fewer
<1>5. \A d \in DOMAIN js.dlgs :
            /\ new[d] = <<>> <=> js.dlgs[d].outs = <<>>
            /\ js.dlgs[d].outs # <<>> => new[d][1].n = js.dlgs[d].outs[1].n
            /\ \A i \in DOMAIN new[d] : i > 1 => \E k \in DOMAIN js.dlgs[d].outs :
                  k > 1 /\ new[d][i].n = js.dlgs[d].outs[k].n /\ new[d][i].st = js.dlgs[d].outs[k].st
  BY <1>4
<1>6. Behind(Latest, js.dlgs)
  BY DEF Timed
<1>7. /\ Behind(Latest', js'.dlgs)
      /\ js.dlgs = <<>> \/ js.dlgs[1].outs = <<>> => Latest = js.out /\ Latest' = js'.out
      /\ js.dlgs # <<>> /\ js.dlgs[1].outs # <<>> => Latest = js.dlgs[1].outs[1] /\ Latest' = new[1][1]
  BY <1>2, <1>3, <1>5, <1>6, MappedLatest
<1>8. Latest' = Latest
  <2>1. js.dlgs # <<>> => 1 \in DOMAIN js.dlgs
    BY Parts
  <2> QED
    BY <1>3, <1>4, <1>7, <2>1
<1>9. LikeRequest(js'.out, js.out) /\ LikeRequest(Latest', Latest)
  BY <1>3, <1>8 DEF LikeRequest
<1>10. LikeNotifier(jn', jn) /\ LikeNet(net', net) /\ seen'.confirmed = seen.confirmed /\ (Quietly' => Quietly)
  BY <1>1 DEF LikeNotifier, LikeNet, Quietly
<1> QED
  BY <1>3, <1>7, <1>9, <1>10, LikeTimed

\* A new SUBSCRIBE in the dialog is the last one.
LEMMA AddedLatest ==
  ASSUME TypeOK, js.live, Both(jn, net), Behind(Latest, js.dlgs), Latest.st # "trying",
         NEW d \in DOMAIN js.dlgs, NEW tr, New(tr, d), Adds(d, tr),
         tr.n > Latest.n, tr.n <= js.dlgs[d].cseq + 1
  PROVE  Latest' = tr /\ Behind(Latest', js'.dlgs)
<1> DEFINE l == Latest
           outs == js.dlgs[1].outs
           t == <<tr>> \o outs
<1>1. d = 1 /\ js.dlgs # <<>> /\ Len(js.dlgs) = 1 /\ outs \in Seq(Transactions)
  BY Only, TagTyped
<1>2. PICK x \in Dialogs : /\ Dialog2(1, x) /\ x.cseq = js.dlgs[1].cseq + 1
                           /\ x.outs = t
  BY <1>1 DEF Adds
<1>3. l \in Transactions /\ tr \in Transactions /\ l.n \in Nat /\ tr.n \in Nat
  BY LatestIs DEF New, Transactions
<1>4. /\ t # <<>> /\ t[1] = tr
      /\ \A i \in DOMAIN t : i = 1 \/ (i - 1 \in DOMAIN outs /\ t[i] = outs[i - 1])
  BY <1>1, <1>3, Prepended
<1>5. js'.dlgs # <<>> /\ js'.dlgs[1] = x
  BY <1>1, <1>2, OneIsSome DEF Dialog2
<1>6. Latest' = tr
  BY <1>2, <1>4, <1>5 DEF Latest, Current
<1>7. /\ outs # <<>> => l = outs[1]
      /\ \A k \in DOMAIN outs : k > 1 => outs[k].n < l.n /\ outs[k].st # "trying"
  BY <1>1, LatestIs DEF Behind
<1>8. l.st # "trying" /\ l.n < tr.n
  BY <1>3
<1>9. \A k \in DOMAIN outs : outs[k].n < tr.n /\ outs[k].st # "trying"
  <2> SUFFICES ASSUME NEW k \in DOMAIN outs PROVE outs[k].n < tr.n /\ outs[k].st # "trying"
    OBVIOUS
  <2>1. outs # <<>> /\ k \in Nat /\ k >= 1 /\ outs[k] \in Transactions
    <3> DEFINE e == <<>>
    <3>1. DOMAIN e = {}
      OBVIOUS
    <3> HIDE DEF e, outs
    <3>2. outs # e /\ k \in Nat /\ k >= 1 /\ outs[k] \in Transactions
      BY <1>1, <3>1
    <3> QED
      BY <3>2 DEF e
  <2>2. outs[k].n \in Nat
    BY <2>1 DEF Transactions
  <2> HIDE DEF outs, l
  <2> QED
    BY <1>3, <1>7, <1>8, <2>1, <2>2
<1> HIDE DEF t, outs, l
<1>10. \A i \in DOMAIN t : i > 1 => t[i].n < tr.n /\ t[i].st # "trying"
  BY <1>4, <1>9
<1>11. tr.n <= x.cseq
  BY <1>1, <1>2
<1> QED
  BY <1>2, <1>5, <1>6, <1>10, <1>11 DEF Behind

LEMMA AddsTimed ==
  ASSUME TypeOK, js.live, Both(jn, net), Held(jn), Timed,
         NEW d \in DOMAIN js.dlgs, js.out.resp = "2xx", LastOut(js, d).st # "trying",
         NEW tr, New(tr, d), Adds(d, tr), js'.out = js.out,
         tr.n > LastOut(js, d).n, tr.n <= js.dlgs[d].cseq + 1, tr.ask \in Asks \cup {0, MinExpires},
         net' = net \cup {Subscribe(tr, js.dlgs[d].tag)}, jn' = jn,
         seen'.confirmed = seen.confirmed, Quietly' => Quietly,
         Quietly' /\ LastOut(js, d).resp = "2xx"
           => tr.ask >= MinExpires /\ (tr.ask > 0 => Period(js'.period, tr.ask))
  PROVE  Timed'
<1> DEFINE a == Subscribe(tr, js.dlgs[d].tag)
           p2 == js'.period
           l == Latest
<1>1. /\ d = 1 /\ js.dlgs # <<>> /\ l = LastOut(js, d) /\ js.dlgs[d].tag = jn.tag
  BY Only, LatestIs DEF DialogOf
<1>2. Latest' = tr /\ Behind(Latest', js'.dlgs)
  BY <1>1, AddedLatest DEF Timed
<1>3. /\ js.out \in Transactions /\ l \in Transactions /\ net \subseteq Messages
      /\ jn.inc.n \in Nat /\ jn.inc.st \in {"open", "answered"} /\ jn.tag \in Nat
  BY Parts, LatestIs DEF TypeOK
<1>4. tr \in Transactions /\ tr.st = "trying" /\ tr.resp = "none" /\ tr.age = 0
  BY DEF New
<1>5. Asking(a) /\ a.n = tr.n /\ a.ask = tr.ask /\ a.tag = jn.tag
  BY <1>1, <1>3, <1>4, SubscribeTyped DEF Asking
<1>6. Covers(js.out, l, js.period, jn, net, seen.confirmed, Quietly) /\ SharedBy(js.out, js.dlgs, jn, net)
  BY DEF Timed, Both
<1>7. l.st # "trying" /\ tr.n > l.n
      /\ (Quietly' /\ l.resp = "2xx" => tr.ask >= MinExpires /\ (tr.ask > 0 => Period(p2, tr.ask)))
  BY <1>1
<1> HIDE DEF a, l, p2
<1>8. Covers(js.out, tr, p2, jn, net \cup {a}, seen.confirmed, Quietly')
  BY <1>3, <1>4, <1>5, <1>6, <1>7, AddsCovers
<1> QED
  BY <1>2, <1>8 DEF Timed, a, p2

\* What a refresh asks for.
Askable(e) == e \in Asks \cup {0, MinExpires}

\* The refresh tr for e seconds is sent in the dialog d.
Refreshes(d, e, tr) ==
  /\ New(tr, d) /\ tr.n = js.dlgs[d].cseq + 1 /\ tr.ask = e
  /\ Adds(d, tr) /\ js'.out = js.out /\ js'.period = RefreshInterval(3600, e)
  /\ Usable(js.dlgs[d]) /\ Finished(LastOut(js, d))
  /\ net' = net \cup {Subscribe(tr, js.dlgs[d].tag)}
  /\ RefreshSeen(e)

LEMMA RefreshIsSent ==
  ASSUME TypeOK, NEW d \in DOMAIN js.dlgs, NEW e \in Nat, SendRefresh(d, e)
  PROVE  \E tr : Refreshes(d, e, tr)
<1>1. PICK tr : /\ New(tr, d) /\ tr.n = js.dlgs[d].cseq + 1 /\ tr.ask = e
                /\ Adds(d, tr) /\ js'.out = js.out /\ js'.period = RefreshInterval(3600, e)
                /\ Usable(js.dlgs[d]) /\ Finished(LastOut(js, d))
                /\ net' = net \cup {Subscribe(tr, js.dlgs[d].tag)}
                /\ RefreshSeen(e)
  BY SendRefreshEffect
<1> QED
  BY <1>1 DEF Refreshes

LEMMA RefreshTimed ==
  ASSUME TypeOK, js.live, Both(jn, net), Held(jn), Timed,
         NEW d \in DOMAIN js.dlgs, NEW e \in Nat, Askable(e), SendRefresh(d, e), jn' = jn,
         trouble' = trouble
  PROVE  Timed'
<1>0. PICK tr : Refreshes(d, e, tr)
  BY RefreshIsSent
<1>1. /\ New(tr, d) /\ tr.n = js.dlgs[d].cseq + 1 /\ tr.ask = e
      /\ Adds(d, tr) /\ js'.out = js.out /\ js'.period = RefreshInterval(3600, e)
      /\ Usable(js.dlgs[d]) /\ Finished(LastOut(js, d))
      /\ net' = net \cup {Subscribe(tr, js.dlgs[d].tag)}
      /\ RefreshSeen(e)
  BY <1>0 DEF Refreshes
<1>2. js.out.resp = "2xx" /\ LastOut(js, d).st # "trying"
  BY <1>1, FinishedAccepted DEF Finished
<1>3. tr.n > LastOut(js, d).n /\ tr.n <= js.dlgs[d].cseq + 1
  <2>1. LastOut(js, d) = Latest /\ d = 1 /\ js.dlgs # <<>> /\ Latest \in Transactions
    BY Only, LatestIs
  <2>2. Latest.n <= js.dlgs[d].cseq
    BY <2>1 DEF Timed, Behind
  <2>3. Latest.n \in Nat /\ js.dlgs[d].cseq \in Nat
    BY <2>1, TagTyped DEF Transactions
  <2> QED
    BY <1>1, <2>1, <2>2, <2>3
<1>4. /\ seen'.confirmed = seen.confirmed
      /\ Quietly' => Quietly /\ e >= MinExpires
  <2>1. seen.subscribes \in Nat
    BY DEF TypeOK, History
  <2> QED
    BY <1>1, <2>1, ExSubscriptionAssumption DEF RefreshSeen, Quietly
<1>5. tr.ask > 0 => Period(js'.period, tr.ask)
  <2>1. e > 0 => RefreshInterval(3600, e) >= 1 /\ RefreshInterval(3600, e) <= RefreshInterval(3600, e)
    BY LongerInterval
  <2> QED
    BY <1>1, <2>1 DEF Period
<1> QED
  BY <1>1, <1>2, <1>3, <1>4, <1>5, AddsTimed DEF Askable

LEMMA RetryInTimed ==
  ASSUME TypeOK, js.live, Both(jn, net), Held(jn), Timed,
         NEW d \in DOMAIN js.dlgs, RetriesIn(d), SendWithCredential(d), jn' = jn, trouble' = trouble
  PROVE  Timed'
<1> DEFINE last == LastOut(js, d)
<1>1. PICK tr : /\ New(tr, d) /\ tr.n = LastOut(js, d).n + 1 /\ tr.ask = AskAgain(LastOut(js, d))
                /\ js' \in Subscriptions
                /\ net' = net \cup {Subscribe(tr, js.dlgs[d].tag)}
                /\ seen' = [seen EXCEPT !.subscribes = @ + 1]
                /\ IF js.dlgs[d].outs = <<>>
                    THEN /\ js'.out = tr /\ replaced' = replaced \cup {js.out}
                         /\ \E x \in Dialogs : Dialog2(d, x) /\ x.outs = <<>>
                    ELSE js'.out = js.out /\ replaced' = replaced /\ Adds(d, tr)
  BY RetryInEffect
<1>2. Usable(js.dlgs[d]) /\ Finished(last) /\ last.resp = "401"
  BY DEF RetriesIn, Challenged
<1>3. js.out.resp = "2xx"
  BY <1>2, FinishedAccepted
<1>4. js.dlgs[d].outs # <<>>
  BY <1>2, <1>3, Parts DEF LastOut
<1>5. last = Latest /\ d = 1 /\ js.dlgs # <<>> /\ Latest \in Transactions
  BY Only, LatestIs
<1>6. Latest.n <= js.dlgs[d].cseq /\ Latest.ask \in Asks \cup {0, MinExpires}
  BY <1>5 DEF Timed, Behind, Covers, Says
<1>7. Latest.n \in Nat /\ js.dlgs[d].cseq \in Nat
  BY <1>5, TagTyped DEF Transactions
<1>8. last.st # "trying"
  BY <1>2 DEF Finished
<1> HIDE DEF last
<1>9. tr.n > LastOut(js, d).n /\ tr.n <= js.dlgs[d].cseq + 1 /\ tr.ask \in Asks \cup {0, MinExpires}
  BY <1>1, <1>2, <1>5, <1>6, <1>7 DEF last, AskAgain
<1>10. seen'.confirmed = seen.confirmed /\ (Quietly' => Quietly)
  <2>1. /\ seen'.confirmed = seen.confirmed /\ seen'.short = seen.short
        /\ seen'.subscribes = seen.subscribes + 1 /\ seen.subscribes \in Nat
    BY <1>1 DEF TypeOK, History
  <2> QED
    BY <2>1, ExSubscriptionAssumption DEF Quietly
<1> QED
  BY <1>1, <1>2, <1>3, <1>4, <1>8, <1>9, <1>10, AddsTimed DEF last

LEMMA RetryFirstTimed ==
  ASSUME TypeOK, js.live, Both(jn, net), Timed, RetriesInitial, SendWithCredential(0), jn' = jn
  PROVE  Timed'
<1>1. PICK tr : /\ New(tr, 0) /\ tr.n = js.out.n + 1 /\ tr.ask = AskAgain(js.out)
                /\ js'.out = tr /\ js'.period = js.period /\ js'.dlgs = js.dlgs
                /\ net' = net \cup {Subscribe(tr, 0)}
                /\ seen' = [seen EXCEPT !.subscribes = @ + 1]
  BY RetryFirstEffect
<1>2. js.dlgs = <<>> /\ Turned(js.out)
  BY DEF RetriesInitial, Challenged, Turned, Finished
<1> DEFINE a == Subscribe(tr, 0)
<1>3. Asking(a) /\ a.n = tr.n /\ a.ask = tr.ask
  BY <1>1, SubscribeTyped DEF New, Asking
<1> HIDE DEF a
<1>4. js.out \in Transactions /\ net \subseteq Messages /\ js.period \in Nat
  BY Parts DEF TypeOK
<1>5. tr \in Transactions /\ tr.st = "trying" /\ tr.resp = "none" /\ tr.age = 0
  BY <1>1 DEF New
<1>6. Latest = js.out /\ Latest' = tr /\ Behind(Latest', js'.dlgs)
  BY <1>1, <1>2 DEF Latest, Current, Behind
<1>7. Covers(js.out, js.out, js.period, jn, net, seen.confirmed, Quietly) /\ SharedBy(js.out, js.dlgs, jn, net)
  BY <1>6 DEF Timed, Both
<1>8. seen'.confirmed = seen.confirmed
  BY <1>1 DEF TypeOK, History
<1>9. Covers(tr, tr, js.period, jn, net \cup {a}, seen.confirmed, Quietly')
  BY <1>1, <1>2, <1>3, <1>4, <1>5, <1>7, AgainCovers
<1> QED
  BY <1>1, <1>6, <1>8, <1>9 DEF Timed, a

\* Between two ticks a refresh that is due is sent: the last SUBSCRIBE is not that old.
LEMMA NotDue ==
  ASSUME TypeOK, js.live, Both(jn, net), Idle, Quietly, Latest.st # "trying", Latest.resp = "2xx", js.period >= 1
  PROVE  Latest.age <= js.period - js.period \div 10 /\ Latest.age <= js.period - 6
<1>1. ~Due
  BY DEF Idle, Quietly, TypeOK, History
<1>2. js.dlgs # <<>>
  <2> SUFFICES ASSUME js.dlgs = <<>> PROVE FALSE
    OBVIOUS
  <2>1. Latest = js.out
    BY LatestIs
  <2> QED
    BY <2>1 DEF Both, SharedBy, Dialogue
<1>3. 1 \in DOMAIN js.dlgs /\ Latest = LastOut(js, 1) /\ Latest \in Transactions
  BY <1>2, LatestIs
<1>4. js.out.resp = "2xx"
  <2>1. CASE js.dlgs[1].outs = <<>>
    BY <1>2, <2>1, LatestIs
  <2>2. CASE js.dlgs[1].outs # <<>>
    BY <1>2, <2>2, LatestIs
  <2> QED
    BY <2>1, <2>2
<1>5. Usable(js.dlgs[1])
  <2>1. js.dlgs[1].state = "confirmed"
    BY <1>3, <1>4, Accepted
  <2> QED
    BY <2>1 DEF Usable
<1>6. Finished(Latest) /\ ~Challenged(Latest)
  <2>1. Latest.st \in {"trying", "completed", "terminated"}
    BY <1>3 DEF Transactions
  <2> QED
    BY <2>1 DEF Finished, Challenged
<1>7. ~RefreshesIn(1)
  BY <1>1, <1>3 DEF Due
<1>8. ~(Latest.age > js.period - js.period \div 10) /\ ~(Latest.age > js.period - 6)
  BY <1>3, <1>5, <1>6, <1>7 DEF RefreshesIn
<1>9. Latest.age \in Nat /\ js.period \in Nat
  BY <1>3, Parts DEF Transactions
<1> QED
  BY <1>8, <1>9

LEMMA TickTimed ==
  ASSUME ShortTicks, TypeOK, js.live, Both(jn, net), Held(jn), Timed, TickTime
  PROVE  Timed'
<1>1. /\ js'.live /\ js'.period = js.period /\ js' \in Subscriptions /\ Grown(js'.out, js.out)
      /\ \E new : DialogsMapped(js'.dlgs, new) /\ GrownIn(new)
      /\ UNCHANGED <<net, trouble, seen>>
  BY TickEffect DEF GrownIn
<1>2. IF jn.live
      THEN /\ jn'.live /\ jn'.tag = jn.tag /\ jn'.status = jn.status /\ jn'.state = jn.state /\ jn'.inc = jn.inc
           /\ jn'.left = IF jn.left > 0 THEN jn.left - Tick ELSE -Tick
      ELSE jn' = jn
  BY TickEffect
<1>3. Idle /\ net = {} /\ \A tr \in TransactionsOf(js) : ~Overdue(tr)
  BY TickEffect DEF Idle
<1>4. PICK new : DialogsMapped(js'.dlgs, new) /\ GrownIn(new)
  BY <1>1
<1>5. \A d \in DOMAIN js.dlgs :
            /\ new[d] = <<>> <=> js.dlgs[d].outs = <<>>
            /\ js.dlgs[d].outs # <<>> => 1 \in DOMAIN js.dlgs[d].outs
            /\ DOMAIN new[d] = DOMAIN js.dlgs[d].outs
            /\ \A i \in DOMAIN js.dlgs[d].outs : Grown(new[d][i], js.dlgs[d].outs[i])
  BY <1>4, GrownSome
<1>6. \A d \in DOMAIN js.dlgs :
            /\ new[d] = <<>> <=> js.dlgs[d].outs = <<>>
            /\ js.dlgs[d].outs # <<>> => new[d][1].n = js.dlgs[d].outs[1].n
            /\ \A i \in DOMAIN new[d] : i > 1 => \E k \in DOMAIN js.dlgs[d].outs :
                  k > 1 /\ new[d][i].n = js.dlgs[d].outs[k].n /\ new[d][i].st = js.dlgs[d].outs[k].st
  BY <1>5 DEF Grown
<1>7. Behind(Latest, js.dlgs) /\ js'.out.n = js.out.n
  BY <1>1 DEF Timed, Grown
<1>8. /\ Behind(Latest', js'.dlgs)
      /\ js.dlgs = <<>> \/ js.dlgs[1].outs = <<>> => Latest = js.out /\ Latest' = js'.out
      /\ js.dlgs # <<>> /\ js.dlgs[1].outs # <<>> => Latest = js.dlgs[1].outs[1] /\ Latest' = new[1][1]
  BY <1>4, <1>6, <1>7, MappedLatest
<1>9. Grown(Latest', Latest)
  <2>1. CASE js.dlgs = <<>> \/ js.dlgs[1].outs = <<>>
    BY <1>1, <1>8, <2>1
  <2>2. CASE js.dlgs # <<>> /\ js.dlgs[1].outs # <<>>
    <3>1. 1 \in DOMAIN js.dlgs /\ 1 \in DOMAIN js.dlgs[1].outs
      BY <1>5, <2>2, Parts
    <3>2. Grown(new[1][1], js.dlgs[1].outs[1])
      BY <1>5, <3>1
    <3> QED
      BY <1>8, <2>2, <3>2
  <2> QED
    BY <2>1, <2>2
<1>10. js.out \in Transactions /\ Latest \in Transactions /\ js.period \in Nat /\ jn.left \in Int
  BY Parts, LatestIs
<1>11. \A t \in {js.out, Latest} : t.st = "trying" => t.age <= 32
  <2>1. js.out \in TransactionsOf(js) /\ Latest \in TransactionsOf(js)
    BY LatestIs DEF TransactionsOf
  <2>2. js.out.age \in Nat /\ Latest.age \in Nat
    BY <1>10 DEF Transactions
  <2> QED
    BY <1>3, <2>1, <2>2 DEF Overdue
<1>12. Quietly /\ Latest.st # "trying" /\ Latest.resp = "2xx" /\ js.period >= 1
         => Latest.age <= js.period - js.period \div 10 /\ Latest.age <= js.period - 6
  BY <1>3, NotDue
<1>13. Covers(js.out, Latest, js.period, jn, {}, seen.confirmed, Quietly) /\ SharedBy(js.out, js.dlgs, jn, {})
  BY <1>3 DEF Timed, Both
<1>14. Latest = Current(js.out, js.dlgs)
  BY DEF Latest
<1> DEFINE l == Latest
           l2 == Latest'
           o2 == js'.out
           k == jn'
<1>15. Covers(o2, l2, js.period, k, {}, seen.confirmed, Quietly)
  <2> HIDE DEF l2, o2, k
  <2>1. Grown(o2, js.out) /\ Grown(l2, l)
    BY <1>1, <1>9 DEF l2, o2
  <2>2. IF jn.live
        THEN /\ k.live /\ k.tag = jn.tag /\ k.status = jn.status /\ k.state = jn.state /\ k.inc = jn.inc
             /\ k.left = IF jn.left > 0 THEN jn.left - Tick ELSE -Tick
        ELSE k = jn
    BY <1>2 DEF k
  <2> QED
    BY <1>10, <1>11, <1>12, <1>13, <1>14, <2>1, <2>2, TickCovers
<1>16. Quietly' = Quietly
  BY <1>1 DEF Quietly
<1> QED
  BY <1>1, <1>3, <1>8, <1>15, <1>16 DEF Timed

LEMMA InitTimed ==
  ASSUME Init
  PROVE  Timed
<1>1. PICK e \in Asks : \E tr :
           /\ New(tr, 0) /\ tr.ask = e /\ js.period = RefreshInterval(3600, e) /\ js.dlgs = <<>> /\ js.out = tr
           /\ net = {Subscribe(tr, 0)} /\ jn = NoNotify /\ ~seen.confirmed
  BY InitEffect
<1>2. PICK tr : /\ New(tr, 0) /\ tr.ask = e /\ js.period = RefreshInterval(3600, e) /\ js.dlgs = <<>> /\ js.out = tr
                /\ net = {Subscribe(tr, 0)} /\ jn = NoNotify /\ ~seen.confirmed
  BY <1>1
<1> DEFINE m == Subscribe(tr, 0)
           p == RefreshInterval(3600, e)
<1>3. m.kind = "SUBSCRIBE" /\ m.n = tr.n /\ m.ask = tr.ask
  BY <1>2, SubscribeTyped DEF New
<1>4. net = {m}
  BY <1>2
<1>5. ~jn.live /\ jn.state = "deleted"
  BY <1>2 DEF NoNotify
<1>6. tr.st = "trying" /\ tr.resp = "none" /\ tr.age = 0 /\ tr.n \in Nat /\ tr.ask = e
  BY <1>2 DEF New, Transactions
<1>7. e \in Nat /\ e > 0
  BY ExSubscriptionAssumption
<1>8. Period(p, e)
  BY <1>7, LongerInterval DEF Period
<1>9. Latest = tr /\ js.out = tr /\ js.dlgs = <<>> /\ js.period = p
  BY <1>2 DEF Latest, Current
<1> HIDE DEF m, p
<1>10. \A x \in net : x = m /\ Asking(x) /\ ~To(x)
  BY <1>3, <1>4 DEF Asking, To
<1>11. Newest(tr, jn, net)
  BY <1>3, <1>5, <1>6, <1>10 DEF Newest
<1>12. \E k \in Nat : tr.age = k * Tick
  <2>1. 0 * Tick = 0
    BY ExSubscriptionAssumption
  <2> QED
    BY <1>6, <2>1
<1>13. Says(tr, jn, net)
  BY <1>3, <1>5, <1>6, <1>10, <1>12 DEF Says
<1>14. Opening(tr, p)
  BY <1>6, <1>7, <1>8 DEF Opening
<1>15. Confirms(tr, jn, net, seen.confirmed)
  BY <1>2, <1>5 DEF Confirms
<1>16. Rings(tr, jn, net) /\ Keeps(tr, p, jn, net)
  BY <1>5 DEF Rings, Keeps
<1>17. Covers(tr, tr, p, jn, net, seen.confirmed, Quietly)
  BY <1>11, <1>13, <1>14, <1>15, <1>16 DEF Covers
<1>18. Behind(Latest, js.dlgs)
  BY <1>9 DEF Behind
<1> QED
  BY <1>9, <1>17, <1>18 DEF Timed

\* What a request asked for can be asked for again.
LEMMA AskedAgain ==
  ASSUME TypeOK, js.live, Both(jn, net), Timed, NEW d \in DOMAIN js.dlgs
  PROVE  Askable(LastOut(js, d).ask) /\ LastOut(js, d).ask \in Nat
<1>1. d = 1
  BY Only
<1>2. js.dlgs # <<>>
  BY DialogOfNone
<1>3. Latest = LastOut(js, d)
  BY <1>1, <1>2, LatestIs
<1>4. Latest.ask \in Asks \cup {0, MinExpires}
  BY DEF Timed, Covers, Says
<1> QED
  BY <1>3, <1>4, LastOutTyped DEF Askable, Transactions

\* The subscriber sends.
LEMMA SentTimed ==
  ASSUME TypeOK, js.live, Both(jn, net), Held(jn), Timed,
         eXosip_subscribe_send_refresh_request \/ eXosip_automatic_action
  PROVE  Timed'
<1>1. CASE eXosip_subscribe_send_refresh_request
  <2>1. PICK d \in DOMAIN js.dlgs, e \in Asks \cup {0} : SendRefresh(d, e)
    BY <1>1 DEF eXosip_subscribe_send_refresh_request
  <2>2. e \in Nat /\ Askable(e)
    BY ExSubscriptionAssumption DEF Askable
  <2>3. jn' = jn /\ trouble' = trouble
    BY <1>1 DEF eXosip_subscribe_send_refresh_request
  <2> QED
    BY <2>1, <2>2, <2>3, RefreshTimed
<1>2. CASE eXosip_automatic_action
  <2>0. jn' = jn /\ trouble' = trouble
    BY <1>2 DEF eXosip_automatic_action
  <2>1. CASE RetriesInitial /\ SendWithCredential(0)
    BY <2>0, <2>1, RetryFirstTimed
  <2>2. ASSUME NEW d \in DOMAIN js.dlgs, RetriesIn(d), SendWithCredential(d) PROVE Timed'
    BY <2>0, <2>2, RetryInTimed
  <2>3. ASSUME NEW d \in DOMAIN js.dlgs, AutomaticRefresh(d) PROVE Timed'
    <3> DEFINE e == LastOut(js, d).ask
    <3>1. e \in Nat /\ Askable(e)
      BY AskedAgain
    <3>2. SendRefresh(d, e)
      BY <2>3 DEF AutomaticRefresh
    <3> HIDE DEF e
    <3> QED
      BY <2>0, <3>1, <3>2, RefreshTimed
  <2> QED
    BY <1>2, <2>1, <2>2, <2>3 DEF eXosip_automatic_action
<1> QED
  BY <1>1, <1>2

\* No step brings a subscription back.
LEMMA NeverBack ==
  ASSUME TypeOK, ~js.live, [Next]_vars
  PROVE  ~js'.live
<1>1. ASSUME NEW tr \in TransactionsOf(js) PROVE FALSE
  BY <1>1, TransactionsAre
<1>2. CASE js' = js \/ js' = Freed
  BY <1>2, FreedTyped
<1>3. CASE eXosip_subscribe_send_refresh_request \/ eXosip_subscribe_remove \/ eXosip_automatic_action
             \/ ReleaseSubscription
  BY <1>3 DEF eXosip_subscribe_send_refresh_request, eXosip_subscribe_remove, eXosip_automatic_action,
              ReleaseSubscription, Releases
<1>4. CASE RcvAnswer
  BY <1>1, <1>4 DEF RcvAnswer
<1>5. CASE KillSubscribe
  BY <1>1, <1>5 DEF KillSubscribe
<1>6. CASE RcvNotify
  <2>1. js' = js
    BY <1>6, RcvNotifyEffect
  <2> QED
    BY <2>1
<1>7. CASE RcvLateAnswer \/ KillReplaced
  <2>1. js' = js \/ js' = Freed
    BY <1>7 DEF RcvLateAnswer, KillReplaced
  <2> QED
    BY <1>2, <2>1
<1>8. CASE RcvSubscribe \/ RcvNotifyAnswer \/ KillNotify \/ SendState \/ SendEnd
             \/ eXosip_insubscription_send_answer \/ eXosip_insubscription_remove \/ eXosip_automatic_notify
             \/ ProxyAnswers \/ Outage
  <2>1. js' = js
    BY <1>8 DEF RcvSubscribe, RcvNotifyAnswer, KillNotify, SendState, SendEnd, SendNotify,
                eXosip_insubscription_send_answer, eXosip_insubscription_remove, eXosip_automatic_notify,
                ProxyAnswers, Outage
  <2> QED
    BY <1>2, <2>1
<1>9. CASE TransportError
  <2>1. js' = Freed \/ js' = js
    BY <1>9 DEF TransportError
  <2> QED
    BY <1>2, <2>1
<1>10. CASE TickTime
  <2>1. js' = js
    BY <1>10, TickEffect
  <2> QED
    BY <2>1
<1>11. CASE UNCHANGED vars
  BY <1>2, <1>11 DEF vars
<1> QED
  BY <1>3, <1>4, <1>5, <1>6, <1>7, <1>8, <1>9, <1>10, <1>11
  DEF Next, SubscriberThread, NotifierThread

LEMMA StaysTimed ==
  ASSUME ShortTicks, TypeOK, OneInv, TimeInv, [Next]_vars
  PROVE  TimeInv'
<1> SUFFICES ASSUME js'.live PROVE Timed'
  BY DEF TimeInv, Timed
<1>0. js.live
  BY NeverBack
<1>1. Both(jn, net) /\ Held(jn) /\ Timed
  BY <1>0 DEF OneInv, Shared, Both, TimeInv, Timed
<1>2. CASE eXosip_subscribe_send_refresh_request \/ eXosip_automatic_action
  BY <1>0, <1>1, <1>2, SentTimed
<1>3. CASE eXosip_subscribe_remove
  BY <1>3, FreedTyped DEF eXosip_subscribe_remove
<1>4. CASE RcvAnswer
  BY <1>0, <1>1, <1>4, AnswerTimed
<1>5. CASE RcvNotify
  BY <1>0, <1>1, <1>5, NotifyTimed
<1>6. CASE KillSubscribe
  BY <1>0, <1>1, <1>6, KillTimed
<1>7. CASE KillReplaced
  BY <1>0, <1>1, <1>7, ReplacedTimed
<1>8. CASE ReleaseSubscription
  BY <1>0, <1>1, <1>8, ReleaseTimed
<1>9. CASE RcvSubscribe
  BY <1>0, <1>1, <1>9, SubscribeTimed
<1>10. CASE eXosip_insubscription_send_answer
  BY <1>0, <1>1, <1>10, SendAnswerTimed
<1>11. CASE \/ SendState \/ SendEnd \/ eXosip_insubscription_remove \/ eXosip_automatic_notify
            \/ RcvNotifyAnswer \/ KillNotify \/ RcvLateAnswer
  BY <1>0, <1>1, <1>11, NotifierTimed
<1>12. CASE ProxyAnswers
  BY <1>0, <1>1, <1>12, ProxyTimed
<1>13. CASE Outage
  BY <1>0, <1>1, <1>13, OutageTimed
<1>14. CASE TransportError
  <2>1. js' = Freed \/ Closed("unreachable")
    BY <1>14 DEF TransportError
  <2>2. js' # Freed
    BY FreedTyped
  <2> QED
    BY <1>0, <1>1, <1>14, <2>1, <2>2, NotifierTimed
<1>15. CASE TickTime
  BY <1>0, <1>1, <1>15, TickTimed
<1>16. CASE UNCHANGED vars
  <2>1. js' = js /\ LikeNotifier(jn', jn) /\ LikeNet(net', net) /\ seen'.confirmed = seen.confirmed
    BY <1>16 DEF vars, LikeNotifier, LikeNet
  <2>2. Quietly' => Quietly
    BY <1>16 DEF vars, Quietly
  <2> QED
    BY <1>1, <2>1, <2>2, SameTimed
<1> QED
  BY <1>2, <1>3, <1>4, <1>5, <1>6, <1>7, <1>8, <1>9, <1>10, <1>11, <1>12, <1>13, <1>14, <1>15, <1>16
  DEF Next, SubscriberThread, NotifierThread

LEMMA TimedStays ==
  ASSUME TypeOK, OneInv, TimeInv
  PROVE  StaysSubscribed
<1> SUFFICES ASSUME js.live, seen.confirmed, Quietly, jn.live, jn.status # TERMINATED
             PROVE  jn.left > 0
  BY DEF StaysSubscribed, Quietly
<1>1. Both(jn, net) /\ Timed
  BY DEF OneInv, Shared, Both, TimeInv, Timed
<1>2. Covers(js.out, Latest, js.period, jn, net, seen.confirmed, Quietly)
  BY <1>1 DEF Timed
<1>3. js.out.resp = "2xx"
  BY <1>2 DEF Covers, Confirms
<1>4. jn.state # "deleted"
  BY <1>2, <1>3 DEF Covers, Confirms
<1>5. js.out.st # "trying"
  BY <1>1, <1>3 DEF Both, SharedBy, Dialogue
<1>6. jn.state # "early"
  BY <1>1, <1>5 DEF Both, SharedBy, Ringing
<1>7. jn.state = "confirmed"
  BY <1>4, <1>6, Parts DEF DialogStates
<1>8. Keeps(Latest, js.period, jn, net)
  BY <1>2 DEF Covers
<1> QED
  BY <1>7, <1>8 DEF Keeps

\* The refreshes come in time, for all periods, all bounds and all ticks that are short enough:
\* while nothing is lost or refused, neither application ends it and what is asked for is
\* enough, what is left of the subscription at the notifier never runs out, however long each
\* answer takes and whichever of the answers and NOTIFYs comes first.
THEOREM StaysForBoth == ShortTicks => (Spec => []StaysSubscribed)
<1> SUFFICES ASSUME ShortTicks PROVE Spec => []StaysSubscribed
  OBVIOUS
<1>1. Init => TypeOK /\ OneInv /\ TimeInv
  BY InitTyped, InitOne, InitTimed DEF TimeInv, Timed
<1>2. TypeOK /\ OneInv /\ TimeInv /\ [Next]_vars => (TypeOK /\ OneInv /\ TimeInv)'
  BY StepTyped, StaysOne, StaysTimed
<1>3. TypeOK /\ OneInv /\ TimeInv => StaysSubscribed
  BY TimedStays
<1> QED
  BY <1>1, <1>2, <1>3, PTL DEF Spec

=============================================================================
