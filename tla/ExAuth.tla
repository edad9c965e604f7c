------------------------------- MODULE ExAuth -------------------------------
(***************************************************************************)
(* The credentials of libeXosip2: what the application has given           *)
(* (authinfos), the challenges that are remembered for each Call-ID        *)
(* (http_auths), what is put into a request that is built and into one     *)
(* that is retried after a 401 or 407 (eXosip.c, jauth.c).                 *)
(*                                                                         *)
(* On the way of a request there are one or two who ask for credentials:   *)
(* each accepts a nonce it has given, and of its counts only one that is   *)
(* higher than those it has seen (RFC 2617), unless it has challenged      *)
(* without a qop: then nothing is counted.  It knows everybody's password  *)
(* in its own realm.  Requests may overtake one another.  MD5 is taken as  *)
(* one to one; method and URI are those of the request that carries them.  *)
(***************************************************************************)
EXTENDS Naturals, SequencesExt

CONSTANTS Calls,         \* Call-IDs of calls, registrations and subscriptions
          Messages,      \* Call-IDs of requests outside of a dialog
          Ways,          \* who asks for credentials on the way: sequences of realms
          Plain,         \* those realms that challenge without a qop
          Infos,         \* what the application may give: [user, realm, ha1], the realm
                         \* for which the ha1 was made, or "passwd" if a password is given
          Begins,        \* pairs of realms: the first is the beginning of the second
          Slots,         \* MAX_EXOSIP_HTTP_AUTH
          MaxRequests,   \* bound: requests, the retried ones included
          MaxChanges     \* bound: nonces forgotten and accounts given or taken away

VARIABLES way,         \* of each Call-ID
          authinfos,   \* the accounts, in the order they were given
          http_auths,  \* the challenges remembered, by slot
          call,        \* the eXosip_call_t (or eXosip_reg_t) of each Call-ID
          reqs,        \* the requests, in the order they were built
          nonces,      \* those that were given: by whom, and the highest count seen
          changes      \* how many of them there were

authVars == <<way, authinfos, http_auths, call, reqs, nonces, changes>>

Unused == [call |-> "none", realm |-> "none", nonce |-> 0, count |-> 0]
NoChallenge == [realm |-> "none", nonce |-> 0]
AnyRealm == "any"                     \* an account without a realm
From == "alice"                       \* who every request is from

Init == /\ way \in [Calls \cup Messages -> Ways]
        /\ \E info \in Infos : authinfos = <<info>>
        /\ http_auths = [s \in 1 .. Slots |-> Unused]
        /\ call = [c \in Calls \cup Messages |-> [alive |-> TRUE, retry |-> 0, late |-> FALSE]]
        /\ reqs = <<>> /\ nonces = <<>> /\ changes = 0

-----------------------------------------------------------------------------
(* The accounts. *)

\* Of the challenged realm only as many characters are compared as it has.
Matches(realm, info) ==
    info.realm # AnyRealm /\ (info.realm = realm \/ <<realm, info.realm>> \in Begins)

\* eXosip_find_authentication_info, as a sequence of one or none: of this user and realm,
\* of this realm, the last one of this user for any realm, the first one for any.
eXosip_find_authentication_info(realm) ==
    LET those(P(_)) == SelectSeq(authinfos, P)
        forRealm == those(LAMBDA a : Matches(realm, a))
        mine == SelectSeq(forRealm, LAMBDA a : a.user = From)
        mineForAny == those(LAMBDA a : a.user = From /\ a.realm = AnyRealm)
        forAny == those(LAMBDA a : a.realm = AnyRealm)
        first(s) == IF s = <<>> THEN <<>> ELSE <<Head(s)>>
    IN CASE mine # <<>> -> first(mine)
         [] mine = <<>> /\ forRealm # <<>> -> first(forRealm)
         [] forRealm = <<>> /\ mineForAny # <<>> -> <<Last(mineForAny)>>
         [] OTHER -> first(forAny)

eXosip_add_authentication_info(info) ==
    /\ changes < MaxChanges /\ Len(authinfos) < 2
    /\ authinfos' = Append(authinfos, info)
    /\ changes' = changes + 1
    /\ UNCHANGED <<way, http_auths, call, reqs, nonces>>

eXosip_remove_authentication_info(info) ==
    /\ changes < MaxChanges /\ Contains(authinfos, info)
    /\ authinfos' = RemoveFirst(authinfos, info)
    /\ changes' = changes + 1
    /\ UNCHANGED <<way, http_auths, call, reqs, nonces>>

-----------------------------------------------------------------------------
(* The challenges remembered. *)

Of(c) == {s \in 1 .. Slots : http_auths[s].call = c}
Lowest(S) == CHOOSE s \in S : \A x \in S : s <= x

Entry(c, ch) == [call |-> c, realm |-> ch.realm, nonce |-> ch.nonce, count |-> 1]

_eXosip_store_nonce(c, ch) ==
    LET same == {s \in Of(c) : http_auths[s].realm = ch.realm}
        free == Of("none")
    IN CASE same # {} -> [http_auths EXCEPT ![Lowest(same)] = Entry(c, ch)]
         [] same = {} /\ free # {} -> [http_auths EXCEPT ![Lowest(free)] = Entry(c, ch)]
         [] OTHER -> http_auths

\* The first one of this Call-ID.
_eXosip_delete_nonce(c) ==
    IF Of(c) = {} THEN http_auths ELSE [http_auths EXCEPT ![Lowest(Of(c))] = Unused]

-----------------------------------------------------------------------------
(* Building and retrying. *)

DigestCalcHA1(user, realm) == <<user, realm>>
DigestCalcResponse(ha1, nonce, count, counts) ==
    IF counts THEN <<ha1, nonce, count>> ELSE <<ha1, nonce>>

\* The ha1 that was given is taken as it is.
Response(info, realm, nonce, count) ==
    LET ha1 == DigestCalcHA1(info.user, IF info.ha1 = "passwd" THEN realm ELSE info.ha1)
    IN DigestCalcResponse(ha1, nonce, count, realm \notin Plain)

\* _eXosip_create_proxy_authorization_header
Authorization(info, realm, nonce, count) ==
    [realm |-> realm, user |-> info.user, nonce |-> nonce, count |-> count,
     response |-> Response(info, realm, nonce, count)]

Credentials(realm, nonce, count) ==
    {Authorization(info, realm, nonce, count) :
        info \in ToSet(eXosip_find_authentication_info(realm))}

NewRequest(c, creds, st, again) ==
    [call |-> c, creds |-> creds, st |-> st, again |-> again, resp |-> NoChallenge]

\* Mutant of NextCount: the count of the challenge is used again.
SameCount(e) == e.count

NextCount(e) == e.count + 1

\* _eXosip_add_authentication_information without a response: for every challenge of this
\* Call-ID, up to the first one there is no account for.
Foreseen(c) ==
    {s \in Of(c) : \A x \in Of(c) :
        x <= s => eXosip_find_authentication_info(http_auths[x].realm) # <<>>}

\* A request is built: eXosip_call_build_request, eXosip_register_build_register and
\* their like.
Build(c) ==
    /\ Len(reqs) < MaxRequests
    /\ call[c].alive
    /\ c \in Messages => \A i \in DOMAIN reqs : reqs[i].call # c
    /\ LET counted == [s \in 1 .. Slots |->
                         IF s \in Foreseen(c)
                         THEN [http_auths[s] EXCEPT !.count = NextCount(http_auths[s])]
                         ELSE http_auths[s]]
           creds == UNION {Credentials(counted[s].realm, counted[s].nonce, counted[s].count) :
                           s \in Foreseen(c)}
       IN /\ http_auths' = counted
          /\ reqs' = Append(reqs, NewRequest(c, creds, "built", FALSE))
    /\ UNCHANGED <<way, authinfos, call, nonces, changes>>

Send(i) ==
    /\ reqs[i].st = "built" /\ call[reqs[i].call].alive
    /\ reqs' = [reqs EXCEPT ![i].st = "sent"]
    /\ UNCHANGED <<way, authinfos, http_auths, call, nonces, changes>>

\* Mutant of Answered: the answer is made of what is remembered.
AnsweredFromStore(r) ==
    IF Of(r.call) = {} THEN Credentials(r.resp.realm, r.resp.nonce, 1)
    ELSE LET e == http_auths[Lowest(Of(r.call))] IN Credentials(e.realm, e.nonce, e.count)

\* _eXosip_add_authentication_information with the response: only for who has challenged.
Answered(r) == Credentials(r.resp.realm, r.resp.nonce, 1)

\* The request is cloned, what it had of credentials is removed.  A call, a registration
\* or a subscription gives up after three retries, and it sends the clone even if there is
\* no account; a request that is in no call any more, or never was, is not sent then.
Retry(i) ==
    LET r == reqs[i]
        c == r.call
        kept == c \in Calls /\ call[c].alive
        creds == Answered(r)
    IN /\ r.st = "challenged" /\ Len(reqs) < MaxRequests
       /\ IF kept THEN call[c].retry < 3 ELSE creds # {}
       /\ reqs' = Append([reqs EXCEPT ![i].st = "retried"], NewRequest(c, creds, "sent", TRUE))
       /\ http_auths' = IF c \in Calls /\ creds # {} THEN _eXosip_store_nonce(c, r.resp)
                        ELSE http_auths
       /\ call' = [call EXCEPT ![c] = IF kept THEN [@ EXCEPT !.retry = @ + 1]
                                      ELSE [@ EXCEPT !.late = c \in Calls]]
       /\ UNCHANGED <<way, authinfos, nonces, changes>>

\* _eXosip_call_free, _eXosip_reg_free: the requests go on in j_transactions.
Release(c) ==
    /\ call[c].alive /\ \E i \in DOMAIN reqs : reqs[i].call = c
    /\ call' = [call EXCEPT ![c].alive = FALSE]
    /\ http_auths' = _eXosip_delete_nonce(c)
    /\ UNCHANGED <<way, authinfos, reqs, nonces, changes>>

-----------------------------------------------------------------------------
(* Those on the way. *)

Right(c) == c.response = DigestCalcResponse(DigestCalcHA1(c.user, c.realm), c.nonce,
                                           c.count, c.realm \notin Plain)

Passes(realm, r) ==
    \E c \in r.creds : /\ c.realm = realm /\ Right(c) /\ nonces[c.nonce].known
                       /\ realm \in Plain \/ c.count > nonces[c.nonce].last

\* A request arrives, and is answered by the first one it does not pass, or by the peer.
Arrive(i) ==
    LET r == reqs[i]
        hops == way[r.call]
        stops == {k \in DOMAIN hops : ~Passes(hops[k], r)}
        passed == {hops[k] : k \in {x \in DOMAIN hops : \A y \in stops : x < y}}
        counted == [n \in DOMAIN nonces |->
                      IF \E c \in r.creds : c.realm \in passed /\ c.nonce = n
                      THEN [nonces[n] EXCEPT !.last = (CHOOSE c \in r.creds : c.nonce = n).count]
                      ELSE nonces[n]]
    IN /\ r.st = "sent"
       /\ IF stops = {}
          THEN /\ reqs' = [reqs EXCEPT ![i].st = "accepted"]
               /\ call' = [call EXCEPT ![r.call].retry = 0]
               /\ nonces' = counted
          ELSE LET realm == hops[Lowest(stops)]
               IN /\ reqs' = [reqs EXCEPT ![i].st = "challenged",
                                          ![i].resp = [realm |-> realm, nonce |-> Len(nonces) + 1]]
                  /\ nonces' = Append(counted, [realm |-> realm, last |-> 0, known |-> TRUE])
                  /\ UNCHANGED call
       /\ UNCHANGED <<way, authinfos, http_auths, changes>>

Forget(n) ==
    /\ changes < MaxChanges /\ nonces[n].known
    /\ nonces' = [nonces EXCEPT ![n].known = FALSE]
    /\ changes' = changes + 1
    /\ UNCHANGED <<way, authinfos, http_auths, call, reqs>>

Next == \/ \E info \in Infos : \/ eXosip_add_authentication_info(info)
                               \/ eXosip_remove_authentication_info(info)
        \/ \E c \in Calls \cup Messages : Build(c)
        \/ \E c \in Calls : Release(c)
        \/ \E i \in DOMAIN reqs : Send(i) \/ Retry(i) \/ Arrive(i)
        \/ \E n \in DOMAIN nonces : Forget(n)

Spec == Init /\ [][Next]_authVars

-----------------------------------------------------------------------------
(* Properties *)

\* No count of a nonce that counts is used twice, in whatever order requests are built, challenged,
\* retried and sent: the count goes on from the retry that answered the challenge
\* (_eXosip_store_nonce, _eXosip_add_authentication_information).
NumberedOnce ==
    \A i, j \in DOMAIN reqs : i # j =>
        \A c \in reqs[i].creds, d \in reqs[j].creds : 
            c.nonce = d.nonce /\ c.realm \notin Plain => c.count # d.count

\* A challenge is remembered once for each Call-ID and realm, and not longer than its
\* call, unless the call was challenged by two, of which one is forgotten, or a request of
\* it was retried when it was released already.
RememberedWhileNeeded ==
    LET used == {s \in 1 .. Slots : http_auths[s] # Unused}
    IN /\ \A s, x \in used : s # x => http_auths[s].call # http_auths[x].call
                                      \/ http_auths[s].realm # http_auths[x].realm
       /\ \A s \in used : LET c == http_auths[s].call
                          IN call[c].alive \/ Len(way[c]) > 1 \/ call[c].late

\* A request that answers a challenge is challenged again only if a later request was
\* quicker, the nonce has been forgotten, there was no account, or one with a ha1 of another
\* realm, or there are two who challenge: the answer to one leaves out that for the other.
ChallengedAgainForAReason ==
    \A i \in DOMAIN reqs : reqs[i].again /\ reqs[i].resp # NoChallenge =>
        LET r == reqs[i]
            mine == {c \in r.creds : c.realm = r.resp.realm}
        IN \/ r.creds = {} \/ (mine = {} /\ Len(way[r.call]) > 1)
           \/ \E c \in mine :
                 \/ ~nonces[c.nonce].known \/ ~Right(c)
                 \/ \E j \in DOMAIN reqs : /\ reqs[j].st \notin {"built", "sent"}
                                           /\ \E d \in reqs[j].creds :
                                                d.nonce = c.nonce /\ d.count > c.count

=============================================================================
