------------------------------ MODULE SipAuth ------------------------------
(***************************************************************************)
(* The header fields of authentication: osip_www_authenticate.c (and       *)
(* Proxy-Authenticate), osip_authorization.c (and Proxy-Authorization) and *)
(* osip_authentication_info.c.                                             *)
(*                                                                         *)
(* The parser asks again and again, in a fixed order, whether the next     *)
(* parameter is one it knows; __osip_quoted_string_set and __osip_token_set *)
(* answer.  A parameter that nobody took in a round is skipped.            *)
(***************************************************************************)
EXTENDS SipText

Challenge == <<<<"realm", "quoted">>, <<"domain", "quoted">>, <<"nonce", "quoted">>, <<"opaque", "quoted">>,
               <<"stale", "token">>, <<"algorithm", "token">>, <<"qop", "quoted">>>>

Credentials == <<<<"username", "quoted">>, <<"realm", "quoted">>, <<"nonce", "quoted">>, <<"uri", "quoted">>,
                 <<"response", "quoted">>, <<"digest", "quoted">>, <<"algorithm", "token">>,
                 <<"cnonce", "quoted">>, <<"opaque", "quoted">>, <<"qop", "token">>, <<"nc", "token">>>>

Info == <<<<"nextnonce", "quoted">>, <<"cnonce", "quoted">>, <<"rspauth", "quoted">>,
          <<"nc", "token">>, <<"qop", "token">>>>

Names(asks) == {asks[n][1] : n \in DOMAIN asks}

-----------------------------------------------------------------------------
(* One question, at position i of s: where the next starts (0: the header   *)
(* field has ended), and the value that was found.                          *)

Answer(next, value) == [next |-> next, value |-> value]

\* Past the characters cs; 0 at the end of the text.
Skip(s, i, cs) == LET at == {n \in i .. Len(s) : s[n] \notin cs}
                  IN IF at = {} THEN 0 ELSE CHOOSE n \in at : \A m \in at : n <= m

Rest(s, i) == IF i = 0 THEN <<>> ELSE SubSeq(s, i, Len(s))

\* The value between the first quotes behind b.  An empty value counts as none.
QuotedValue(s, q1, q2) ==
    IF q1 = 0 \/ q2 = 0 THEN Failed
    ELSE Answer(Skip(s, q2 + 1, {" "}), IF q2 = q1 + 1 THEN NULL ELSE SubSeq(s, q1, q2))

QuotedFrom(s, q1) == QuotedValue(s, q1, quote_find(s, q1 + 1))

QuotedAt(name, s, b, equal) ==
    IF s[b] # name THEN Answer(b, NULL)
    ELSE IF equal = 0 THEN Failed
    ELSE IF \E n \in b + 1 .. equal - 1 : s[n] # " " THEN Answer(b, NULL)
    ELSE QuotedFrom(s, quote_find(s, b))

QuotedBehind(name, s, b) ==
    IF strlen(Rest(s, b)) <= Len(name) THEN Failed ELSE QuotedAt(name, s, b, From(s, "=", b))

quoted_string_set(name, s, i) == QuotedBehind(name, s, Skip(s, i, {" ", ","}))

\* The '=' is looked for before the blanks are skipped; fewer than six characters are
\* taken for the end.
TokenValue(s, equal, end) ==
    IF end < equal + 2 THEN Failed
    ELSE Answer(Skip(s, end + 1, {" "}), osip_clrspace(Between(s, equal, end)))

TokenAt(name, s, equal, b) ==
    IF s[b] # name THEN Answer(b, NULL) ELSE TokenValue(s, equal, OrEnd(s, From(s, ",", b)))

TokenUpto(name, s, i, equal) ==
    IF equal = 0 THEN Failed
    ELSE IF strlen(Rest(s, i)) < 6 THEN Answer(0, NULL)
    ELSE TokenAt(name, s, equal, Skip(s, i, {" ", ","}))

token_set(name, s, i) == TokenUpto(name, s, i, From(s, "=", i))

-----------------------------------------------------------------------------
(* The loop. *)

\* One question more; p says where the parser is, what it has and whether it moved.
Answered(p, name, a) ==
    IF a = Failed THEN [p EXCEPT !.end = "bad"]
    ELSE [at |-> a.next, moved |-> p.moved \/ a.next # p.at, has |-> [p.has EXCEPT ![name] = a.value],
          end |-> IF a.next = 0 THEN "ok" ELSE "no"]

Ask(s, p, ask) ==
    IF p.end # "no" \/ p.has[ask[1]] # NULL THEN p
    ELSE Answered(p, ask[1], IF ask[2] = "quoted" THEN quoted_string_set(ask[1], s, p.at)
                             ELSE token_set(ask[1], s, p.at))

\* Past a parameter that is not known, to the comma that follows it.
PastQuotes(s, comma, q1, q2) ==
    IF comma = 0 \/ q1 = 0 \/ q1 > comma \/ comma >= q2 THEN comma ELSE From(s, ",", q2)

UnclosedAt(comma, q1, q2) == comma # 0 /\ q1 # 0 /\ q1 < comma /\ q2 = 0

Bypass(s, i, q1) == PastQuotes(s, From(s, ",", i + 1), q1, quote_find(s, q1 + 1))
UnclosedQuote(s, i, q1) == UnclosedAt(From(s, ",", i + 1), q1, quote_find(s, q1 + 1))

\* All the questions, once.
Round(asks, s, p) == FoldLeft(LAMBDA x, ask : Ask(s, x, ask), [p EXCEPT !.moved = FALSE], asks)

\* Where the next round begins after the round r; 0: there is none.
NextRound(s, r) ==
    CASE r.end # "no" -> 0
      [] r.end = "no" /\ r.moved -> r.at
      [] OTHER -> Bypass(s, r.at, quote_find(s, r.at))

Refused(s, r) == r.end = "bad" \/ (r.end = "no" /\ ~r.moved /\ UnclosedQuote(s, r.at, quote_find(s, r.at)))

RECURSIVE RoundsAfter(_, _, _, _)
RoundsAfter(asks, s, r, next) ==
    IF Refused(s, r) THEN Failed
    ELSE IF next = 0 THEN r.has
    ELSE LET n == Round(asks, s, [r EXCEPT !.at = next]) IN RoundsAfter(asks, s, n, NextRound(s, n))

Rounds(asks, s, r) == RoundsAfter(asks, s, r, NextRound(s, r))

AuthParams(asks, s, i) ==
    Rounds(asks, s, Round(asks, s, [at |-> i, moved |-> FALSE, end |-> "no", has |-> [n \in Names(asks) |-> NULL]]))

AuthFields(type, has) == IF has = Failed THEN Failed ELSE [auth_type |-> type, has |-> has]

\* The scheme, which a blank ends, and the parameters.
SchemeUpto(asks, s, space) ==
    IF space < 2 THEN Failed ELSE AuthFields(Upto(s, space), AuthParams(asks, s, space))

WithScheme(asks, s) == SchemeUpto(asks, s, strchr(s, " "))

osip_www_authenticate_parse(s) == WithScheme(Challenge, s)
osip_authorization_parse(s) == WithScheme(Credentials, s)
osip_authentication_info_parse(s) == AuthFields(NULL, AuthParams(Info, s, 1))

osip_www_authenticate_clone(h) == [auth_type |-> h.auth_type, has |-> [n \in Names(Challenge) |-> h.has[n]]]
osip_authorization_clone(h) == [auth_type |-> h.auth_type, has |-> [n \in Names(Credentials) |-> h.has[n]]]
osip_authentication_info_clone(h) == [auth_type |-> NULL, has |-> [n \in Names(Info) |-> h.has[n]]]

-----------------------------------------------------------------------------
(* Printing. *)

\* "name=value" for each name of the list that has a value.
Printed(has, names) ==
    LET there == SelectSeq(names, LAMBDA n : has[n] # NULL)
    IN [n \in DOMAIN there |-> <<there[n], "=">> \o has[there[n]]]

Joined(params) == FlattenSeq([n \in DOMAIN params |-> <<",", " ">> \o params[n]])

\* Without a realm the first comma is overwritten by a blank.
osip_www_authenticate_to_str(h) ==
    LET params == Joined(Printed(h.has, <<"realm", "domain", "nonce", "opaque", "stale", "algorithm", "qop">>))
    IN h.auth_type \o (IF params = <<>> THEN <<>>
                       ELSE (IF h.has["realm"] = NULL THEN <<" ", " ">> ELSE <<" ">>) \o SubSeq(params, 3, Len(params)))

\* Without a user name the comma stays.
osip_authorization_to_str(h) ==
    LET params == Joined(Printed(h.has, <<"username", "realm", "nonce", "uri", "response", "digest",
                                          "algorithm", "cnonce", "opaque", "qop", "nc">>))
    IN h.auth_type \o (IF h.has["username"] = NULL THEN params ELSE Tail(params))

osip_authentication_info_to_str(h) ==
    LET params == Joined(Printed(h.has, <<"qop", "nextnonce", "rspauth", "cnonce", "nc">>))
    IN IF params = <<>> THEN NULL ELSE SubSeq(params, 3, Len(params))
=============================================================================
