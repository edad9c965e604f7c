------------------------------- MODULE SipUri -------------------------------
(* osip_uri_t: osip_uri_parse, osip_uri_to_str and osip_uri_clone of osip_uri.c. *)
EXTENDS SipText

userinfo_def == {"*", "(", ")", "&", "=", ",", ";", "?", "/"}
password_def == {"*", "(", ")", "&", "=", ","}
uri_param_def == {"*", "(", ")", "[", "]", "/", ":", "&"}
header_param_def == {"*", "(", ")", "[", "]", "/", "?", ":"}

uri_init == [scheme |-> NULL, username |-> NULL, password |-> NULL, host |-> NULL, port |-> NULL,
             url_params |-> <<>>, url_headers |-> <<>>, string |-> NULL]

\* "?name=value&name=value", without the '?'.  The '=' is looked for beyond the '&', so that
\* a piece without one ends the list; the last value alone may be empty.
UriHeader(piece, e, last) ==
    IF e = 0 \/ (e = Len(piece) /\ ~last) THEN Failed
    ELSE param_set(uri_unescape(Upto(piece, e)), uri_unescape(After(piece, e)))

UriHeaders(pieces) ==
    LET one(n) == UriHeader(pieces[n], strchr(pieces[n], "="), n = Len(pieces)) IN Params(pieces, one).list

uri_parse_headers(s) == UriHeaders(Pieces(s, "&"))

\* ";name=value;name": s starts at the first ';'.
UriParam(name, e, v) ==
    IF name = <<>> \/ (e # 0 /\ v = <<>>) THEN Failed
    ELSE param_set(uri_unescape(name), IF e = 0 THEN NULL ELSE uri_unescape(v))

UriParamAt(piece, e) == UriParam(UptoOrAll(piece, e), e, After(piece, e))

UriParams(pieces) ==
    LET one(n) == UriParamAt(pieces[n], strchr(pieces[n], "=")) IN Params(pieces, one).list

uri_parse_params(s) == UriParams(Tail(Pieces(s, ";")))

\* One character is too short for a scheme, or for what follows the scheme of another URI.
Long(s) == strlen(s) > 1
IsSip(scheme) == scheme[1] = "sip"

\* What stands before the host: user name and password.  colon ends the scheme, p the user
\* name (0: there is no password), at both.
UserAndPassword(user, password, p) ==
    IF user = <<>> \/ (p # 0 /\ password = <<>>) THEN Failed
    ELSE [username |-> uri_unescape(user), password |-> IF p = 0 THEN NULL ELSE uri_unescape(password)]

UserInfo(s, colon, p, at) ==
    IF at = 0 THEN [username |-> NULL, password |-> NULL]
    ELSE IF at < colon THEN Failed
    ELSE UserAndPassword(Between(s, colon, IF p = 0 THEN at ELSE p), Between(s, p, at), p)

\* Host and port.  An address in brackets begins at the first '[', whatever stands before it.
HostAndPort(host, port) ==
    IF host = <<>> \/ (port # NULL /\ strlen(port) \notin 1 .. 7) THEN Failed
    ELSE [host |-> osip_clrspace(host), port |-> IF port = NULL THEN NULL ELSE osip_clrspace(port)]

HostPart(s, h, end, open, close, port) ==
    IF s[close] # "]" THEN HostAndPort(Between(s, h, end), port)
    ELSE IF open = 0 \/ open > close THEN Failed
    ELSE HostAndPort(Between(s, open, close), port)

\* Between h (the '@', or the ':' of the scheme) and e, with the last ']' or ':' at p.
HostUpto(s, h, end, port) ==
    HostPart(s, h, end, From(s, "[", h), Backto(s, {"]"}, h, IF end > Len(s) THEN Len(s) ELSE end), port)

HostPort(s, h, p, e) ==
    IF p > h /\ s[p] = ":" THEN HostUpto(s, h, p, Between(s, p, e)) ELSE HostUpto(s, h, e, NULL)

\* The parameters begin at the first ';' behind h, the headers at the first '?'.
UriFields(scheme, user, hp, params, headers) ==
    IF user = Failed \/ hp = Failed THEN Failed
    ELSE [scheme |-> scheme, username |-> user.username, password |-> user.password,
          host |-> hp.host, port |-> hp.port, string |-> NULL,
          url_params |-> IF params = <<>> THEN <<>> ELSE uri_parse_params(params),
          url_headers |-> IF headers = <<>> THEN <<>> ELSE uri_parse_headers(Tail(headers))]

UriUpto(s, scheme, user, h, params, headers) ==
    IF params > headers THEN Failed
    ELSE UriFields(scheme, user, HostPort(s, h, Backto(s, {"]", ":"}, h, params - 1), params),
                   SubSeq(s, params, headers - 1), SubSeq(s, headers, Len(s)))

UriBehind(s, scheme, user, h, semi, headers) ==
    UriUpto(s, scheme, user, h, IF semi = 0 THEN headers ELSE semi, headers)

SipUriText(s, scheme, user, h) ==
    UriBehind(s, scheme, user, h, From(s, ";", h), OrEnd(s, From(s, "?", h)))

\* nouser: the '@' follows the scheme at once.
AddressText(s, scheme, colon, nouser, at) ==
    SipUriText(s, scheme,
               UserInfo(s, colon, next_separator(s, ":", "@", colon + 1), IF nouser THEN 0 ELSE at),
               IF at = 0 THEN colon ELSE IF nouser THEN colon + 1 ELSE at)

UriText(s, colon, scheme, rest) ==
    IF colon = 0 \/ ~Long(scheme) \/ strchr(scheme, " ") # 0 THEN Failed
    ELSE IF IsSip(scheme)
         THEN AddressText(s, scheme, colon, rest # <<>> /\ rest[1] = "@", strchr(s, "@"))
    ELSE IF Long(rest) THEN [uri_init EXCEPT !.scheme = scheme, !.string = rest] ELSE Failed

UriAt(s, colon) == UriText(s, colon, Upto(s, colon), After(s, colon))

osip_uri_parse(s) == IF s = <<>> THEN Failed ELSE UriAt(s, strchr(s, ":"))

Esc(v, def) == IF v = NULL THEN NULL ELSE uri_escape(v, def)

\* Mutant of HostText: an IPv6 address is printed without its brackets.
HostBare(u) == u.host

HostText(u) == IF strchr(u.host, ":") # 0 THEN <<"[">> \o u.host \o <<"]">> ELSE u.host

osip_uri_to_str(u) ==
    LET param(p) == <<";">> \o uri_escape(p.gname, uri_param_def)
                       \o Opt(<<"=">>, Esc(p.gvalue, uri_param_def))
        header(n) == <<IF n = 1 THEN "?" ELSE "&">> \o uri_escape(u.url_headers[n].gname, header_param_def)
                        \o <<"=">> \o uri_escape(u.url_headers[n].gvalue, header_param_def)
    IN IF u.host = NULL /\ u.string = NULL THEN NULL
       ELSE IF u.string # NULL THEN u.scheme \o <<":">> \o u.string
       ELSE u.scheme \o <<":">>
            \o (IF u.username = NULL THEN <<>>
                ELSE uri_escape(u.username, userinfo_def) \o Opt(<<":">>, Esc(u.password, password_def)) \o <<"@">>)
            \o HostText(u)
            \o Opt(<<":">>, u.port)
            \o FlattenSeq([n \in DOMAIN u.url_params |-> param(u.url_params[n])])
            \o FlattenSeq([n \in DOMAIN u.url_headers |-> header(n)])

\* strdup of every field, and the lists one parameter after the other.
osip_uri_clone(u) ==
    IF u.host = NULL /\ u.string = NULL THEN Failed
    ELSE [f \in DOMAIN uri_init |-> IF f \in {"url_params", "url_headers"}
                                    THEN [n \in DOMAIN u[f] |-> param_clone(u[f][n])] ELSE u[f]]
=============================================================================
