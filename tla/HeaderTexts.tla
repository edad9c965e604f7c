---------------------------- MODULE HeaderTexts ----------------------------
(***************************************************************************)
(* Header fields as a peer writes them and as an application builds them:  *)
(* a text of some kind grows piece by piece, and after each piece it is    *)
(* given to the kind's parser; or a field is assembled, to be printed.     *)
(***************************************************************************)
EXTENDS SipHeaders, SipAuth

CONSTANTS Kinds,       \* the kinds of header field
          Texts,       \* Texts[k]: the pieces a text of kind k is made of
          Starts,      \* Starts[k]: what the texts begin with
          MaxPieces,   \* bound: MaxPieces[k], the pieces of a text
          Assembled    \* Assembled[k]: the fields of kind k an application sets

VARIABLES kind,        \* the kind of header field
          pieces,      \* the pieces of the text; <<>> of an assembled field
          field        \* the structure that was parsed or assembled, or Failed

vars == <<kind, pieces, field>>

Read(k, s) ==
    CASE k = "uri" -> osip_uri_parse(s)
      [] k \in {"from", "route"} -> osip_from_parse(s)
      [] k = "contact" -> osip_contact_parse(s)
      [] k = "via" -> osip_via_parse(s)
      [] k = "cseq" -> osip_cseq_parse(s)
      [] k = "call-id" -> osip_call_id_parse(s)
      [] k \in {"content-type", "accept"} -> osip_content_type_parse(s)
      [] k = "accept-encoding" -> osip_accept_encoding_parse(s)
      [] k = "call-info" -> osip_call_info_parse(s)
      [] k = "www-authenticate" -> osip_www_authenticate_parse(s)
      [] k = "authorization" -> osip_authorization_parse(s)
      [] k = "authentication-info" -> osip_authentication_info_parse(s)

ToStr(k, f) ==
    CASE k = "uri" -> osip_uri_to_str(f)
      [] k = "from" -> osip_from_to_str(f)
      [] k = "route" -> osip_record_route_to_str(f)
      [] k = "contact" -> osip_contact_to_str(f)
      [] k = "via" -> osip_via_to_str(f)
      [] k = "cseq" -> osip_cseq_to_str(f)
      [] k = "call-id" -> osip_call_id_to_str(f)
      [] k = "content-type" -> osip_content_type_to_str(f)
      [] k = "accept" -> osip_accept_to_str(f)
      [] k = "accept-encoding" -> osip_accept_encoding_to_str(f)
      [] k = "call-info" -> osip_call_info_to_str(f)
      [] k = "www-authenticate" -> osip_www_authenticate_to_str(f)
      [] k = "authorization" -> osip_authorization_to_str(f)
      [] k = "authentication-info" -> osip_authentication_info_to_str(f)

Clone(k, f) ==
    CASE k = "uri" -> osip_uri_clone(f)
      [] k \in {"from", "route", "contact"} -> osip_from_clone(f)
      [] k = "via" -> osip_via_clone(f)
      [] k = "cseq" -> osip_cseq_clone(f)
      [] k = "call-id" -> osip_call_id_clone(f)
      [] k \in {"content-type", "accept"} -> osip_content_type_clone(f)
      [] k = "accept-encoding" -> osip_accept_encoding_clone(f)
      [] k = "call-info" -> osip_call_info_clone(f)
      [] k = "www-authenticate" -> osip_www_authenticate_clone(f)
      [] k = "authorization" -> osip_authorization_clone(f)
      [] k = "authentication-info" -> osip_authentication_info_clone(f)

Text == FlattenSeq(pieces)

Init == /\ kind \in Kinds
        /\ \/ /\ pieces \in {<<p>> : p \in Starts[kind]}
              /\ field = Read(kind, Text)
           \/ /\ pieces = <<>>
              /\ field \in Assembled[kind]

Grow == /\ Len(pieces) \in 1 .. MaxPieces[kind]
        /\ pieces' \in {Append(pieces, p) : p \in Texts[kind]}
        /\ field' = Read(kind, Text')
        /\ UNCHANGED kind

Next == Grow

Spec == Init /\ [][Next]_vars

-----------------------------------------------------------------------------
(* Properties *)

Parameters(f) ==
    LET of(n) == IF n \in DOMAIN f THEN ToSet(f[n]) ELSE {}
    IN of("gen_params") \cup of("via_params") \cup of("url_params") \cup of("url_headers")

Address == {"from", "route", "contact"}
Digests == {"www-authenticate", "authorization", "authentication-info"}

\* Nothing the parser kept is empty: a blank value is kept, but its text is not read again.
NoneEmpty(f) ==
    /\ \A n \in {"username", "password", "host", "port", "version", "protocol", "number", "method",
                 "type", "subtype", "element", "comment"} \cap DOMAIN f : f[n] # <<>>
    /\ \A p \in Parameters(f) : p.gname # <<>> /\ p.gvalue # <<>>

\* A host is a name or an address, and a port a number: the parsers take some other
\* characters for one, too.
HostIsName(f) == /\ f.host # NULL => ToSet(f.host) \cap (Chars \ {":"}) = {}
                 /\ f.port # NULL => ToSet(f.port) \cap Chars = {}

Printable(k, f) ==
    CASE k = "uri" -> NoneEmpty(f) /\ HostIsName(f)
      \* A comment is looked for in vain behind ';', and taken for an address if it has brackets.
      [] k = "via" -> NoneEmpty(f) /\ HostIsName(f) /\ (f.comment # NULL => ToSet(f.comment) \cap Chars = {})
      \* Of a Contact that begins with "*" nothing else is printed.
      [] k = "contact" /\ f.url = Failed -> f.displayname = <<"*">>
      [] k \in Address /\ (k # "contact" \/ f.url # Failed) ->
           NoneEmpty(f) /\ (f.url # Failed => NoneEmpty(f.url) /\ HostIsName(f.url))
      \* Without a value a parameter cannot be printed here.
      [] k \in {"content-type", "accept"} -> NoneEmpty(f) /\ f.type # NULL /\ \A p \in Parameters(f) : p.gvalue # NULL
      \* Without a user name a comma follows the scheme; a parameter at the end that is as short
      \* as the names asked for is not read.
      [] k = "authorization" -> f.has["username"] # NULL /\ (f.has["qop"] # NULL => f.has["nc"] # NULL)
      [] k = "www-authenticate" -> \E n \in DOMAIN f.has : f.has[n] # NULL
      [] k = "authentication-info" -> \E n \in DOMAIN f.has \ {"qop"} : f.has[n] # NULL
      [] OTHER -> NoneEmpty(f)

\* What is printed of a field, or of its clone, is read as the same field: nothing is lost, moved
\* to another part or left unescaped (osip_uri_to_str and the other osip_X_to_str, osip_X_clone).
PrintedIsReadAgain ==
    field # Failed /\ Printable(kind, field) => Read(kind, ToStr(kind, Clone(kind, field))) = field

Count(s, c) == Cardinality({n \in DOMAIN s : s[n] = c})
Outside(s, n) == Count(Upto(s, n), "\"") % 2 = 0

\* Between '<' and '>' a parameter belongs to the address, behind them to the field; without
\* them every parameter is the field's (osip_from.c:150-181).
ParamsWhereTheyStand ==
    kind \in Address /\ pieces # <<>> /\ field # Failed =>
        LET s == Text
            opens == {n \in DOMAIN s : s[n] = "<" /\ Outside(s, n)}
            lt == CHOOSE n \in opens : \A m \in opens : n <= m
            gt == From(s, ">", lt)
            own == Count(After(s, IF opens # {} THEN gt ELSE strchr(s, "@")), ";")
        IN field.url # Failed /\ (strchr(s, ">") # 0 => opens # {}) =>
               /\ Len(field.gen_params) \in {own, own - 1}
               /\ Len(field.url.url_params) <= IF opens = {} THEN 0 ELSE Count(Between(s, lt, gt), ";")

\* Each parameter of a challenge or of credentials has the value that stands behind its name,
\* whatever the parameters nobody knows have in their quotes (osip_www_authenticate.c:270-340).
EachItsOwn ==
    kind \in Digests /\ pieces # <<>> /\ field # Failed =>
        LET s == Text
            ends(n) == {m \in n .. Len(s) : s[m] = "," /\ Outside(s, m)} \cup {Len(s) + 1}
            value(n) == SubSeq(s, n + 2, (CHOOSE m \in ends(n) : \A x \in ends(n) : m <= x) - 1)
            given(name) == {value(n) : n \in {x \in DOMAIN s : s[x] = name /\ s[x + 1] = "=" /\ Outside(s, x)}}
                             \ {<<"\"", "\"">>}
        IN \A name \in DOMAIN field.has :
               IF given(name) = {} THEN field.has[name] = NULL ELSE field.has[name] \in given(name)
=============================================================================
