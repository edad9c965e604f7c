----------------------------- MODULE SipHeaders -----------------------------
(***************************************************************************)
(* The header fields that carry an address or parameters: what osip_X_parse *)
(* makes of a field, and how osip_X_to_str prints it.                      *)
(***************************************************************************)
EXTENDS SipUri

-----------------------------------------------------------------------------
(* osip_from.c, and To, Route, Record-Route and Contact, which use it. *)

\* The display name, and the '<' after it (0: the URI stands alone): between two quotes that
\* stand before the first '<' (lt), with the next '<' at open, or all that stands before it.
Named(s, lt, first, second, open) ==
    IF first # 0 /\ first < lt
    THEN IF open = 0 THEN Failed ELSE [name |-> SubSeq(s, first, second), url |-> open]
    ELSE [name |-> IF lt > 1 THEN osip_clrspace(Upto(s, lt)) ELSE NULL, url |-> lt]

NameUpto(s, lt, first, second) ==
    Named(s, lt, first, second, IF second = 0 THEN 0 ELSE From(s, "<", second + 1))

NameFrom(s, lt, first) ==
    NameUpto(s, lt, first, IF first = 0 THEN 0 ELSE quote_find(s, first + 1))

Display(s, lt) ==
    IF lt # 0 /\ From(s, ">", lt) = 0 THEN Failed ELSE NameFrom(s, lt, quote_find(s, 1))

FromFields(name, url, gen) ==
    IF url = Failed THEN Failed ELSE [displayname |-> name, url |-> url, gen_params |-> gen.list]

FromParts(name, text, gen, enough) ==
    IF ~gen.ok \/ strlen(text) < enough THEN Failed ELSE FromFields(name, osip_uri_parse(text), gen)

\* The URI ends at the '>', or where the field's parameters begin.
FromText(s, d, end, params) ==
    FromParts(d.name, Between(s, d.url, IF end = 0 THEN OrEnd(s, params) ELSE end),
              GenericParamsAt(s, params, Len(s) + 1), IF end = 0 /\ params = 0 THEN 5 ELSE 6)

\* Without a '>' what follows the first ';' behind the host are the field's parameters, not
\* the URI's.
FromUpto(s, d, end, host) ==
    FromText(s, d, end, From(s, ";", IF end # 0 THEN end ELSE IF host # 0 THEN host ELSE d.url + 1))

FromNamed(s, d) ==
    IF d = Failed THEN Failed ELSE FromUpto(s, d, From(s, ">", d.url + 1), From(s, "@", d.url + 1))

osip_from_parse(s) == FromNamed(s, Display(s, strchr(s, "<")))

osip_from_to_str(h) ==
    Opt(<<>>, h.displayname) \o (IF h.displayname = NULL THEN <<>> ELSE <<" ">>)
        \o <<"<">> \o osip_uri_to_str(h.url) \o <<">">> \o generic_params_to_str(h.gen_params)

gen_params_clone(ps) == [n \in DOMAIN ps |-> param_clone(ps[n])]

osip_from_clone(h) ==
    [displayname |-> h.displayname, url |-> IF h.url = Failed THEN Failed ELSE osip_uri_clone(h.url),
     gen_params |-> gen_params_clone(h.gen_params)]

Star(s) == s # NULL /\ s # <<>> /\ s[1] = "*"

\* "*" is kept as a display name; there is no address.
osip_contact_parse(s) ==
    IF Star(s) THEN [displayname |-> s, url |-> Failed, gen_params |-> <<>>] ELSE osip_from_parse(s)

osip_contact_to_str(h) == IF Star(h.displayname) THEN <<"*">> ELSE osip_from_to_str(h)

osip_record_route_to_str(h) == osip_from_to_str(h)

-----------------------------------------------------------------------------
(* osip_via.c *)

\* Where the host begins: the blank after the protocol's name, which blanks may precede.
ViaHost(s, slash) ==
    LET first == From(s, " ", slash + 1)
        skip == {n \in slash + 1 .. Len(s) : \A m \in slash + 1 .. n : s[m] = " "}
        name == slash + 1 + Cardinality(skip)
    IN IF first # slash + 1 THEN first
       ELSE IF strlen(SubSeq(s, name, Len(s))) <= 1 THEN 0 ELSE From(s, " ", name + 1)

ViaPort(s, h, bracket, end) == From(s, ":", IF bracket THEN end ELSE h)

ViaFields(version, protocol, host, port, comment, gen) ==
    IF ~gen.ok \/ port = <<>> \/ host = <<>> THEN Failed
    ELSE [version |-> osip_clrspace(version), protocol |-> osip_clrspace(protocol),
          host |-> osip_clrspace(host), port |-> IF port = NULL THEN NULL ELSE osip_clrspace(port),
          comment |-> comment, via_params |-> gen.list]

\* The host ends at end; an address in brackets stands between open and close (0, 0: there
\* is none).  colon: the last thing before the port.
ViaHostPort(s, p, open, close, colon, end) ==
    LET hasPort == colon # 0 /\ colon < end
    IN IF open # 0 /\ (close = 0 \/ close > end) THEN Failed
       ELSE ViaFields(p.version, p.protocol,
                      IF open # 0 THEN Between(s, open, close)
                      ELSE Between(s, p.h, IF hasPort THEN colon ELSE end),
                      IF hasPort THEN Between(s, colon, end) ELSE NULL, p.comment, p.gen)

ViaClosed(s, p, open, close, end) ==
    ViaHostPort(s, p, open, close, ViaPort(s, p.h, open # 0, close), end)

ViaOpened(s, p, open, end) ==
    IF open # 0 /\ open < end THEN ViaClosed(s, p, open, From(s, "]", open), end)
    ELSE ViaClosed(s, p, 0, 0, end)

\* The host begins behind h, the parameters at semi; a comment ends them with the blank
\* before it, at stop.
ViaParts(s, version, protocol, h, comment, closed, stop, semi) ==
    [version |-> Between(s, version, protocol), protocol |-> Between(s, protocol, h), h |-> h,
     comment |-> IF comment = 0 THEN NULL ELSE Between(s, comment, closed),
     gen |-> GenericParamsAt(s, IF semi < stop THEN semi ELSE 0, stop)]

ViaUpto(s, version, protocol, h, comment, closed, semi) ==
    LET stop == IF comment = 0 THEN Len(s) + 1 ELSE comment - 1
    IN IF h < protocol + 2 \/ (comment # 0 /\ closed < comment + 2) THEN Failed
       ELSE ViaOpened(s, ViaParts(s, version, protocol, h, comment, closed, stop, semi),
                      From(s, "[", h), IF semi = 0 THEN stop ELSE semi)

ViaBehind(s, version, protocol, h) ==
    ViaUpto(s, version, protocol, h, From(s, "(", h), From(s, ")", h), From(s, ";", h))

ViaText(s, version, protocol) ==
    IF version = 0 \/ protocol < version + 2 THEN Failed
    ELSE ViaBehind(s, version, protocol, ViaHost(s, protocol))

ViaVersion(s, version) == ViaText(s, version, From(s, "/", version + 1))

osip_via_parse(s) == ViaVersion(s, strchr(s, "/"))

osip_via_to_str(v) ==
    <<"sip", "/">> \o v.version \o <<"/">> \o v.protocol \o <<" ">>
        \o (IF strchr(v.host, ":") # 0 THEN <<"[">> \o v.host \o <<"]">> ELSE v.host)
        \o Opt(<<":">>, v.port) \o generic_params_to_str(v.via_params)
        \o (IF v.comment = NULL THEN <<>> ELSE <<" ", "(">> \o v.comment \o <<")">>)

osip_via_clone(v) ==
    [version |-> v.version, protocol |-> v.protocol, host |-> v.host, port |-> v.port, comment |-> v.comment,
     via_params |-> gen_params_clone(v.via_params)]

-----------------------------------------------------------------------------
(* osip_cseq.c and osip_call_id.c *)

osip_cseq_parse(s) ==
    LET method == strchr(s, " ")
    IN IF method < 2 THEN Failed
       ELSE [number |-> osip_clrspace(Upto(s, method)), method |-> osip_clrspace(After(s, method))]

osip_cseq_clone(c) == [number |-> c.number, method |-> c.method]

osip_cseq_to_str(c) == c.number \o <<" ">> \o c.method

osip_call_id_parse(s) ==
    LET host == strchr(s, "@")
        end == IF host = 0 THEN Len(s) + 1 ELSE host
    IN IF end = 1 \/ host = Len(s) THEN Failed
       ELSE [number |-> osip_clrspace(Upto(s, end)),
             host |-> IF host = 0 THEN NULL ELSE osip_clrspace(After(s, host))]

osip_call_id_clone(c) == [number |-> c.number, host |-> c.host]

osip_call_id_to_str(c) == c.number \o Opt(<<"@">>, c.host)

-----------------------------------------------------------------------------
(* osip_content_type.c and osip_accept.c: type, '/', subtype. *)

osip_content_type_init == [type |-> NULL, subtype |-> NULL, gen_params |-> <<>>]

TypeFields(s, slash, end, gen) ==
    IF slash < 2 \/ ~gen.ok \/ end < slash + 2 THEN Failed
    ELSE [type |-> osip_clrspace(Upto(s, slash)), subtype |-> osip_clrspace(Between(s, slash, end)),
          gen_params |-> gen.list]

TypeUpto(s, semi) ==
    TypeFields(s, strchr(s, "/"), OrEnd(s, semi), GenericParamsAt(s, semi, Len(s) + 1))

osip_content_type_parse(s) ==
    IF s = <<>> THEN osip_content_type_init ELSE TypeUpto(s, strchr(s, ";"))

\* A parameter without a value cannot be printed.
TypeText(c) ==
    IF \E n \in DOMAIN c.gen_params : c.gen_params[n].gvalue = NULL THEN NULL
    ELSE c.type \o <<"/">> \o c.subtype
         \o FlattenSeq([n \in DOMAIN c.gen_params |->
                          <<";", " ">> \o c.gen_params[n].gname \o <<"=">> \o c.gen_params[n].gvalue])

osip_content_type_clone(c) ==
    [type |-> c.type, subtype |-> c.subtype, gen_params |-> gen_params_clone(c.gen_params)]

osip_content_type_to_str(c) == IF c.type = NULL THEN NULL ELSE TypeText(c)
osip_accept_to_str(c) == IF c.type = NULL THEN <<" ">> ELSE TypeText(c)

-----------------------------------------------------------------------------
(* osip_accept_encoding.c, osip_content_disposition.c and osip_call_info.c: an *)
(* element and its parameters.                                               *)

ElementFields(element, gen) ==
    IF ~gen.ok \/ element = <<>> THEN Failed
    ELSE [element |-> osip_clrspace(element), gen_params |-> gen.list]

Element(s, semi) == ElementFields(UptoOrAll(s, semi), GenericParamsAt(s, semi, Len(s) + 1))

osip_accept_encoding_parse(s) == Element(s, strchr(s, ";"))

\* The parameters follow the '>'.
InfoBehind(s, open, close) ==
    IF open = 0 \/ close = 0 THEN Failed ELSE Element(s, From(s, ";", close + 1))

InfoFrom(s, open) == InfoBehind(s, open, From(s, ">", open + 1))

osip_call_info_parse(s) == InfoFrom(s, strchr(s, "<"))

osip_accept_encoding_clone(e) == [element |-> e.element, gen_params |-> gen_params_clone(e.gen_params)]
osip_call_info_clone(e) == [element |-> e.element, gen_params |-> gen_params_clone(e.gen_params)]

osip_accept_encoding_to_str(e) == e.element \o generic_params_to_str(e.gen_params)
osip_call_info_to_str(e) == e.element \o generic_params_to_str(e.gen_params)
=============================================================================
