----------------------------- MODULE SipMessage -----------------------------
(***************************************************************************)
(* osip_message_t: osip_message_parse.c, osip_message.c, osip_body.c,      *)
(* osip_parser_cfg.c, osip_message_to_str.c and the osip_message_set_X of  *)
(* the header files.                                                       *)
(*                                                                         *)
(* A message is received, or made by osip_message_init; then an            *)
(* application sets and replaces its fields, prints it, prints it again     *)
(* and goes on with a clone of it.  What was printed is kept in message,   *)
(* and message_property says whether it may be used again.                 *)
(*                                                                         *)
(* The value of a field is a text (SipText) that is kept as it is; the     *)
(* token "bad" makes it one that its parser refuses (HeaderTexts looks     *)
(* into the values).  A body is a text of one-character tokens: "|" is a   *)
(* line with the boundary, "!" the closing one, "h" a header line and "c"  *)
(* a Content-Type line of a part, "." the empty line behind them, "0" a    *)
(* NUL, "?" whatever lies behind the end of a buffer.                      *)
(***************************************************************************)
EXTENDS SipText

CONSTANTS Received,    \* texts that arrive: [start, lines, ended, body]
          Settings,    \* what an application sets: <<name of the field, value>>
          Bodies,      \* the bodies it sets
          ReadOnly,    \* sets of texts that arrive and that no application touches
         OtherNames, OtherValues,    \* fields without a place of their own
         MaxCalls     \* bound: calls of the application

VARIABLES arrived,     \* the text that arrived, or Failed
          sip,         \* the osip_message_t, or Failed: it was refused
          bypassed,    \* a field was assigned since the text was kept, without a word to message_property
          calls

vars == <<arrived, sip, bypassed, calls>>

Single == {"from", "to", "call-id", "cseq", "content-type", "content-length", "mime-version"}
Several == {"accept", "accept-encoding", "accept-language", "alert-info", "allow", "authentication-info",
            "authorization", "call-info", "contact", "content-encoding", "error-info", "proxy-authenticate",
            "proxy-authentication-info", "proxy-authorization", "record-route", "route", "via",
            "www-authenticate"}

\* method NULL and status 0: there is no start line.
NoStart == [method |-> NULL, uri |-> NULL, version |-> NULL, status |-> 0, reason |-> NULL]

osip_message_init ==
    [start |-> NoStart, one |-> [f \in Single |-> NULL], list |-> [f \in Several |-> <<>>],
     headers |-> <<>>, bodies |-> <<>>, message_property |-> 3, message |-> Failed]

-----------------------------------------------------------------------------
(* osip_list.c: positions count from 0 there, from 1 here. *)

osip_list_add(l, e, pos) == IF pos = -1 \/ pos >= Len(l) THEN Append(l, e) ELSE InsertAt(l, pos + 1, e)
osip_list_remove(l, pos) == RemoveAt(l, pos + 1)

-----------------------------------------------------------------------------
(* The setters.  Each returns whether it succeeded and the message.        *)

Ret(ok, m) == [ok |-> ok, sip |-> m]
Empty(v) == v \in {NULL, <<>>}
Valid(v) == "bad" \notin ToSet(v)

\* A field that is there once.  The text counts as changed even if the value is refused.
SetOnce(m, f, v) ==
    IF Empty(v) THEN Ret(TRUE, m)
    ELSE IF m.one[f] # NULL THEN Ret(FALSE, m)
    ELSE Ret(Valid(v), [m EXCEPT !.message_property = 2, !.one[f] = IF Valid(v) THEN v ELSE NULL])

Listed(m, f, v, pos) ==
    IF Valid(v) THEN Ret(TRUE, [m EXCEPT !.message_property = 2, !.list[f] = osip_list_add(@, v, pos)])
    ELSE Ret(FALSE, m)

SetLast(m, f, v) == IF Empty(v) THEN Ret(TRUE, m) ELSE Listed(m, f, v, -1)

osip_message_set_from(m, v) == SetOnce(m, "from", v)
osip_message_set_to(m, v) == SetOnce(m, "to", v)
osip_message_set_call_id(m, v) == SetOnce(m, "call-id", v)
osip_message_set_cseq(m, v) == SetOnce(m, "cseq", v)
osip_message_set_content_length(m, v) == SetOnce(m, "content-length", v)
osip_message_set_mime_version(m, v) == SetOnce(m, "mime-version", v)
\* A second one is refused even if it is empty.
osip_message_set_content_type(m, v) ==
    IF m.one["content-type"] # NULL THEN Ret(FALSE, m) ELSE SetOnce(m, "content-type", v)

\* An empty Accept is one.
osip_message_set_accept(m, v) == Listed(m, "accept", IF v = NULL THEN <<>> ELSE v, -1)
osip_message_set_accept_encoding(m, v) == SetLast(m, "accept-encoding", v)
osip_message_set_accept_language(m, v) == SetLast(m, "accept-language", v)
osip_message_set_alert_info(m, v) == SetLast(m, "alert-info", v)
osip_message_set_allow(m, v) == SetLast(m, "allow", v)
osip_message_set_authentication_info(m, v) == SetLast(m, "authentication-info", v)
osip_message_set_authorization(m, v) == SetLast(m, "authorization", v)
osip_message_set_call_info(m, v) == SetLast(m, "call-info", v)
osip_message_set_contact(m, v) == SetLast(m, "contact", v)
osip_message_set_content_encoding(m, v) == SetLast(m, "content-encoding", v)
osip_message_set_error_info(m, v) == SetLast(m, "error-info", v)
osip_message_set_proxy_authenticate(m, v) == SetLast(m, "proxy-authenticate", v)
osip_message_set_proxy_authentication_info(m, v) == SetLast(m, "proxy-authentication-info", v)
osip_message_set_proxy_authorization(m, v) == SetLast(m, "proxy-authorization", v)
osip_message_set_record_route(m, v) == SetLast(m, "record-route", v)
osip_message_set_route(m, v) == SetLast(m, "route", v)
osip_message_set_via(m, v) == SetLast(m, "via", v)
osip_message_set_www_authenticate(m, v) == SetLast(m, "www-authenticate", v)

\* A proxy's Via goes before the others.
osip_message_append_via(m, v) == Listed(m, "via", v, 0)

osip_message_set_header(m, name, v) ==
    [m EXCEPT !.message_property = 2, !.headers = osip_list_add(@, param_set(<<name>>, v), -1)]

osip_message_set_topheader(m, name, v) ==
    [m EXCEPT !.message_property = 2, !.headers = osip_list_add(@, param_set(<<name>>, v), 0)]

osip_message_header_get_byname(m, name) == SelectInSeq(m.headers, LAMBDA h : h.gname = <<name>>)

\* The first of that name goes, and the new one comes last.
osip_message_replace_header(m, name, v) ==
    LET old == osip_message_header_get_byname(m, name)
        kept == IF old = 0 THEN m.headers ELSE osip_list_remove(m.headers, old - 1)
    IN [m EXCEPT !.message_property = 2, !.headers = osip_list_add(kept, param_set(<<name>>, v), -1)]

osip_message_set_method(m, v) == [m EXCEPT !.start.method = v]
osip_message_set_uri(m, v) == [m EXCEPT !.start.uri = v]
osip_message_set_status_code(m, c) == [m EXCEPT !.start.status = c]
osip_message_set_reason_phrase(m, v) == [m EXCEPT !.start.reason = v]

-----------------------------------------------------------------------------
(* osip_parser_cfg.c: the fields the parser knows, by their names in a text. *)

Compact == [c |-> "content-type", e |-> "content-encoding", f |-> "from", i |-> "call-id",
            l |-> "content-length", m |-> "contact", t |-> "to", v |-> "via"]

Field(name) == IF name \in DOMAIN Compact THEN Compact[name] ELSE name

\* A value that is refused refuses the message.
Needed == {"content-type", "call-id", "contact", "content-length", "cseq", "from", "to", "via"}

parser_init == [name \in Single \cup Several \cup DOMAIN Compact |->
                  [hname |-> Field(name), ignored_when_invalid |-> Field(name) \notin Needed]]

__osip_message_is_known_header(name) == name \in DOMAIN parser_init

setheader(f, m, v) ==
    CASE f = "from" -> osip_message_set_from(m, v)
      [] f = "to" -> osip_message_set_to(m, v)
      [] f = "call-id" -> osip_message_set_call_id(m, v)
      [] f = "cseq" -> osip_message_set_cseq(m, v)
      [] f = "content-length" -> osip_message_set_content_length(m, v)
      [] f = "mime-version" -> osip_message_set_mime_version(m, v)
      [] f = "content-type" -> osip_message_set_content_type(m, v)
      [] f = "accept" -> osip_message_set_accept(m, v)
      [] f = "accept-encoding" -> osip_message_set_accept_encoding(m, v)
      [] f = "accept-language" -> osip_message_set_accept_language(m, v)
      [] f = "alert-info" -> osip_message_set_alert_info(m, v)
      [] f = "allow" -> osip_message_set_allow(m, v)
      [] f = "authentication-info" -> osip_message_set_authentication_info(m, v)
      [] f = "authorization" -> osip_message_set_authorization(m, v)
      [] f = "call-info" -> osip_message_set_call_info(m, v)
      [] f = "contact" -> osip_message_set_contact(m, v)
      [] f = "content-encoding" -> osip_message_set_content_encoding(m, v)
      [] f = "error-info" -> osip_message_set_error_info(m, v)
      [] f = "proxy-authenticate" -> osip_message_set_proxy_authenticate(m, v)
      [] f = "proxy-authentication-info" -> osip_message_set_proxy_authentication_info(m, v)
      [] f = "proxy-authorization" -> osip_message_set_proxy_authorization(m, v)
      [] f = "record-route" -> osip_message_set_record_route(m, v)
      [] f = "route" -> osip_message_set_route(m, v)
      [] f = "via" -> osip_message_set_via(m, v)
      [] f = "www-authenticate" -> osip_message_set_www_authenticate(m, v)

\* What the method of the configuration row c returned.
Tolerated(r, c) == Ret(r.ok \/ c.ignored_when_invalid, r.sip)

__osip_message_call_method(name, m, v) ==
    Tolerated(setheader(parser_init[name].hname, m, v), parser_init[name])

osip_message_set__header(m, name, v) ==
    IF __osip_message_is_known_header(name) THEN __osip_message_call_method(name, m, v)
    ELSE Ret(TRUE, osip_message_set_header(m, name, v))

-----------------------------------------------------------------------------
(* Several values in a line, with commas between them.                     *)

NotSplit == {"date", "to", "from", "call-id", "cseq", "subject", "expires", "server", "user-agent",
             "www-authenticate", "authentication-info", "proxy-authenticate", "proxy-authorization",
             "proxy-authentication-info", "organization", "authorization"}

\* From a comma that stands before the quotes q1 and q2 to the next that no quotes enclose.
RECURSIVE NextComma(_, _, _, _)
CommaBehind(s, c, p1, p2) == IF p2 = 0 THEN c ELSE NextComma(s, c, p1, p2)

QuotesBehind(s, c, p1) == CommaBehind(s, c, p1, IF p1 = 0 THEN 0 ELSE quote_find(s, p1 + 1))

NextComma(s, comma, q1, q2) ==
    IF comma < q1 THEN comma
    ELSE QuotesBehind(s, IF comma < q2 THEN From(s, ",", q2 + 1) ELSE comma, quote_find(s, q2 + 1))

Behind(s, comma, q1, q2) ==
    IF q1 > comma THEN NextComma(s, From(s, ",", comma + 1), q1, q2) ELSE From(s, ",", comma + 1)

\* The last value, which one character is too short for.
SetEnd(m, name, v) ==
    IF strlen(v) < 2 THEN Ret(TRUE, m) ELSE osip_message_set__header(m, name, osip_clrspace(v))

SetLastOf(m, name, s, beg) == SetEnd(m, name, SubSeq(s, beg, Len(s)))

RECURSIVE SetEach(_, _, _, _, _, _)

\* The value before the comma was set, with the result r.
SetNext(r, name, s, comma, next) ==
    IF ~r.ok THEN r
    ELSE IF next = 0 THEN SetLastOf(r.sip, name, s, comma + 1)
    ELSE SetEach(r.sip, name, s, next + 1, next, comma + 1)

\* The comma is enclosed by quotes: over is the next one.
SetOver(m, name, s, q2, over, beg) ==
    IF over = 0 THEN SetLastOf(m, name, s, beg) ELSE SetEach(m, name, s, q2 + 1, over, beg)

SetValue(m, name, s, comma, beg, q1, q2) ==
    IF q1 # 0 /\ q2 = 0 THEN Ret(FALSE, m)
    ELSE IF q1 = 0 \/ q1 > comma
         THEN IF comma = beg THEN Ret(FALSE, m)
              ELSE SetNext(osip_message_set__header(m, name, osip_clrspace(SubSeq(s, beg, comma - 1))),
                           name, s, comma, Behind(s, comma, q1, q2))
    ELSE IF q2 < comma THEN SetEach(m, name, s, q2 + 1, comma, beg)
    ELSE SetOver(m, name, s, q2, From(s, ",", q2 + 1), beg)

SetFrom(m, name, s, comma, beg, q1) ==
    SetValue(m, name, s, comma, beg, q1, IF q1 = 0 THEN 0 ELSE quote_find(s, q1 + 1))

\* ptr: where quotes are looked for; beg: where the next value begins.
SetEach(m, name, s, ptr, comma, beg) == SetFrom(m, name, s, comma, beg, quote_find(s, ptr))

osip_message_set_multiple_header(m, name, v) ==
    IF v = NULL \/ strchr(v, ",") = 0 \/ name \in NotSplit THEN osip_message_set__header(m, name, v)
    ELSE SetEach(m, name, v, 1, strchr(v, ","), 1)

-----------------------------------------------------------------------------
(* osip_message_parse                                                      *)

\* A line of the header, [name, value]; a line without a name or without ':' is Failed.
msg_headers_parse(m, lines) ==
    FoldLeft(LAMBDA r, l : IF ~r.ok THEN r ELSE IF l = Failed THEN Ret(FALSE, r.sip)
                           ELSE osip_message_set_multiple_header(r.sip, l.name, l.value),
             Ret(TRUE, m), lines)

\* "SIP/" and a number: another than 2.0 is only traced.
Versions == {"SIP/2.0", "SIP/3.0"}
Number(word) == LET ns == {n \in 1 .. 999 : ToString(n) = word} IN IF ns = {} THEN 0 ELSE CHOOSE n \in ns : TRUE

StatusLine(version, status, reason) ==
    IF status = 0 THEN Failed
    ELSE [NoStart EXCEPT !.version = <<version>>, !.status = status, !.reason = <<reason>>]

RequestLine(method, uri, version) ==
    IF ~Valid(<<uri>>) \/ version \notin Versions THEN Failed
    ELSE [NoStart EXCEPT !.method = <<method>>, !.uri = <<uri>>, !.version = <<version>>]

\* The words of the first line: version, code and reason, or method, URI and version.
__osip_message_startline_parse(words) ==
    IF Len(words) < 3 THEN Failed
    ELSE IF words[1] \in Versions THEN StatusLine(words[1], Number(words[2]), words[3])
    ELSE RequestLine(words[1], words[2], words[3])

-----------------------------------------------------------------------------
(* Bodies.                                                                 *)

\* A body, or one part of several; only a part has fields of its own.
Plain(b) == [content_type |-> FALSE, headers |-> 0, body |-> b]

\* Mutant of osip_message_set_body: the kept text is not outdated.
SetBodyKeepsText(m, b) == [m EXCEPT !.bodies = osip_list_add(@, Plain(b), -1)]

osip_message_set_body(m, b) == [m EXCEPT !.message_property = 2, !.bodies = osip_list_add(@, Plain(b), -1)]

\* One header line at least, an empty line and something behind it.
BodyUpto(lines, body) ==
    IF lines = <<>> \/ ~(ToSet(lines) \subseteq {"h", "c"}) \/ body = <<>> THEN Failed
    ELSE [content_type |-> "c" \in ToSet(lines), headers |-> Len(SelectSeq(lines, LAMBDA t : t = "h")),
          body |-> body]

BodyAt(s, dot) == IF dot = 0 THEN Failed ELSE BodyUpto(Upto(s, dot), After(s, dot))

osip_body_parse_mime(s) == BodyAt(s, strchr(s, "."))

AddPart(m, b) == IF b = Failed THEN Ret(FALSE, m)
                 ELSE Ret(TRUE, [m EXCEPT !.message_property = 2, !.bodies = osip_list_add(@, b, -1)])

osip_message_set_body_mime(m, s) == AddPart(m, osip_body_parse_mime(s))

\* The content type comes first, whatever came first in the text.
osip_body_to_str(b) ==
    (IF b.content_type THEN <<"c">> ELSE <<>>) \o [n \in 1 .. b.headers |-> "h"]
        \o (IF b.content_type \/ b.headers > 0 THEN <<".">> ELSE <<>>) \o b.body

Multipart(ct) == ct # NULL /\ ct[1] = "multipart"
Boundary(ct) == "boundary" \in ToSet(ct)

__osip_find_next_occurence(s, i) ==
    LET at == {n \in i .. Len(s) : s[n] \in {"|", "!"}}
    IN IF at = {} THEN 0 ELSE CHOOSE n \in at : \A x \in at : n <= x

RECURSIVE SetParts(_, _)
\* The part up to the boundary at b was added, with the result r.
PartsBehind(r, s, b) == IF ~r.ok \/ s[b] = "!" THEN r ELSE SetParts(r.sip, SubSeq(s, b, Len(s)))

SetPart(m, s, a, b) ==
    IF a = 0 \/ b = 0 THEN Ret(FALSE, m)
    ELSE PartsBehind(osip_message_set_body_mime(m, Between(s, a, b)), s, b)

SetPartFrom(m, s, a) == SetPart(m, s, a, __osip_find_next_occurence(s, a + 1))

SetParts(m, s) == SetPartFrom(m, s, __osip_find_next_occurence(s, 1))

\* osip_atoi: what is no number is 0.
Atoi(v) == LET ns == {n \in 0 .. 20 : <<ToString(n)>> = v} IN IF ns = {} THEN 0 ELSE CHOOSE n \in ns : TRUE

\* The first n characters of a body.
SetFirst(m, body, n) ==
    IF Len(body) < n THEN Ret(FALSE, m) ELSE Ret(TRUE, osip_message_set_body(m, SubSeq(body, 1, n)))

SetCounted(m, body, n) == SetFirst(osip_message_set_content_length(m, <<ToString(n)>>).sip, body, n)

\* Without a Content-Length only a session description, up to its first NUL, has a length.
msg_osip_body_parse(m, body) ==
    LET ct == m.one["content-type"]
        length == m.one["content-length"]
    IN IF ct = NULL THEN Ret(TRUE, m)
       ELSE IF Multipart(ct) THEN IF Boundary(ct) THEN SetParts(m, body) ELSE Ret(FALSE, m)
       ELSE IF length # NULL THEN SetFirst(m, body, Atoi(length))
       ELSE IF ct[1] # "sdp" THEN Ret(FALSE, m)
       ELSE SetCounted(m, body, Len(UptoOrAll(body, strchr(body, "0"))))

BodyParsed(b) ==
    IF ~b.ok THEN Failed
    ELSE IF b.sip.one["content-length"] = NULL THEN osip_message_set_content_length(b.sip, <<"0">>).sip
    ELSE b.sip

\* "No body found": nothing behind the empty line, or a NUL.
NoBody(body) == body = <<>> \/ body[1] = "0"

\* Without the empty line behind the header the "body" begins at its first line, where no body
\* can: a message with a Content-Type is refused, another accepted.
HeadersParsed(text, h) ==
    IF ~h.ok THEN Failed
    ELSE BodyParsed(IF text.lines = <<>> \/ (text.ended /\ NoBody(text.body)) THEN h
                    ELSE IF text.ended THEN msg_osip_body_parse(h.sip, text.body)
                    ELSE Ret(h.sip.one["content-type"] = NULL, h.sip))

StartlineParsed(text, sipfrag, start) ==
    IF start # Failed
    THEN HeadersParsed(text, msg_headers_parse([osip_message_init EXCEPT !.start = start], text.lines))
    ELSE IF sipfrag /\ text.start = <<>> THEN HeadersParsed(text, msg_headers_parse(osip_message_init, text.lines))
    ELSE Failed

_osip_message_parse(text, sipfrag) ==
    StartlineParsed(text, sipfrag, __osip_message_startline_parse(text.start))

osip_message_parse(text) == _osip_message_parse(text, FALSE)
osip_message_parse_sipfrag(text) == _osip_message_parse(text, TRUE)

\* The address a request came from is noted in its Via, unless it is the host there (known).
osip_message_fix_last_via_header(m, known) ==
    IF m.start.status # 0 \/ m.list["via"] = <<>> \/ known THEN m
    ELSE [m EXCEPT !.list["via"][1] = @ \o <<";", "received">>]

-----------------------------------------------------------------------------
(* osip_message_to_str                                                     *)

Table == <<"via", "record-route", "route", "from", "to", "call-id", "cseq", "contact", "authorization",
           "www-authenticate", "proxy-authenticate", "proxy-authorization", "content-type", "mime-version",
           "allow", "content-encoding", "call-info", "alert-info", "error-info", "accept",
           "accept-encoding", "accept-language", "authentication-info", "proxy-authentication-info">>

Line(name, v) == [name |-> name, value |-> IF v = NULL THEN <<>> ELSE v]

\* osip_content_type_to_str and osip_accept_to_str fail over a parameter without a value.
ToStrFails(v) == "valueless" \in ToSet(v)

\* A line for every value.
strcat_simple_header(name, v) == IF v = NULL THEN <<>> ELSE <<Line(name, v)>>
strcat_headers_one_per_line(name, vs) == [n \in DOMAIN vs |-> Line(name, vs[n])]

Version(m) == IF m.start.version = NULL THEN <<"SIP/2.0">> ELSE m.start.version

__osip_message_startline_to_str(m) ==
    IF m.start.method # NULL
    THEN IF m.start.uri = NULL THEN <<>> ELSE m.start.method \o m.start.uri \o Version(m)
    ELSE IF m.start.status \notin 100 .. 699 \/ m.start.reason = NULL THEN <<>>
    ELSE Version(m) \o <<ToString(m.start.status)>> \o m.start.reason

\* The error over a Content-Type is overwritten by the result of the list that is not there
\* (table[13].header_list): its name, which no value followed, runs into the next line.
RunInto(lines) ==
    LET n == SelectInSeq(lines, LAMBDA l : l.name = "content-type" /\ ToStrFails(l.value))
        next == lines[n + 1]
    IN IF n = 0 THEN lines
       ELSE IF n = Len(lines) THEN Upto(lines, n)
       ELSE Upto(lines, n) \o <<Line("content-type", <<next.name, ":", " ">> \o next.value)>> \o After(lines, n + 1)

HeaderLines(m) ==
    LET row(name) == IF name \in Single THEN strcat_simple_header(name, m.one[name])
                     ELSE strcat_headers_one_per_line(name, m.list[name])
    IN FlattenSeq([n \in DOMAIN Table |-> row(Table[n])])
         \o [n \in DOMAIN m.headers |-> Line(m.headers[n].gname[1], m.headers[n].gvalue)]

\* The parts between boundaries, if Content-Type and Mime-Version announce them; otherwise one
\* body behind the other.
BodiesText(m) ==
    LET ct == m.one["content-type"]
        bounded == m.one["mime-version"] # NULL /\ Multipart(ct) /\ Boundary(ct)
        part(n) == (IF bounded THEN <<"|">> ELSE <<>>) \o osip_body_to_str(m.bodies[n])
    IN FlattenSeq([n \in DOMAIN m.bodies |-> part(n)]) \o (IF bounded THEN <<"!">> ELSE <<>>)

Text(m, sipfrag) ==
    LET body == IF m.bodies = <<>> THEN <<>> ELSE BodiesText(m)
        length == Line("content-length", <<ToString(Len(body))>>)
    IN IF \/ __osip_message_startline_to_str(m) = <<>> /\ ~sipfrag
          \/ \E n \in DOMAIN m.list["accept"] : ToStrFails(m.list["accept"][n])
          \/ \E n \in DOMAIN m.bodies : m.bodies[n].body = <<>>
       THEN Failed
       ELSE [start |-> __osip_message_startline_to_str(m), ended |-> TRUE, body |-> body,
             lines |-> RunInto(HeaderLines(m) \o (IF sipfrag /\ m.bodies = <<>> THEN <<>> ELSE <<length>>))]

\* The text that is kept, or a new one, which is kept then.
Keep(m, text) ==
    IF text = Failed THEN [m EXCEPT !.message = Failed] ELSE [m EXCEPT !.message = text, !.message_property = 1]

_osip_message_to_str(m, sipfrag) == IF m.message_property = 1 THEN m ELSE Keep(m, Text(m, sipfrag))

osip_message_force_update(m) == [m EXCEPT !.message_property = 2]

-----------------------------------------------------------------------------
(* osip_message_clone                                                      *)

\* strdup copies a text up to its first NUL; its length is not corrected.
strdup(b) == LET nul == strchr(b, "0")
             IN IF nul = 0 THEN b ELSE [n \in DOMAIN b |-> IF n < nul THEN b[n] ELSE "?"]

osip_body_clone(b) == IF b.body = <<>> THEN Failed
                      ELSE [content_type |-> b.content_type, headers |-> b.headers, body |-> b.body]

CloneSingle(one) == [f \in Single |-> one[f]]
CloneSeveral(list) == [f \in Several |-> [n \in DOMAIN list[f] |-> list[f][n]]]

osip_message_clone(m) ==
    LET bodies == [n \in DOMAIN m.bodies |-> osip_body_clone(m.bodies[n])]
    IN IF Failed \in ToSet(bodies) THEN Failed
       ELSE [start |-> m.start, one |-> CloneSingle(m.one), list |-> CloneSeveral(m.list),
             headers |-> [n \in DOMAIN m.headers |-> param_clone(m.headers[n])],
             bodies |-> bodies, message_property |-> m.message_property,
             message |-> IF m.message = Failed THEN Failed ELSE [m.message EXCEPT !.body = strdup(@)]]

-----------------------------------------------------------------------------
(* What an application does. *)

Init == arrived = Failed /\ sip = osip_message_init /\ calls = 0 /\ bypassed = FALSE

\* A text is parsed into a message that was just made.
Receive ==
    /\ arrived = Failed /\ calls = 0
    /\ \/ arrived' \in Received /\ UNCHANGED calls
       \/ (\E n \in DOMAIN ReadOnly : arrived' \in ReadOnly[n]) /\ calls' = MaxCalls + 1
    /\ sip' = IF arrived'.start = <<>> THEN osip_message_parse_sipfrag(arrived') ELSE osip_message_parse(arrived')
    /\ UNCHANGED bypassed

Call(m, quiet) ==
    /\ sip # Failed /\ calls < MaxCalls
    /\ sip' = m /\ calls' = calls + 1
    /\ bypassed' = quiet
    /\ UNCHANGED arrived

SetField == \E s \in Settings : Call(setheader(s[1], sip, s[2]).sip, bypassed)

SetOther ==
    \E name \in OtherNames, v \in OtherValues :
       \/ Call(osip_message_set_header(sip, name, v), bypassed)
       \/ Call(osip_message_set_topheader(sip, name, v), bypassed)
       \/ Call(osip_message_replace_header(sip, name, v), bypassed)

AppendVia == Call(osip_message_append_via(sip, <<"proxy">>).sip, bypassed)

SetBody == \E b \in Bodies : \/ Call(osip_message_set_body(sip, b), bypassed)
                             \/ Call(osip_message_set_body_mime(sip, b).sip, bypassed)

\* The first line is assigned field by field, and message_property is not told.
Assign ==
    \/ \E m \in {NULL, <<"INVITE">>} : Call(osip_message_set_method(sip, m), TRUE)
    \/ Call(osip_message_set_uri(sip, <<"sip:ant">>), TRUE)
    \/ \E c \in {180, 200} : Call(osip_message_set_status_code(sip, c), TRUE)
    \/ Call(osip_message_set_reason_phrase(sip, <<"Fine">>), TRUE)

FixVia == \E known \in BOOLEAN : Call(osip_message_fix_last_via_header(sip, known), TRUE)

ToStr == \E sipfrag \in BOOLEAN :
            Call(_osip_message_to_str(sip, sipfrag), bypassed /\ sip.message_property = 1)

ForceUpdate == Call(osip_message_force_update(sip), bypassed)

\* The application goes on with the clone.
Clone == Call(osip_message_clone(sip), bypassed)

Next == Receive \/ SetField \/ SetOther \/ AppendVia \/ SetBody \/ Assign \/ FixVia \/ ToStr \/ ForceUpdate \/ Clone

Spec == Init /\ [][Next]_vars

-----------------------------------------------------------------------------
(* Properties *)

\* However a message was set up, changed, cloned and printed before: if message_property says
\* that the kept text may be sent again, it is what would be printed now.  (Two things the code
\* does not promise: a field that was assigned, and the clone of a text with a NUL in it.)
TextIsCurrent ==
    sip # Failed /\ sip.message_property = 1 /\ ~bypassed
        /\ (\A n \in DOMAIN sip.bodies : "0" \notin ToSet(sip.bodies[n].body))
    => sip.message \in {Text(sip, FALSE), Text(sip, TRUE)}

\* No comma in a value that would be taken for the next one, and no value but its own.
Alone(name, v) == name \in NotSplit \/ strchr(v, ",") = 0

\* A message whose text can be read again: values that stand alone, and one body with a type, or
\* parts between boundaries; but no body that begins with a NUL, which the parser takes for none.
Ordinary(m) ==
    /\ __osip_message_startline_to_str(m) # <<>> 
    /\ IF m.start.method = NULL THEN m.start.uri = NULL ELSE m.start.status = 0 /\ m.start.reason = NULL
    /\ \A f \in Single : m.one[f] # NULL => Alone(f, m.one[f]) /\ (f = "content-type" => ~ToStrFails(m.one[f]))
    /\ \A f \in Several : \A n \in DOMAIN m.list[f] :
         Alone(f, m.list[f][n]) /\ (f = "accept" => ~ToStrFails(m.list[f][n]))
    /\ \A n \in DOMAIN m.headers : Alone(m.headers[n].gname[1], m.headers[n].gvalue)
    /\ IF m.bodies = <<>> THEN m.one["content-type"] = NULL
       ELSE /\ m.one["content-type"] # NULL
            /\ IF Multipart(m.one["content-type"])
               THEN /\ m.one["mime-version"] # NULL /\ Boundary(m.one["content-type"])
                    /\ \A n \in DOMAIN m.bodies :
                         /\ m.bodies[n].content_type \/ m.bodies[n].headers > 0
                         /\ ToSet(m.bodies[n].body) \cap {"|", "!"} = {} /\ m.bodies[n].body # <<>>
               ELSE Len(m.bodies) = 1 /\ ~NoBody(m.bodies[1].body)
                      /\ ~m.bodies[1].content_type /\ m.bodies[1].headers = 0

Fields(m) == [start |-> [m.start EXCEPT !.version = Version(m)], one |-> [f \in Single \ {"content-length"} |-> m.one[f]],
              list |-> m.list, bodies |-> m.bodies,
              headers |-> [n \in DOMAIN m.headers |-> Line(m.headers[n].gname[1], m.headers[n].gvalue)]]

Same(m, n) == m # Failed /\ Fields(m) = Fields(n)

\* What is printed for a message, or for a clone of it, is read again as the same message.
PrintedIsParsed ==
    sip # Failed /\ Ordinary(sip) => Same(osip_message_parse(Text(osip_message_clone(sip), FALSE)), sip)

\* The values in a text: what stands between the commas that no quotes enclose.
Values(v) ==
    LET inside(n) == Cardinality({m \in 1 .. n : v[m] = "\""}) % 2 = 1
        ends == SetToSortSeq({n \in DOMAIN v : v[n] = "," /\ ~inside(n)} \cup {Len(v) + 1}, <)
        piece(n) == SubSeq(v, (IF n = 1 THEN 0 ELSE ends[n - 1]) + 1, ends[n] - 1)
    IN [n \in DOMAIN ends |-> osip_clrspace(piece(n))]

ValuesOf(f, l) ==
    LET vs == IF Alone(l.name, l.value) THEN <<l.value>> ELSE Values(l.value)
    IN IF Field(l.name) # f THEN <<>> ELSE SelectSeq(vs, LAMBDA v : Valid(v) /\ ~Empty(v))

Paired(v) == Len(SelectSeq(v, LAMBDA t : t = "\"")) % 2 = 0
ShortLast(v) == \E n \in DOMAIN v : v[n] = "," /\ strlen(After(v, n)) = 1

\* Every value of a text that was accepted is in the list of its field, whole, once and in order,
\* however many lines it is spread over and whatever quotes enclose.  (A last value of one
\* character is dropped.)
EveryValueKept ==
    /\ arrived # Failed /\ sip # Failed /\ calls \in {0, MaxCalls + 1}
    /\ \A n \in DOMAIN arrived.lines : Paired(arrived.lines[n].value) /\ ~ShortLast(arrived.lines[n].value)
    => \A f \in Several \ {"accept"} :
         sip.list[f] = FlattenSeq([n \in DOMAIN arrived.lines |-> ValuesOf(f, arrived.lines[n])])
=============================================================================
