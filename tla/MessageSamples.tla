--------------------------- MODULE MessageSamples ---------------------------
(* Messages that an application makes and changes, short texts that it works   *)
(* with, and many that are only read.  ant, bob are values, x one character.   *)
EXTENDS SipText

Invite == <<"INVITE", "sip:ant", "SIP/2.0">>
FirstLines == {Invite, <<"SIP/2.0", "200", "OK">>, <<"SIP/2.0", "999", "OK">>, <<"SIP/3.0", "404", "No">>,
           <<"SIP/2.0", "zero", "OK">>, <<"INVITE", "sip:ant", "SIP/3.0">>, <<"INVITE", "sip:ant", "HTTP/1.1">>,
           <<"INVITE", "bad", "SIP/2.0">>, <<"INVITE">>, <<>>}

AText(s, ls, b) == [start |-> s, lines |-> ls, ended |-> TRUE, body |-> b]
ALine(n, v) == [name |-> n, value |-> v]
UpTo(S, n) == UNION {[1 .. k -> S] : k \in 0 .. n}

FieldNames == {"from", "to", "call-id", "cseq", "content-type", "content-length", "mime-version", "accept",
          "accept-encoding", "accept-language", "alert-info", "allow", "authentication-info", "authorization",
          "call-info", "contact", "content-encoding", "error-info", "proxy-authenticate",
          "proxy-authentication-info", "proxy-authorization", "record-route", "route", "via",
          "www-authenticate", "c", "e", "f", "i", "l", "m", "t", "v", "subject", "x-other"}
AnyLine == {ALine(n, v) : n \in FieldNames, v \in {NULL, <<"ant">>, <<"bad">>, <<"ant", ",", "bob">>}}
MoreLines == {ALine(n, v) : n \in {"to", "m", "contact", "via", "accept", "content-length"},
                            v \in {<<"bob">>, <<"bad">>, <<"ant", ",", " ", "bad">>}} \cup {Failed}

\* Every arrangement of commas and quotes.
CommaLines == {ALine("contact", v) : v \in UpTo({"ant", ",", "\"", "x"}, 6) \ {<<>>}}
             \cup {ALine("contact", v) : v \in UpTo({"ant", ",", "\""}, 8) \ {<<>>}}

TextsOf(starts, lines, ended, bodies) == [start : starts, lines : lines, ended : ended, body : bodies]

ContentTypes == {NULL, <<"sdp">>, <<"text">>, <<"multipart">>, <<"multipart", "boundary">>}
Lengths == {NULL, <<"0">>, <<"1">>, <<"3">>}
With(n, v) == IF v = NULL THEN <<>> ELSE <<ALine(n, v)>>
Typed == {With("content-type", ct) \o With("content-length", n) \o With("mime-version", v) :
            ct \in ContentTypes, n \in Lengths, v \in {NULL, <<"1.0">>}}
Parts == {<<"|">> \o b \o <<"!">> : b \in UpTo({"|", "h", "c", ".", "s"}, 5)}
           \cup {<<"|", "h", ".", "s", "|">> \o b \o <<"!">> : b \in UpTo({"c", "h", ".", "s", "0"}, 4)}
Multi == {<<ALine("content-type", <<"multipart", "boundary">>), ALine("mime-version", <<"1.0">>)>>}

ReadTexts == <<TextsOf(FirstLines, {<<l>> : l \in AnyLine}, {TRUE}, {<<>>}),
             TextsOf({Invite}, {<<l, n>> : l \in AnyLine, n \in MoreLines}, {TRUE}, {<<>>}),
             TextsOf({Invite}, {<<l>> : l \in CommaLines}, {TRUE}, {<<>>}),
             TextsOf({Invite}, Typed, {TRUE}, UpTo({"|", "!", "h", ".", "0", "s"}, 3)),
             TextsOf({Invite}, Multi, {TRUE}, Parts),
             TextsOf({Invite}, Typed, {FALSE}, {<<>>})>>

ShortTexts == {AText(Invite, <<ALine("via", <<"ant">>)>>, <<>>),
          AText(<<>>, <<ALine("content-type", <<"sdp">>)>>, <<"s", "0">>),
          AText(Invite, With("content-type", <<"multipart", "boundary">>) \o With("mime-version", <<"1.0">>),
                <<"|", "h", ".", "s", "|", "c", ".", "s", "!">>)}

SetFields == {<<"via", <<"ant">>>>, <<"from", <<"ant">>>>, <<"from", <<"bad">>>>, <<"to", <<>>>>, <<"accept", NULL>>,
         <<"content-type", <<"sdp">>>>, <<"content-type", <<"text", "valueless">>>>, <<"allow", <<"bad">>>>}
SomeValues == {NULL, <<"ant">>}
SomeBodies == {<<>>, <<"s">>, <<"0">>, <<"h", ".", "s">>}
=============================================================================
