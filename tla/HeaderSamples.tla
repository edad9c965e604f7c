--------------------------- MODULE HeaderSamples ---------------------------
(* Pieces of every kind of header field, for TLC to put together.  sam, ant,  *)
(* bob are words, names or numbers.                                           *)
EXTENDS SipHeaders, SipAuth

HeaderKinds == {"uri", "from", "route", "contact", "via", "cseq", "call-id", "content-type", "accept",
             "accept-encoding", "call-info", "www-authenticate", "authorization", "authentication-info"}

Singles(cs) == {<<c>> : c \in cs}
Uri == <<"sip", ":", "ant">>

UriTexts == Singles({"sam", "@", ":", ";", "=", "?", "&", "[", "]", "%", "%2;", "%2@"})
AddressTexts == {Uri} \cup Singles({"sam", "\"", "<", ">", ";", "=", "@", ",", " "})
ContactTexts == {Uri} \cup Singles({"sam", "*", "<", ">", ";", "=", "@"})
ViaTexts == {<<" ", "(", "bob">>, <<"[", ":", "ant", "]">>} \cup Singles({"sam", ":", ")", ";", "=", "[", " "})
WordTexts == Singles({"sam", "ant", " ", "@", "/", ";", "=", "<", ">", ","})

Quoted(name, value) == <<",", " ", name, "=", "\"">> \o value \o <<"\"">>
Token(name, value) == <<",", " ", name, "=", value>>

WwwTexts == {Quoted(n, <<n>>) : n \in {"realm", "domain", "nonce", "opaque", "qop"}}
              \cup {Quoted("realm", <<>>), Quoted("foobar", <<"sam", ",", " ", "nonce", "=", "bob">>), Token("foobar", "sambob"),
                    Token("stale", "true"), Token("algorithm", "MD5")}
AuthTexts == {Quoted(n, <<n>>) : n \in {"realm", "nonce", "uri", "response", "cnonce", "opaque"}}
              \cup {Quoted("foobar", <<"sam", ",", " ", "nonce", "=", "bob">>), Token("foobar", "sambob"),
                    Token("algorithm", "MD5"), Token("qop", "auth"), Token("nc", "00000001")}
InfoTexts == {Quoted(n, <<n>>) : n \in {"nextnonce", "cnonce", "rspauth"}}
              \cup {Quoted("foobar", <<"sam", ",", " ", "nonce", "=", "bob">>), Token("foobar", "sambob"),
                    Token("qop", "auth"), Token("nc", "00000001")}

HeaderPieces == [k \in HeaderKinds |->
    CASE k = "uri" -> UriTexts [] k \in {"from", "route"} -> AddressTexts [] k = "contact" -> ContactTexts
      [] k = "via" -> ViaTexts [] k = "www-authenticate" -> WwwTexts [] k = "authorization" -> AuthTexts
      [] k = "authentication-info" -> InfoTexts [] OTHER -> WordTexts]

Beginnings == [k \in HeaderKinds |->
    CASE k = "uri" -> {<<"sip", ":">>, <<"tel", ":">>}
      [] k = "via" -> {<<"SIP", "/", "2.0", "/", "UDP", " ">>, <<"SIP", "/", "2.0", "/", " ">>}
      [] k = "www-authenticate" -> {<<"Digest">>, <<"Digest">> \o Tail(Quoted("nonce", <<"sam">>))}
      [] k = "authorization" -> {<<"Digest">>, <<"Digest">> \o Tail(Quoted("username", <<"sam">>))}
      [] k = "authentication-info" -> {Tail(Tail(p)) : p \in InfoTexts}
      [] OTHER -> {<<>>} \cup HeaderPieces[k]]

PiecesAtMost == [k \in HeaderKinds |-> CASE k \in {"uri", "from", "via"} -> 4 [] OTHER -> 3]

\* What an application sets: every character in every part of a URI.
AnyText == {<<"sam", c, "ant">> : c \in Chars \ {" "}}
Fields == {[uri_init EXCEPT !.scheme = <<"sip">>, !.username = u, !.password = p, !.host = h, !.port = o] :
             u \in {NULL, <<"bob">>} \cup AnyText, p \in {NULL} \cup AnyText, h \in {<<"ant">>, <<":", "1">>}, o \in {NULL, <<"5060">>}}
          \cup {[uri_init EXCEPT !.scheme = <<"sip">>, !.host = <<"ant">>, !.url_params = <<param_set(n, v)>>] :
             n \in AnyText, v \in {NULL} \cup AnyText}
          \cup {[uri_init EXCEPT !.scheme = <<"sip">>, !.host = <<"ant">>, !.url_headers = <<param_set(n, v), param_set(n, v)>>] :
             n \in AnyText, v \in AnyText}

SetByApplication == [k \in HeaderKinds |-> IF k = "uri" THEN {u \in Fields : u.username = NULL => u.password = NULL} ELSE {}]
=============================================================================
