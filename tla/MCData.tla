------------------------------- MODULE MCData -------------------------------
(***************************************************************************)
(* The parts that work on data and wait for nobody else: header fields,    *)
(* SIP messages, session descriptions, credentials, the playout and the    *)
(* codecs.  Each is checked by itself: Init picks one, the others idle.    *)
(***************************************************************************)
EXTENDS HeaderSamples, MessageSamples

CONSTANTS MaxCalls,                   \* of SipMessage
          MaxLines,                   \* of SdpMessage
          MaxRequests, MaxChanges,    \* of ExAuth
          MaxPackets                  \* of RtpPlayout

VARIABLES part,                                                            \* the part that runs
          kind, pieces, field,                                             \* of HeaderTexts
          arrived, sip, bypassed, calls,                                   \* of SipMessage
          text, ended, ptr, step, more, sdp, result,                       \* of SdpMessage
          way, authinfos, http_auths, call, reqs, nonces, changes,         \* of ExAuth
          rtpsTotal, buf3000, bufsize, turn, audio, length, playing,       \* of RtpPlayout
          hEventBlockPlayed, pc, played

headerVars == <<kind, pieces, field>>
messageVars == <<arrived, sip, bypassed, calls>>
sdpVars == <<text, ended, ptr, step, more, sdp, result>>
authVars == <<way, authinfos, http_auths, call, reqs, nonces, changes>>
playoutVars == <<rtpsTotal, buf3000, bufsize, turn, audio, length, playing,
                 hEventBlockPlayed, pc, played>>
vars == <<part, headerVars, messageVars, sdpVars, authVars, playoutVars>>

H == INSTANCE HeaderTexts WITH
       Kinds <- HeaderKinds, Texts <- HeaderPieces, Starts <- Beginnings,
       MaxPieces <- PiecesAtMost, Assembled <- SetByApplication

M == INSTANCE SipMessage WITH
       Received <- ShortTexts, ReadOnly <- ReadTexts, Settings <- SetFields,
       Bodies <- SomeBodies, OtherNames <- {"subject", "x-other"}, OtherValues <- SomeValues

\* Every kind of line of SDP, well formed; ill-formed ones of three kinds; a line of an
\* unknown kind, one without '=' and an empty one.
SdpKinds == {"v", "o", "s", "i", "u", "e", "p", "c", "b", "t", "r", "z", "k", "a", "m"}
SdpLines == [key : SdpKinds \cup {"other"}, good : {TRUE}]
              \cup [key : {"o", "c", "m"}, good : {FALSE}]
              \cup [key : {"junk", "blank"}, good : {FALSE}]

\* A message made as callbacks.c does, with attributes of the same name; then calls of every
\* kind, for the session, for a media and for one that is added.
SdpCall(key, pos, name) == [key |-> key, pos |-> pos, name |-> name]
SdpCalls == {SdpCall(k, -1, "none") : k \in {"v", "o", "s", "u", "e", "p", "z", "t", "m"}}
              \cup {SdpCall(k, p, "none") : k \in {"i", "k", "c", "b"}, p \in {-1, 0, 1}}
              \cup {SdpCall(k, p, n) : k \in {"a", "del"}, p \in {-1, 0, 1}, n \in {"rtpmap", "fmtp"}}
              \cup {SdpCall("r", p, "none") : p \in {0, 1}}
              \cup {[key |-> "del at", pos |-> p, name |-> "none", index |-> i] : p \in {-1, 0}, i \in {0, 1}}
SdpMade == <<SdpCall("v", -1, "none"), SdpCall("o", -1, "none"), SdpCall("s", -1, "none"),
             SdpCall("t", -1, "none"), SdpCall("m", -1, "none"), SdpCall("c", 0, "none"),
             SdpCall("a", 0, "rtpmap"), SdpCall("a", 0, "rtpmap"), SdpCall("a", 0, "fmtp")>>

D == INSTANCE SdpMessage WITH Lines <- SdpLines, Begun <- SdpMade, Calls <- SdpCalls, MaxCalls <- 3

Accounts == {[user |-> "alice", realm |-> "any", ha1 |-> "passwd"],
             [user |-> "alice", realm |-> "server2", ha1 |-> "server2"],
             [user |-> "bob", realm |-> "server", ha1 |-> "server"]}

A == INSTANCE ExAuth WITH
       Calls <- {"call"}, Messages <- {"message"}, Slots <- 2,
       Ways <- {<<"server">>, <<"proxy", "server">>}, Plain <- {"proxy"},
       Infos <- Accounts, Begins <- {<<"server", "server2">>}

P == INSTANCE RtpPlayout WITH Payloads <- {2}, c <- turn
C == INSTANCE G711

-----------------------------------------------------------------------------
Init ==
    /\ part \in {"headers", "message", "sdp", "auth", "playout"}
    /\ IF part = "headers" THEN H!Init ELSE kind = 0 /\ pieces = 0 /\ field = 0
    /\ IF part = "message" THEN M!Init ELSE arrived = 0 /\ sip = 0 /\ bypassed = 0 /\ calls = 0
    /\ IF part = "sdp" THEN D!Init
       ELSE text = 0 /\ ended = 0 /\ ptr = 0 /\ step = 0 /\ more = 0 /\ sdp = 0 /\ result = 0
    /\ IF part = "auth" THEN A!Init
       ELSE /\ way = 0 /\ authinfos = 0 /\ http_auths = 0 /\ call = 0
            /\ reqs = 0 /\ nonces = 0 /\ changes = 0
    /\ IF part = "playout" THEN P!Init
       ELSE /\ rtpsTotal = 0 /\ buf3000 = 0 /\ bufsize = 0 /\ turn = 0 /\ audio = 0 /\ length = 0
            /\ playing = 0 /\ hEventBlockPlayed = 0 /\ pc = 0 /\ played = 0

Next ==
    \/ part = "headers" /\ H!Next /\ UNCHANGED <<part, messageVars, sdpVars, authVars, playoutVars>>
    \/ part = "message" /\ M!Next /\ UNCHANGED <<part, headerVars, sdpVars, authVars, playoutVars>>
    \/ part = "sdp" /\ D!Next /\ UNCHANGED <<part, headerVars, messageVars, authVars, playoutVars>>
    \/ part = "auth" /\ A!Next /\ UNCHANGED <<part, headerVars, messageVars, sdpVars, playoutVars>>
    \/ part = "playout" /\ P!Next /\ UNCHANGED <<part, headerVars, messageVars, sdpVars, authVars>>

Spec == Init /\ [][Next]_vars

-----------------------------------------------------------------------------
(* Properties *)

\* What is printed of a header field, of a message or of a description, however it was
\* parsed, built and changed, is read again as the same, and so is a clone, which in part is
\* made by printing and parsing (osip_uri_to_str and the other osip_X_to_str and
\* osip_X_clone, osip_message_to_str.c, osip_message_parse.c, sdp_message_clone).
PrintedIsReadAgain ==
    /\ part = "headers" => H!PrintedIsReadAgain
    /\ part = "message" => M!PrintedIsParsed
    /\ part = "sdp" => D!CloneIsEqual

\* What the parsers and the calls that edit leave behind is what was given to them: a
\* parameter where its brackets put it, a value with the name before it, every value of a
\* list, every line in its media, every attribute that was added and not deleted
\* (osip_from.c:150-181, osip_www_authenticate.c, osip_message_parse.c:440-600,
\* sdp_message_parse, sdp_accessor.c).
HoldsWhatWasGiven ==
    /\ part = "headers" => H!ParamsWhereTheyStand /\ H!EachItsOwn
    /\ part = "message" => M!EveryValueKept
    /\ part = "sdp" => D!ParsedAsMeant /\ D!AttributesAsAsked

\* A text that message_property allows to be sent again is what would be printed now
\* (osip_message_to_str.c, osip_message_force_update).
TextIsCurrent == part = "message" => M!TextIsCurrent

\* A nonce is remembered once and while its call lives, and no count of it is used twice
\* (_eXosip_store_nonce, _eXosip_delete_nonce, _eXosip_add_authentication_information).
NumberedOnce == part = "auth" => A!NumberedOnce /\ A!RememberedWhileNeeded

\* An answered challenge is only repeated for a reason (eXosip_find_authentication_info,
\* _eXosip_create_proxy_authorization_header).
ChallengedAgainForAReason == part = "auth" => A!ChallengedAgainForAReason

\* Only whole first packets of their pairs are played, each once, in order, and no block is
\* overwritten while it is being played (rtp_handling.c:129-176).
PlaysFirstOfPair == /\ [](part = "playout" => P!PlaysFirstOfPair)
                    /\ [][part = "playout" =>
                             \A i \in P!Buffers : P!At(i) => audio'[i] = audio[i]]_vars

\* Decoding is at most half a step away from what was recorded, and what is played has a
\* quarter of its amplitude (g711itu.c, g711.c).
CodecsAgree == part = "playout" /\ rtpsTotal = 0 => C!HalfAStepAway /\ C!PlayedAtAQuarter
=============================================================================
