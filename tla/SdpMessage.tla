----------------------------- MODULE SdpMessage -----------------------------
(***************************************************************************)
(* sdp_message_parse and sdp_message_to_str of osipparser2/sdp_message.c,  *)
(* and the functions by which an application makes and changes a message   *)
(* (sdp_accessor.c).                                                       *)
(*                                                                         *)
(* The parser asks, in a fixed order, for one kind of line after the       *)
(* other: sdp_message_parse_X takes the next line if it is an X line and   *)
(* leaves it alone otherwise.  It looks for the next '=', wherever it is,  *)
(* so a line without one is skipped with the line that follows it.  A line *)
(* is its key, the letter before '=', and whether the field behind it is   *)
(* well formed; what the message keeps of it is its number.                *)
(*                                                                         *)
(* The text is chosen line by line, when the parser first looks at it.  Of *)
(* a message that an application makes, text holds the calls instead; what *)
(* a call adds is known by the number of the call.                         *)
(***************************************************************************)
EXTENDS Integers, Sequences, SequencesExt

CONSTANTS Lines,      \* the lines a text is made of: [key, good]
          MaxLines,   \* bound: the lines of a text
          Begun,      \* the calls by which a message was made: [key, pos, name]
          Calls,      \* the calls by which it is changed
          MaxCalls    \* bound: those that change it

VARIABLES text,       \* the lines the parser has looked at, or the calls
          ended,      \* no line follows them
          ptr,        \* the line at which the parser is
          step,       \* the step of sdp_message_parse
          more,       \* more_m_header
          sdp,        \* the message so far
          result      \* parsing, ok, error; made, not parsed

sdpVars == <<text, ended, ptr, step, more, sdp, result>>

NoEqualSign == {"junk", "blank"}

sdp_media_init(j) == [m |-> j, i |-> <<>>, c |-> <<>>, b |-> <<>>, k |-> <<>>, a |-> <<>>]

sdp_message_init ==
    [v |-> <<>>, o |-> <<>>, s |-> <<>>, i |-> <<>>, u |-> <<>>, e |-> <<>>, p |-> <<>>,
     c |-> <<>>, b |-> <<>>, times |-> <<>>, z |-> <<>>, k |-> <<>>, a |-> <<>>, medias |-> <<>>]

-----------------------------------------------------------------------------
(* What line j adds to the message s. *)

\* Before the first m line a field is the session's, then the last media's.
InSession(s) == s.medias = <<>>
Current(s) == Len(s.medias)

parse_v(s, j) == [s EXCEPT !.v = <<j>>]
parse_o(s, j) == [s EXCEPT !.o = <<j>>]
parse_s(s, j) == [s EXCEPT !.s = <<j>>]
parse_u(s, j) == [s EXCEPT !.u = <<j>>]
parse_e(s, j) == [s EXCEPT !.e = Append(@, j)]
parse_p(s, j) == [s EXCEPT !.p = Append(@, j)]
parse_z(s, j) == [s EXCEPT !.z = <<j>>]
parse_t(s, j) == [s EXCEPT !.times = Append(@, [t |-> j, r |-> <<>>])]
parse_r(s, j) == [s EXCEPT !.times[Len(s.times)].r = Append(@, j)]
parse_m(s, j) == [s EXCEPT !.medias = Append(@, sdp_media_init(j))]

parse_i(s, j) == IF InSession(s) THEN [s EXCEPT !.i = <<j>>]
                 ELSE [s EXCEPT !.medias[Current(s)].i = <<j>>]

parse_c(s, j) == IF InSession(s) THEN [s EXCEPT !.c = <<j>>]
                 ELSE [s EXCEPT !.medias[Current(s)].c = Append(@, j)]

parse_b(s, j) == IF InSession(s) THEN [s EXCEPT !.b = Append(@, j)]
                 ELSE [s EXCEPT !.medias[Current(s)].b = Append(@, j)]
parse_k(s, j) == IF InSession(s) THEN [s EXCEPT !.k = <<j>>]
                 ELSE [s EXCEPT !.medias[Current(s)].k = <<j>>]

parse_a(s, j) == IF InSession(s) THEN [s EXCEPT !.a = Append(@, j)]
                 ELSE [s EXCEPT !.medias[Current(s)].a = Append(@, j)]

Takes(key, s, j) ==
    CASE key = "v" -> parse_v(s, j) [] key = "o" -> parse_o(s, j) [] key = "s" -> parse_s(s, j)
      [] key = "i" -> parse_i(s, j) [] key = "u" -> parse_u(s, j) [] key = "e" -> parse_e(s, j)
      [] key = "p" -> parse_p(s, j) [] key = "c" -> parse_c(s, j) [] key = "b" -> parse_b(s, j)
      [] key = "t" -> parse_t(s, j) [] key = "r" -> parse_r(s, j) [] key = "z" -> parse_z(s, j)
      [] key = "k" -> parse_k(s, j) [] key = "a" -> parse_a(s, j) [] key = "m" -> parse_m(s, j)

-----------------------------------------------------------------------------
(* sdp_message_parse: which line each step asks for, and where it goes on. *)

Asks == <<"v", "s", "o", "s", "i", "u", "e", "p", "c", "b", "t",   \* up to the first t
          "r", "t", "r", "t",                                      \* more times and repeats
          "z", "k", "a",
          "m", "i", "c", "b", "k", "a">>                           \* a media, again and again

Must == {1, 3, 11}                        \* v, o and t are mandatory
Many == {7, 8, 10, 12, 14, 18, 21, 22, 24}
FirstT == 11
MoreR == 14
MoreT == 15
MediaLine == 19
LastOfMedia == 24
Done == 25

\* The step after step n, which found its line, or did not.
Taken(n) == CASE n \in Many -> n
              [] n = MoreT -> MoreR
              [] OTHER -> n + 1
Left(n, again) == IF n = LastOfMedia /\ again THEN MediaLine ELSE n + 1

\* From the first t on the text may end, or an empty line ends it.
AtEnd == IF ptr > Len(text) THEN ended ELSE text[ptr].key = "blank"
MayEnd == step > FirstT /\ AtEnd

\* The next line with an '='.
Ahead == {j \in ptr .. Len(text) : text[j].key \notin NoEqualSign}

Look == /\ result = "parsing" /\ ~MayEnd
        /\ ~ended /\ Ahead = {}
        /\ \/ Len(text) < MaxLines /\ text' \in {Append(text, l) : l \in Lines} /\ UNCHANGED ended
           \/ ended' = TRUE /\ UNCHANGED text
        /\ UNCHANGED <<ptr, step, more, sdp, result>>

End == /\ result = "parsing" /\ MayEnd
       /\ result' = "ok"
       /\ UNCHANGED <<text, ended, ptr, step, more, sdp>>

sdp_message_parse ==
    /\ result = "parsing" /\ ~MayEnd
    /\ ended \/ Ahead # {}
    /\ IF Ahead = {} THEN result' = "error" /\ UNCHANGED <<ptr, step, more, sdp>>
       ELSE LET j == CHOOSE x \in Ahead : \A y \in Ahead : x <= y IN
            IF text[j].key = Asks[step]
            THEN IF text[j].good
                 THEN /\ sdp' = Takes(Asks[step], sdp, j)
                      /\ ptr' = j + 1 /\ step' = Taken(step)
                      /\ UNCHANGED <<more, result>>
                 ELSE result' = "error" /\ UNCHANGED <<ptr, step, more, sdp>>
            ELSE LET again == more /\ step # MediaLine IN
                 /\ more' = again
                 /\ step' = Left(step, again)
                 /\ result' = CASE step \in Must -> "error"
                                [] Left(step, again) = Done -> "ok"
                                [] OTHER -> "parsing"
                 /\ UNCHANGED <<ptr, sdp>>
    /\ UNCHANGED <<text, ended>>

-----------------------------------------------------------------------------
(* sdp_accessor.c: call j, with pos_media (pos_time_descr of "r"), -1 for    *)
(* the session; name is the att_field of an attribute.                       *)

OfSession == {"v", "o", "s", "u", "e", "p", "z", "t", "m"}

\* What the code checks of pos: there is such a media, or such a time.
HasPlace(s, e) == CASE e.key \in OfSession -> e.pos = -1
                    [] e.key = "r" -> e.pos + 1 \in DOMAIN s.times
                    [] OTHER -> e.pos + 1 \in {0} \cup DOMAIN s.medias

Put(d, key, j) == [d EXCEPT ![key] = <<j>>]
Add(d, key, j) == [d EXCEPT ![key] = Append(@, j)]

\* pos_media picks the session or a media.
Within(s, pos, f(_)) == IF pos = -1 THEN f(s) ELSE [s EXCEPT !.medias[pos + 1] = f(@)]

sdp_message_i_info_set(s, pos, j) == Within(s, pos, LAMBDA d : Put(d, "i", j))
sdp_message_k_key_set(s, pos, j) == Within(s, pos, LAMBDA d : Put(d, "k", j))
sdp_message_c_connection_add(s, pos, j) ==
    Within(s, pos, LAMBDA d : IF pos = -1 THEN Put(d, "c", j) ELSE Add(d, "c", j))
sdp_message_b_bandwidth_add(s, pos, j) == Within(s, pos, LAMBDA d : Add(d, "b", j))
sdp_message_a_attribute_add(s, pos, j) == Within(s, pos, LAMBDA d : Add(d, "a", j))
sdp_message_t_time_descr_add(s, j) == [s EXCEPT !.times = Append(@, [t |-> j, r |-> <<>>])]
sdp_message_r_repeat_add(s, pos, j) == [s EXCEPT !.times[pos + 1].r = Append(@, j)]
sdp_message_m_media_add(s, j) == [s EXCEPT !.medias = Append(@, sdp_media_init(j))]

sdp_message_set(s, e, j) ==
    CASE e.key \in {"v", "o", "s", "u", "z"} -> Put(s, e.key, j)
      [] e.key \in {"e", "p"} -> Add(s, e.key, j)
      [] e.key = "i" -> sdp_message_i_info_set(s, e.pos, j)
      [] e.key = "k" -> sdp_message_k_key_set(s, e.pos, j)
      [] e.key = "c" -> sdp_message_c_connection_add(s, e.pos, j)
      [] e.key = "b" -> sdp_message_b_bandwidth_add(s, e.pos, j)
      [] e.key = "a" -> sdp_message_a_attribute_add(s, e.pos, j)
      [] e.key = "t" -> sdp_message_t_time_descr_add(s, j)
      [] e.key = "r" -> sdp_message_r_repeat_add(s, e.pos, j)
      [] e.key = "m" -> sdp_message_m_media_add(s, j)

\* Mutant of Without: the attribute that moves up to the place of a deleted one is passed over.
WithoutEveryOther(list, calls, name) ==
    LET gone[n \in 0 .. Len(list)] ==
            IF n = 0 THEN {}
            ELSE IF calls[list[n]].name = name /\ n - 1 \notin gone[n - 1] THEN gone[n - 1] \cup {n}
            ELSE gone[n - 1]
    IN SelectSeq(list, LAMBDA x : x \notin {list[n] : n \in gone[Len(list)]})

Without(list, calls, name) == SelectSeq(list, LAMBDA n : calls[n].name # name)

Attributes(s, pos) == IF pos = -1 THEN s.a ELSE s.medias[pos + 1].a
WithAttributes(s, pos, list) == Within(s, pos, LAMBDA d : [d EXCEPT !.a = list])

sdp_message_a_attribute_del(s, e, calls) ==
    WithAttributes(s, e.pos, Without(Attributes(s, e.pos), calls, e.name))

\* By index, from 0: of a media, index 0 is deleted until none is left, and any other
\* index until the function finds nothing there, and never returns.
DelReturns(s, e) == e.pos = -1 \/ e.index = 0 \/ Attributes(s, e.pos) = <<>>
sdp_message_a_attribute_del_at_index(s, e) ==
    LET list == Attributes(s, e.pos)
    IN WithAttributes(s, e.pos, IF e.pos # -1 THEN <<>>
                                ELSE IF e.index + 1 \in DOMAIN list
                                THEN RemoveAt(list, e.index + 1) ELSE list)

Changed(s, e, calls) ==
    CASE e.key = "del" -> sdp_message_a_attribute_del(s, e, calls)
      [] e.key = "del at" -> sdp_message_a_attribute_del_at_index(s, e)
      [] OTHER -> sdp_message_set(s, e, Len(calls) + 1)

Change == /\ result = "made" /\ Len(text) < Len(Begun) + MaxCalls
          /\ \E e \in Calls : /\ HasPlace(sdp, e) /\ (e.key = "del at" => DelReturns(sdp, e))
                              /\ sdp' = Changed(sdp, e, text)
                              /\ text' = Append(text, e)
          /\ UNCHANGED <<ended, ptr, step, more, result>>

-----------------------------------------------------------------------------
Made == FoldLeftDomain(LAMBDA s, n : sdp_message_set(s, Begun[n], n), sdp_message_init, Begun)

Init == /\ ended = FALSE /\ ptr = 1 /\ step = 1 /\ more = TRUE
        /\ \/ text = <<>> /\ sdp = sdp_message_init /\ result = "parsing"
           \/ text = Begun /\ sdp = Made /\ result = "made"

Next == Look \/ End \/ sdp_message_parse \/ Change

Spec == Init /\ [][Next]_sdpVars

-----------------------------------------------------------------------------
(* sdp_message_to_str: the lines of a message, as <<key, number>>. *)

All(key, js) == [n \in DOMAIN js |-> <<key, js[n]>>]

sdp_append_time_descr(d) == <<<<"t", d.t>>>> \o All("r", d.r)

sdp_append_media(d) == <<<<"m", d.m>>>> \o All("i", d.i) \o All("c", d.c) \o All("b", d.b)
                           \o All("k", d.k) \o All("a", d.a)

sdp_message_to_str(s) ==
    All("v", s.v) \o All("o", s.o) \o All("s", s.s) \o All("i", s.i) \o All("u", s.u)
        \o All("e", s.e) \o All("p", s.p) \o All("c", s.c) \o All("b", s.b)
        \o FlattenSeq([n \in DOMAIN s.times |-> sdp_append_time_descr(s.times[n])])
        \o All("z", s.z) \o All("k", s.k) \o All("a", s.a)
        \o FlattenSeq([n \in DOMAIN s.medias |-> sdp_append_media(s.medias[n])])

-----------------------------------------------------------------------------
(* What a description means, by RFC 2327, which sdp_message_parse cites: its *)
(* lines L, as <<key, number>>, in order, and what each belongs to.          *)

SessionOrder == <<"v", "o", "s", "i", "u", "e", "p", "c", "b", "t", "z", "k", "a">>
MediaOrder == <<"m", "i", "c", "b", "k", "a">>
Rank(order, key) == IF key = "r" THEN 10
                    ELSE IF Contains(order, key) THEN CHOOSE n \in DOMAIN order : order[n] = key
                    ELSE 0

MediaStart(L) == {n \in DOMAIN L : L[n][1] = "m"}
SessionPart(L) == {n \in DOMAIN L : \A x \in MediaStart(L) : n < x}

InOrder(L) ==
    LET key(n) == L[n][1]
        follows(order, repeated, x, y) ==
            /\ Contains(order, y) \/ y = "r"
            /\ \/ Rank(order, x) < Rank(order, y)
               \/ Rank(order, x) = Rank(order, y) /\ y \in repeated
    IN /\ \A x \in {"v", "o", "t"} : \E n \in SessionPart(L) : key(n) = x
       /\ key(1) = "v"
       /\ \A n \in DOMAIN L \ {1} :
            IF n \in SessionPart(L)
            THEN /\ follows(SessionOrder, {"e", "p", "b", "t", "r", "a"}, key(n - 1), key(n))
                 /\ key(n) = "r" => key(n - 1) \in {"t", "r"}
            ELSE key(n) = "m" \/ follows(MediaOrder, {"c", "b", "a"}, key(n - 1), key(n))

\* The numbers of the lines with a key among the places P of L, in order.
Pick(L, P, x) == LET at == SetToSortSeq({n \in P : L[n][1] = x}, <)
                 IN [n \in DOMAIN at |-> L[at[n]][2]]

\* The places from n to the next line that starts another time or media.
Block(L, P, n, x) == {y \in P : y >= n /\ ~\E z \in P : n < z /\ z <= y /\ L[z][1] = x}

Meaning(L) ==
    LET S == SessionPart(L)
        times == SetToSortSeq({n \in S : L[n][1] = "t"}, <)
        starts == SetToSortSeq(MediaStart(L), <)
        media(n) == LET B == Block(L, DOMAIN L, n, "m")
                    IN [m |-> L[n][2], i |-> Pick(L, B, "i"), c |-> Pick(L, B, "c"),
                        b |-> Pick(L, B, "b"), k |-> Pick(L, B, "k"), a |-> Pick(L, B, "a")]
    IN [v |-> Pick(L, S, "v"), o |-> Pick(L, S, "o"), s |-> Pick(L, S, "s"),
        i |-> Pick(L, S, "i"), u |-> Pick(L, S, "u"), e |-> Pick(L, S, "e"),
        p |-> Pick(L, S, "p"), c |-> Pick(L, S, "c"), b |-> Pick(L, S, "b"),
        times |-> [n \in DOMAIN times |->
                     [t |-> L[times[n]][2], r |-> Pick(L, Block(L, S, times[n], "t"), "r")]],
        z |-> Pick(L, S, "z"), k |-> Pick(L, S, "k"), a |-> Pick(L, S, "a"),
        medias |-> [n \in DOMAIN starts |-> media(starts[n])]]

-----------------------------------------------------------------------------
(* Properties *)

Text == [n \in DOMAIN text |-> <<text[n].key, n>>]

\* Every description whose lines are in order and well formed is accepted, and means
\* to sdp_message_parse what it should: no step of the chain takes the line of another.
\* (The lines the parser has looked at may be all there are.)
ParsedAsMeant ==
    result \in {"ok", "error"} /\ text # <<>> /\ (\A n \in DOMAIN text : text[n].good) /\ InOrder(Text) =>
        result = "ok" /\ sdp = Meaning(Text)

\* What was parsed, from whatever text, or made by whatever calls, is printed in order and
\* means the same, so that sdp_message_clone, which prints and parses, makes an equal message.
CloneIsEqual ==
    result \in {"ok", "made"} =>
        LET L == sdp_message_to_str(sdp) IN InOrder(L) /\ Meaning(L) = sdp

\* A message has the attributes that were added to it, each where it was added and in that
\* order, but those that were deleted since: by name, every one of that name; by index, one
\* of the session or all of a media (sdp_message_a_attribute_del, _del_at_index).
AttributesAsAsked ==
    result = "made" => \A pos \in -1 .. Len(sdp.medias) - 1 :
        LET list == Attributes(sdp, pos)
            at(key) == {n \in DOMAIN text : text[n].key = key /\ text[n].pos = pos}
            deleted == {n \in at("a") : \/ \E x \in at("del") : x > n /\ text[x].name = text[n].name
                                       \/ \E x \in at("del at") : x > n /\ pos # -1}
            lost == (at("a") \ deleted) \ ToSet(list)
        IN /\ \A i, j \in DOMAIN list : i < j => list[i] < list[j]
           /\ ToSet(list) \subseteq at("a") \ deleted
           /\ Cardinality(lost) <= IF pos = -1 THEN Cardinality(at("del at")) ELSE 0

=============================================================================
