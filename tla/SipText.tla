------------------------------ MODULE SipText ------------------------------
(***************************************************************************)
(* The helpers of osip_port.c, osip_uri.c and osip_from.c that the parsers *)
(* of the SIP header fields share.                                         *)
(*                                                                         *)
(* A text is a sequence of tokens: a separator is a token of its own, and  *)
(* a run of characters that no parser looks into (a name, a host, a        *)
(* number) is one token.  A character c that is escaped by its code is the *)
(* one token "%2c".  A pointer into a text is a position; 0 is the pointer *)
(* that strchr could not set.                                              *)
(***************************************************************************)
EXTENDS Naturals, FiniteSets, Sequences, SequencesExt

NULL == <<"NULL">>                   \* a field that is not there, a text that cannot be printed
Failed == [failed |-> TRUE]          \* any return code but OSIP_SUCCESS

Chars == {":", "@", ";", "?", "=", "&", "/", "[", "]", "<", ">", ",", " ", "\"", "(", ")", "%", "*"}

strlen(s) == FoldLeft(LAMBDA n, t : n + Len(t), 0, s)

-----------------------------------------------------------------------------
(* strchr, and what lies between two pointers. *)

strchr(s, c) == SelectInSeq(s, LAMBDA t : t = c)

\* The first c from position i on.
From(s, c, i) == SelectInSubSeq(s, i, Len(s), LAMBDA t : t = c)

\* Back from position j to i: the last of the characters cs, or i.
Backto(s, cs, i, j) == LET at == {n \in i .. j : s[n] \in cs}
                       IN IF at = {} THEN i ELSE CHOOSE n \in at : \A x \in at : x <= n

Upto(s, i) == SubSeq(s, 1, i - 1)
After(s, i) == SubSeq(s, i + 1, Len(s))
Between(s, i, j) == SubSeq(s, i + 1, j - 1)

\* All of s if the pointer i could not be set.
UptoOrAll(s, i) == IF i = 0 THEN s ELSE Upto(s, i)

\* The end of s if the pointer i could not be set.
OrEnd(s, i) == IF i = 0 THEN Len(s) + 1 ELSE i

\* The pieces of s between the separators c.
Pieces(s, c) == FoldLeft(LAMBDA ps, t : IF t = c THEN Append(ps, <<>>)
                                        ELSE [ps EXCEPT ![Len(ps)] = Append(@, t)], <<<<>>>>, s)

Nearer(n, m) == IF m # 0 /\ n > m THEN 0 ELSE n

next_separator(s, c, before, i) == Nearer(From(s, c, i), From(s, before, i))

\* Blanks at both ends are taken away.
osip_clrspace(s) ==
    LET inside == {n \in DOMAIN s : s[n] # " "}
    IN IF inside = {} THEN <<>>
       ELSE SubSeq(s, CHOOSE n \in inside : \A m \in inside : n <= m,
                      CHOOSE n \in inside : \A m \in inside : m <= n)

\* The first quote from i on; no text has a backslash.
quote_find(s, i) == From(s, "\"", i)

\* A value that is there, behind what announces it.
Opt(before, v) == IF v = NULL THEN <<>> ELSE before \o v

-----------------------------------------------------------------------------
(* Escaped characters. *)

Escaped(c) == "%2" \o c
EscapedChars == {Escaped(c) : c \in Chars}

\* Every character of s that is not in the table def is escaped.
uri_escape(s, def) == [n \in DOMAIN s |-> IF s[n] \in Chars \ def THEN Escaped(s[n]) ELSE s[n]]

Unescaped(s) ==
    [n \in DOMAIN s |-> IF s[n] \in EscapedChars THEN CHOOSE c \in Chars : Escaped(c) = s[n] ELSE s[n]]

\* A % that no code follows ends the text.
uri_unescape(s) == Unescaped(UptoOrAll(s, strchr(s, "%")))

-----------------------------------------------------------------------------
(* Parameters, [gname, gvalue], and their list. *)

param_set(n, v) == [gname |-> osip_clrspace(n), gvalue |-> IF v = NULL THEN NULL ELSE osip_clrspace(v)]

param_clone(p) == [gname |-> p.gname, gvalue |-> p.gvalue]

\* The parameters of a list of pieces: up to the first that One makes nothing of.
Params(pieces, One(_)) ==
    LET ps == [n \in DOMAIN pieces |-> One(n)]
        bad == SelectInSeq(ps, LAMBDA p : p = Failed)
    IN [ok |-> bad = 0, list |-> IF bad = 0 THEN ps ELSE Upto(ps, bad)]

\* A piece with its '=' at e.  The value is not there if nothing but a comma or, in the
\* last piece, the end follows the '='.
Missing(value, last) == IF value = <<>> THEN last ELSE value[1] = ","

GenericParam(name, e, v, missing) ==
    IF name = <<>> \/ (e # 0 /\ ~missing /\ v = <<>>) THEN Failed
    ELSE param_set(name, IF e = 0 \/ missing THEN NULL ELSE v)

GenericParamAt(piece, e, last) ==
    GenericParam(UptoOrAll(piece, e), e, After(piece, e), Missing(osip_clrspace(After(piece, e)), last))

\* An empty last piece is no parameter.
WithoutEmptyLast(pieces) ==
    IF pieces # <<>> /\ pieces[Len(pieces)] = <<>> THEN Front(pieces) ELSE pieces

GenericParams(all, pieces) ==
    LET one(n) == GenericParamAt(pieces[n], strchr(pieces[n], "="), n = Len(all))
    IN Params(pieces, one)

\* ";name=value" in a header field: s starts at the first ';'.
generic_param_parseall(s) == GenericParams(Tail(Pieces(s, ";")), WithoutEmptyLast(Tail(Pieces(s, ";"))))

\* The same, from the ';' to before the position e; no ';', no parameters.
NoParams == [ok |-> TRUE, list |-> <<>>]
GenericParamsAt(s, semi, e) == IF semi = 0 THEN NoParams ELSE generic_param_parseall(SubSeq(s, semi, e - 1))

generic_params_to_str(ps) ==
    FlattenSeq([n \in DOMAIN ps |-> <<";">> \o ps[n].gname
                                    \o Opt(<<"=">>, ps[n].gvalue)])
=============================================================================
