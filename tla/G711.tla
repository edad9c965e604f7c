-------------------------------- MODULE G711 --------------------------------
(***************************************************************************)
(* The two u-law codecs of the program.  What the microphone records is    *)
(* compressed by ulaw_compress of lib/codec/g711/itu/g711itu.c; what       *)
(* arrives is decoded by MuLaw_Decode of lib/codec/g711/m/g711.c, and      *)
(* written to a device opened for 16 bits.  ulaw_expand, the inverse the   *)
(* ITU gives, is called in code that is compiled out.                      *)
(*                                                                         *)
(* Shifts are divisions by powers of two (\div rounds down, as >> does on  *)
(* a negative short), ~x is -x - 1, and a field of bits is a remainder.    *)
(* No intermediate value of these functions leaves a short.  The one       *)
(* variable is the input, which takes each 16-bit value in turn.           *)
(***************************************************************************)
EXTENDS Integers, FiniteSets

Abs(x) == IF x < 0 THEN -x ELSE x

\* The 13 bits that are coded: 1's complement if negative, biased and limited.
Magnitude(s, bias, limit) ==
    LET a == (IF s < 0 THEN -s - 1 ELSE s) \div 4 + bias
    IN  IF a > limit THEN limit ELSE a

\* Table 2 of G.711, column 1: the loop counts the bits of a >> 6.
Segment(a) == 1 + Cardinality({k \in 6 .. 13 : a >= 2 ^ k})

Code(a, positive) ==
    (8 - Segment(a)) * 16 + (15 - ((a \div 2 ^ Segment(a)) % 16))
        + (IF positive THEN 128 ELSE 0)

ulaw_compress(s) == Code(Magnitude(s, 33, 8191), s >= 0)

Exponent(c) == ((255 - c) \div 16) % 8
Mantissa(c) == (255 - c) % 16
Step(c) == 4 * 2 ^ (Exponent(c) + 1)

ulaw_expand(c) ==
    (IF c < 128 THEN -1 ELSE 1) *
        (128 * 2 ^ Exponent(c) + Step(c) * Mantissa(c) + Step(c) \div 2 - 4 * 33)

\* Mutant of MuLaw_Decode: the position counts from 4.
DecodePosition4(c) ==
    LET position == Exponent(c) + 4
        decoded == 2 ^ position + Mantissa(c) * 2 ^ (position - 4) + 2 ^ position \div 32 - 33
    IN  IF 255 - c >= 128 THEN -decoded ELSE decoded

MuLaw_Decode(c) ==
    LET position == Exponent(c) + 5
        decoded == 2 ^ position + Mantissa(c) * 2 ^ (position - 4) + 2 ^ (position - 5) - 33
    IN  IF 255 - c >= 128 THEN -decoded ELSE decoded

-----------------------------------------------------------------------------
Codes == 0 .. 255
Loudest == ulaw_expand(128)

\* A sample that is louder than the loudest level is meant to be that.
Limited(sample) == IF sample > Loudest THEN Loudest ELSE IF sample < -Loudest THEN -Loudest ELSE sample

\* What is decoded is at most half a step away from what was recorded, for every 16-bit
\* sample: those above the limit of ulaw_compress are coded as the loudest, and none wraps.
HalfAStepAway ==
    \A sample \in -32768 .. 32767 :
        LET c == ulaw_compress(sample)
        IN  2 * Abs(ulaw_expand(c) - Limited(sample)) <= Step(c)

\* What is played has a quarter of the amplitude that was recorded: MuLaw_Decode
\* yields 14 bits, right justified, ulaw_compress takes them left justified.
PlayedAtAQuarter == \A sample \in Codes : 4 * MuLaw_Decode(sample) = ulaw_expand(sample)
=============================================================================
