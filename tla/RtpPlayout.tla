----------------------------- MODULE RtpPlayout -----------------------------
(***************************************************************************)
(* How received RTP audio reaches the loudspeaker: RtpProcess and          *)
(* RtpReceivingThread of src/rtp/rtp_handling.c, with the two waveOut      *)
(* devices of Windows (external) that play gAudioBuf[0] and gAudioBuf[1].  *)
(*                                                                         *)
(* The payloads of two packets are gathered in buf3000, decoded into one   *)
(* of the two buffers and given to its device; then the thread waits until *)
(* hEventBlockPlayed is set, for 60 ms at most.  Both devices set that     *)
(* same auto-reset event when a block has been played, and when they are   *)
(* opened.  Time is not counted.  What it implies is kept: a block ends    *)
(* before one that was started later and is not shorter, and within 60 ms, *)
(* as a block of two packets of 160 bytes, which lasts 20 ms, does.        *)
(*                                                                         *)
(* One byte of payload is one sample, known by its packet and its place.   *)
(***************************************************************************)
EXTENDS Integers, Sequences

CONSTANTS Payloads,    \* payload lengths, rtp.payloadLen
          MaxPackets   \* bound: RTP packets that arrive

Buffers == {0, 1}
Silence == <<0, 0>>

VARIABLES rtpsTotal,         \* packets processed; its lowest bit is that of cc
          buf3000, bufsize,
          c,                 \* the buffer whose turn it is, c & 1
          audio,             \* gAudioBuf[i].buffer
          length,            \* gAudioBuf[i].sizeInBytes, in samples of two bytes
          playing,           \* the buffers at their devices, the oldest first
          hEventBlockPlayed,
          pc,                \* the receiving thread: "recv" or "wait"
          played             \* history: what was played, block by block

vars == <<rtpsTotal, buf3000, bufsize, c, audio, length, playing,
          hEventBlockPlayed, pc, played>>

Init == /\ rtpsTotal = 0
        /\ buf3000 = <<>> /\ bufsize = 0
        /\ c = 0
        /\ audio = [i \in Buffers |-> <<>>]
        /\ length = [i \in Buffers |-> 0]
        /\ playing = <<>>
        /\ hEventBlockPlayed \in BOOLEAN
        /\ pc = "recv"
        /\ played = <<>>

\* Memory as a sequence: dst with src written at offset; what lay there and
\* beyond stays.
Write(dst, offset, src) ==
    [i \in 1 .. (IF Len(dst) > offset + Len(src) THEN Len(dst) ELSE offset + Len(src)) |->
        IF i \in offset + 1 .. offset + Len(src) THEN src[i - offset] ELSE dst[i]]

\* The first n samples of a buffer; what was never written is silence.
Samples(b, n) == [i \in 1 .. n |-> IF i <= Len(b) THEN b[i] ELSE Silence]

Payload(n) == [i \in 1 .. n |-> <<rtpsTotal + 1, i>>]

Gather(n) == /\ buf3000' = Write(buf3000, bufsize, Payload(n))
             /\ bufsize' = bufsize + n

First(n) ==
    /\ pc = "recv" /\ rtpsTotal < MaxPackets /\ rtpsTotal % 2 = 0
    /\ Gather(n)
    /\ rtpsTotal' = rtpsTotal + 1
    /\ UNCHANGED <<c, audio, length, playing, hEventBlockPlayed, pc, played>>

At(i) == \E k \in DOMAIN playing : playing[k] = i

\* waveOutWrite: refused while the block is still at the device, or if the
\* device fails; the return value is ignored.
waveOutWrite(i) == \/ ~At(i) /\ playing' = Append(playing, i)
                   \/ UNCHANGED playing

\* Decodes as many samples as the second packet has, from the first byte of
\* buf3000 on; sizeInBytes counts the bytes of both.
Second(n) ==
    /\ pc = "recv" /\ rtpsTotal < MaxPackets /\ rtpsTotal % 2 = 1
    /\ Gather(n)
    /\ audio' = [audio EXCEPT ![c] = Write(@, 0, Samples(buf3000', n))]
    /\ length' = [length EXCEPT ![c] = bufsize' \div 2]
    /\ waveOutWrite(c)
    /\ pc' = "wait"
    /\ UNCHANGED <<rtpsTotal, c, hEventBlockPlayed, played>>

\* After the wait, whatever its result.
Resume == /\ pc' = "recv"
          /\ bufsize' = 0
          /\ c' = 1 - c
          /\ rtpsTotal' = rtpsTotal + 1
          /\ UNCHANGED <<buf3000, audio, length, playing, played>>

BlockPlayed == /\ pc = "wait" /\ hEventBlockPlayed
               /\ hEventBlockPlayed' = FALSE
               /\ Resume

\* Mutant of Timeout: the wait gives up although a block is being played.
TimeoutEarly == /\ pc = "wait" /\ ~hEventBlockPlayed
                /\ UNCHANGED hEventBlockPlayed
                /\ Resume

Timeout == /\ pc = "wait" /\ ~hEventBlockPlayed
           /\ playing = <<>>
           /\ UNCHANGED hEventBlockPlayed
           /\ Resume

\* The device has played the block: it sets the event.
Played(k) ==
    /\ \A j \in 1 .. k - 1 : length[playing[j]] > length[playing[k]]
    /\ played' = Append(played, Samples(audio[playing[k]], length[playing[k]]))
    /\ playing' = SubSeq(playing, 1, k - 1) \o SubSeq(playing, k + 1, Len(playing))
    /\ hEventBlockPlayed' = TRUE
    /\ UNCHANGED <<rtpsTotal, buf3000, bufsize, c, audio, length, pc>>

RtpProcess == \/ \E n \in Payloads : First(n) \/ Second(n)
              \/ BlockPlayed
              \/ Timeout
Device == \E k \in DOMAIN playing : Played(k)
Next == RtpProcess \/ Device

Spec == Init /\ [][Next]_vars

-----------------------------------------------------------------------------
\* With payloads of one length: double buffering never overwrites a block that
\* is being played, although the event that lets the thread go on may be the
\* other buffer's, or a late one, or the one for opening the devices.
NeverOverwritten == [][\A i \in Buffers : At(i) => audio'[i] = audio[i]]_vars

\* With payloads of one length: what is played is a whole packet, the first of
\* its pair, each at most once and in the order of arrival.
PlaysFirstOfPair ==
    /\ \A b \in DOMAIN played :
          \E p \in {q \in 1 .. MaxPackets : q % 2 = 1} :
              \E n \in Payloads : played[b] = [i \in 1 .. n |-> <<p, i>>]
    /\ \A a, b \in DOMAIN played : a < b => played[a][1][1] < played[b][1][1]
=============================================================================
