-------------------------------- MODULE SipUas --------------------------------
(***************************************************************************)
(* sipmore: the main loop of src/main.c with src/sip/sip.c and             *)
(* src/sip/callbacks.c on top of oSIP's server transactions (OsipServer),  *)
(* and the two audio threads that share its globals.                       *)
(*                                                                         *)
(*   main thread   one datagram at most, then the FIFOs of all             *)
(*                 transactions, then their timers, and again              *)
(*   RTP thread    UdpServerProcess, which sets the same gDestIp, and      *)
(*                 RtpProcess, which opens the session                     *)
(*   record thread records 20 ms while the session is open, then sends it  *)
(*                 to gDestIp, port gSpdPort                               *)
(*                                                                         *)
(* One action of the main thread is what no other thread can tell apart:   *)
(* gDestIp is read once per response, gSpdPort is written by strcpy, byte  *)
(* by byte, and read as anything meanwhile.  The client transactions stay  *)
(* empty (the program starts none), so osip_ict_execute, osip_nict_execute *)
(* and their timers do nothing.  Any datagram may arrive, be lost,         *)
(* duplicated or reordered: its peer may be in the middle of a call with   *)
(* an earlier run of the program.                                          *)
(***************************************************************************)
EXTENDS OsipServer, FiniteSets

CONSTANTS Peers,          \* addresses datagrams come from
          Ports,          \* RTP ports a caller may offer, and PORT_RTP
          PORT_RTP,       \* 7076, where the RTP thread listens
          MaxRtp          \* bound: RTP datagrams that arrive

ASSUME UasAssumption ==
    /\ \A m \in Messages : m.peer \in Peers /\ m.port \in Ports
    /\ PORT_RTP \in Ports /\ 0 \notin Ports
    /\ None \notin Peers \cup Responses
    /\ MaxRtp \in Nat
    /\ ~SendMayFail                \* CbUdpSendMessage returns 0 in any case

\* What comes with the same branch and method is the same message again.
ASSUME BranchAssumption ==
    \A m, n \in Messages : m.branch = n.branch /\ m.method = n.method => m = n

VARIABLES pc,                 \* where the main thread is
          rx,                 \* the message SipProcess works on
          gDestIp,            \* sender of the last datagram of either socket, or None
          gSpdPort,
          copying,            \* inside strcpy(gSpdPort, ...)
          gRtpSessionActive,
          rtpPc, rtpCount,    \* the RTP thread, and how much it got
          recPc, recPort,     \* the record thread, and the port it read
          sinceBye            \* history: frames sent since the session was closed, up to 2

audioVars == <<rtpPc, rtpCount, recPc, recPort>>
histVars == <<sinceBye>>
globals == <<gDestIp, gSpdPort, copying, gRtpSessionActive>>
vars == <<osipVars, pc, rx, globals, audioVars, histVars>>

UasInit == /\ Init
           /\ pc = "recv" /\ rx = None
           /\ gDestIp = None
           /\ gSpdPort = PORT_RTP
           /\ copying = FALSE
           /\ gRtpSessionActive = FALSE
           /\ rtpPc = "recv" /\ rtpCount = 0
           /\ recPc = "check" /\ recPort = PORT_RTP
           /\ sinceBye = 0

-----------------------------------------------------------------------------
(* UdpServerProcess and SipProcess *)

RecvSip(m) ==
    /\ pc = "recv"
    /\ transactionid \in Ids
    /\ Arrive(m)
    /\ gDestIp' = m.peer
    /\ rx' = m
    /\ pc' = "sip"
    /\ UNCHANGED <<tr, transactionid, lists, array, incoming,
                   gSpdPort, copying, gRtpSessionActive, audioVars, histVars>>

\* A datagram osip_parse rejects has set gDestIp all the same.
RecvUnparsed(p) ==
    /\ pc = "recv"
    /\ gDestIp' = p
    /\ pc' = "ist_begin"
    /\ UNCHANGED <<osipVars, rx, gSpdPort, copying, gRtpSessionActive, audioVars, histVars>>

RecvNothing ==
    /\ pc = "recv"
    /\ pc' = "ist_begin"
    /\ UNCHANGED <<osipVars, rx, globals, audioVars, histVars>>

\* No transaction takes the event: whatever is not an INVITE gets a NIST,
\* ACKs and responses too.
ProcessNewReq ==
    /\ Found(rx) = {}
    /\ osip_transaction_init(IF EventType(rx) = "RCV_REQINVITE" THEN "IST" ELSE "NIST", rx)
    /\ pc' = "add_event"

SipProcess ==
    /\ pc = "sip"
    /\ \/ osip_find_transaction_and_add_event(rx) /\ pc' = "ist_begin"
       \/ ProcessNewReq
    /\ rx' = None
    /\ UNCHANGED <<arrived, globals, audioVars, histVars>>

ProcessNewReqAddEvent ==
    /\ pc = "add_event"
    /\ AddFirstEvent
    /\ pc' = "ist_begin"
    /\ UNCHANGED <<rx, globals, audioVars, histVars>>

-----------------------------------------------------------------------------
(* osip_ist_execute and osip_nist_execute, with the callbacks *)

ExecPc == [IST |-> "ist", NIST |-> "nist"]
BeginPc == [IST |-> "ist_begin", NIST |-> "nist_begin"]
AfterPc == [IST |-> "nist_begin", NIST |-> "timers_ist"]

MainCopyList(k) ==
    /\ pc = BeginPc[k]
    /\ CopyList(k)
    /\ pc' = ExecPc[k]
    /\ UNCHANGED <<tr, transactionid, lists, incoming, arrived, rx, globals,
                   audioVars, histVars>>

MainExecuteNext(k) ==
    /\ pc = ExecPc[k]
    /\ ExecuteNext(k)
    /\ UNCHANGED <<pc, rx, globals, audioVars, histVars>>

MainExecuteEnd(k) ==
    /\ pc = ExecPc[k]
    /\ array[k] = {}
    /\ pc' = AfterPc[k]
    /\ UNCHANGED <<osipVars, rx, globals, audioVars, histVars>>

\* Mutant of CbAnswers: a BYE is not answered.
CbAnswersNoBye(t) ==
    CASE Head(tr[t].fifo) = "RCV_REQINVITE" -> <<"SND_STATUS_1XX", "SND_STATUS_2XX">>
      [] tr[t].req.method = "CANCEL" -> <<"SND_STATUS_2XX">>
      [] OTHER -> <<>>

\* What the message callback queues: 180 and 200 for an INVITE, 200 for the
\* ACK of a final response other than 2xx, for a BYE and for a CANCEL.
CbAnswers(t) ==
    CASE Head(tr[t].fifo) = "RCV_REQINVITE" -> <<"SND_STATUS_1XX", "SND_STATUS_2XX">>
      [] Head(tr[t].fifo) = "RCV_REQACK"    -> <<"SND_STATUS_2XX">>
      [] tr[t].req.method \in {"BYE", "CANCEL"} -> <<"SND_STATUS_2XX">>
      [] OTHER -> <<>>

Announces(t, method) == /\ tr[t].fifo # <<>>
                        /\ tr[t].state \in PreStates
                        /\ Head(tr[t].fifo) \in {"RCV_REQINVITE", "RCV_REQUEST"}
                        /\ tr[t].req.method = method

\* CbOnIstInviteRcvd enters strcpy.
StartCopy ==
    /\ pc = "ist" /\ array["IST"] # {} /\ ~copying
    /\ Announces(First(array["IST"]), "INVITE")
    /\ copying' = TRUE
    /\ UNCHANGED <<osipVars, pc, rx, gDestIp, gSpdPort, gRtpSessionActive, audioVars, histVars>>

\* The rest of CbOnIstInviteRcvd.  (The answer's SDP repeats the caller's port.)
CbOnIstInviteRcvd(t) ==
    /\ copying
    /\ copying' = FALSE
    /\ gSpdPort' = tr[t].req.port
    /\ UNCHANGED <<gRtpSessionActive, sinceBye>>

\* CbOnNistByeRcvd: any BYE, of any call.  No WAV file is being written
\* (gWavIsWriting stays 0: the code that sets it is compiled out).
CbOnNistByeRcvd ==
    /\ gRtpSessionActive' = FALSE
    /\ sinceBye' = 0
    /\ UNCHANGED <<gSpdPort, copying>>

MainExecuteEvent(k) ==
    /\ pc = ExecPc[k] /\ array[k] # {}
    /\ LET t == First(array[k])
       IN  /\ tr[t].fifo # <<>>
           /\ ExecuteEvent(k, CbAnswers(t))
           /\ IF Announces(t, "INVITE") THEN CbOnIstInviteRcvd(t)
              ELSE IF Announces(t, "BYE") THEN CbOnNistByeRcvd
              ELSE UNCHANGED <<gSpdPort, copying, gRtpSessionActive, sinceBye>>
    /\ UNCHANGED <<pc, rx, gDestIp, audioVars>>

-----------------------------------------------------------------------------
(* osip_timers_ist_execute and osip_timers_nist_execute *)

MainTimers(k, here, next) ==
    /\ pc = here
    /\ \E due \in [Live(k) -> Timeouts \cup {"none"}] : osip_timers_execute(k, due)
    /\ pc' = next
    /\ UNCHANGED <<rx, globals, audioVars, histVars>>

MainStep ==
    \/ \E m \in Messages : RecvSip(m)
    \/ \E p \in Peers : RecvUnparsed(p)
    \/ RecvNothing
    \/ SipProcess
    \/ ProcessNewReqAddEvent
    \/ \E k \in Kinds : MainCopyList(k) \/ MainExecuteNext(k) \/ MainExecuteEnd(k)
                        \/ MainExecuteEvent(k)
    \/ StartCopy
    \/ MainTimers("IST", "timers_ist", "timers_nist")
    \/ MainTimers("NIST", "timers_nist", "recv")

-----------------------------------------------------------------------------
(* RtpReceivingThread *)

RtpRecv(p) ==
    /\ rtpPc = "recv" /\ rtpCount < MaxRtp
    /\ gDestIp' = p
    /\ rtpPc' = "process" /\ rtpCount' = rtpCount + 1
    /\ UNCHANGED <<osipVars, pc, rx, gSpdPort, copying, gRtpSessionActive, recPc, recPort, histVars>>

\* RtpProcess opens the session; a datagram that is not RTP is dropped.
RtpProcess ==
    /\ rtpPc = "process"
    /\ rtpPc' = "recv"
    /\ \/ gRtpSessionActive' = TRUE /\ sinceBye' = 0
       \/ UNCHANGED <<gRtpSessionActive, sinceBye>>
    /\ UNCHANGED <<osipVars, pc, rx, gDestIp, gSpdPort, copying, rtpCount, recPc, recPort>>

RtpStep == RtpProcess \/ \E p \in Peers : RtpRecv(p)

-----------------------------------------------------------------------------
(* RecSamplesThread *)

\* Mutant of RecStart: starts to record whether or not a session is open.
RecStartAlways ==
    /\ recPc = "check"
    /\ recPc' = "record"
    /\ UNCHANGED <<osipVars, pc, rx, globals, rtpPc, rtpCount, recPort, histVars>>

RecStart ==
    /\ recPc = "check" /\ gRtpSessionActive
    /\ recPc' = "record"
    /\ UNCHANGED <<osipVars, pc, rx, globals, rtpPc, rtpCount, recPort, histVars>>

\* 20 ms later: atoi(gSpdPort).
RecReadPort ==
    /\ recPc = "record"
    /\ recPort' \in IF copying THEN Ports \cup {0} ELSE {gSpdPort}
    /\ recPc' = "send"
    /\ UNCHANGED <<osipVars, pc, rx, globals, rtpPc, rtpCount, histVars>>

RecSend ==
    /\ recPc = "send"
    /\ recPc' = "check"
    /\ sinceBye' = IF ~gRtpSessionActive /\ gDestIp # None /\ recPort # 0
                   THEN Min2(sinceBye + 1, 2) ELSE sinceBye
    /\ UNCHANGED <<osipVars, pc, rx, globals, rtpPc, rtpCount, recPort>>

RecStep == RecStart \/ RecReadPort \/ RecSend

UasNext == MainStep \/ RtpStep \/ RecStep

UasSpec == UasInit /\ [][UasNext]_vars

\* Every thread keeps running; nobody owes the program a datagram.
UasFairSpec == UasSpec /\ WF_vars(MainStep) /\ WF_vars(RtpProcess) /\ WF_vars(RecStep)

-----------------------------------------------------------------------------
(* Properties *)

Of(m) == {t \in Ids : tr[t].req = m}

\* Nothing is left in a FIFO but a timer J that the next turn executes before it looks at
\* the timers again, and every INVITE got its two answers.
AllExecuted ==
    \A t \in Ids :
        /\ tr[t].fifo \in {<<>>, <<"TIMEOUT_J">>}
        /\ tr[t].fifo # <<>> => t \in lists /\ tr[t].state = "NIST_COMPLETED"
        /\ tr[t].ctx_type = "IST" => tr[t].wire = <<"SND_STATUS_1XX", "SND_STATUS_2XX">>

\* A copy of a BYE goes unanswered only if it arrives while timer J is already queued: at
\* most one for each transaction that timer has ended.
Answers(m) == UNION {{<<t, i>> : i \in DOMAIN tr[t].wire} : t \in Of(m)}
ByeCopiesAnswered ==
    \A m \in Messages : m.kind = "request" /\ m.method = "BYE" =>
        Cardinality(Answers(m)) + Cardinality({t \in Of(m) : t \notin lists}) >= arrived[m]

\* What stays in the stack for good: a transaction for every copy of an ACK or a response,
\* one for every request no callback answers.  What BYE and CANCEL leave waits for timer J.
OnlyUnansweredStay ==
    \A m \in Messages :
        LET staying == {t \in Of(m) \cap lists : tr[t].state # "NIST_COMPLETED"}
        IN  Cardinality(staying) =
              CASE EventType(m) \in {"RCV_REQACK", "RCV_STATUS"} -> arrived[m]
                [] EventType(m) = "RCV_REQUEST" /\ m.method \notin {"BYE", "CANCEL"}
                     -> Min2(arrived[m], 1)
                [] OTHER -> 0

\* A turn of the main loop answers what it took in, completely, however copies, timers and
\* the threads on the shared variables come in between (main.c:126, SipProcess).
TurnIsComplete == pc = "recv" => AllExecuted /\ ByeCopiesAnswered /\ OnlyUnansweredStay

\* Once a BYE has closed the session at most one more frame is sent, the one
\* being recorded, unless RTP arrives again and reopens it.
OneFrameAfterBye == ~gRtpSessionActive => sinceBye <= 1

\* A BYE the program took from the socket is answered.
Taken(m) == pc = "sip" /\ rx = m
ByeIsAnswered ==
    \A m \in Messages : m.kind = "request" /\ m.method = "BYE" =>
        (Taken(m) ~> \E t \in Of(m) : tr[t].wire # <<>>)

=============================================================================
