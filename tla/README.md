# A verification project for sipmore

sipmore is a SIP softphone for Windows that answers every call it gets: one
thread runs the SIP side on top of the oSIP2 transaction layer, one thread
receives and plays RTP audio, one thread records and sends it. The repository
also holds oSIP2 with its parser, and libeXosip2, a complete SIP user agent on
top of oSIP2. This directory holds TLA+ modules that model these parts, TLC
configurations that model-check them, and TLAPS proofs about them.
`PROJECT.json` lists components, runs, mutants, the source lines of every
definition, the findings, hazards and theorems.

Paths are relative to the root of the repository (`src/main.c` is the program's
`main`, `lib/` the libraries).

Contents: [1 Inventory](#1-inventory) · [2 Modules and code](#2-modules-and-code)
· [3 Abstractions](#3-abstractions) · [4 Runs](#4-runs) · [5 Fairness and
deadlock](#5-fairness-and-deadlock) · [6 Findings and
observations](#6-findings-and-observations) · [7 Proofs](#7-proofs) ·
[8 Not modelled](#8-not-modelled) · [9 Plan](#9-plan)

## 1. Inventory

### Main loop: `src/main.c`, `src/ip_stack/udp_server.c`
- State: the SIP socket (non-blocking), the `osip_t` object, the globals
  `gRtpSessionActive`, `gSpdPort`, `gWavIsWriting`, `gDestIp`.
- Operations: a turn of the loop takes at most one datagram (`UdpServerProcess`
  stores its sender in `gDestIp`), hands it to `SipProcess`, executes the FIFOs
  of all transactions, then queues their timeouts.
- Interaction: the RTP thread calls `UdpServerProcess` too, on another socket,
  and so writes the same `gDestIp`; the record thread reads it.
- Hard: three threads, four plain globals, no lock.
- Correct when: a turn answers what it took in, completely; a BYE is answered and
  silences the microphone.

### SIP glue: `src/sip/sip.c`, `src/sip/callbacks.c`
- Operations: `SipProcess` matches a message with a transaction or makes a new
  one; the callbacks queue answers (180 and 200 for INVITE, 200 for BYE and
  CANCEL, none for other requests), close the session on BYE, take finished
  transactions out of their lists, and send every response to `gDestIp`.
- Hard: what is *not* matched (ACKs of a 200, stray responses, copies of an
  INVITE) makes a transaction that nothing ends, or a new call.
- Correct when: each request is answered as often as it has to be, and what
  stays in the stack is known.

### Server transactions: `lib/osip/src/osip2` (`osip.c`, `osip_transaction.c`, `ist*.c`, `nist*.c`)
- State: the lists of transactions; per transaction its state, the FIFO of events
  not yet executed, the last response, its timers.
- Operations: match, create, queue an event, execute an event (two state
  machines), queue timeouts, remove.
- Interaction: written for several threads. The receiver holds the list's mutex
  while it matches and queues; the executor copies the list under the mutex and
  works on the copy; the user queues answers whenever it likes.
- Hard: a message matched with a transaction that is being removed; a
  transaction listed before it has an event; a timer racing a retransmission; a
  send that fails in the middle of a handler; a user that answers twice or late.
- Correct when: nothing matched is lost, no request has two transactions, a state
  that only a timer leaves has that timer running, nothing but the final response
  follows the final response, and every completed transaction ends.

### Client transactions: `ict*.c`, `nict*.c`
The same shape, with timers A, B, D, E, F, K and a transport that may still be
connecting. Hard: responses, timeouts and a connecting transport in any order.
Correct when: every wait that has a timer ends, the request is repeated until it
was really sent, and the user hears provisional responses and then one end. With
the server side: both users agree on the outcome.

### Dialogs: `osip_dialog.c`
State: route set, remote target, CSeq numbers, tags, state. Made by a request or
an answer. Correct when both sides agree on them (see libeXosip2 calls).

### Parser, messages, SDP: `lib/osip/src/osipparser2`
- State: the structures, the text a message was parsed from or printed to and
  `message_property`, which says whether that text may be sent again.
- Operations: parse, print, clone and edit addresses, header fields, credentials,
  messages, bodies and session descriptions.
- Hard: separators inside quotes, brackets and comments; lines in an unexpected
  order; sequences of edits and prints after which a text is stale.
- Correct when: what is printed is read again as the same, what is held is what
  was given, and a text that is sent again is current.

### libeXosip2 calls: `eXcall_api.c`, `udp.c`, `jcallback.c`, `jcall.c`, `jdialog.c`, `eXosip.c`
- State: `eXosip_call_t` with its dialogs and the lists of its transactions,
  `d_200Ok` and `d_count` for the retransmission of a 200, retry counters,
  `j_transactions` (transactions of what has been released).
- Operations: what arrives (INVITE, CANCEL, ACK, BYE, re-INVITE, other requests
  and answers), what the application does (answer, terminate, cancel, ACK, request,
  retry), `eXosip_automatic_action`, the callbacks of the transactions,
  `_eXosip_release_terminated_calls`, `_eXosip_retransmit_lost200ok`.
- Interaction: one thread reads, and then, in a second critical section, executes
  and releases; the application's calls come between. Callbacks keep pointers to
  calls and dialogs in `reserved1` ... `reserved5` of a transaction.
- Hard: cancels that cross answers, answers that cross each other (forking),
  requests that cross within the dialog, retries with credentials whose number
  was taken meanwhile; a transaction that outlives its call.
- Correct when: one final response leaves; nothing freed is referenced; those
  who answered, and nobody else, are told; an ended call is released; both sides
  have the same route, target and refresher.

### libeXosip2 registrations and subscriptions: `eXregister_api.c`, `eXsubscription_api.c`, `eXinsubscription_api.c`, `jsubscribe.c`, `jnotify.c`
- State: the period asked for and granted, the transaction under way, retries; of
  a subscription also its dialogs and, on the other side, `eXosip_notify_t` with
  status, reason and `n_ss_expires`.
- Operations: register, change, remove; subscribe, refresh, answer, notify; the
  refreshes and retries of `eXosip_automatic_action`; 423, challenges, timeouts.
- Hard: refreshes that must come in time whatever was granted; answers and
  NOTIFYs that overtake one another; the end of a subscription on both sides.
- Correct when: who wants to be registered stays so; both sides have the same
  subscription, and it ends for both.

### libeXosip2 credentials: `jauth.c`, `eXosip.c`
State: accounts, remembered challenges (100 at most), nonce counts. Correct when
no count of a nonce is used twice and an answered challenge comes again only for
a reason.

### libeXosip2 TCP: `eXtl_tcp.c`
State: the table of connections with their buffers. Operations: accept, read, split
a stream into messages, find or open a connection, write, keep alive, reset.
Hard: the application sends (connects, evicts) while the thread reads, a slot is
chosen before a name lookup that gives the lock away, and the loop over a buffer
sends, which may free the buffer. Correct when: every
connection with a descriptor has one slot, messages are handed up whole, and a
message reaches the peer it is for.

### RTP receive and playout: `src/rtp/rtp_handling.c`
- State: the accumulation buffer `buf3000` with `bufsize`, the packet counter,
  two output blocks `gAudioBuf[0..1]`, the block counter `c`, one auto-reset event
  `hEventBlockPlayed` for both devices.
- Operations: gather two payloads, decode them into a block, give the block to
  its device, wait up to 60 ms for *a* block to have been played.
- Hard: which block the event was for; an event left over from opening the
  devices; a device that refuses a block.
- Correct when: no block is written while it plays, and what is played is in order.

### RTP send: `lib/audiostreaming/audiostreaming.c`
While `gRtpSessionActive` is set: record 20 ms, compose a frame, read `gSpdPort` and
`gDestIp`, send. Hard: the flag is read 20 ms before the frame is sent; the port is
a string another thread may be writing. Correct when silence follows a BYE.

### G.711, queue, WAV, RTP packets
`lib/codec/g711/itu/g711itu.c` and `lib/codec/g711/m/g711.c`: coder and decoder of a
call come from different sources with different scales; correct when what is
decoded is close to what was recorded. `lib/queue/simple_queue.c`: init, put, get;
called by nobody, and not modelled. `lib/wav/wav.c`: the file is created, appending is compiled out.
`lib/rtp/rtp.c`: conversions of the header.

## 2. Modules and code

| Module | Models | Uses |
|---|---|---|
| `ServerTransaction`, `ClientTransaction` | what a transaction promises to its user, abstractly | |
| `OsipServer` | oSIP2's server transactions, with their threads | refines `ServerTransaction` |
| `OsipClient` | oSIP2's client transactions | refines `ClientTransaction` |
| `SipPair` | client and server over a network that loses, delays, reorders | extends both |
| `SipUas` | main loop, SIP glue, callbacks, the audio threads' use of the globals | extends `OsipServer` |
| `ExIncoming`, `ExOutgoing` | a call of libeXosip2, of either direction, from INVITE to release | |
| `ExDialog` | two users of libeXosip2 in one dialog | |
| `ExRegister`, `ExSubscription` | a registration; a subscription on both sides | |
| `ExAuth` | credentials and remembered challenges | |
| `TcpTransport` | the TCP connections of libeXosip2 | |
| `SipText`, `SipUri`, `SipHeaders`, `SipAuth` | parsers and printers of addresses and header fields | each extends the one before |
| `HeaderTexts`, `HeaderSamples` | what is asked of them, and the texts it is asked for | extend these |
| `SipMessage`, `MessageSamples` | messages and bodies | extend `SipText` |
| `SdpMessage` | session descriptions | |
| `RtpPlayout`, `G711` | playout, u-law codecs | |
| `MC...` | small instances for TLC; `MCData` runs the parts that work on data, one by one | |
| `...Proofs` | theorems about the module of that name; `SipPairProofs` has those of `OsipClient` too, `ExIncomingProofs` those of `ExRegister` | |

### OsipServer
`tr[t]` is the `osip_transaction_t` with number `t`: its kind, the request that
made it, its `state`, its FIFO `transactionff`, `last_response`, the timers that
were started, and the interval of timer G. `wire` is a history: the responses
handed to `cb_send_message` with success. `lists` are the transactions that are in
`osip_ist_transactions` or `osip_nist_transactions`; `array[k]` is what is left of
the copy `osip_ist_execute` / `osip_nist_execute` made of a list; `incoming` is a
transaction that is made and listed but whose first event is not queued yet.

- `Receive` is `osip_find_transaction_and_add_event` (search and queueing under
  one lock) or, with nothing found, `osip_create_transaction` up to the insertion
  in its list; `AddFirstEvent` is what the caller does next.
- `ExecuteBegin` copies a list, `ExecuteEvent` executes *one* event, `ExecuteNext`
  goes on to the next transaction of the copy. The receiver, the timers and the
  user interleave with them at every event.
- Each handler is an operator named after its C function (`ist_snd_2xx`,
  `nist_rcv_request`, `osip_ist_timeout_g_event`, ...). A handler includes the send,
  which may fail: then `transport_error` ends the transaction. The transition
  tables are `transitions`; an event they do not list is dropped.
- `FireTimer` is one transaction's part of a pass over the timers.
  `osip_transaction_add_event` is the user's answer, any response at any time after
  the request was announced.

### OsipClient, SipPair
`ct[x]` is the client transaction of request `x`; `ch[m]` counts the copies of `m`
on their way. `osip_xict_execute` executes one event, with a transport that
answers "sent", "progress" (still connecting) or "error". `SipPair` hands `ch` to
`OsipServer`'s `Receive`, and what the server writes to `back`, from which the
client hears; `Lose` takes a copy of either away.

### SipUas
The main thread's position is `pc`, its actions in order: `RecvSip` (or
`RecvUnparsed`, `RecvNothing`), `SipProcess`, `ProcessNewReqAddEvent`, then for
IST and NIST `MainCopyList`, `MainExecuteEvent`, `MainExecuteNext`,
`MainExecuteEnd`, then `MainTimers` for both. `MainExecuteEvent` is `OsipServer`'s
`ExecuteEvent` together with the callback the handler calls: what it queues and
what it does to the globals. An action is what no other thread can tell apart; the
`strcpy` into `gSpdPort` is split (`copying`), because the record thread may read
the string meanwhile. The RTP thread is `RtpStep`, the record thread `RecStep`.
`sinceBye` is a history: frames sent since the session was closed.

### ExIncoming, ExOutgoing
One record is the `eXosip_call_t`: `c` in `ExIncoming` with its dialog, the state,
FIFO and answers of its transactions ("inc" the INVITE that made it, "re" a
re-INVITE, CANCELs of either, BYEs of both sides) and which transactions point at
the call and at the dialog. `pc` says in which of its two critical sections the
thread is next: `Peer` or `ReadNothing` is `_eXosip_read_message` with all that
`udp.c` does, `eXosip_execute` the second one: timers, callbacks, releases.
`Application` is the `eXosip_call_*` functions. `ExOutgoing` keeps the callees
too: who answered, who hung up, what the proxy refused.

### ExDialog, ExRegister, ExSubscription
`ExDialog` has the `eXosip_dialog_t` of each side in `user` and the messages under
way in `net`. Requests are built (`Build`: `eXosip_call_build_request` and
`build_ack`), sent, answered, challenged and retried; `SessionTimer` is the
refresh of `eXosip_automatic_action`. `Path` is what proxies make of a request.
`ExRegister` has the `eXosip_reg_t` in `jr`, its transaction in `tr` and the
registrar's clock in `bound`. `ExSubscription` has the `eXosip_subscribe_t` in `js`
and the `eXosip_notify_t` in `jn`; both sides are libeXosip2, each with its thread
and its application.

### ExAuth
`authinfos` are the accounts, `http_auths` the table of remembered challenges,
`reqs` the requests with their credentials. A digest is a term: who computed it
over which nonce, count and account.

### TcpTransport
`tab` is `socket_tab`, `conn` the operating system's connections (external). The
thread's `pc` goes through select, accept, the slots, the state machines; a read
that finds a message hands it up, the rest stays in the buffer. `handle_messages` is
one round of its loop, which goes through the buffer by pointers of its own: `rest`.
When a send inside the loop closes the slot (`Freed`), the next round finds what was
there, nothing, or anybody's message (`Found`), and who is to be answered is what
the slot says by then (`Asker`). `app` is where the
application is in a call: the name lookup in the middle lets the thread go on.
`orphans` and `heirs` are histories: connections whose slot was written over, and
those that got it, with what was in its buffer.

### Parsers
A text is a sequence of tokens: the characters the code looks at, and words,
names and numbers as wholes. Parsers are functions of texts to structures or
`Failed`, printers their counterpart, each named after its C function.
`HeaderTexts` takes every text of the pieces of `HeaderSamples`; `SipMessage` takes
texts of lines, and an application that sets, replaces, prints and clones;
`SdpMessage` chooses the lines as the parser looks at them.

### RtpPlayout, G711
`First` and `Second` are `RtpProcess` for the packets of a pair, `BlockPlayed` and
`Timeout` the two ways out of `WaitForSingleObject`, `Resume` the rest. `Device` is
a waveOut device (external) that ends a block and sets the event; `waveOutWrite`
may refuse a block, as the code ignores its result. `ulaw_compress`, `ulaw_expand`
and `MuLaw_Decode` are functions of a sample or a code.

## 3. Abstractions

- In the transaction layer a message is a kind, a CSeq method and the branch of
  its top Via (in `SipUas` also the sender and the RTP port of its SDP). Two
  messages match if branch and method do; the sent-by part and the RFC 2543 rule
  are folded into the branch. Responses are known by their class, which is what
  the events tell apart.
- In the transaction layer time is not counted: a started timer may fire at any
  moment. That includes every moment the clock allows, so safety carries over.
  In `ExRegister` and `ExSubscription` time goes in ticks, because what is asked is
  whether a refresh comes in time: a tick passes when nothing is left to do, the
  network and the threads are faster than a tick, an application need not be.
- A failed send includes its partial effects (the last response is set, the
  interval of timer G is doubled). In `SipUas` no send fails: `CbUdpSendMessage`
  returns success whatever `sendto` says.
- The kill callback of the program removes, and does not free. In libeXosip2 it
  removes, clears or keeps references; these are kept as sets of pointers, and
  memory is nothing more than that.
- `gWavIsWriting` stays 0: the code that sets it is compiled out.
- Datagrams are lost, duplicated and reordered at will: each message of the
  configured set arrives any number of times up to a bound, in any order.
- The `Ex` modules see transactions from their user. That a lost request is sent
  again and a copy answered again is `OsipClient` and `OsipServer`; there a late
  message stands for one that was lost first.
- In `ExDialog` the numbers of both sides start at that of the INVITE; in the code the
  callee's start at 1 (`jdialog.c:206`). The numbers of one direction are only
  compared with one another.
- Of a proxy `ExOutgoing` assumes that it forwards no refusal after a 200 and no
  second refusal (RFC 3261, 16.7).
- In `RtpPlayout` time is kept as far as it orders things: a block ends within 60
  ms and, of two, the one that started first and is not longer ends first.

## 4. Runs

| Run | States | Shows |
|---|---|---|
| `osip_alone` | 45 865 | Each side of the transaction layer by itself. One server transaction, for an INVITE or a BYE, whichever comes first, with copies, ACKs, failing sends and a user who answers anything at any time. An INVITE, or a BYE over a reliable transport, against a peer that answers anything, over a transport that is connecting, fails or loses. |
| `osip_pair` | 535 086 | The two against each other over a network. |
| `uas` | 161 486 | The main loop with both audio threads: a call of one peer, an OPTIONS and a stray response of another, each up to twice in any order, and RTP. |
| `ex_incoming` | 290 754 | Up to four messages of the peer among INVITE, CANCEL, ACK, BYE, re-INVITE and copies, an application that answers and terminates at any time, timers that run out at any turn. |
| `ex_outgoing` | 115 762 | A call forked to two callees, an application that cancels, acknowledges and hangs up, a retry with credentials or elsewhere. |
| `ex_register` | 50 492 | Refreshes, challenges, 423, short grants and outages, an application that asks for another period at any time. |
| `ex_subscription` | 426 240 | Three SUBSCRIBEs, two NOTIFYs, answers that cross, one thing lost, refused or challenged. |
| `ex_dialog` | 1 600 005 | Re-INVITEs, INFOs and session refreshes of both sides that cross, are challenged and retried, through two proxies, one or none, with contacts that move. |
| `ex_strict` | | A finding of section 6: `RouteRetraced` is violated with a strict router. |
| `tcp` | 2 645 390 | Three connections of two peers over a table of two, an application that sends once and resets once. |
| `tcp_freed` | | The other finding of section 6: `ConsumesItsBuffer` is violated by a reset. |
| `data` | 1 073 088 | The parts that work on data, one by one: header fields 282 882, messages 153 496, descriptions 206 481, credentials 430 004, playout 225 states; the codecs for every sample and code. |

What the properties say:

- `WaitsOnTimer`, `ClientWaitsOnTimer`: a transaction that only a timeout can end
  has that timer running; on the client side the request is also repeated until
  it was really sent over something that does not lose it. `CompletedEnds`,
  `ClientEnds`: such a transaction ends.
- `KeepsPromise`, `ClientKeepsPromise`: `OsipServer` implements `ServerTransaction`,
  `OsipClient` implements `ClientTransaction` (refinement).
- `NoStrandedMessage`: no race of the receiver with the executor that removes a
  transaction leaves a message in a FIFO nobody executes again.
  `OneTransactionPerRequest`: a message never finds two transactions.
- `RefusalWasHeard`, `OneOutcome`: what the server takes for confirmed the client's
  user has heard; the final response he heard is the only one that was sent.
- `TurnIsComplete`: between two turns nothing is queued but a timer J, each INVITE
  got its two answers, a copy of a BYE is unanswered only if it came in while
  timer J ended its transaction, and exactly the messages nobody answers (ACKs
  of a 200, stray responses, other requests) have left a transaction behind.
  `OneFrameAfterBye`: after a BYE at most the frame being recorded is sent, until RTP
  reopens the session. `ByeIsAnswered`: a BYE that was read gets its 200.
- `NoDangling`: a transaction that oSIP still runs points at nothing that was freed.
  `OneFinal`: an INVITE gets one final response whatever is queued.
  `EndedIsReleased`, `ClosedIsReleased`: an ended call is released, and its 200 not
  repeated for ever. `RightCallees`, `AnswerIsMet`: ACK and BYE go to those who
  answered; at most one callee stays in the call; every answer is met.
- `StaysBound`, `Recovers`: a registered user stays so while nothing is lost or
  refused; what the application wants comes about in the end.
- `StaysSubscribed`, `SameForBoth`, `NoStaleUse`, `EndsForBoth`: the same for a
  subscription, on both sides, unless somebody asked for less than the notifier's
  least; no callback uses one that was freed.
- `RouteRetraced`, `TargetAgreed`, `NoGlare`, `OneRefresher`, `IgnoredOnlyByRetry`:
  every request passes the recorded proxies in order; contacts agree once no
  INVITE is under way; of two crossing INVITEs one is refused (but for what follows
  a retry that went out while another INVITE of that side was open); one side at
  most refreshes; only a number that a retry took is dropped as a copy.
- `WholeAndInOrder`, `OneSlot`: what comes in is handed up whole, and a connection with
  a descriptor has one slot; but for connections that got a slot that was written
  over, and those that lost it. Both also hold when the loop goes on over a freed
  buffer: a closed connection has no stream to be handed up, and what is found in
  its memory disturbs no other's. `RightPeer`: what goes out reaches the peer it is
  addressed to, unless the connection it was meant for is closed; the address is the
  one that was computed, which for a request found in freed memory is nobody's or
  that of the slot's next connection.
- `PrintedIsReadAgain`, `HoldsWhatWasGiven`, `TextIsCurrent`: see the comments in
  `HeaderTexts`, `SipMessage`, `SdpMessage`. Exempt from the first is, among what
  `Ordinary` names, a body that begins with a NUL, which the parser drops. `NumberedOnce`,
  `ChallengedAgainForAReason`: `ExAuth`. `PlaysFirstOfPair`, which includes
  `NeverOverwritten`: playout. `CodecsAgree`: what is decoded is at most half a step
  away, or the loudest level for what is louder, for all 16-bit samples, and what is
  played has a quarter of its amplitude.

Each property of a passing run has a mutant of a modelled definition under which
that run finds it violated (`PROJECT.json`, "mutants"; the mutated operators stand
before the definitions they mutate).

### Bounds, and why they are enough

`MaxFifo`, `MaxWire`, `MaxEvents` and `MaxQueue` only stop timers and users from queueing
for ever; no handler is cut short by them. Where section 7 has a theorem, it
holds for every value, and the bounds only keep the run small.

- `osip_alone`: one transaction of either side, as its properties depend on no second
  one; two copies of a message; `T1 = 1`, `T2 = 2`, the smallest values for which
  doubling and the limit of timer G both happen; `MaxHeard = 3`: a provisional, a final
  and a late response. The two sides share no step: a behaviour is of one or the other.
- `osip_pair`: two server transactions are what a race for one request needs, the
  one being removed and the one being made; two copies what a retransmission does.
- `uas`: transactions interact through the lists' order, the globals and the
  socket only; three let leftovers of either kind coexist with a call.
- `ex_incoming`: `LastCount = 1` in place of 9 drops a call after one retransmission
  without ACK; four messages are INVITE, re-INVITE and two that race.
- `ex_outgoing`: two callees, one to answer and one to cross it; one retry.
- `ex_register`: ticks of 15 s, the width of the rule on short grants; periods below
  and at the registrar's least; two troubles, so that a recovery can fail.
- `ex_subscription`: ticks of 24 s, periods of 30 and 50 s against a least of 50;
  three SUBSCRIBEs are the first, a refresh and the one that ends it.
- `ex_dialog`: four calls with bounds of their own (proxies, requests, moves of a
  contact, challenges): two requests cross, a third is a retry or a refresh.
- `tcp`: a table of two and three connections, so that it is full and one is
  evicted; four pieces may be in a buffer together; peers are symmetric. One call
  and one reset: a reset must be able to close a connection the call is about to use.
- `data`: the pieces of `HeaderSamples` and `MessageSamples`, texts as long as it
  takes to have one separator inside another; four edits of a message, six lines
  of a description, four requests of one Call-ID or several; ten RTP packets (four
  pairs visit every combination of running, refused and left-over blocks).

## 5. Fairness and deadlock

Fairness is stated for what the code does without being asked, never for
arrivals, users or the network, but for the two obligations named below.

- `ServerFairness` of `OsipServer`: weak fairness of the executor for both lists, of
  queueing a new transaction's first event, and of the timers that end a wait. The
  loop never stops and visits all of them in each turn, and `osip_timers_*_execute`
  compares every started timer with the clock.
- `ClientFairness`: weak fairness of the executor; strong fairness of the timers that
  end a wait (B, D, F, K), since the guard of a timer (nothing else of its kind
  queued) goes up and down.
- `UasFairSpec`: weak fairness of the main thread as one whole (its actions are
  taken in program order), of the RTP thread's processing and of the record thread.
- `ExIncoming`, `ExOutgoing`: weak fairness of both critical sections of the thread,
  strong fairness of a turn in which every timer has run out (timers do run out),
  and weak of time passing (`Age`, `ExpireTime`). Of the application only what the
  library's documentation makes its duty: it waits for events (which retransmits
  200s), and acknowledges a 200 it was told of. `Rcv2xx` is strongly fair, as a
  callee repeats its 200.
- `ExRegister`, `ExSubscription`: weak fairness of the threads, of the clock, of
  `eXosip_automatic_action`, which the application has to call once a second or so,
  of sending what it has built, of answering a SUBSCRIBE, and of the notifier's
  last NOTIFY when it owes one.
- The playout's fairness is not needed: its properties are safety.

The run `uas` checks for deadlock: the loop can always take a turn. The others say
`CHECK_DEADLOCK FALSE`, because a run of them ends when no more input may arrive
(all copies, requests, troubles or packets have been used and nothing is
pending), and `data` has texts that are parsed in a single step.

## 6. Findings and observations

**A strict router loses a route** (`ex_strict`). With "the UAC MUST add a route
header field containing the remainder of the route set values in order"
(`jrequest.c:809-810`), `dialog_fill_route_set` takes the first route for the
request URI and then leaves out the *last* instead of the first. With two
proxies, the nearer one strict, the caller's request misses one of them.

**A buffer is freed under the loop** (`tcp_freed`). `handle_messages` says "consume any
complete messages in sockinfo->buf" (`eXtl_tcp.c:369-370`), by pointers of its own.
When a 2xx that comes late is among them, its ACK is sent from inside the loop (424),
`tcp_tl_send_message` looks for connections that were reset (`check_connected`), and
closes this one: `eXtl_tcp.c:146` frees the buffer. The loop (372-432) goes on over
freed memory and hands up what it takes for a message there, with the peer and the
socket the slot has by now.

What follows was met while modelling. The model has this behaviour, and the
properties are stated so that it shows in an exemption or a history.

*The program.* An ACK of a 200 gets a NIST of its own that nothing ends (`sip.c:31`;
`osip.c:851` says an ACK never creates one). Responses follow the last datagram of
either socket, not the Via (`callbacks.c:27`). The answer repeats the caller's RTP
port (`callbacks.c:161`, compare 179). Half of each pair of packets is not played
(`rtp_handling.c:129-135`).

*Calls.* Any ACK of the dialog stops the retransmission of a 200 (`udp.c:174`). A
late copy of an INVITE makes a new call after the end of the first; a second copy
in the dialog gets 486, as `udp.c:889` compares the name of one branch with the
value of the other. A 481 to an INVITE with a To tag leaks (`udp.c:424-434`).
`eXosip_call_terminate` right after a queued 200 queues a 603 that is discarded; by
a side that has sent an INVITE it leaves the peer's pending re-INVITE unanswered.
`automatic_action` sends an INVITE again after the application cancelled if a 401
crosses. A 200 that a BYE overtook is dropped (`jcallback.c:696`). 3xx are followed
without limit. `OSIP_ICT_STATUS_TIMEOUT` is never reported (`eXosip.h:310`).

*Dialogs.* A retry with credentials takes the number after that of the refused
request (`eXcall_api.c:1255`), which another request may have: the peer drops it.
`build_ack` takes number and credentials of the last INVITE of either side. A
retry is sent without a look at the other INVITEs of that side
(`eXcall_api.c:1379`): the application may have sent one meanwhile, and the peer
accepts both (`seen.doubled`). A
re-INVITE that is refused has already changed the target (`udp.c:991`), and its
retry carries the old contact. After a refresh the next one is due only after one
and a half intervals until the answer sets the clock back (`eXosip.c:862`).

*Registrations.* A 423 turns an unregistration into a registration
(`eXregister_api.c:160-182`). The period is set before the state is checked. A grant
within 15 s of the period is not followed (`jcallback.c:905`), see section 7.

*Subscriptions.* `_eXosip_find_last_inc_notify` searches the outgoing transactions,
so its 500 is never sent. A NOTIFY that matches nothing is never answered. A
refused SUBSCRIBE leaves its `eXosip_notify_t` for ever. A refused refresh is never
tried again. A refresh for less than the notifier's least, which `udp.c` answers
with 423, lets the subscription lapse (`seen.short`). Of the transactions that
are over, `_eXosip_release_finished_transactions_for_subscription` removes one per
call (`udp.c:2080-2140`). A NOTIFY "terminated", or an early dialog that was never confirmed,
frees the subscription with the dialogs of all forks.

*Credentials.* A retry drops all credentials but those for the last response, so
a request challenged by proxy and server never carries both. The table of 100
remembers nonces of calls that are gone. Nonce counts are printed in decimal.
Realms are compared as prefixes.

*TCP.* A slot is chosen before the name lookup (`eXtl_tcp.c:768-791`). An accept may fill
it meanwhile; connecting then writes it over (977), and the new connection begins
with what is left in the buffer of the other. A response goes to whoever has the
descriptor its request came by (1274), which `RightPeer` exempts; a full table evicts slot 0 (537).

*Texts.* A parameter with a blank value is accepted and printed as one that is
refused; text around the brackets of a host is dropped; an unquoted parameter of
a challenge takes the quoted value of the next (`osip_www_authenticate.c:96`);
header names are capitalised only strictly between 'a' and 'z'; setters of the
first line do not touch `message_property`; a print after `osip_message_to_str_sipfrag`
returns the fragment; the last of a list of values is lost if it is one character
(`osip_message_parse.c:573-588`); a body of length 0 can be neither cloned nor
printed; a body that begins with a NUL is dropped with success, as "no body found"
(`osip_message_parse.c:891`). SDP: lines out of order are dropped or taken by a later step, a line
without '=' is skipped with the next, a clone may lose lines;
`sdp_message_a_attribute_del_at_index` of a media deletes all with index 0 and does
not end with another (`sdp_accessor.c:613-628`).

## 7. Proofs

Every theorem holds for all values of the constants that satisfy the named
assumptions of its module: any messages, copies, transactions, slots, periods and
bounds of queues. The bounds of the runs play no part in them.

| Module | Theorems | Assumes |
|---|---|---|
| `OsipServerProofs` | `SpecInv`, `SpecTypeOK`, `SpecWaitsOnTimer`, `SpecFinalIsFinal`, `SpecNoStrandedMessage`, `SpecOneTransaction`, `SpecKeepsPromise` | `OsipAssumption` |
| `SipPairProofs` | `ClientSpecInv`, `ClientSpecTypeOK`, `ClientSpecWaitsOnTimer`, `ClientSpecKeepsPromise` | `ClientAssumption` |
| | `PairSpecInv`, `PairSpecRefusalWasHeard`, `PairSpecOneOutcome`, `PairSpecServer`, `PairSpecClientKeepsPromise` | and `OsipAssumption`, `PairAssumption` |
| `SipUasProofs` | `UasSpecInv`, `UasSpecTurnIsComplete`, `UasSpecOneFrameAfterBye` | `OsipAssumption`, `UasAssumption`, `BranchAssumption` |
| `ExIncomingProofs` | `IncomingSpecInv`, `IncomingSpecNoDangling`, `IncomingSpecOneFinal` | `ExIncomingAssumption` |
| `ExOutgoingProofs` | `OutSpecInv`, `OutSpecRightCallees` | none |
| | `RegSpecInv`, `RegSpecTypeOK`, `RegSpecStaysBound` | `ExRegisterAssumption`, `GrantsAssumption` |
| `ExDialogProofs` | `Types`, `OnlyRetriesIgnored`, `OneTaken`, `Refreshed` | `ExDialogAssumption` |
| | `RouteKept` | and `LooseProxies` |
| `ExSubscriptionProofs` | `SubTypes`, `NothingUsedStale`, `OneForBoth` | `ExSubscriptionAssumption` |
| | `StaysForBoth` | and `ShortTicks` |
| `TcpTransportProofs` | `TcpSpecInv`, `TcpSpecOneSlot`, `TcpSpecRightPeer` | `TcpAssumption` |

The assumptions give the constants their types, but for these, which say
something:

- `GrantsAssumption`: `_eXosip_update_expires_according_to_contact` does not follow a
  grant that is within 15 s of the period, and the application calls
  `eXosip_automatic_action` once a tick. The refresh, a tenth of the period or 6 s
  before the end, must make up for both. A registrar that grants 96 s of 110 for
  example would let the binding lapse. This is a requirement on the registrar and
  on the application, and the theorem is false without it.
- `ShortTicks`: of a subscription, that `eXosip_automatic_action` is called often
  enough for its periods. A request waits for its answer until timer F, a refresh
  until its time has come; from the last call before that to the next one there must
  be time left of what the notifier granted. `MCExSubscription` has TLC check it for
  the periods and the tick of the run.
- `BranchAssumption`: what comes with the same branch and method is the same
  message again, as RFC 3261 demands of a branch.
- `LooseProxies`: every proxy that recorded itself did so with ";lr". Without it
  `RouteKept` is false, see the run `ex_strict`.
- `~SendMayFail` of `UasAssumption`: `CbUdpSendMessage` returns 0 in any case.

No property is inductive by itself; this is what each invariant adds.

**Server.** `FinalIsFinal` compares what was sent with what was sent. A step sends
what is queued or `last_response`, so the invariant says that an open transaction
has sent no final response and that `last_response` is what was sent last
(`WireFits`). A failed send sets `last_response` without sending, but the transaction
is then over. `NoStrandedMessage` is about lists, the executor's copies and FIFOs: the
half-made transaction is in its list and idle (`Prepared`), what is not listed gets
no received message, and the executor leaves a transaction of its copy only when
its FIFO is empty. `OneTransactionPerRequest` needs that a listed transaction's
request is a message the list was searched for (`Requested`) and that ids are fresh
(`Numbered`). `Local` collects what concerns one record, `Step` how a record may
change; one lemma for each kind of handler, `ExecuteStep` for a whole event. `Step`
contains `Promised`, what `ServerTransaction` allows on one record, so that the
refinement follows from the same lemmas.

**Client.** `TimersRun` adds that a transaction which has not sent its request yet
has the timers it will wait on; `Allowed` says, in the terms of `ClientTransaction`,
how state and reports may change. Every handler takes the first event and sets the
same fields, which `HandledStep` treats once.

**Pair.** The steps of the pair are steps of the server (`PairSpecServer`, so all
server theorems hold over the network) and moves of the client. `Answered`:
whatever the client has heard, is about to hear or has coming was sent by a
transaction of that request. `Acked`: an ACK on its way, or the wish to send one,
means that the refusal was heard. `OneOutcome` is `Answered` with `FinalIsFinal`.

**Main loop.** A transaction goes through few shapes that depend on what its
request calls for (`Shaped`), where the thread is says which have nothing left to
do (`Phases`), and what has arrived is counted: each copy of a BYE was answered, is
owed an answer, or came while timer J ended its transaction (`Counted`). The
properties follow at `pc = "recv"`, where nothing is owed. `FrameInv` relates the
record thread's position to the number of frames since the BYE. This proof found
an error in the model: a response whose CSeq says INVITE fitted two arms of a
CASE in `EventType`; `evt_set_type_incoming_sipmessage` looks at the kind first,
and so do the arms now.

**Incoming call.** `Sound` is a predicate of the call's record, and one lemma for
each operation says that it keeps it. `References`: pointers at the call or the
dialog are of transactions in its lists, and there are none when it is gone; this is
what makes `NoDangling` inductive. `Once` and `Finals` relate an INVITE's state to
what was sent for it. What is queued is executed by a recursive function; its
lemma is an induction over the queue, with a set of naturals in place of a
predicate, from the fact that such a set has a least element.

**Outgoing call.** ACKs and BYEs go to `remote_tag` of the one dialog, which moves from
callee to callee. That it is the right one rests on the order in which the INVITE
transaction hears them (`Decided`): an early dialog goes with a last response 1xx, so
that `eXosip_call_terminate` sends CANCEL and no BYE, a confirmed one with a 2xx of the
callee it names; after a 2xx the transaction is over, and the dialog moves no more.
`Acknowledged`: once somebody has an ACK and no BYE, the dialog has sent its ACK
(`d_ack`) and sends no second one. The queue is executed as in the incoming call.

**Registration.** `StaysBound` relates two clocks. While nothing goes wrong a
REGISTER and its answer take no time (`Stage`, `Fits`), and a registered user is
either about to be registered again, after one challenge at most, or was granted
`g` seconds `tr.age` seconds ago, with a period of no more than `g` and 15 (`Kept`).

**Dialog.** `Numbers`: the pending requests of a side have numbers of their own up
to its `local_cseq`, above what the peer has seen, unless a retry carries the
number; a BYE has the last one. `Exchange`: an INVITE is on its way, or waits at
the peer, or its answer is on its way (`Stage`), one of the three, its sender waits
for it, and it is the newest of either direction (`Latest`); so not both sides
have taken one. `Refresh`: which of the two refreshes is settled by the first INVITE
(`WhileFirst`), and no later request or answer says otherwise (`Says`). `Routes`:
what is recorded, kept, copied into retries and on its way names the proxies in
order. Proving `NoGlare` showed what four small calls had not: a
retry looks at no other INVITE of its side (section 6); `seen.doubled` is there
for it.

**Subscription.** `Stale`: a request that was replaced was challenged or answered
with 423, and neither frees anything (`Harmless`). `OneInv`: subscriber and notifier name the same
dialog while either holds on to it (`Dialogue`); whatever is on its way, answer or
NOTIFY, belongs to it (`OnItsWay`, `Waiting`, `Refusing`); an early dialog comes only
with a request that is not answered (`Ringing`); and when one side has let go the
other was told, or gave up by itself (`Left`, `Held`). The attempt corrected the model
twice: `_eXosip_release_finished_transactions_for_subscription` removes one
transaction per call, and the age of a request has to be followed up to the period
that was asked for. `StaysForBoth` needs `TimeInv` on top. It measures everything
against the last SUBSCRIBE of the subscriber (`Latest`): all before it have been
answered (`Behind`), and nothing that is on its way or that the notifier holds is
newer (`Newest`) or says other than what it asks for (`Says`). Before the first
answer the time of the notifier is that of the first request (`Rings`); afterwards,
unless the last request is still on its way, the time left is what it asked for less
its age, and the period the subscriber reckons with is no longer than that (`Keeps`,
`Opening`). By `ShortTicks` that age leaves some time.

**TCP.** `Table`: descriptors and slots match one another both ways. A slot in use
has a connection (`Backed`), a connection a slot (`Reached`), neither shares with
another (`Distinct`), and a slot has the name of the peer its connection is to
(`Named`). A new descriptor is free by a pigeonhole (`NewFdFree`). The loops over the
slots keep `Table` by induction. `Places` is what the thread and the application rely
on when the other has run in between. For `RightPeer` every step also keeps
descriptor and peer of a connection until it is closed, and a closed one stays so
(`Stays`): a response that is owed and a write that was prepared have the address of
the connection they are meant for, or that one is closed, or, when the slot was
closed under the loop, nobody's (`Addressed`). The attempt
to prove that messages are handed up whole showed that a smaller instance had
hidden the case of `eXtl_tcp.c:977` above; the history `heirs` and the bound
`MaxResets` are there for it.

### Only model-checked

- Liveness, which needs fairness or ENABLED and is out of the prover's reach:
  `CompletedEnds`, `ClientEnds`, `ByeIsAnswered`, `EndedIsReleased`, `AnswerIsMet`,
  `ClosedIsReleased`, `Recovers`, `EndsForBoth`.
- The data properties of the run `data`. What a recursive parser computes for every
  text is an induction over data with an operator as parameter, which the
  installed provers cannot instantiate; these modules also use recursive
  operators. `CodecsAgree` is checked for its whole domain.
- `WholeAndInOrder`, which is about the concatenation of sequences filtered and
  flattened by folds, again an induction over data.
- `TargetAgreed` and the playout: within reach, not proved yet,
  see section 9.

## 8. Not modelled

- Ports of threads, semaphores, conditions and time (`osip2/port_*.c`): their meaning
  is in the actions (a critical section is one action).
- MD5, allocation failures and generic getters of the parser; the fields inside a
  line of SDP.
- PRACK, UPDATE, REFER, OPTIONS, MESSAGE, PUBLISH of libeXosip2, forked subscriptions,
  outbound and GRUU parameters, AKA digests.
- UDP (one socket and no state), TLS and DTLS (the table of TCP with OpenSSL's states
  in between), name resolution and SRV records, opening the listening socket, a
  full send buffer.
- Configuration, offers and the event queue of libeXosip2: pure data.
- RTP header fields, the send thread's counters, `PlaySamplesThread` (compiled out).
- WAV: created at start, appending and finishing are compiled out or unreachable.
- A-law and the other G.711 sources: called by nobody.
- Start-up of the program: `Init` is the state after it (`hEventBlockPlayed` may be set
  by the opening of the devices).
- The element queue, which nobody calls (and which has no limit at `maxElements`,
  `simple_queue.c:127`).
- Memory: what is leaked, and reads and writes past buffers other than of bodies.
  Memory that is used after it was freed is in `TcpTransport` and in the references of
  the `Ex` modules.

## 9. Plan

1. `TargetAgreed` of `ExDialog`: on top of `Exchange`, which contact each message on
   its way carries.
2. `NeverOverwritten` and `PlaysFirstOfPair` of `RtpPlayout`, for any number of packets.

Beyond proofs: forked subscriptions in `ExSubscription`, and payloads of
different lengths in `RtpPlayout`, where a shorter block ends first.
