# accrtsprtc: specifications, model checking and proofs

accrtsprtc publishes RTSP cameras to a Janus WebRTC gateway. An HTTP server
(`accrtsprtc.py`) starts one subprocess (`janus.py`) per publisher; the
subprocess joins a Janus video room, opens the RTSP stream with PyAV and
publishes its H.264 packets over a WebRTC stack that the repository carries in
`aiortc/` (peer connection, RTP, SCTP, DTLS) and `aioice/` (ICE, STUN, TURN).

This directory holds TLA+ models of that code, the TLC configurations that
check them, and proofs of the central safety properties. `PROJECT.json` maps
every definition to the lines it stands for, and lists the hazards of this code
with the properties that are about them.

## 1. Inventory

| Component | State | Operations | What is hard | What makes it correct |
|---|---|---|---|---|
| **HTTP server and registry** `accrtsprtc.py` | `RequestHandler.clients` (shared by all handler threads, no lock); per client its process, its `queue.Queue(3)`, its log file | `check_start`, `check_stop`, `subprocess_msg`, `restart_client`, `kill_subprocess` | one thread per request, several statements between a look-up and the last use of what it found; a blocking `put`; late reports of a killed worker | no worker out of reach of a stop; publishers do not disturb each other; a start's answer is true; nobody blocks for good |
| **Publishing subprocess** `janus.py` | stage of `loop()`, Janus session, peer connection, player | connect, attach, join, publish, event handlers, `send_msg_to_main` (synchronous HTTP), `destroy` | a blocking request inside an event loop; the receive loop runs on while the peer connection is being closed; exceptions at any point | reports are made at most once and in a useful order; player stopped; process goes away |
| **Stream player** `streamplayer.py`, **H.264 track** `h264track.py` | `isRunning`, bounded `asyncio.Queue` of packets filled from a thread | `run`, `stop`, `recv` | check-then-put across threads | packets in order, bounded backlog |
| **SCTP association** `rtcsctptransport.py` | association state, verification tags, T1/T2 timers | INIT, INIT-ACK, COOKIE-ECHO, COOKIE-ACK, SHUTDOWN..., ABORT | lost, duplicated and late chunks; both ends may start | both ends agree; an association that was closed is not revived |
| **SCTP data transfer** | sent and outbound queues, flight size, cwnd, TSNs mod 2^32, inbound streams | `_send`, `_transmit`, `_receive_data_chunk`, `_receive_sack_chunk`, FORWARD-TSN, T3 | lost and reordered chunks and SACKs, T3 against a late SACK, abandonment, several channels on one TSN space, wrap | reliable messages delivered once and, if ordered, in order; flight size is what is in flight |
| **Data channels** `rtcdatachannel.py` | channel state, stream ids, reconfiguration queue | open, acknowledge, close by stream reset | crossing closes; responses twice | both ends close; ids are not shared |
| **ICE agent** `ice.py`, **STUN** `stun.py` | check list, pair states, role, nomination, consent | check, triggered check, respond, nominate, switch role | lost checks, role conflict, early checks | both ends select the same pair; completes or fails |
| **TURN client** `turn.py` | allocation, channel-to-peer maps | allocate, refresh, bind, send, delete | sends while a binding is under way | one channel per peer |
| **mDNS** `mdns.py` | pending queries | resolve, answer | time-outs | each query is answered |
| **ICE/DTLS transports** `rtcicetransport.py`, `rtcdtlstransport.py` | states, router tables | start, stop, route | stop during start | packets go to the right receiver |
| **Peer connection** `rtcpeerconnection.py` | signalling state, descriptions, transceivers | offers, answers, close | re-negotiation, close during connect | states follow the table of the W3C |
| **RTP sender/receiver** `rtcrtpsender.py`, `rtcrtpreceiver.py`, **jitter buffer** `jitterbuffer.py` | history, NACKs, ring of packets | send, retransmit, add | sequence numbers mod 2^16, loss, reordering | frames whole and in order; lost packets asked for |
| **Bandwidth estimation** `rate.py`, **codecs**, **SDP**, **contrib** | filters, native encoders, text | - | numeric | pure data, not modelled |

How they interact: the server launches and kills workers with signals; a worker
talks back with HTTP requests that the server handles like any other, matched
by publisher id, through the client's queue to the start that waits. In a
worker, the peer connection owns the transports and is told of their states by
callbacks; the player's thread hands packets to the event loop. Data channels
stand on the SCTP association and its data transfer, that on DTLS and ICE, and
ICE may go through TURN; senders and receivers share the DTLS transport, whose
router tells their packets apart.

## 2. Modules

| Module | Models | State and actions |
|---|---|---|
| `Worker` | the subprocess as the server sees it | `phase` of each process, the requests it sent (`posted`, `sender`, `event`) and the one it is blocked in (`waiting`) |
| `JanusWorker` | the steps of `janus.py` | one action per stretch of code between two awaits; implements `Worker` by mapping `stage` to `phase` |
| `Supervisor` | `accrtsprtc.py` over a fleet of `Worker`s | one action per statement on shared state; `pc[t]` is the next statement of thread `t` |
| `PublishService` | what a caller of `/camera/push/start` relies on | abstract specification, no code |
| `MCSupervisor` | instances for TLC | constants are in the configurations |
| `SupervisorProofs` | theorems about `Supervisor` | TLAPS proofs |
| `Serial` | numbers that wrap (`utils.py`) | comparison and addition modulo 2^w |
| `SctpChunks` | messages and their DATA chunks | constants of the transfer |
| `SctpSender` | the sending half of `RTCSctpTransport` | one operator per method, from state to state |
| `SctpReceiver` | the receiving half and `InboundStream` | likewise |
| `SctpTransfer` | both halves, the event loop's tasks and the network | one action per packet, timer and task |
| `MessageService` | what a user of data channels relies on | abstract specification, no code |
| `MCSctp` | instances for TLC | the messages; other constants are in the configurations |
| `IceAgent` | `ice.py` at two ends, with the transactions of `stun.py` | `agent[e]` is the `Connection`; one action per message received, timer, phase of `connect()` and of the consent loop |
| `TurnClient` | `turn.py`, with `stun.py` | `client` holds the attributes, `op` the coroutines under way, each with its transaction; the server is external |
| `SctpAssociation` | handshake, timers and shutdown of `RTCSctpTransport` at two ends | `peer[e]`; one action per chunk received, timer and call; helpers go from state to state |
| `DataChannels` | `rtcdatachannel.py` and the `_data_channel_` and `_reconfig_` methods, at two ends | `end[e]` holds table, queues and request; one action per call, message and task |
| `MCTransports` | instance of the four above for TLC | `part` names the protocol of the behaviour |
| `PeerConnection` | `rtcpeerconnection.py` with the states of `rtcicetransport.py`, `rtcdtlstransport.py`, `rtcrtpsender.py`, `rtcrtpreceiver.py` | `pc` is the whole object graph; an action is what runs from one suspension to the next |
| `RtpRouter` | class `RtpRouter` | its tables; register, unregister, route |
| `RtpStream` | sender's history, `NackGenerator`, `JitterBuffer` | one action per packet or NACK sent, received or lost |
| `H264Packets` | `h264track.py` and the depayloader of `codecs/h264.py` | one action per turn of their loops |
| `MCMedia` | instance of the four above for TLC | `part`, as in `MCTransports` |
| `JanusWorkerProofs`, `DataChannelsProofs`, `PeerConnectionProofs` | theorems about the module of that name | TLAPS proofs |
| `SctpProofs` | theorems about `SctpAssociation` and `SctpTransfer` | TLAPS proofs |
| `IceProofs` | theorems about `IceAgent` and `TurnClient` | TLAPS proofs |
| `RtpProofs` | theorems about `RtpRouter`, `RtpStream` and `H264Packets` | TLAPS proofs |
| `DataLemmas` | intervals, remainders, sequences, maxima and `FoldLeft`, for `RtpProofs`, `SctpProofs`, `DataChannelsProofs` and `PeerConnectionProofs` | lemmas, proved |

`Supervisor` EXTENDS `Worker`: a server step and a worker step interleave, and a
request is handed over by `sender`/`event`/`waiting`, which is all the server
ever learns of its workers. `JanusWorker` shows that the real subprocess does
nothing that `Worker` does not allow, so what is checked and proved of
`Supervisor` holds of the two programs together.

Correspondence worth knowing:

- A *thread* is an API request or a worker's request. A start makes at most one
  `RTSPClient`, so clients go by the number of their request.
- `Register` is `self.clients[publisher] = client`; `AlreadyPublished` is the
  test `rtsp in self.clients`, made with the stream against publisher ids, as
  the code does. A stream whose text equals a publisher's id is in `Rtsp`.
- `kill_subprocess` reads `client.process` twice, so it is two actions.
- `restart_client` runs in the worker's own request; it launches
  (`Relaunch`) and only afterwards assigns the process (`AssignProcess`).
- A closed log makes `flush()` raise: the thread ends there (`FlushLog`).
- In `JanusWorker`, `waiting[w]` blocks the whole event loop, because `urlopen`
  is synchronous; only the player's thread, a signal and the end of the request
  can happen then.
- `Publish` opens the stream and starts the player in one step: nothing else in
  the worker runs between them.

SCTP data transfer, one direction of an established association:

- A handler runs to its end in one step. The code has `await` in its midst, but
  none of them suspends: sending through DTLS and ICE is synchronous under its
  `async` surface. What does come later is what is given to
  `asyncio.ensure_future`: the flush after `_data_channel_send` and the
  transmission after T3; `tasks` holds these, as a set, since a second run of
  either before anything else happens finds nothing to do.
- A chunk is the message and the fragment it carries with its TSN and stream
  sequence number; `Messages[m].sizes` are the fragments' lengths, on which the
  flight size and the windows depend.
- `net` is a set of packets: it loses and reorders, and an equal packet sent
  again joins the one on its way. A copy of a packet that the network alone
  duplicates is not modelled; retransmission makes the receiver see duplicates
  of DATA anyway.
- `ReceiveSack` keeps the order of the code: cumulative part, gap blocks,
  strikes, window, T3, peer ack point, flush, transmission. The last of the
  sorted gap blocks is the integer-largest TSN, also across a wrap, as in
  `_send_sack`.
- `PopMessages` writes the loop of `pop_messages` as the places where a run of
  chunks starts and what is whole within it; `start_pos` surviving a delivery is
  why a run, not a message, has to begin in turn.
- `delivered` and `got` are history variables.

`contended` is a history variable of `Supervisor`. It collects the clients on which two
operations overlapped (one thread held the client between its look-up and its
last statement when another looked it up) or which a start or a stop of another
client removed from the registry. The code has no lock, so nothing is promised
about those; `NoStrayWorker` says that they are the only exceptions.

`IceAgent`. A path is a pair of candidates as both ends see it, of one
component. A check, its retransmissions and its answer are `check[p]` and
messages of `air`; `connect()` is the field `phase`. Checks that arrive before
the remote candidates (`_early_checks`), triggered checks, the two kinds of
role conflict, aggressive and regular nomination, ICE Lite, consent and
`close()` are there. Paths may work one way only, be signalled to one side
only, or answer from another address. A message is never slower than the last
timer of its transaction.

`TurnClient`. `send_data` is two steps with the binding between them, as the
code awaits `channel_bind` before it advances `channel_number`; several calls
are under way at once. Channel numbers count from 1 for `0x4000`. The history
`since` of an operation is the server's nonce when it began. The server asks
for authentication, moves its nonce, answers several copies of a request,
refuses a binding that contradicts another and lets bindings expire; it is
external, from RFC 8656 and what the code handles.

`SctpAssociation`. A verification tag is named after the end it belongs to,
since tags are random. `wire` is a bag, as DTLS drops replays but an end sends
chunks again. A packet on the wire may stay there for ever, which is what a
loss is. The code never starts a shutdown, only `abort`s, so SHUTDOWN comes
from a foreign peer (`shutdowns`). `was` is a history.

`DataChannels`. An end is a record that the helpers take from state to state;
what they send goes to `out` and into the wire at the end of the step. The
assertions and pops that may raise are modelled by what an exception there
does: it ends the receive loop of DTLS, so the end is `deaf`. The history
`spoiled` names what has happened of: a close before the opening, an id used
again, a RECONFIG lost, the association gone. The promises about a close are
made for behaviours without those, since RECONFIG is never sent again.
A negotiated channel has the id that both ends agreed on (`AgreedId`).
`EnoughIds` says that an end's own ids, of which the code has 32767, are no fewer
than the channels that may take them, so that the search for a free one ends.

`PeerConnection`. Everything but the decoder's thread runs in one loop, so an
action goes from a suspension to the next: the calls for descriptions
(`call`, suspended while candidates are gathered), the `__connect()` task that
each of them spawns (`connect[c]`), the tasks of senders and receivers (`work`,
each `"none"`, scheduled, running, cancelled before its first step, exited),
and `close()` (`closing`, what it has still to await). ICE and DTLS are
reduced to how they end, at any time.

`RtpRouter` is the routing table alone: who registers when, and what is learnt
from packets. `RtpStream` numbers packets modulo `Wrap` (2^16) and keeps the
ring of the jitter buffer, the list of missing packets and the sender's history
index by index (`FrameAssumption`: the numbers of a frame follow each other); `H264Packets` has bytes, because the search for start codes is
about their values, in short units.

`MCTransports` and `MCMedia` put modules that share no variable side by side:
a behaviour is one of the module that `part` names and the others stay in
their initial states, so that one run of TLC checks four protocols at the cost
of the sum of their states. A liveness property is stated for its part, under
the fairness of its module.

## 3. Runs

| Run | Constants | Checks |
|---|---|---|
| `supervisor` | 2 publishers, a stream that may equal an id, queue of 1, 2 API requests, 3 workers, 2 reports | `TypeOK`, `NoStrayWorker`, `PublisherIsolation` |
| `supervisor_live` | 1 publisher, queue of 1, 2 API requests, 1 worker, 2 reports | `WorkerResumes`, `ImplementsService` |
| `janus_worker` | 2 workers, 2 reports | `NothingPlaysAfterLoss`, `ImplementsWorker`, `EndedWorkerExits` |
| `sctp_reliable` | 3 reliable ordered messages of 4 chunks, one channel | `NeverStalled`, `DeliveredInTurn`, `ImplementsService`, `EverythingDelivered` |
| `sctp_mixed` | 3 channels (no retransmission, reliable, unordered with a lifetime), 4 chunks, congestion avoidance from the start | `ForgottenOnlyIfReceived`, `ImplementsService` |
| `transports` | ICE: two paths, each agent at most 2 requests per check, 1 trouble; TURN: 2 peers, 2 calls, 2 nonces; association: 1 retransmission of each kind, 1 SHUTDOWN; 2 channels, ids to 2 | `NominatedByOne`, `IceConnects`, `IceNoticesLoss`; `OneChannelPerPeer`, `FailsOnlyIfNonceMoved`, `DeletedForGood`, `TurnOperationsEnd`; `ClientIsNotAlone`, `ClientNotRevived`, `StoppedIsSilent`, `AssocWaitsEnd`; `TableIsTrue`, `StreamMeansOneChannel`, `AssertionsHold`, `ClosedIsFinal`, `ChannelClosesComplete` |
| `media` | peer connection: video and data, 3 descriptions; router: 3 receivers, 1 sender, 3 SSRCs; stream: `Wrap` 16, ring of 4, history of 4; H.264: payloads of 10 bytes | `StatesAreTrue`, `ClosedIsQuiet`, `PeerCloseReturns`, `PeerLossIsTold`; `RoutesAreTrue`; `NoSilentGap`, `FramesHaveNoHole`, `PictureNeverFreezes`; `FindsEveryUnit`, `PayloadsRestoreUnits` |
| `duplicate_start` (violation) | 1 publisher, queue of 3 | `NeverOverwritten` |
| `connection_loss` (violation) | 1 worker, 1 report | `LossReportedAsFailed` |
| `session_loss` (violation) | 1 publisher, queue of 2, 3 reports | `SessionLossHandled` |
| `sctp_two_channels` (violation) | 3 reliable messages on 2 channels | `DeliveredInTurn` |
| `sctp_stall` (violation) | 4 reliable messages, one three times as long | `NeverStalled` |

Bounds. Two API requests are enough for every pair of statements of two
operations to interleave, with a restart or an exception from a worker's own
request as the third party; three workers are a start each and a relaunch. A
queue of one slot makes the blocking `put` happen with two reports (the code
has three slots; `QueueSize` is a constant, and the proofs hold for all). In
`supervisor` publishers are symmetric: all of them are in `Rtsp`, no action
tells one from another, and no liveness property is checked there.
`CHECK_DEADLOCK FALSE` is right because requests, workers and reports are
bounded: a behaviour stops when they are used up, as an idle server does.

For the transfer, four chunks exceed the first window of three, so the window
closes, opens by slow start and (with `Rwnd` = 2) by congestion avoidance, and
T3 halves it; three gap reports for one chunk need three chunks behind it,
which four allow. TSNs wrap at 16 and stream sequence numbers at 8; more than
half of 16 is never outstanding, so serial comparison is exact, as 2^31 makes it
in the code. The runs start at TSN 3, away from the wrap: across it the code
sorts TSNs as integers (hazard at line 897) and `EverythingDelivered` fails.
Lengths are 1 but for `sctp_stall`, where they decide. `NeverStalled` and
`EverythingDelivered` are properties of reliable channels; a FORWARD-TSN that is
lost is not sent again, and nothing is promised of channels with limits.
`CHECK_DEADLOCK FALSE`: when everything is delivered and acknowledged, the
transfer is over.

For `transports`: of the two paths, one works and the other, of higher
priority, works one way only and is not signalled to Bob, who learns of it from
a check that he cannot answer; both agents start as controlling, so the
conflict must be resolved; Bob may be ICE Lite and may close. Two calls
to the same or to different peers are the overlap of `send_data` that matters;
two nonces make a stale one. One retransmission of
each chunk makes an old copy meet every later state. Two channels, one from
each end, close at once and cross; `Hasty` lets one close before it opened;
`MaxKinds` = 1 keeps the disturbances apart, so that each promise is tested
against each of them alone. For `media`: two sections are what bundling needs,
and three descriptions are an offer, its answer and a renegotiation; two
receivers share a payload type and one has its own, and an SSRC is declared by
nobody; frames of one, two and three packets go through a ring of 4 and a wrap
at 16, with a packet up to 3 late (the ring's misorder bound) and one lost;
`PACKET_MAX` 10 makes every size at which the packing changes, single, several
and split, with zeros at every place of a unit. Both runs and
`sctp_*` stop when their bounded inputs are used up (a closed connection, the
calls made), hence `CHECK_DEADLOCK FALSE`.

Fairness. `Supervisor` assumes that a thread which has a next statement takes
it, and that a socket operation ends: by the reply, or by the 5 s of
`socket.setdefaulttimeout`. Nothing is assumed of callers, of workers (a worker
need never report), of Janus or of the stream. `JanusWorker` assumes the same
of the end of a request, of the `except` clause and of the interpreter's exit.
A blocked `put` is disabled, so weak fairness does not free it.
`SctpTransfer` assumes that scheduled tasks run and that T3 expires if it stays
running (weak fairness), and that of the earliest outstanding chunk and of the
receiver's present SACK, if there is always another one on its way, one gets
through (strong fairness): that much a network must give any retransmitting
protocol. Other packets may all be lost.
`IceAgent` assumes that `connect()`, the consent loop and timers go on, and that
of the messages to an agent one is received now and then (losses are bounded by
`MaxTroubles`; without that no ICE agent can promise to connect). `TurnClient`
and `SctpAssociation` assume timers only, nothing of the network or the other
side: every wait ends though all is lost. `DataChannels` assumes that tasks run
and that messages which are not lost arrive; `PeerConnection` that the event
loop does what is due; `RtpStream` that the track goes on and that packets and
NACKs not lost arrive. Conditions such as `<>[]HasWork => []<><<Due>>_peerVars`
are weak fairness with the enabling condition written out, since TLC is slow
to compute `ENABLED` of large actions.

The violation runs are disagreements between the code and what it says: see
`findings` in `PROJECT.json`. Of the two on SCTP, `sctp_two_channels` shows a
complete, in-turn message of a reliable channel that is left in the reassembly
queue until more data comes, and `sctp_stall` a sender with data to send, nothing outstanding and
no timer. `sctp_reliable` is the configuration in which neither can happen: one
channel, so that TSNs follow each other, and fragments of equal length.

What modelling showed besides, with no text in the repository that says
otherwise; the properties name these as their exceptions:

- A FORWARD-TSN for one channel prunes every channel up to the cumulative TSN,
  which has moved on over what was received out of order: the first fragment of
  a reliable message may be dropped though it was acknowledged, and the message
  never arrives (`ReceiveForward`; hazard at line 1126). `NothingForgotten` is
  about what the sender may forget, not about what the receiver keeps.
- A check that is triggered before `connect()` knows the remote password raises
  in its task and stays in progress (`Dead` in `IceAgent`).
- A late COOKIE-ECHO brings back the server's association after it ended
  (not after `stop()`); the client's cannot be brought back
  (`ClientNotRevived`, which speaks of the client only).
- An id is given out again while the other end may still reset the stream, and
  a lost RECONFIG is never sent again: `spoiled` in `DataChannels`.
- Setting a description, or a handshake, that goes on over a `close()` starts
  tasks that nobody stops (`late` in `PeerConnection`), and moves
  `signalingState` away from `"closed"`; so `StatesAreTrue` says nothing of it
  then.
- A task that is cancelled before its first step never sets the event that
  `stop()` waits for, and `close()` hangs (`Killed`).

## 4. Proofs

Seven modules of theorems and one of lemmas, proved by `tlapm` for all values
of the constants that satisfy the assumption of the module they are about.

**`SupervisorProofs`**: `TypeCorrect` (`Spec => []TypeOK`, the bound on the
queues included), `Isolation` (`Spec => PublisherIsolation`) and `NoStray`
(`Spec => []NoStrayWorker`). `TypeOK` is not inductive: a signal needs the held
client to have a process, and a look-up needs the sender of a report to have an
owner. `Base` adds that reports come from launched workers of existing clients
(`WorkersKnown`), that a client's process was launched for that client
(`ProcessesOwned`), that a thread holds a client of the publisher it works for
(`ClientsHeld`) and that the registry maps a publisher to its own clients
(`ClientsRegistered`). `Base` is inductive and gives isolation: whom a thread
kills is the process of the client it holds. `NoStrayWorker` needs more: no two
threads operate on an uncontended client (`ExclusiveOperation`), a restart's
client stays registered until it is contended (`RestartsRegistered`), the
handler of an exception holds no client after the kill (`ExceptionsEnd`), and
the live workers of an uncontended client are where `Found` says, thread by
thread (`LiveWorkers`). Most statements are local to one thread; `LocalStep`
proves them in one go and the few that change the registry, a process or a
worker have lemmas of their own.

**`JanusWorkerProofs`**: `NothingPlays` (`Spec => []NothingPlaysAfterLoss`) and
`Implementation` (`Spec => ImplementsWorker`): initial states map to initial
states, and every step of `JanusWorker` is a step of `Worker` or a stutter,
action by action. What the inductive `JanusInv` adds is that the peer connection,
with which the player is started, exists from a certain stage on only, and that
the sender of a report of a loss had one and has stopped its player: since no
stage leads back, nothing starts it again. With the theorems on `Supervisor`
this carries over to the two programs together: what is proved of a server of
`Worker`s holds of a server of the real ones.

**`IceProofs`** on `TurnClient`: `ChannelsHold` (`[]OneChannelPerPeer`), `NoncesHold`
(`[]FailsOnlyIfNonceMoved`), `DeletionHolds` (`[]DeletedForGood`), for any
number of peers and overlapping calls. `OneChannelPerPeer` alone is not
inductive, because two calls may be binding the same number to two peers at
the same time. `TurnInv` says why that is harmless: the server keeps what it
bound first, so of a number that became another peer's the binding under way
is going to be refused (`Harmless`, in `BindingsAgree`), and numbers do not run
out, since each was taken by a call that completed (`NumbersLeft`).
For the nonces: none is newer than the server's and one learnt from a refusal is
no older than the operation (`NoncesAge`), so a second refusal means that the
nonce moved in between.

**`SctpProofs`** on `SctpAssociation`: `HandshakeHolds` (`[]ClientIsNotAlone`),
`EndingHolds` (`[]ClientNotRevived`), `SilenceHolds` (`[]StoppedIsSilent`),
whatever is lost, late or sent again. `AssocInv` adds that a COOKIE-ACK with
the client's tag is on the wire only if the server has entered the association
(`Acknowledges`), that a tag known is the peer's and an end that left is
silent, and that a client which ended is `CLOSED` or waits for
SHUTDOWN-COMPLETE, from where no chunk leads back.

**`SctpProofs`** on `SctpTransfer`: `NothingForgotten` (`[]ForgottenOnlyIfReceived`),
for any messages and streams and any sizes of windows and TSNs, under `NoWrap`:
in all, fewer fragments are sent than half the TSNs. The model's network may
deliver a packet after any time, and TSNs are told apart within that half; the
code relies on packets not living that long. (4 fragments and 16 TSNs in the
run.) Fragments are numbered by `Rank`, and `NthOrder` says that the serial
arithmetic of their TSNs is the order of those numbers. `NothingLost`, the
invariant, has for the sender (`Good`) that its two queues are in that order,
that only fragments of limited messages are given up (`Patient`), and that an
unlimited one that is in neither queue has been received (`AllThere`). For the
network and the receiver it has that a TSN in a SACK or a FORWARD-TSN, and
`_last_received_tsn`, are `Safe`: no unlimited fragment up to it is missing.
So a gap report alone takes nothing from the queue; a FORWARD-TSN is safe since
the chunks before it have left the queue either as received or as given up, and
the receiver may take it over without having seen any of them. Each method of
`SctpSender` and `SctpReceiver` has a lemma, and the loops are folds. The other
two invariants of `SctpTransfer` are not true of all messages: `sctp_stall`
shows when `NeverStalled` fails, and it is left to TLC; `sctp_two_channels` shows
when `DeliveredInTurn` fails, and `NothingWaits` below says when it holds.

`Refines` (`Spec => ImplementsService`): the transfer implements
`MessageService`. It rests on `NoWrap` and on two more assumptions. `NoSsnWrap`
says that fewer ordered messages are sent on a stream than half the stream
sequence numbers, so that two messages of a stream are told apart by theirs;
`Alike` that the messages of a stream are all ordered or none is, and all
limited or none is, since a channel keeps the settings it was opened with and
the model has one channel per stream. The instances of `sctp_reliable` and
`sctp_mixed` satisfy all three. What is delivered must not come twice although
a chunk may be received again, and a message given up must not come after a
later one although its chunks may still be under way. Both follow from
one fact, `Gone`: some fragment of the message has been received and is no
longer in `reassembly`. It stays so, as the TSN check of `_mark_received` never
lets that fragment in again, and a message is delivered only when all its
fragments lie in the queue side by side. `StreamFits`, for each stream: the
queue is in the order of the TSNs (`Queue`); what has been delivered is gone,
and of the ordered messages before `sequence_number` each is gone and, unless
it is limited, delivered (`Passed`); an ordered message no later than one
delivered is gone too (`Behind`). `PopIs` gives `pop_messages` in parts and
`RunIs`, `StartsAre`, `WholeIs` say what its search through the queue finds;
`PopFits` that popping keeps `StreamFits` and extends what was delivered, and
`InsertIs` and `PruneIs` the same of `add_chunk` and `prune_chunks`. A
FORWARD-TSN moves `sequence_number` past messages that are not gone yet, the
set W in `Passed`; the TSNs it covers include a fragment of each
(`SkipFits`), and they are gone once the queue has been pruned (`PruneFits`).

`NothingWaits` (`Spec => []DeliveredInTurn`) has the hypothesis `OneReliable`: all
messages are on one channel, in order and without limits, any number of them
and in any number of fragments (`OneChannel`, in `sctp_reliable`, is such a list).
Neither half can be dropped: the fragments of another channel take TSNs in between, at which
`pop_messages` stops (`sctp_two_channels`), and a FORWARD-TSN pops before it
prunes what stands in the way: TLC finds a message that is left waiting when one of
five fragments that are never sent again is followed by another. The invariant adds `Prompt` to those of
`Refines`: a message was all there when it was delivered, no chunk in the queue is behind
`sequence_number`, and of the message it names some fragment is not in the
queue. `PopsAll` shows that `pop_messages` brings this about, whatever the queue
was like: if the message it stops at were all in the queue, then so would be
everything from the first chunk on, one TSN after the other, and the search
would have gone through to its end (`NextIs`, `RunEnds`).

**`IceProofs`** on `IceAgent`: `NominatedByOneHolds` (`[]NominatedByOne`) and
`RolesSettleOnce`, which says how a role conflict ends: a role changes only
while both agents have the same, and with that change both are final, the
senior agent controlling. That two agents which selected a path differ in their
roles is not inductive, since an answer may have been given to a check of a
role the asker no longer has. `IceInv` therefore speaks of what is under way:
a check is made in its agent's role, or in an earlier one when the roles are
final (`ChecksFit`); a request on the wire carries the role of the check it
belongs to, a success was given by an agent of the other role, a refusal by an
agent that has its final role already (`MessagesFit`); and what a controlled
agent nominates was offered by the other (`OffersFit`). An ICE Lite agent asks
nothing, so none of this concerns it.

**`RtpProofs`**: `RoutesTrue` (`RouterSpec => []RoutesAreTrue`) from
`TablesFollow`: what the tables hold are receivers that are registered, under
types they take, though an SSRC may have been learnt before its owner
registered. `NoHole` (`RtpSpec => []FramesHaveNoHole`) and `NoGap` (`RtpSpec =>
NoSilentGap`) hold for every capacity, every `Wrap` it divides and any frames.
A slot of the ring is found by a remainder, so the invariant (`SlotsFit`) says
that a packet in slot i has a number congruent to i and lies less than a
capacity behind the origin; `SlotAt` gives back the number from the slot, also
across the wrap, and `RemoveIs`, `RoomIs`, `FrontIs` say what the loops of
`smart_remove` and `_remove_frame` leave. `GoesOn` relates decoder and origin:
the origin follows the frame given last, or a PLI is due.

Of `H264Packets`, `UnitsFound` (`H264Spec => []FindsEveryUnit`) and
`UnitsRestored` (`H264Spec => []PayloadsRestoreUnits`) hold for every
`PACKET_MAX` above 3, every limit of units in an aggregate and every sequence of
units of bytes, under what `H264Assumption` says of a unit: two bytes or more,
the first and the last not 0, no start code inside. `CodingInv` says where the
two loops stand. The splitting stands at the end of a unit and has yielded those
before it (`SplitsAtUnits`): `BufferLaid` gives the places of the units in the
buffer, `StartFound` and `EndFound` that the searches stop there and nowhere
before (`NoEarlyEnd`), `UnitFound` that the bytes between are the unit. What is
packed so far gives back the units so far (`PacksWhole`): `FragmentsFill` shows
that the shares of a unit are at least 1 and at most `FuRoom` bytes and add up,
`FragmentsRestore` that they are joined again, `TogetherIs` that what is
aggregated fits.

**`DataChannelsProofs`**: `TableAgrees` (`[]TableIsTrue`), `OneChannelPerStream`
(`[]StreamMeansOneChannel`), `ClosedStays` (`ClosedIsFinal`) and `ReceiveGoesOn`
(`[]AssertionsHold`), for any number of channels, negotiated ones with any ids
included. `ChannelInv` adds what the
queues and streams may hold: an OPEN that waits belongs to a channel of this end
that is alive and has no id yet (`MayQueue`); an OPEN on a stream carries the id
its sender has for the channel (`StreamsFit`) and finds a channel the receiver
never had (`OpensFit`); neither queue nor stream holds a second one (`Once`). So
a channel is opened once, and what arrives late finds it closed and leaves it
so. Ids of a channel are equal at both ends, or not yet known at one
(`SameIds`); an end's own ids are odd or even by its role, so the two ends never
pick the same, and until an id is used again all are different (`IdsDiffer`).
The loops over queues, streams and resets (`_data_channel_flush`,
`_data_channel_closed` for all, the responses) are folds.
That the receive loop goes on needs a second invariant, which holds until
something is `spoiled` (`CalmInv`). What an end has asked to reset, and what it
is still going to ask for, is in its table, once, and `closing` (`Orderly`), so
that a response finds the channels it closes; a channel closes only when both
ends have opened it (`ClosingsFit`), and a request names such channels
(`RequestsFit`), so that the peer finds them too, or has closed them already;
what an OPEN announces or an ACK answers is still `connecting` at its owner, so
not yet closed, and one ACK at most answers it, on the stream of that channel
(`AnnouncedAt`), so that `_data_channel_receive` has no channel on the stream of
an OPEN and has the one that an ACK is for. `SpoiledStays` says that
what has been spoiled stays so: each action has to be looked at only where
nothing was, before and after.

**`PeerConnectionProofs`**: `StatesHold` (`[]StatesAreTrue`) and `QuietHolds`
(`[]ClosedIsQuiet`), for any sections, bundled or not, and any number of
descriptions. `PeerInv` is the conjunction `Good`. That the states seen are true
holds because a listed transport is listened to, or was stopped by
`setRemoteDescription`, which is going to compute them again (`Listening`); a
transport that was given up never started, as the sections that share one have
only ever started that one (`Routes`). That nothing runs on holds because each
step of `close()` leaves for good what it waited for (`Stopped`, `StepsFit`), and
while it waits it has already stopped the decoder and the association
(`Stopping`); what a task of `__connect()` starts meanwhile belongs to a
section that is `late`. `Waits` says that such a task waits for a transport
that was described. Most actions only touch one transport or the
tasks of one section: `Keeps` is the relation they all stay in and `Tells` says
which of them must report, so that each helper of the model has one lemma, and
an action is a chain of them. Loops over sections and over steps are folds.

**`DataLemmas`**: a fold is a recursive function, and the library's induction
theorems take an operator as a parameter, which the provers cannot instantiate.
`LeastNatural` is induction without one: a non-empty set of naturals has a
least member. `FoldExists` and `FoldStays` follow: a `FoldLeft` whose step stays
in a set of states, and keeps a relation, ends there. Stated with sets and
tables (functions) they can be cited like any lemma. `Folded` is the end of a
fold of a function; `FoldedFrom` makes a `FoldLeft` one, and `FoldedAppend`
takes its last step apart (the buffer, the sizes and the output of
`H264Packets`). `ModAdd`, `ModShift`
and `MaxIs` are the arithmetic of numbers that wrap and the maxima.

Only model-checked: liveness (tlapm does no liveness under fairness, so also
`Supervisor`'s `ImplementsService`, which has fairness conditions), and
`NeverStalled`, which is not true of all messages.

## 5. Plan

Done: `Supervisor`, `JanusWorker`, `Worker`, `PublishService`; `SctpTransfer`
with `MessageService`; `SctpAssociation`, `DataChannels`, `TurnClient`,
`IceAgent`; `PeerConnection`, `RtpRouter`, `RtpStream`, `H264Packets`; the
proofs above. To do: the gathering of candidates, and `mdns.py` with it; streams
that are reset and used again by another channel while messages are under way.

## 6. Not modelled

- `mdns.py`: a dictionary of futures by host name, asked once per `.local`
  candidate, which the program's gateway does not signal.
- `rate.py`: filters on floating-point numbers, whose values are out of TLC's
  reach; without them no state is left.
- `codecs/` but for the H.264 depayloader: native encoders and decoders; this
  program sends packets that are encoded already.
- `sdp.py`: text to record and back; what a description decides is an input of
  `PeerConnection`.
- The DTLS handshake (OpenSSL) but for how it ends, SRTP, certificates, the
  byte layout of STUN, RTP and SCTP.
- The packet queue of `streamplayer.py`: several `put()`s may wait, asyncio
  promises no order for them, and neither does the code.
- `contrib/`, statistics, server shutdown, and the worker's standard output.

`PROJECT.json` lists each component with its status, and under `hazards` those
that no property covers, with the reason.
