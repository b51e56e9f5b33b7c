--------------------------- MODULE PeerConnection ---------------------------
(***************************************************************************)
(* One RTCPeerConnection of src/aiortc with its transceivers and its data  *)
(* section: the offer/answer calls, the __connect() tasks they spawn, the  *)
(* ICE and DTLS transports, the tasks and the thread of senders and        *)
(* receivers, the states that are cached for the application, and close(), *)
(* which waits for all of them.                                            *)
(*                                                                         *)
(* Everything but the decoder runs in one event loop: an action is what is *)
(* executed from one suspension to the next.  Messages are the matter of   *)
(* IceAgent, SctpAssociation and RtpStream; here ICE connects, fails or is *)
(* lost, a handshake ends, and the other side closes, at any time.         *)
(***************************************************************************)
EXTENDS Naturals, Sequences, FiniteSets, SequencesExt

CONSTANTS
  Media,            \* the media sections: transceivers, and Data the last one
  Data,
  Directions,       \* [Media -> SUBSET {"send", "receive"}], as negotiated
  Bundles,          \* whether the other side bundles: a set of booleans
  MaxDescriptions   \* bound: calls of setLocalDescription and of the other

Sections == Range(Media)
Calls == 1 .. MaxDescriptions

ASSUME PeerAssumption ==
  /\ Media \in Seq(Sections) /\ Len(Media) = Cardinality(Sections)
  /\ \A i \in 1 .. Len(Media) : Media[i] = Data => i = Len(Media)
  /\ Directions \in [Sections -> SUBSET {"send", "receive"}]
  /\ Bundles \subseteq BOOLEAN /\ MaxDescriptions \in Nat \ {0}

VARIABLES
  pc,         \* the RTCPeerConnection and what it owns
  bundles     \* whether the descriptions of the other side bundle

peerVars == <<pc, bundles>>

(* A transport is named after the section it was created for.  link: the   *)
(* Connection of aioice, start: the event __start of RTCIceTransport.      *)
NoTransport ==
  [listed |-> FALSE, heard |-> FALSE, gather |-> "new", ice |-> "new", start |-> "no",
   link |-> "idle", dtls |-> "new", pump |-> "none"]

Tasks == {"rtp", "rtcp", "reports", "decoder", "association"}
NoTask == [k \in Tasks |-> "none"]

(* What a section runs, once it is started.                                *)
TasksOf(m) ==
  IF m = Data THEN {"association"}
  ELSE (IF "send" \in Directions[m] THEN {"rtp", "rtcp"} ELSE {})
         \cup (IF "receive" \in Directions[m] THEN {"reports", "decoder"} ELSE {})

NoCall == [what |-> "none", type |-> "none", old |-> <<>>]
NoConnect == [at |-> "over", todo |-> <<>>]

PeerInit ==
  /\ bundles \in Bundles
  /\ pc = [signaling |-> "stable", closed |-> FALSE, closing |-> <<>>,
           seen |-> [connection |-> "new", ice |-> "new", gathering |-> "new"],
           transport |-> [m \in Sections |-> NoTransport],
           via |-> [m \in Sections |-> m],
           known |-> {}, described |-> {}, agreed |-> {}, remote |-> {}, late |-> {},
           work |-> [m \in Sections |-> NoTask],
           call |-> NoCall, calls |-> 0,
           connect |-> [c \in Calls |-> NoConnect]]

-----------------------------------------------------------------------------
(* The states the application sees.                                        *)

Listed(p) == {t \in Sections : p.transport[t].listed}
IceStates(p) == {p.transport[t].ice : t \in Listed(p)}
DtlsStates(p) == {p.transport[t].dtls : t \in Listed(p)}

ConnectionState(p) ==
  IF p.closed THEN "closed"
  ELSE IF "failed" \in IceStates(p) \cup DtlsStates(p) THEN "failed"
  ELSE IF IceStates(p) \cup DtlsStates(p) \subseteq {"new", "closed"} THEN "new"
  ELSE IF "checking" \in IceStates(p) \/ DtlsStates(p) \cap {"connecting", "new"} # {} THEN "connecting"
  ELSE "connected"

IceConnectionState(p) ==
  IF p.closed THEN "closed"
  ELSE IF "failed" \in IceStates(p) THEN "failed"
  ELSE IF IceStates(p) = {"completed"} THEN "completed"
  ELSE IF "checking" \in IceStates(p) THEN "checking" ELSE "new"

GatheringState(p) ==
  LET states == {p.transport[t].gather : t \in Listed(p)}
  IN IF states = {"completed"} THEN "complete"
     ELSE IF "gathering" \in states THEN "gathering" ELSE "new"

UpdateConnection(p) == [p EXCEPT !.seen.connection = ConnectionState(p)]
UpdateIce(p) == [p EXCEPT !.seen.ice = IceConnectionState(p)]
UpdateGathering(p) == [p EXCEPT !.seen.gathering = GatheringState(p)]
UpdateAll(p) == UpdateConnection(UpdateIce(UpdateGathering(p)))

(* A closed ICE transport removes all listeners, its gatherer's too.       *)
SetIce(p, t, state) ==
  LET q == [p EXCEPT !.transport[t].ice = state]
      told == IF q.transport[t].heard THEN UpdateConnection(UpdateIce(q)) ELSE q
  IN IF p.transport[t].ice = state THEN p
     ELSE [told EXCEPT !.transport[t].heard = @ /\ state # "closed"]

SetDtls(p, t, state) ==
  IF p.transport[t].dtls = state THEN p
  ELSE UpdateConnection([p EXCEPT !.transport[t].dtls = state])

SetGather(p, t, state) ==
  LET q == [p EXCEPT !.transport[t].gather = state]
  IN IF q.transport[t].heard THEN UpdateGathering(q) ELSE q

(* addTrack, createDataChannel, and what a description asks for.           *)
Adds(p, added) ==
  UpdateAll([p EXCEPT !.known = @ \cup added,
                      !.late = IF p.closed THEN @ \cup added ELSE @,
                      !.transport = [t \in Sections |->
                         IF t \in added THEN [NoTransport EXCEPT !.listed = TRUE, !.heard = TRUE]
                         ELSE @[t]]])

-----------------------------------------------------------------------------
(* Tasks.  A task that is cancelled before its first step never runs.      *)

Cancelled(state) ==
  CASE state = "born" -> "killed" [] state = "runs" -> "cancelled" [] OTHER -> state

(* Mutant of StopsDecoder: the thread is left to itself.                   *)
LeavesDecoder(p, m) == p

StopsDecoder(p, m) ==
  [p EXCEPT !.work[m]["decoder"] = IF @ = "runs" THEN "exited" ELSE @]

Shares(p, t) == {m \in p.known : p.via[m] = t}

(* The data pump meets the end of the transport: the receivers registered  *)
(* with it stop decoding.                                                  *)
Disconnect(p, t) ==
  SetDtls([p EXCEPT !.transport[t].pump = "exited",
                    !.work = [m \in Sections |->
                       IF m \in Shares(p, t) THEN StopsDecoder(p, m).work[m] ELSE @[m]]], t, "closed")

-----------------------------------------------------------------------------
(* __connect(): the sections in turn, from one suspension to the next.     *)

Current(p, c) == Head(p.connect[c].todo)
Through(p, c) == p.via[Current(p, c)]

NextSection(p, c) ==
  [p EXCEPT !.connect[c] = IF Tail(@.todo) = <<>> THEN NoConnect ELSE [at |-> "goes", todo |-> Tail(@.todo)]]

StaysAt(p, c, where) == [p EXCEPT !.connect[c].at = where]

Fresh(p, m) ==
  IF m = Data \/ m \in p.agreed THEN {k \in TasksOf(m) : p.work[m][k] = "none"} ELSE {}

StartsMedia(p, m) ==
  IF Fresh(p, m) = {} THEN p
  ELSE [p EXCEPT !.late = IF p.closed THEN @ \cup {m} ELSE @,
                 !.work[m] = [k \in Tasks |->
                    IF k \notin Fresh(p, m) THEN @[k]
                    ELSE IF k \in {"decoder", "association"} THEN "runs" ELSE "born"]]

AfterDtls(p, c) ==
  NextSection(IF p.transport[Through(p, c)].dtls = "connected" THEN StartsMedia(p, Current(p, c)) ELSE p, c)

(* A handshake cannot even begin when ICE failed.                          *)
AfterIce(p, c) ==
  LET t == Through(p, c)
      q == SetDtls(p, t, "connecting")
  IN IF p.transport[t].dtls # "new" THEN AfterDtls(p, c)
     ELSE IF p.transport[t].link \in {"up", "closing"} THEN StaysAt(q, c, "dtls")
     ELSE AfterDtls(SetDtls(q, t, "failed"), c)

HasCandidates(p, t) == p.transport[t].gather = "completed" /\ p.transport[t].link # "shut"

Visit(p, c) ==
  LET t == Through(p, c)
      r == p.transport[t]
  IN IF ~HasCandidates(p, t) \/ Current(p, c) \notin p.remote THEN NextSection(p, c)
     ELSE IF r.ice = "closed" THEN [p EXCEPT !.connect[c] = NoConnect]
     ELSE IF r.start = "done" THEN AfterIce(p, c)
     ELSE IF r.start = "running" THEN StaysAt(p, c, "start")
     ELSE StaysAt(SetIce([p EXCEPT !.transport[t].start = "running",
                                   !.transport[t].link = "connecting"], t, "checking"), c, "ice")

(* A task that waits, or that is over, stays where it is.                  *)
Goes(p, c) ==
  FoldLeft(LAMBDA q, m : IF q.connect[c].at = "goes" THEN Visit(q, c) ELSE q, p, p.connect[c].todo)

SpawnsConnect(p) == [p EXCEPT !.connect[p.calls] = [at |-> "goes", todo |-> Media]]

ConnectBegins(c) ==
  /\ pc.connect[c].at = "goes" /\ pc.connect[c].todo = Media
  /\ pc' = Goes(pc, c)

Waiting(where, t) == {c \in Calls : pc.connect[c].at = where /\ Through(pc, c) = t}

-----------------------------------------------------------------------------
(* setLocalDescription and setRemoteDescription: the application awaits    *)
(* the one before it calls the other.                                      *)

Add(m) ==
  /\ m \notin pc.known /\ (m = Data \/ ~pc.closed)
  /\ pc' = Adds(pc, {m})

Accepts(type, own) ==
  IF type = "offer" THEN pc.signaling \in {"stable", own} ELSE pc.signaling \notin {"stable", own, "closed"}

Signaled(p, type, own) == [p EXCEPT !.signaling = IF type = "offer" THEN own ELSE "stable"]

Calling(p, what, type, old) ==
  [p EXCEPT !.call = [what |-> what, type |-> type, old |-> old], !.calls = @ + 1]

MayCall == pc.call = NoCall /\ pc.calls < MaxDescriptions

(* createOffer and createAnswer refuse a closed connection.                *)
SetLocalDescription(type) ==
  /\ ~pc.closed /\ MayCall /\ pc.known # {} /\ Accepts(type, "have-local-offer")
  /\ LET new == {t \in Listed(pc) : pc.transport[t].gather = "new"}
         p == [pc EXCEPT !.transport = [t \in Sections |->
                 IF t \in new THEN [@[t] EXCEPT !.gather = "gathering"] ELSE @[t]]]
         q == IF \E t \in new : p.transport[t].heard THEN UpdateGathering(p) ELSE p
         r == IF type = "offer" THEN [q EXCEPT !.described = q.known]
              ELSE [q EXCEPT !.agreed = @ \cup q.known]
     IN pc' = Calling(Signaled(r, type, "have-local-offer"), "local", type, <<>>)

GatherEnds(t) ==
  /\ pc.transport[t].gather = "gathering"
  /\ pc' = SetGather(pc, t, "completed")

LocalDescriptionSet ==
  /\ pc.call.what = "local" /\ \A t \in Listed(pc) : pc.transport[t].gather # "gathering"
  /\ pc' = SpawnsConnect([pc EXCEPT !.call = NoCall])

(* The sections that are bundled give up their own transports for that of  *)
(* the first one described.                                                *)
FirstDescribed(p) ==
  CHOOSE i \in DOMAIN Media : Media[i] \in p.described /\ \A j \in 1 .. i - 1 : Media[j] \notin p.described

Master(p) ==
  IF p.remote = {} THEN Media[FirstDescribed(p)] ELSE p.via[CHOOSE m \in p.remote : TRUE]

Bundled(p) == [p EXCEPT !.via = [m \in Sections |-> IF m \in p.described THEN Master(p) ELSE @[m]]]

Replaced(p, q) ==
  FoldLeft(LAMBDA old, m : IF q.via[m] # p.via[m] THEN Append(old, m) ELSE old, <<>>, Media)

(* Transports that were replaced are stopped one after the other.          *)
SetRemoteDescription(type) ==
  /\ MayCall /\ Accepts(type, "have-remote-offer")
  /\ LET p == IF type = "answer" THEN [pc EXCEPT !.agreed = @ \cup pc.described]
              ELSE [Adds(pc, Sections \ pc.known) EXCEPT !.described = Sections]
         q == IF bundles THEN Bundled(p) ELSE p
     IN pc' = Calling([q EXCEPT !.remote = @ \cup q.described], "remote", type, Replaced(p, q))

(* Mutant of Discards: what the application sees is not computed again.    *)
DiscardsQuietly(p, t) ==
  [p EXCEPT !.transport[t].listed = FALSE, !.call.old = Tail(@)]

Discards(p, t) ==
  UpdateAll([p EXCEPT !.transport[t].listed = FALSE, !.call.old = Tail(@)])

RemoteDescriptionSet ==
  /\ pc.call.what = "remote" /\ pc.call.old = <<>>
  /\ pc' = SpawnsConnect(Signaled([pc EXCEPT !.call = NoCall], pc.call.type, "have-remote-offer"))

-----------------------------------------------------------------------------
(* Stopping: RTCDtlsTransport.stop and RTCIceTransport.stop; the sockets   *)
(* are closed later, and a consent test is waited for before.              *)

Shut(p, t) ==
  LET q == [p EXCEPT !.transport[t].pump = Cancelled(@)]
      r == p.transport[t]
      link == IF r.link = "up" THEN "closing"
              ELSE IF r.link \in {"closing", "down", "shut"} THEN r.link
              ELSE IF r.gather = "completed" THEN "down" ELSE "shut"
  IN IF r.ice = "closed" THEN q
     ELSE [SetIce(q, t, "closed") EXCEPT !.transport[t].link = link]

StopOld ==
  /\ pc.call.old # <<>> /\ pc.transport[Head(pc.call.old)].ice # "closed"
  /\ pc' = Shut(pc, Head(pc.call.old))

DiscardOld ==
  /\ pc.call.old # <<>>
  /\ LET t == Head(pc.call.old)
     IN /\ pc.transport[t].ice = "closed" /\ pc.transport[t].link = "shut"
        /\ pc' = Discards(pc, t)

(* close(): its steps in order, the first of them being waited for.        *)
CloseSteps ==
  [i \in 1 .. 2 * Len(Media) |->
     <<IF i % 2 = 1 THEN "receiver" ELSE "sender", Media[(i + 1) \div 2]>>]
    \o [i \in 1 .. Len(Media) |-> <<"transport", Media[i]>>]

TasksAt(step) ==
  CASE step[1] = "receiver" -> {"reports"} [] step[1] = "sender" -> {"rtp", "rtcp"} [] OTHER -> {}

(* Mutant of Perform: the sender's RTCP task is not cancelled.             *)
PerformHalf(p, step) ==
  LET m == step[2]
  IN IF m \notin p.known THEN p
     ELSE IF step[1] = "transport" THEN Shut(p, p.via[m])
     ELSE [p EXCEPT !.work[m] = [k \in Tasks |-> IF k \in TasksAt(step) \ {"rtcp"} THEN Cancelled(@[k]) ELSE @[k]]]

Perform(p, step) ==
  LET m == step[2]
      q == IF step[1] = "receiver" THEN StopsDecoder(p, m) ELSE p
  IN IF m \notin p.known THEN p
     ELSE IF step[1] = "transport" THEN Shut(p, p.via[m])
     ELSE [q EXCEPT !.work[m] = [k \in Tasks |->
             IF k = "association" /\ @[k] = "runs" THEN "exited"
             ELSE IF k \in TasksAt(step) THEN Cancelled(@[k]) ELSE @[k]]]

Over(p, step) ==
  IF step[2] \notin p.known THEN TRUE
  ELSE IF step[1] = "transport" THEN p.transport[p.via[step[2]]].link = "shut"
  ELSE \A k \in TasksAt(step) : p.work[step[2]][k] \in {"none", "exited"}

(* From here on until a step has to be waited for; then the last one.      *)
ClosesOn(p, steps) ==
  LET r == FoldLeft(LAMBDA q, s : IF q.closing # <<>> THEN [q EXCEPT !.closing = Append(@, s)]
                                  ELSE LET done == Perform(q, s)
                                       IN IF Over(done, s) THEN done ELSE [done EXCEPT !.closing = <<s>>],
                    [p EXCEPT !.closing = <<>>], steps)
  IN IF r.closing = <<>> THEN UpdateAll(r) ELSE r

Close ==
  /\ ~pc.closed
  /\ pc' = ClosesOn([pc EXCEPT !.closed = TRUE, !.signaling = "closed"], CloseSteps)

CloseGoesOn ==
  /\ pc.closing # <<>> /\ Over(pc, Head(pc.closing))
  /\ pc' = ClosesOn(pc, Tail(pc.closing))

-----------------------------------------------------------------------------
(* ICE.  won: what connect() of aioice came to; after close() it may still *)
(* be either.                                                              *)

IceEnds(t, won) ==
  LET r == pc.transport[t]
      p == [pc EXCEPT !.transport[t].start = "done",
                      !.transport[t].link = IF @ # "connecting" THEN @ ELSE IF won THEN "up" ELSE "failed"]
      q == SetIce(p, t, IF won THEN "completed" ELSE "failed")
  IN /\ r.start = "running"
     /\ \E c \in Waiting("ice", t) : pc' = Goes(AfterIce(q, c), c)

Wakes(c) ==
  /\ pc.connect[c].at = "start" /\ pc.transport[Through(pc, c)].start = "done"
  /\ pc' = Goes(AfterIce(pc, c), c)

(* Consent expired: the Connection closes itself.                          *)
ConsentExpires(t) ==
  /\ pc.transport[t].link = "up"
  /\ pc' = [pc EXCEPT !.transport[t].link = "down"]

ConsentTestEnds(t) ==
  /\ pc.transport[t].link = "closing"
  /\ pc' = [pc EXCEPT !.transport[t].link = "down"]

(* Mutant of SocketsClosed: the monitor task does not tell.                *)
SocketsJustClosed(p, t) == [p EXCEPT !.transport[t].link = "shut"]

(* The last socket is closed, and the monitor task hears of it.            *)
SocketsClosed(p, t) ==
  LET q == [p EXCEPT !.transport[t].link = "shut"]
  IN IF q.transport[t].ice = "completed" /\ q.transport[t].heard THEN SetIce(q, t, "failed") ELSE q

LinkShuts(t) ==
  /\ pc.transport[t].link = "down"
  /\ pc' = SocketsClosed(pc, t)

-----------------------------------------------------------------------------
(* DTLS.                                                                   *)

HandshakeEnds(t, good) ==
  /\ pc.transport[t].dtls = "connecting"
  /\ good => pc.transport[t].link \in {"up", "closing"}
  /\ LET p == IF good THEN SetDtls([pc EXCEPT !.transport[t].pump = "born"], t, "connected")
              ELSE SetDtls(pc, t, "failed")
     IN \E c \in Waiting("dtls", t) : pc' = Goes(AfterDtls(p, c), c)

(* A handshake that nobody answers goes on until the path is lost.         *)
HandshakeBreaks(t) == pc.transport[t].link \notin {"up", "closing"} /\ HandshakeEnds(t, FALSE)

RemoteCloses(t) ==
  /\ pc.transport[t].pump = "runs" /\ pc.transport[t].link = "up"
  /\ pc' = Disconnect(pc, t)

PumpEnds(t) ==
  /\ pc.transport[t].pump = "runs" /\ pc.transport[t].link = "shut"
  /\ pc' = Disconnect(pc, t)

PumpCancelled(t) ==
  /\ pc.transport[t].pump = "cancelled"
  /\ pc' = SetDtls([pc EXCEPT !.transport[t].pump = "exited"], t, "closed")

-----------------------------------------------------------------------------
(* Media.                                                                  *)

Born(t) == pc.transport[t].pump = "born" \/ \E m \in Shares(pc, t), k \in Tasks : pc.work[m][k] = "born"

Begins(state) == IF state = "born" THEN "runs" ELSE state

(* The tasks that one step created take their first steps together.        *)
FirstSteps(t) ==
  /\ Born(t)
  /\ pc' = [pc EXCEPT !.transport[t].pump = Begins(@),
                      !.work = [m \in Sections |->
                         IF m \in Shares(pc, t) THEN [k \in Tasks |-> Begins(@[m][k])] ELSE @[m]]]

TaskEnds(m, k) ==
  /\ pc.work[m][k] = "cancelled"
  /\ pc' = [pc EXCEPT !.work[m][k] = "exited"]

(* The track ends, or a packet cannot be sent.                             *)
RtpEnds(m) ==
  /\ pc.work[m]["rtp"] = "runs"
  /\ pc' = [pc EXCEPT !.work[m]["rtp"] = "exited"]

ReceiveBye(m) ==
  /\ pc.work[m]["decoder"] = "runs" /\ pc.transport[pc.via[m]].pump = "runs"
  /\ pc' = StopsDecoder(pc, m)

-----------------------------------------------------------------------------
Api ==
  \/ \E m \in Sections : Add(m)
  \/ \E type \in {"offer", "answer"} : SetLocalDescription(type) \/ SetRemoteDescription(type)
  \/ Close

World(t) ==
  \/ \E good \in BOOLEAN : IceEnds(t, good) \/ HandshakeEnds(t, good)
  \/ ConsentExpires(t) \/ RemoteCloses(t) \/ RtpEnds(t) \/ ReceiveBye(t)

(* What the event loop has to do, whatever the network does.               *)
Due ==
  \/ LocalDescriptionSet \/ RemoteDescriptionSet \/ StopOld \/ DiscardOld \/ CloseGoesOn
  \/ \E c \in Calls : ConnectBegins(c) \/ Wakes(c)
  \/ \E t \in Sections :
       \/ GatherEnds(t) \/ ConsentTestEnds(t) \/ LinkShuts(t) \/ PumpEnds(t) \/ PumpCancelled(t)
       \/ FirstSteps(t) \/ HandshakeBreaks(t)
       \/ \E k \in Tasks : TaskEnds(t, k)

PeerNext ==
  /\ UNCHANGED bundles
  /\ Api \/ Due \/ \E t \in Sections : World(t)

(* When Due is enabled.                                                    *)
HasWork ==
  \/ pc.call # NoCall
  \/ pc.closing # <<>> /\ Over(pc, Head(pc.closing))
  \/ \E c \in Calls : pc.connect[c].at = "goes" \/ (pc.connect[c].at = "start"
                         /\ pc.transport[Through(pc, c)].start = "done")
  \/ \E t \in Sections :
       LET r == pc.transport[t]
       IN \/ r.gather = "gathering" \/ r.link \in {"closing", "down"}
          \/ r.pump = "cancelled" \/ (r.pump = "runs" /\ r.link = "shut")
          \/ Born(t) \/ \E k \in Tasks : pc.work[t][k] = "cancelled"
          \/ (r.dtls = "connecting" /\ r.link \notin {"up", "closing"})

PeerFairness == <>[]HasWork => []<><<Due>>_peerVars

PeerSpec == PeerInit /\ [][PeerNext]_peerVars /\ PeerFairness

-----------------------------------------------------------------------------
(* What connectionState, iceConnectionState and iceGatheringState return   *)
(* is what the transports come to, whatever was added, bundled, stopped or *)
(* lost, although the listeners of a closed transport are removed.         *)
StatesAreTrue ==
  IF pc.closed THEN pc.closing = <<>> => pc.seen.connection = "closed" /\ pc.seen.ice = "closed"
  ELSE /\ pc.seen.connection = ConnectionState(pc)
       /\ pc.seen.ice = IceConnectionState(pc)
       /\ pc.seen.gathering = GatheringState(pc)

(* When close() has returned, nothing that was started before it was       *)
(* called runs on: no task, no decoder thread, no association, no socket   *)
(* of a transport in use.                                                  *)
ClosedIsQuiet ==
  pc.closed /\ pc.closing = <<>> =>
    \A m \in pc.known \ pc.late :
      /\ \A k \in Tasks : pc.work[m][k] \in {"none", "exited"}
      /\ pc.transport[pc.via[m]].gather = "completed" => pc.transport[pc.via[m]].link = "shut"

(* close() returns, in the middle of whatever it is called, unless it      *)
(* cancelled a task that had not taken its first step.                     *)
Killed == \E m \in Sections, k \in Tasks : pc.work[m][k] = "killed"

CloseReturns == pc.closed ~> (pc.closing = <<>> \/ Killed)

(* The loss of the path reaches the application, which sees "failed", and  *)
(* the tracks of its receivers, which end (query_consent, _monitor, __run, *)
(* _handle_disconnect).                                                    *)
LossIsTold ==
  \A t \in Sections :
    (pc.transport[t].link = "down" /\ pc.transport[t].ice = "completed" /\ ~pc.closed)
      ~> \/ pc.closed
         \/ /\ pc.seen.connection = "failed"
            /\ \A m \in Shares(pc, t) : pc.work[m]["decoder"] # "runs"
=============================================================================
