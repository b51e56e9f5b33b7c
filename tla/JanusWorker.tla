---------------------------- MODULE JanusWorker ----------------------------
(***************************************************************************)
(* The steps of the publishing subprocess (src/janus.py).  It connects to  *)
(* the Janus gateway over a websocket, joins the video room, publishes the *)
(* RTSP stream and reports to the server; module Worker is the part of this*)
(* the server depends on.                                                  *)
(*                                                                         *)
(* A worker runs one asyncio event loop, so a step below is the code       *)
(* between two awaits.  urlopen() is not awaited: it blocks the whole loop,*)
(* so nothing but the end of the request and the StreamPlayer thread moves *)
(* while waiting[w] holds.  The gateway, the peer connection and the stream*)
(* are the environment: whatever they may send or do is a step that may    *)
(* happen.                                                                 *)
(***************************************************************************)
EXTENDS Naturals

CONSTANTS
  MaxWorker,   \* bound: subprocesses launched in a behaviour
  MaxPost      \* bound: requests all of them send to the server

ASSUME JanusAssumption == {MaxWorker, MaxPost} \subseteq Nat \ {0}

Reports == {"webrtc up", "error 458", "error other", "pc closed", "pc failed"}

VARIABLES
  launched, posted, sender, event, waiting,   \* as in Worker
  stage,    \* where the worker is in WebRTCClient.loop and in __main__
  session,  \* is there a Janus session, that leave() would destroy?
  peer,     \* RTCPeerConnection: "none", "open", "closing", "closed"
  player    \* the StreamPlayer thread: "none", "running", "stopped"

vars == <<launched, posted, sender, event, waiting, stage, session, peer, player>>

InLoop  == {"joining", "published"}
Running == InLoop \cup {"connecting", "attaching", "raised"}

(* The server tells no stages of a running worker apart.                   *)
PhaseOf(s) ==
  CASE s \in Running              -> "running"
    [] s \in {"ended", "exited"}  -> "ended"
    [] OTHER                      -> s

W == INSTANCE Worker WITH
  phase <- [w \in 1..MaxWorker |-> PhaseOf(stage[w])]

Worker == W!Worker
Awake(w) == waiting[w] = W!NoPost

Init ==
  /\ launched = 0
  /\ posted = 0
  /\ sender = [h \in W!Post |-> W!NoWorker]
  /\ event = [h \in W!Post |-> W!Exception]
  /\ waiting = [w \in Worker |-> W!NoPost]
  /\ stage = [w \in Worker |-> "unborn"]
  /\ session = [w \in Worker |-> FALSE]
  /\ peer = [w \in Worker |-> "none"]
  /\ player = [w \in Worker |-> "none"]

-----------------------------------------------------------------------------
Moves(w, from, to) ==
  /\ Awake(w) /\ stage[w] \in from
  /\ stage' = [stage EXCEPT ![w] = to]

NoReport == UNCHANGED <<launched, posted, sender, event, waiting>>

Launch ==
  /\ launched < MaxWorker
  /\ launched' = launched + 1
  /\ stage' = [stage EXCEPT ![launched + 1] = "connecting"]
  /\ UNCHANGED <<posted, sender, event, waiting, session, peer, player>>

(* SIGTERM, at any point; a process that has exited is not disturbed.      *)
Kill(w) ==
  /\ stage[w] \notin {"unborn", "exited", "killed"}
  /\ stage' = [stage EXCEPT ![w] = "killed"]
  /\ NoReport /\ UNCHANGED <<session, peer, player>>

(* connect() and attach() read one message each and raise unless it is the *)
(* success they wait for; then loop() sends the join request.              *)
Connect(w) ==
  /\ \/ Moves(w, {"connecting"}, "attaching") /\ session' = [session EXCEPT ![w] = TRUE]
     \/ Moves(w, {"connecting"}, "raised") /\ UNCHANGED session
  /\ NoReport /\ UNCHANGED <<peer, player>>

Attach(w) ==
  /\ Moves(w, {"attaching"}, "joining") \/ Moves(w, {"attaching"}, "raised")
  /\ NoReport /\ UNCHANGED <<session, peer, player>>

(* "joined": publish() makes the peer connection, opens the stream (which  *)
(* may raise) and starts its player thread with the track, then sends the  *)
(* offer (which may raise as well).                                        *)
Publish(w) ==
  /\ peer' = [peer EXCEPT ![w] = "open"]
  /\ \/ /\ Moves(w, {"joining"}, "published") \/ Moves(w, {"joining"}, "raised")
        /\ player' = [player EXCEPT ![w] = "running"]
     \/ Moves(w, {"joining"}, "raised") /\ UNCHANGED player
  /\ NoReport /\ UNCHANGED session

(* A videoroom event with an error, a kick (whose data['error'] lookup     *)
(* raises as well), or an answer that setRemoteDescription refuses.        *)
HandlePluginDataRaises(w) ==
  /\ Moves(w, InLoop, "raised")
  /\ NoReport /\ UNCHANGED <<session, peer, player>>

(* WebrtcUp: the gateway has media.                                        *)
WebrtcUp(w) ==
  /\ stage[w] = "published"
  /\ W!SendMsgToMain(w, "webrtc up")
  /\ UNCHANGED <<stage, session, peer, player>>

(* JanusError with any code; 458 is "no such session".                     *)
JanusError(w) ==
  /\ stage[w] \in InLoop
  /\ \E e \in {"error 458", "error other"} : W!SendMsgToMain(w, e)
  /\ UNCHANGED <<stage, session, peer, player>>

(* on_connectionstatechange, connectionState 'failed': await pc.close().   *)
(* The receive loop goes on while it is closing, and may end under it.     *)
ConnectionFails(w) ==
  /\ Awake(w) /\ stage[w] = "published" /\ peer[w] = "open"
  /\ peer' = [peer EXCEPT ![w] = "closing"]
  /\ NoReport /\ UNCHANGED <<stage, session, player>>

(* Mutant of StopPlayer: the player is left running.                       *)
ForgetPlayer(w) == UNCHANGED player

StopPlayer(w) == player' = [player EXCEPT ![w] = "stopped"]

(* pc.connectionState as the handler reads it after the await: 'closed',   *)
(* which is what RTCPeerConnection.close leaves behind.  If the handler is *)
(* due when loop() ends, it runs in the iteration that destroy() is run in.*)
StateReported == "pc closed"

ConnectionClosed(w) ==
  /\ stage[w] \in InLoop \cup {"ended"} /\ peer[w] = "closing"
  /\ W!SendMsgToMain(w, StateReported)
  /\ peer' = [peer EXCEPT ![w] = "closed"]
  /\ StopPlayer(w)
  /\ UNCHANGED <<stage, session>>

(* destroy() closes http_session first, an attribute nothing ever sets:    *)
(* AttributeError before the session, the peer or the player are released. *)
Destroy(w) == UNCHANGED <<session, peer, player>>

(* The websocket is closed: loop() returns and nothing is reported.        *)
WebsocketCloses(w) ==
  /\ Moves(w, InLoop, "ended")
  /\ Destroy(w)
  /\ NoReport

(* Mutant of ReportException: the loop survives the exception.             *)
ReportAndGoOn(w) ==
  /\ stage[w] = "raised"
  /\ W!SendMsgToMain(w, W!Exception)
  /\ stage' = [stage EXCEPT ![w] = "joining"]
  /\ Destroy(w)

(* The except clause of __main__ reports before its finally clause.        *)
ReportException(w) ==
  /\ stage[w] = "raised"
  /\ W!SendMsgToMain(w, W!Exception)
  /\ stage' = [stage EXCEPT ![w] = "ended"]
  /\ Destroy(w)

(* The stream ends or breaks: run() leaves its loop and nobody is told.    *)
StreamEnds(w) ==
  /\ stage[w] \in Running \cup {"ended"} /\ player[w] = "running"
  /\ player' = [player EXCEPT ![w] = "stopped"]
  /\ NoReport /\ UNCHANGED <<stage, session, peer>>

(* The interpreter waits for the player, which is no daemon thread.        *)
Exit(w) ==
  /\ Moves(w, {"ended"}, "exited")
  /\ player[w] # "running"
  /\ NoReport /\ UNCHANGED <<session, peer, player>>

(* Mutant of SendReturns: urlopen() waits for the reply for good.          *)
WaitsOn(w) == FALSE /\ UNCHANGED vars

(* The reply, or 5 s without one (socket.setdefaulttimeout).               *)
SendReturns(w) ==
  /\ stage[w] \in Running \cup {"ended"} /\ ~Awake(w)
  /\ waiting' = [waiting EXCEPT ![w] = W!NoPost]
  /\ UNCHANGED <<launched, posted, sender, event, stage, session, peer, player>>

Next ==
  \/ Launch
  \/ \E w \in Worker :
       \/ Kill(w) \/ Connect(w) \/ Attach(w) \/ Publish(w)
       \/ HandlePluginDataRaises(w) \/ WebrtcUp(w) \/ JanusError(w)
       \/ ConnectionFails(w) \/ ConnectionClosed(w)
       \/ WebsocketCloses(w) \/ ReportException(w)
       \/ StreamEnds(w) \/ Exit(w) \/ SendReturns(w)

(* A runnable process runs; the environment owes it nothing.               *)
Fairness == \A w \in Worker :
  /\ WF_vars(SendReturns(w))
  /\ WF_vars(ReportException(w))
  /\ WF_vars(Exit(w))

Spec == Init /\ [][Next]_vars /\ Fairness

-----------------------------------------------------------------------------
(* The worker is what the server's model takes it for.                     *)
ImplementsWorker == W!WorkerSpec

(* By the time the server hears of a lost connection the player has been   *)
(* stopped, even if the report is never answered (on_connectionstatechange)*)
NothingPlaysAfterLoss ==
  \A h \in 1..posted :
    event[h] \in {"pc closed", "pc failed"} => player[sender[h]] = "stopped"

(* A worker whose loop has ended is gone once its stream is: no request to *)
(* the server, answered or not, keeps the process (send_msg_to_main).      *)
EndedWorkerExits ==
  \A w \in Worker :
    stage[w] = "ended" /\ player[w] # "running" ~> stage[w] \in {"exited", "killed"}

(* "connection lost, we restart it" (accrtsprtc.py): the server restarts a *)
(* worker on the report 'failed', so a lost connection is reported as that.*)
LossReportedAsFailed ==
  \A h \in 1..posted :
    event[h] \in {"pc closed", "pc failed"} => event[h] = "pc failed"
=============================================================================
