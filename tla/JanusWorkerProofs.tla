-------------------------- MODULE JanusWorkerProofs --------------------------
(***************************************************************************)
(* Theorems about JanusWorker for every number of subprocesses and of      *)
(* requests: it implements Worker, the part of it that the server's model  *)
(* is built on, and no stream is played when a lost connection is reported.*)
(***************************************************************************)
EXTENDS JanusWorker, TLAPS

Stage ==
  {"unborn", "connecting", "attaching", "joining", "published", "raised",
   "ended", "exited", "killed"}

Types ==
  /\ launched \in 0..MaxWorker /\ posted \in 0..MaxPost
  /\ sender \in [W!Post -> Worker \cup {W!NoWorker}]
  /\ event \in [W!Post -> W!Event]
  /\ waiting \in [Worker -> W!Post \cup {W!NoPost}]
  /\ stage \in [Worker -> Stage]
  /\ session \in [Worker -> BOOLEAN]
  /\ peer \in [Worker -> {"none", "open", "closing", "closed"}]
  /\ player \in [Worker -> {"none", "running", "stopped"}]

(* A player is started once, with the peer connection; the report of a     *)
(* lost connection comes from a worker that had one.                       *)
JanusInv ==
  /\ Types
  /\ \A w \in Worker : w > launched => stage[w] = "unborn"
  /\ \A w \in Worker :
       peer[w] # "none" => stage[w] \notin {"unborn", "connecting", "attaching", "joining"}
  /\ \A h \in 1..posted :
       event[h] \in {"pc closed", "pc failed"} =>
         sender[h] \in Worker /\ peer[sender[h]] # "none" /\ player[sender[h]] = "stopped"

-----------------------------------------------------------------------------
LEMMA Numbers ==
  /\ MaxWorker \in Nat \ {0} /\ MaxPost \in Nat \ {0}
  /\ Worker = 1..MaxWorker /\ W!Post = 1..MaxPost /\ W!NoWorker = 0 /\ W!NoPost = 0
  /\ W!Event = Reports \cup {"exception"} /\ W!Exception = "exception"
  BY JanusAssumption DEF JanusAssumption, Worker, W!Worker, W!Post, W!NoWorker, W!NoPost, W!Event, W!Exception

LEMMA Counters ==
  ASSUME Types
  PROVE  launched \in Nat /\ posted \in Nat /\ launched <= MaxWorker
<1>1. launched \in 0..MaxWorker /\ posted \in 0..MaxPost
  BY DEF Types
<1>2. MaxWorker \in Nat /\ MaxPost \in Nat
  BY JanusAssumption DEF JanusAssumption
<1> QED  BY <1>1, <1>2

LEMMA OneLess == \A n \in Nat : \A k \in 1..(n + 1) : k # n + 1 => k \in 1..n
  OBVIOUS

LEMMA Stages ==
  /\ InLoop \subseteq Stage /\ Running \subseteq Stage
  /\ \A s \in Running : PhaseOf(s) = "running"
  /\ PhaseOf("ended") = "ended" /\ PhaseOf("exited") = "ended"
  /\ PhaseOf("unborn") = "unborn" /\ PhaseOf("killed") = "killed"
  BY DEF InLoop, Running, Stage, PhaseOf

LEMMA JanusInitInv == Init => JanusInv
<1> SUFFICES ASSUME Init
             PROVE  JanusInv
  OBVIOUS
<1>1. Types
  BY Numbers DEF Init, Types, Stage
<1>2. \A h \in 1..posted : FALSE
  BY DEF Init
<1> QED  BY <1>1, <1>2, Numbers DEF Init, JanusInv

(* A report: what it says, and that it changes nothing else.               *)
LEMMA SendEffect ==
  ASSUME Types, NEW w \in Worker, NEW e \in W!Event, W!SendMsgToMain(w, e)
  PROVE  /\ posted' = posted + 1 /\ posted' \in 0..MaxPost /\ launched' = launched
         /\ sender' \in [W!Post -> Worker \cup {W!NoWorker}] /\ event' \in [W!Post -> W!Event]
         /\ waiting' \in [Worker -> W!Post \cup {W!NoPost}]
         /\ sender'[posted'] = w /\ event'[posted'] = e
         /\ \A h \in 1..posted : sender'[h] = sender[h] /\ event'[h] = event[h]
<1>1. /\ posted < MaxPost /\ posted' = posted + 1 /\ launched' = launched
      /\ sender' = [sender EXCEPT ![posted + 1] = w]
      /\ event' = [event EXCEPT ![posted + 1] = e]
      /\ waiting' = [waiting EXCEPT ![w] = posted + 1]
  BY DEF W!SendMsgToMain
<1>2. posted \in Nat /\ posted + 1 \in W!Post /\ 1..posted \subseteq W!Post
  BY <1>1, Numbers DEF Types
<1> QED  BY <1>1, <1>2, Numbers DEF Types

(* A step that makes no report, starts no player beside a peer connection  *)
(* and takes nobody with a peer connection back.                           *)
LEMMA QuietInv ==
  ASSUME JanusInv, Types', launched' >= launched, UNCHANGED <<posted, sender, event>>,
         \A w \in Worker : w > launched' => stage'[w] = stage[w],
         \A w \in Worker :
           peer'[w] # "none" => stage'[w] \notin {"unborn", "connecting", "attaching", "joining"},
         \A w \in Worker : peer[w] # "none" => peer'[w] # "none",
         \A w \in Worker : peer[w] # "none" /\ player[w] = "stopped" => player'[w] = "stopped"
  PROVE  JanusInv'
<1>1. \A w \in Worker : w > launched' => stage'[w] = "unborn"
  <2>1. launched \in Nat /\ launched' \in Nat
    <3>1. launched \in Nat
      BY Counters DEF JanusInv
    <3>2. launched' \in 0..MaxWorker
      BY DEF Types
    <3> QED  BY <3>1, <3>2
  <2>2. \A w \in Worker : w > launched => stage[w] = "unborn"
    BY DEF JanusInv
  <2> QED  BY <2>1, <2>2, Numbers
<1>2. \A h \in 1..posted' :
       event'[h] \in {"pc closed", "pc failed"} =>
         sender'[h] \in Worker /\ peer'[sender'[h]] # "none" /\ player'[sender'[h]] = "stopped"
  BY DEF JanusInv
<1> QED  BY <1>1, <1>2 DEF JanusInv

(* A report, of a lost connection only by one that had a player stopped.   *)
LEMMA ReportInv ==
  ASSUME JanusInv, Types', NEW w \in Worker, NEW e \in W!Event, W!SendMsgToMain(w, e),
         e \in {"pc closed", "pc failed"} => peer'[w] # "none" /\ player'[w] = "stopped",
         \A v \in Worker : v > launched => stage'[v] = stage[v],
         \A v \in Worker :
           peer'[v] # "none" => stage'[v] \notin {"unborn", "connecting", "attaching", "joining"},
         \A v \in Worker : peer[v] # "none" => peer'[v] # "none",
         \A v \in Worker : player[v] = "stopped" => player'[v] = "stopped"
  PROVE  JanusInv'
<1>0. Types
  BY DEF JanusInv
<1>a. posted \in Nat
  BY <1>0, Counters
<1>b. posted' = posted + 1 /\ launched' = launched /\ sender'[posted'] = w /\ event'[posted'] = e
  BY <1>0, SendEffect
<1>1. /\ sender'[posted + 1] = w /\ event'[posted + 1] = e
      /\ \A h \in 1..posted : sender'[h] = sender[h] /\ event'[h] = event[h]
  BY <1>0, <1>b, SendEffect
<1>2. \A v \in Worker : v > launched' => stage'[v] = "unborn"
  BY <1>b DEF JanusInv
<1>3. \A h \in 1..posted' :
       event'[h] \in {"pc closed", "pc failed"} =>
         sender'[h] \in Worker /\ peer'[sender'[h]] # "none" /\ player'[sender'[h]] = "stopped"
  <2>1. SUFFICES ASSUME NEW h, h \in 1..posted', event'[h] \in {"pc closed", "pc failed"}
                 PROVE  sender'[h] \in Worker /\ peer'[sender'[h]] # "none" /\ player'[sender'[h]] = "stopped"
    OBVIOUS
  <2>2. CASE h = posted + 1
    BY <1>1, <2>1, <2>2
  <2>3. CASE h # posted + 1
    <3>1. h \in 1..posted
      <4>1. 1..posted' = 1..(posted + 1)
        BY <1>b
      <4>2. h \in 1..(posted + 1) /\ h # posted + 1
        BY <2>1, <2>3, <4>1
      <4> QED  BY <1>a, <4>2, OneLess
    <3>2. event[h] \in {"pc closed", "pc failed"} /\ sender'[h] = sender[h]
      BY <1>1, <2>1, <3>1
    <3>3. sender[h] \in Worker /\ peer[sender[h]] # "none" /\ player[sender[h]] = "stopped"
      BY <3>1, <3>2 DEF JanusInv
    <3> QED  BY <3>2, <3>3
  <2> QED  BY <2>2, <2>3
<1> QED  BY <1>2, <1>3 DEF JanusInv

LEMMA JanusNextInv == JanusInv /\ [Next]_vars => JanusInv'
<1> SUFFICES ASSUME JanusInv, [Next]_vars
             PROVE  JanusInv'
  OBVIOUS
<1>0. Types
  BY DEF JanusInv
<1>1. CASE Launch
  <2>a. launched + 1 \in Worker /\ launched \in Nat
    BY <1>0, <1>1, Counters, Numbers DEF Launch
  <2>1. launched + 1 \in Worker /\ stage[launched + 1] = "unborn" /\ launched \in Nat
    <3>1. \A w \in Worker : w > launched => stage[w] = "unborn"
      BY DEF JanusInv
    <3>2. launched + 1 > launched
      BY <2>a
    <3> QED  BY <2>a, <3>1, <3>2
  <2>2. /\ launched' = launched + 1 /\ stage' = [stage EXCEPT ![launched + 1] = "connecting"]
        /\ UNCHANGED <<posted, sender, event, waiting, session, peer, player>>
    BY <1>1 DEF Launch
  <2>3. Types'
    BY <1>0, <1>1, <2>1, <2>2, Numbers DEF Types, Stage, Launch
  <2>4. \A w \in Worker : peer'[w] # "none" => stage'[w] \notin {"unborn", "connecting", "attaching", "joining"}
    BY <1>0, <2>1, <2>2 DEF JanusInv, Types
  <2>5. \A w \in Worker : w > launched' => stage'[w] = stage[w]
    BY <1>0, <2>1, <2>2, Numbers DEF Types
  <2> QED  BY <2>1, <2>2, <2>3, <2>4, <2>5, QuietInv
<1>2. ASSUME NEW w \in Worker,
             Kill(w) \/ Connect(w) \/ Attach(w) \/ HandlePluginDataRaises(w) \/ WebsocketCloses(w) \/ Exit(w)
      PROVE  JanusInv'
  <2>1. /\ UNCHANGED <<launched, posted, sender, event, waiting, peer, player>>
        /\ session' \in [Worker -> BOOLEAN]
    BY <1>0, <1>2 DEF Types, Kill, Connect, Attach, HandlePluginDataRaises, WebsocketCloses, Exit, NoReport, Destroy
  <2>2. PICK s \in Stage : stage' = [stage EXCEPT ![w] = s] /\ s # "unborn" /\ stage[w] # "unborn"
                           /\ (s \in {"connecting", "attaching", "joining"} => stage[w] \in {"connecting", "attaching"})
    BY <1>2 DEF Kill, Connect, Attach, HandlePluginDataRaises, WebsocketCloses, Exit, Moves, InLoop, Stage
  <2>3. Types'
    BY <1>0, <2>1, <2>2 DEF Types
  <2>4. \A v \in Worker : stage'[v] = IF v = w THEN s ELSE stage[v]
    BY <1>0, <2>2 DEF Types
  <2>5. \A v \in Worker : peer'[v] # "none" => stage'[v] \notin {"unborn", "connecting", "attaching", "joining"}
    BY <2>1, <2>2, <2>4 DEF JanusInv
  <2>6. \A v \in Worker : v > launched' => stage'[v] = stage[v]
    BY <2>1, <2>2, <2>4 DEF JanusInv
  <2> QED  BY <1>0, <2>1, <2>3, <2>5, <2>6, QuietInv, Numbers DEF Types
<1>3. ASSUME NEW w \in Worker, Publish(w)
      PROVE  JanusInv'
  <2>1. /\ UNCHANGED <<launched, posted, sender, event, waiting, session>>
        /\ peer' = [peer EXCEPT ![w] = "open"] /\ stage[w] = "joining"
    BY <1>3 DEF Publish, NoReport, Moves
  <2>2. PICK s \in {"published", "raised"} : stage' = [stage EXCEPT ![w] = s]
    BY <1>3 DEF Publish, Moves
  <2>3. player' = [player EXCEPT ![w] = "running"] \/ player' = player
    BY <1>3 DEF Publish
  <2>4. peer[w] = "none"
    BY <2>1 DEF JanusInv
  <2>5. Types'
    BY <1>0, <2>1, <2>2, <2>3 DEF Types, Stage
  <2>6. /\ \A v \in Worker : stage'[v] = IF v = w THEN s ELSE stage[v]
        /\ \A v \in Worker : peer'[v] = IF v = w THEN "open" ELSE peer[v]
        /\ \A v \in Worker \ {w} : player'[v] = player[v]
    BY <1>0, <2>1, <2>2, <2>3 DEF Types
  <2>7. \A v \in Worker : peer'[v] # "none" => stage'[v] \notin {"unborn", "connecting", "attaching", "joining"}
    <3>1. \A v \in Worker : peer[v] # "none" => stage[v] \notin {"unborn", "connecting", "attaching", "joining"}
      BY DEF JanusInv
    <3> QED  BY <2>2, <2>6, <3>1
  <2>8. \A v \in Worker : v > launched' => stage'[v] = stage[v]
    BY <2>1, <2>6 DEF JanusInv
  <2>9. /\ \A v \in Worker : peer[v] # "none" => peer'[v] # "none"
        /\ \A v \in Worker : peer[v] # "none" /\ player[v] = "stopped" => player'[v] = "stopped"
    BY <2>4, <2>6
  <2> QED  BY <1>0, <2>1, <2>5, <2>7, <2>8, <2>9, QuietInv, Numbers DEF Types
<1>4. ASSUME NEW w \in Worker, ConnectionFails(w) \/ StreamEnds(w) \/ SendReturns(w)
      PROVE  JanusInv'
  <2>1. /\ UNCHANGED <<launched, posted, sender, event, stage, session>>
        /\ waiting' = waiting \/ waiting' = [waiting EXCEPT ![w] = W!NoPost]
        /\ peer' = peer \/ (peer' = [peer EXCEPT ![w] = "closing"] /\ peer[w] = "open")
        /\ player' = player \/ player' = [player EXCEPT ![w] = "stopped"]
    <3>1. CASE ConnectionFails(w)
      BY <3>1 DEF ConnectionFails, NoReport
    <3>2. CASE StreamEnds(w)
      BY <3>2 DEF StreamEnds, NoReport
    <3>3. CASE SendReturns(w)
      BY <3>3 DEF SendReturns
    <3> QED  BY <1>4, <3>1, <3>2, <3>3
  <2>2. Types'
    BY <1>0, <2>1 DEF Types
  <2>3. /\ \A v \in Worker : peer'[v] # "none" <=> peer[v] # "none"
        /\ \A v \in Worker : player[v] = "stopped" => player'[v] = "stopped"
    BY <1>0, <2>1 DEF Types
  <2>4. \A v \in Worker : peer'[v] # "none" => stage'[v] \notin {"unborn", "connecting", "attaching", "joining"}
    BY <2>1, <2>3 DEF JanusInv
  <2>5. launched' >= launched
    BY <1>0, <2>1, Counters
  <2> QED  BY <2>1, <2>2, <2>3, <2>4, <2>5, QuietInv
<1>5. ASSUME NEW w \in Worker, WebrtcUp(w) \/ JanusError(w)
      PROVE  JanusInv'
  <2>1. PICK e \in {"webrtc up", "error 458", "error other"} : W!SendMsgToMain(w, e)
    BY <1>5 DEF WebrtcUp, JanusError
  <2>2. UNCHANGED <<stage, session, peer, player>>
    BY <1>5 DEF WebrtcUp, JanusError
  <2>3. e \in W!Event
    BY Numbers DEF Reports
  <2>4. Types'
    BY <1>0, <2>1, <2>2, <2>3, SendEffect DEF Types
  <2> QED  BY <2>1, <2>2, <2>3, <2>4, ReportInv DEF JanusInv
<1>6. ASSUME NEW w \in Worker, ConnectionClosed(w)
      PROVE  JanusInv'
  <2>1. /\ W!SendMsgToMain(w, "pc closed") /\ peer' = [peer EXCEPT ![w] = "closed"]
        /\ player' = [player EXCEPT ![w] = "stopped"] /\ UNCHANGED <<stage, session>>
        /\ peer[w] = "closing"
    BY <1>6 DEF ConnectionClosed, StateReported, StopPlayer
  <2>2. "pc closed" \in W!Event
    BY Numbers DEF Reports
  <2>3. Types'
    BY <1>0, <2>1, <2>2, SendEffect DEF Types
  <2>4. /\ \A v \in Worker : peer'[v] # "none" <=> peer[v] # "none"
        /\ \A v \in Worker : player[v] = "stopped" => player'[v] = "stopped"
        /\ peer'[w] # "none" /\ player'[w] = "stopped"
    BY <1>0, <2>1 DEF Types
  <2> QED  BY <2>1, <2>2, <2>3, <2>4, ReportInv DEF JanusInv
<1>7. ASSUME NEW w \in Worker, ReportException(w)
      PROVE  JanusInv'
  <2>1. /\ W!SendMsgToMain(w, "exception") /\ stage[w] = "raised"
        /\ stage' = [stage EXCEPT ![w] = "ended"] /\ UNCHANGED <<session, peer, player>>
    BY <1>7, Numbers DEF ReportException, Destroy
  <2>2. "exception" \in W!Event
    BY Numbers
  <2>3. Types'
    BY <1>0, <2>1, <2>2, SendEffect DEF Types, Stage
  <2>4. \A v \in Worker : stage'[v] = IF v = w THEN "ended" ELSE stage[v]
    BY <1>0, <2>1 DEF Types
  <2>5. \A v \in Worker : v > launched => stage'[v] = stage[v]
    BY <2>1, <2>4 DEF JanusInv
  <2>6. \A v \in Worker : peer'[v] # "none" => stage'[v] \notin {"unborn", "connecting", "attaching", "joining"}
    <3>1. \A v \in Worker : peer[v] # "none" => stage[v] \notin {"unborn", "connecting", "attaching", "joining"}
      BY DEF JanusInv
    <3> QED  BY <2>1, <2>4, <3>1
  <2> QED  BY <2>1, <2>2, <2>3, <2>5, <2>6, ReportInv
<1>8. CASE UNCHANGED vars
  BY <1>8 DEF vars, JanusInv, Types
<1> QED  BY <1>1, <1>2, <1>3, <1>4, <1>5, <1>6, <1>7, <1>8 DEF Next

LEMMA JanusInvariant == Spec => []JanusInv
  BY JanusInitInv, JanusNextInv, PTL DEF Spec

(* By the time the server hears of a lost connection the worker's player   *)
(* has been stopped, and nothing starts it again.                          *)
THEOREM NothingPlays == Spec => []NothingPlaysAfterLoss
<1>1. JanusInv => NothingPlaysAfterLoss
  BY DEF JanusInv, NothingPlaysAfterLoss
<1> QED  BY <1>1, JanusInvariant, PTL

-----------------------------------------------------------------------------
(* The mapping: only the phase of a worker is told.                        *)
Phases == [w \in 1..MaxWorker |-> PhaseOf(stage[w])]

LEMMA PhaseChange ==
  ASSUME Types, NEW w \in Worker, NEW s \in Stage, stage' = [stage EXCEPT ![w] = s]
  PROVE  Phases' = [Phases EXCEPT ![w] = PhaseOf(s)]
<1>1. stage \in [Worker -> Stage] /\ Worker = 1..MaxWorker
  BY Numbers DEF Types
<1>2. \A v \in Worker : stage'[v] = IF v = w THEN s ELSE stage[v]
  BY <1>1
<1>3. Phases' = [v \in Worker |-> PhaseOf(stage'[v])]
  BY <1>1 DEF Phases
<1>4. [Phases EXCEPT ![w] = PhaseOf(s)] = [v \in Worker |-> IF v = w THEN PhaseOf(s) ELSE PhaseOf(stage[v])]
  BY <1>1 DEF Phases
<1>5. \A v \in Worker : PhaseOf(stage'[v]) = IF v = w THEN PhaseOf(s) ELSE PhaseOf(stage[v])
  BY <1>2
<1> QED  BY <1>3, <1>4, <1>5

(* Every step is one of Worker, or changes nothing that it knows of.       *)
LEMMA StepMaps == JanusInv /\ [Next]_vars => [W!WorkerNext]_(W!workerVars)
<1> SUFFICES ASSUME JanusInv, [Next]_vars
             PROVE  W!WorkerNext \/ UNCHANGED W!workerVars
  OBVIOUS
<1>0. Types /\ stage \in [Worker -> Stage]
  BY DEF JanusInv, Types
<1>a. W!Worker = Worker /\ \A w \in Worker : Phases[w] = PhaseOf(stage[w])
  BY Numbers DEF Worker, Phases
<1>b. UNCHANGED <<launched, posted, sender, event, waiting>> /\ Phases' = Phases => UNCHANGED W!workerVars
  BY DEF W!workerVars, Phases
<1>c. \A w \in Worker : stage[w] \in Running => Phases[w] = "running"
  BY <1>a, Stages
<1>1. CASE Launch
  <2>1. launched + 1 \in Worker
    BY <1>0, <1>1, Counters, Numbers DEF Launch
  <2>2. Phases' = [Phases EXCEPT ![launched + 1] = "running"]
    <3>1. "connecting" \in Stage /\ "connecting" \in Running
      BY DEF Stage, Running
    <3>2. stage' = [stage EXCEPT ![launched + 1] = "connecting"]
      BY <1>1 DEF Launch
    <3>3. Phases' = [Phases EXCEPT ![launched + 1] = PhaseOf("connecting")]
      BY <1>0, <2>1, <3>1, <3>2, PhaseChange
    <3> QED  BY <3>1, <3>3, Stages
  <2>3. W!Spawn
    BY <1>1, <2>2 DEF W!Spawn, Launch, Phases
  <2> QED  BY <2>3 DEF W!WorkerNext
<1>2. ASSUME NEW w \in Worker, Kill(w)
      PROVE  W!WorkerNext
  <2>1. /\ stage[w] \notin {"unborn", "exited", "killed"} /\ stage' = [stage EXCEPT ![w] = "killed"]
        /\ UNCHANGED <<launched, posted, sender, event, waiting>>
    BY <1>2 DEF Kill, NoReport
  <2>2. Phases' = [Phases EXCEPT ![w] = "killed"]
    BY <1>0, <2>1, PhaseChange, Stages DEF Stage
  <2>3. Phases[w] \in {"running", "ended"}
    <3>1. stage[w] \in Running \cup {"ended"}
      BY <1>0, <2>1 DEF Stage, Running, InLoop
    <3> QED  BY <1>a, <3>1, Stages
  <2>4. W!Signal(w)
    BY <2>1, <2>2, <2>3 DEF W!Signal, W!Live, Phases
  <2> QED  BY <1>a, <2>4 DEF W!WorkerNext
<1>3. ASSUME NEW w \in Worker, Connect(w) \/ Attach(w) \/ HandlePluginDataRaises(w) \/ Publish(w)
      PROVE  UNCHANGED W!workerVars
  <2>1. UNCHANGED <<launched, posted, sender, event, waiting>> /\ stage[w] \in Running
    BY <1>3 DEF Connect, Attach, HandlePluginDataRaises, Publish, NoReport, Moves, Running, InLoop
  <2>2. PICK s \in Running : stage' = [stage EXCEPT ![w] = s]
    BY <1>3 DEF Connect, Attach, HandlePluginDataRaises, Publish, Moves, Running, InLoop
  <2>3. Phases' = [Phases EXCEPT ![w] = "running"]
    BY <1>0, <2>2, PhaseChange, Stages
  <2>4. Phases' = Phases
    BY <1>c, <2>1, <2>3 DEF Phases
  <2> QED  BY <1>b, <2>1, <2>4
<1>4. ASSUME NEW w \in Worker, ConnectionFails(w) \/ StreamEnds(w)
      PROVE  UNCHANGED W!workerVars
  <2>1. UNCHANGED <<launched, posted, sender, event, waiting, stage>>
    BY <1>4 DEF ConnectionFails, StreamEnds, NoReport
  <2> QED  BY <1>b, <2>1 DEF Phases
<1>5. ASSUME NEW w \in Worker, Exit(w)
      PROVE  UNCHANGED W!workerVars
  <2>1. /\ UNCHANGED <<launched, posted, sender, event, waiting>> /\ stage[w] = "ended"
        /\ stage' = [stage EXCEPT ![w] = "exited"]
    BY <1>5 DEF Exit, NoReport, Moves
  <2>2. Phases' = [Phases EXCEPT ![w] = "ended"]
    BY <1>0, <2>1, PhaseChange, Stages DEF Stage
  <2>3. Phases' = Phases
    BY <1>a, <2>1, <2>2, Stages DEF Phases
  <2> QED  BY <1>b, <2>1, <2>3
<1>6. ASSUME NEW w \in Worker, WebsocketCloses(w)
      PROVE  W!WorkerNext
  <2>1. /\ UNCHANGED <<launched, posted, sender, event, waiting>> /\ stage[w] \in Running
        /\ stage' = [stage EXCEPT ![w] = "ended"] /\ waiting[w] = W!NoPost
    BY <1>6 DEF WebsocketCloses, NoReport, Moves, Running, Awake
  <2>2. Phases' = [Phases EXCEPT ![w] = "ended"]
    BY <1>0, <2>1, PhaseChange, Stages DEF Stage
  <2>3. W!Leave(w)
    BY <1>c, <2>1, <2>2 DEF W!Leave, Phases
  <2> QED  BY <1>a, <2>3 DEF W!WorkerNext, W!WorkerStep
<1>7. ASSUME NEW w \in Worker, WebrtcUp(w) \/ JanusError(w) \/ ConnectionClosed(w)
      PROVE  W!WorkerNext
  <2>1. PICK e \in Reports : W!SendMsgToMain(w, e)
    BY <1>7 DEF WebrtcUp, JanusError, ConnectionClosed, StateReported, Reports
  <2>2. stage[w] \in Running \cup {"ended"} /\ UNCHANGED stage
    BY <1>7 DEF WebrtcUp, JanusError, ConnectionClosed, Running, InLoop
  <2>3. Phases[w] \in {"running", "ended"} /\ Phases' = Phases
    BY <1>a, <2>2, Stages DEF Phases
  <2>4. W!Report(w)
    BY <2>1, <2>3 DEF W!Report, W!Live, Phases
  <2> QED  BY <1>a, <2>4 DEF W!WorkerNext, W!WorkerStep
<1>8. ASSUME NEW w \in Worker, ReportException(w)
      PROVE  W!WorkerNext
  <2>1. /\ W!SendMsgToMain(w, W!Exception) /\ stage[w] \in Running
        /\ stage' = [stage EXCEPT ![w] = "ended"]
    BY <1>8 DEF ReportException, Running
  <2>2. Phases' = [Phases EXCEPT ![w] = "ended"]
    BY <1>0, <2>1, PhaseChange, Stages DEF Stage
  <2>3. W!Fail(w)
    BY <1>c, <2>1, <2>2 DEF W!Fail, Phases
  <2> QED  BY <1>a, <2>3 DEF W!WorkerNext, W!WorkerStep
<1>9. ASSUME NEW w \in Worker, SendReturns(w)
      PROVE  W!WorkerNext
  <2>1. /\ stage[w] \in Running \cup {"ended"} /\ waiting[w] # W!NoPost
        /\ waiting' = [waiting EXCEPT ![w] = W!NoPost]
        /\ UNCHANGED <<launched, posted, sender, event, stage>>
    BY <1>9 DEF SendReturns, Awake
  <2>2. Phases[w] \in {"running", "ended"} /\ Phases' = Phases
    BY <1>a, <2>1, Stages DEF Phases
  <2>3. W!SendReturns(w)
    BY <2>1, <2>2 DEF W!SendReturns, W!Live, Phases
  <2> QED  BY <1>a, <2>3 DEF W!WorkerNext
<1>10. CASE UNCHANGED vars
  BY <1>b, <1>10 DEF vars, Phases
<1> QED  BY <1>1, <1>2, <1>3, <1>4, <1>5, <1>6, <1>7, <1>8, <1>9, <1>10 DEF Next

LEMMA InitMaps == Init => W!WorkerInit
<1> SUFFICES ASSUME Init
             PROVE  W!WorkerInit
  OBVIOUS
<1>1. [w \in 1..MaxWorker |-> PhaseOf(stage[w])] = [w \in 1..MaxWorker |-> "unborn"]
  BY Numbers, Stages DEF Init
<1>2. W!Worker = Worker
  BY Numbers DEF Worker
<1> QED  BY <1>1, <1>2, Numbers DEF Init, W!WorkerInit, Worker

(* The subprocess, with the stages, the peer connection and the player     *)
(* hidden, is what the server's model takes it for: JanusWorker implements *)
(* Worker under the mapping of its stages to phases.                       *)
THEOREM Implementation == Spec => ImplementsWorker
<1>1. JanusInv /\ [Next]_vars => [W!WorkerNext]_(W!workerVars)
  BY StepMaps
<1> QED  BY <1>1, InitMaps, JanusInvariant, PTL DEF Spec, ImplementsWorker, W!WorkerSpec

=============================================================================
