-------------------------- MODULE SupervisorProofs --------------------------
(***************************************************************************)
(* Theorems about Supervisor for every number of publishers, requests,     *)
(* workers and queue slots.                                                *)
(***************************************************************************)
EXTENDS Supervisor, TLAPS

(* A client exists, as opposed to a number no start has used yet.          *)
Started(k) == process[k] # NoWorker

(* Reports come from launched workers, which belong to existing clients.   *)
WorkersKnown ==
  /\ \A w \in Worker : w > launched => phase[w] = "unborn"
  /\ \A h \in Post : h <= posted => sender[h] \in 1..launched
  /\ \A w \in 1..launched : owner[w] \in Client /\ Started(owner[w])

(* A client's process, or the one about to be assigned to it, is its own.  *)
ProcessesOwned ==
  /\ \A k \in Client : Started(k) => process[k] \in 1..launched /\ owner[process[k]] = k
  /\ \A h \in Post : pc[h] = "assign" => fresh[h] \in 1..launched /\ owner[fresh[h]] = held[h]

HoldingStage == {"register", "poll", "put", "restart", "kill", "terminate",
                 "pop", "flush", "close", "launch", "assign"}

(* A thread holds an existing client of the publisher it works for.        *)
ClientsHeld ==
  /\ \A t \in Thread : held[t] # NoClient => Started(held[t]) /\ target[held[t]] = Id(t)
  /\ \A t \in Thread : pc[t] \in HoldingStage <=> held[t] # NoClient
  /\ \A h \in Post : pc[h] # "new" => h <= posted
  /\ \A q \in Request : pc[q] \in {"register", "poll"} => held[q] = q

(* The registry maps a publisher to a client started for it.               *)
ClientsRegistered ==
  /\ \A p \in Publisher : registry[p] # NoClient =>
       /\ Started(registry[p])
       /\ target[registry[p]] = p
       /\ pc[registry[p]] # "register"
  /\ \A q \in Request : pc[q] = "new" => ~Started(q)

(* What "contended" records.                                               *)
ExclusiveOperation ==
  \A k \in Client, t, u \in Thread :
    k \notin contended /\ Operates(t, k) /\ Operates(u, k) => t = u

(* A restart's client stays registered, unless it is contended.            *)
RestartsRegistered ==
  \A k \in Client, h \in Post :
    k \notin contended /\ Operates(h, k) => registry[target[k]] = k

(* The handler of an exception kills and is done.                          *)
ExceptionsEnd ==
  \A h \in Post : pc[h] \in {"restart", "flush", "close", "launch", "assign"} =>
    event[h] # Exception

(* Where the live worker of an uncontended client is found.                *)
Found(w) ==
  LET k == owner[w] IN
  /\ \/ process[k] = w
     \/ \E h \in Post : pc[h] = "assign" /\ held[h] = k /\ fresh[h] = w
  /\ \A t \in Thread : Operates(t, k) =>
       pc[t] = "kill" \/ (t \in Post /\ pc[t] = "assign" /\ fresh[t] = w)
  /\ registry[target[k]] = k \/ pc[k] = "register"

LiveWorkers ==
  \A w \in 1..launched : Live(w) /\ owner[w] \notin contended => Found(w)

IInv ==
  /\ TypeOK
  /\ WorkersKnown
  /\ ProcessesOwned
  /\ ClientsHeld
  /\ ClientsRegistered
  /\ ExclusiveOperation
  /\ RestartsRegistered
  /\ ExceptionsEnd
  /\ LiveWorkers

-----------------------------------------------------------------------------
(* The disjuncts of Next, one per action.                                  *)
LEMMA NextCases ==
  ASSUME Next
  PROVE  \/ \E q \in Request : \E r \in Rtsp : RefuseStart(q, r)
         \/ \E q \in Request : RejectStart(q)
         \/ \E q \in Request, p \in Publisher, r \in Rtsp : StartClient(q, p, r)
         \/ \E q \in Request, p \in Publisher : NotPublishing(q, p) \/ StopClient(q, p)
         \/ \E q \in Request : Register(q) \/ PollQueue(q) \/ PollTimeout(q)
         \/ \E q \in Request : StopLookup(q) \/ Pop(q)
         \/ \E h \in Post : SubprocessMsg(h) \/ QueuePut(h) \/ RestartClient(h)
         \/ \E h \in Post : Relaunch(h) \/ RelaunchFails(h) \/ AssignProcess(h)
         \/ \E t \in Thread : KillSubprocess(t) \/ Terminate(t)
         \/ \E t \in Thread : FlushLog(t) \/ CloseLog(t)
         \/ \E w \in Worker : (Report(w) \/ Fail(w) \/ Leave(w)) /\ UNCHANGED serverVars
         \/ \E w \in Worker : SendReturns(w) /\ UNCHANGED serverVars
BY DEF Next, NewRequest, RequestThread, PostThread, WorkerStep, ReplyArrives,
       SendTimesOut, Thread

(***************************************************************************)
(* Types, which need the rest of Base: that a thread's client exists, and  *)
(* that a client's process does.                                           *)
(***************************************************************************)
LEMMA TypeInit == Init => TypeOK
<1>. SUFFICES ASSUME Init PROVE TypeOK
  OBVIOUS
<1>1. WorkerTypeOK
  BY WorkerAssumption DEF Init, WorkerInit, WorkerTypeOK, Event, Exception, NoWorker, NoPost, Phase, Worker, Post
<1>2. SomePublisher \in Publisher
  BY SupervisorAssumption DEF SomePublisher
<1>3. \A k \in Client : queue[k] \in Seq(Event) /\ Len(queue[k]) <= QueueSize
  BY SupervisorAssumption DEF Init
<1>. QED
  BY <1>1, <1>2, <1>3 DEF Init, TypeOK, NoClient, NoWorker, RequestStage, PostStage,
     Thread

(* The workers' variables.                                                 *)
LEMMA WorkerType ==
  ASSUME WorkerTypeOK, Next
  PROVE  WorkerTypeOK'
<1>. USE WorkerAssumption DEF WorkerTypeOK, Worker, Post, Phase, Live, NoPost, NoWorker, Event, Exception
<1>1. CASE UNCHANGED workerVars
  BY <1>1 DEF workerVars
<1>2. CASE Spawn
  BY <1>2 DEF Spawn
<1>3. CASE \E w : Signal(w)
  BY <1>3 DEF Signal
<1>4. CASE \E w \in Worker : Report(w) \/ Fail(w) \/ Leave(w)
  <2>1. PICK w \in Worker : Report(w) \/ Fail(w) \/ Leave(w)
    BY <1>4
  <2>2. CASE Leave(w)
    BY <2>2 DEF Leave
  <2>3. ASSUME NEW e \in Event, SendMsgToMain(w, e), phase' \in [Worker -> Phase]
        PROVE  WorkerTypeOK'
    <3>1. posted + 1 \in Post /\ posted' \in 0..MaxPost
      BY <2>3 DEF SendMsgToMain
    <3>. QED
      BY <3>1, <2>3 DEF SendMsgToMain
  <2>4. CASE Report(w)
    BY <2>3, <2>4 DEF Report
  <2>5. CASE Fail(w)
    BY <2>3, <2>5 DEF Fail
  <2>. QED
    BY <2>1, <2>2, <2>4, <2>5
<1>5. CASE \E w \in Worker : SendReturns(w)
  BY <1>5 DEF SendReturns
<1>. QED
  BY <1>1, <1>2, <1>3, <1>4, <1>5, NextCases DEF RefuseStart, RejectStart, StartClient, NotPublishing,
     StopClient, Register, PollQueue, PollTimeout, StopLookup, Pop, SubprocessMsg,
     QueuePut, RestartClient, Relaunch, RelaunchFails, AssignProcess,
     KillSubprocess, Terminate, FlushLog, CloseLog

(* What the rest of the invariant says of an enabled action's operands.     *)
Base == TypeOK /\ WorkersKnown /\ ProcessesOwned /\ ClientsHeld /\ ClientsRegistered

LEMMA ThreadKinds ==
  /\ Thread = Request \cup Post /\ Request \cap Post = {}
  /\ Client = Request /\ NoClient \notin Client /\ NoWorker \notin Worker
BY WorkerAssumption DEF Thread, Client, Request, Post, Worker, NoClient, NoWorker

(* A worker's request is about a publisher.                                *)
LEMMA IdType ==
  ASSUME Base, NEW t \in Thread, t \in Post => t <= posted
  PROVE  Id(t) \in Publisher
<1>1. CASE t \in Request
  BY <1>1 DEF Id, Base, TypeOK
<1>2. CASE t \in Post
  <2>1. sender[t] \in 1..launched
    BY <1>2 DEF Base, WorkersKnown
  <2>2. owner[sender[t]] \in Request
    BY <2>1 DEF Base, WorkersKnown, Client
  <2>. QED
    BY <1>2, <2>2, ThreadKinds DEF Id, IdOfWorker, Base, TypeOK
<1>. QED
  BY <1>1, <1>2 DEF Thread

StageOf(t) == IF t \in Request THEN RequestStage ELSE PostStage

(* A thread goes on, with a client or without one.                         *)
PcType ==
  /\ pc \in [Thread -> RequestStage \cup PostStage]
  /\ \A q \in Request : pc[q] \in RequestStage
  /\ \A h \in Post : pc[h] \in PostStage

HeldType == held \in [Thread -> Client \cup {NoClient}]

LEMMA GotoType ==
  ASSUME PcType, NEW t \in Thread, NEW s \in StageOf(t), Goto(t, s)
  PROVE  PcType'
BY ThreadKinds DEF PcType, StageOf, Goto

LEMMA FinishType ==
  ASSUME PcType, HeldType, NEW t \in Thread, NEW s \in StageOf(t), Finish(t, s)
  PROVE  PcType' /\ HeldType'
<1>1. PcType'
  BY GotoType DEF Finish
<1>. QED
  BY <1>1 DEF Finish, HeldType

LEMMA HoldType ==
  ASSUME TypeOK, NEW t \in Thread, NEW k \in Client, Hold(t, k)
  PROVE  PcType' /\ HeldType' /\ contended' \in SUBSET Client
<1>1. PcType'
  BY GotoType DEF Hold, StageOf, RequestStage, PostStage, TypeOK, PcType
<1>. QED
  BY <1>1 DEF Hold, HeldType, TypeOK

LEMMA TypeNext ==
  ASSUME Base, Next
  PROVE  TypeOK'
<1>. USE SupervisorAssumption, ThreadKinds DEF Base, TypeOK, PcType, HeldType, StageOf, RequestStage, PostStage, Reply
<1>1. WorkerTypeOK'
  BY WorkerType
<1>2. launched \in 0..MaxWorker /\ launched' \in 0..MaxWorker /\ (Spawn => launched' \in Worker)
  BY <1>1, WorkerAssumption DEF WorkerTypeOK, Spawn, Worker
<1>3. CASE \E q \in Request : \E r \in Rtsp : RefuseStart(q, r)
  BY <1>1, <1>3, FinishType DEF RefuseStart, clientVars
<1>4. CASE \E q \in Request : RejectStart(q)
  BY <1>1, <1>4, FinishType DEF RejectStart, clientVars
<1>5. CASE \E q \in Request, p \in Publisher, r \in Rtsp : StartClient(q, p, r)
  <2>1. PICK q \in Request, p \in Publisher, r \in Rtsp : StartClient(q, p, r)
    BY <1>5
  <2>2. PICK l \in {"none", "open"} : log' = [log EXCEPT ![q] = l]
    BY <2>1 DEF StartClient
  <2>3. PcType'
    BY <2>1, GotoType DEF StartClient
  <2>. QED
    BY <1>1, <1>2, <2>1, <2>2, <2>3 DEF StartClient
<1>6. CASE \E q \in Request, p \in Publisher : NotPublishing(q, p) \/ StopClient(q, p)
  <2>1. PICK q \in Request, p \in Publisher : NotPublishing(q, p) \/ StopClient(q, p)
    BY <1>6
  <2>2. CASE NotPublishing(q, p)
    BY <1>1, <2>2, FinishType DEF NotPublishing, clientVars
  <2>3. CASE StopClient(q, p)
    BY <1>1, <2>3, GotoType DEF StopClient, clientVars
  <2>. QED
    BY <2>1, <2>2, <2>3
<1>7. CASE \E q \in Request : Register(q) \/ PollQueue(q) \/ PollTimeout(q)
  <2>1. PICK q \in Request : Register(q) \/ PollQueue(q) \/ PollTimeout(q)
    BY <1>7
  <2>2. CASE Register(q)
    <3>1. PcType'
      BY <2>2, GotoType DEF Register
    <3>. QED
      BY <1>1, <2>2, <3>1 DEF Register, clientVars
  <2>3. CASE PollQueue(q)
    <3>1. PcType' /\ HeldType'
      BY <2>3, FinishType DEF PollQueue
    <3>2. queue' \in [Client -> Seq(Event)] /\ \A k \in Client : Len(queue'[k]) <= QueueSize
      <4>1. held[q] \in Client /\ queue[held[q]] \in Seq(Event) /\ queue[held[q]] # <<>>
        BY <2>3 DEF PollQueue, ClientsHeld, HoldingStage
      <4>2. Tail(queue[held[q]]) \in Seq(Event) /\ Len(Tail(queue[held[q]])) <= QueueSize
        BY <4>1
      <4>. QED
        BY <2>3, <4>1, <4>2 DEF PollQueue
    <3>. QED
      BY <1>1, <2>3, <3>1, <3>2 DEF PollQueue
  <2>4. CASE PollTimeout(q)
    BY <1>1, <2>4, FinishType DEF PollTimeout, clientVars
  <2>. QED
    BY <2>1, <2>2, <2>3, <2>4
<1>8. CASE \E q \in Request : StopLookup(q) \/ Pop(q)
  <2>1. PICK q \in Request : StopLookup(q) \/ Pop(q)
    BY <1>8
  <2>2. CASE StopLookup(q)
    <3>1. PcType' /\ HeldType' /\ contended' \in SUBSET Client
      <4>1. CASE Finish(q, "error") /\ UNCHANGED contended
        BY <4>1, FinishType
      <4>2. CASE registry[target[q]] # NoClient /\ Hold(q, registry[target[q]])
        BY <4>2, HoldType
      <4>. QED
        BY <2>2, <4>1, <4>2 DEF StopLookup
    <3>. QED
      BY <1>1, <2>2, <3>1 DEF StopLookup, clientVars
  <2>3. CASE Pop(q)
    <3>1. PcType'
      BY <2>3, GotoType DEF Pop
    <3>. QED
      BY <1>1, <2>3, <3>1 DEF Pop, clientVars
  <2>. QED
    BY <2>1, <2>2, <2>3
<1>9. CASE \E h \in Post : SubprocessMsg(h) \/ QueuePut(h) \/ RestartClient(h)
  <2>1. PICK h \in Post : SubprocessMsg(h) \/ QueuePut(h) \/ RestartClient(h)
    BY <1>9
  <2>2. h <= posted
    BY <2>1 DEF SubprocessMsg, QueuePut, RestartClient, ClientsHeld
  <2>3. registry[Id(h)] \in Client \cup {NoClient}
    BY <2>2, IdType
  <2>4. CASE SubprocessMsg(h)
    <3>1. PcType' /\ HeldType'
      <4>1. CASE Finish(h, "done")
        BY <4>1, FinishType
      <4>2. CASE Goto(h, "put") /\ held' = [held EXCEPT ![h] = registry[Id(h)]]
        <5>1. PcType'
          BY <4>2, GotoType
        <5>. QED
          BY <2>3, <4>2, <5>1
      <4>. QED
        BY <2>4, <4>1, <4>2 DEF SubprocessMsg
    <3>. QED
      BY <1>1, <2>4, <3>1 DEF SubprocessMsg, clientVars
  <2>5. CASE QueuePut(h)
    <3>1. PcType' /\ HeldType'
      <4>1. CASE Finish(h, "done")
        BY <4>1, FinishType
      <4>2. CASE (Goto(h, "kill") \/ Goto(h, "restart")) /\ UNCHANGED held
        BY <4>2, GotoType
      <4>. QED
        BY <2>5, <4>1, <4>2 DEF QueuePut
    <3>2. queue' \in [Client -> Seq(Event)] /\ \A k \in Client : Len(queue'[k]) <= QueueSize
      <4>1. held[h] \in Client /\ queue[held[h]] \in Seq(Event) /\ event[h] \in Event
        BY <2>5 DEF QueuePut, ClientsHeld, HoldingStage, WorkerTypeOK
      <4>2. /\ Append(queue[held[h]], event[h]) \in Seq(Event)
            /\ Len(Append(queue[held[h]], event[h])) <= QueueSize
        BY <2>5, <4>1 DEF QueuePut, Full
      <4>. QED
        BY <2>5, <4>1, <4>2 DEF QueuePut
    <3>. QED
      BY <1>1, <2>5, <3>1, <3>2 DEF QueuePut
  <2>6. CASE RestartClient(h)
    <3>1. PcType' /\ HeldType' /\ contended' \in SUBSET Client
      BY <2>3, <2>6, FinishType, HoldType DEF RestartClient
    <3>. QED
      BY <1>1, <2>6, <3>1 DEF RestartClient, clientVars
  <2>. QED
    BY <2>1, <2>4, <2>5, <2>6
<1>10. CASE \E h \in Post : Relaunch(h) \/ RelaunchFails(h) \/ AssignProcess(h)
  <2>1. PICK h \in Post : Relaunch(h) \/ RelaunchFails(h) \/ AssignProcess(h)
    BY <1>10
  <2>2. CASE Relaunch(h)
    <3>1. PcType'
      BY <2>2, GotoType DEF Relaunch
    <3>. QED
      BY <1>1, <1>2, <2>2, <3>1 DEF Relaunch
  <2>3. CASE RelaunchFails(h)
    BY <1>1, <2>3, FinishType DEF RelaunchFails, clientVars
  <2>4. CASE AssignProcess(h)
    <3>1. PcType' /\ HeldType'
      BY <2>4, FinishType DEF AssignProcess
    <3>. QED
      BY <1>1, <2>4, <3>1 DEF AssignProcess
  <2>. QED
    BY <2>1, <2>2, <2>3, <2>4
<1>11. CASE \E t \in Thread : KillSubprocess(t) \/ Terminate(t)
  <2>1. PICK t \in Thread : KillSubprocess(t) \/ Terminate(t)
    BY <1>11
  <2>2. CASE KillSubprocess(t)
    BY <1>1, <2>2, GotoType DEF KillSubprocess, clientVars
  <2>3. CASE Terminate(t)
    <3>1. PcType' /\ HeldType'
      <4>1. CASE t \in Post /\ Finish(t, "done")
        BY <4>1, FinishType
      <4>2. CASE t \in Request /\ Goto(t, "pop") /\ UNCHANGED held
        BY <4>2, GotoType
      <4>3. CASE t \in Post /\ Goto(t, "flush") /\ UNCHANGED held
        BY <4>3, GotoType
      <4>. QED
        BY <2>3, <4>1, <4>2, <4>3 DEF Terminate
    <3>. QED
      BY <1>1, <2>3, <3>1 DEF Terminate, clientVars
  <2>. QED
    BY <2>1, <2>2, <2>3
<1>12. CASE \E t \in Thread : FlushLog(t) \/ CloseLog(t)
  <2>1. PICK t \in Thread : FlushLog(t) \/ CloseLog(t)
    BY <1>12
  <2>2. ASSUME AfterLog(t) PROVE PcType' /\ HeldType'
    <3>1. CASE t \in Request /\ Finish(t, "stopped")
      BY <3>1, FinishType
    <3>2. CASE t \in Post /\ Goto(t, "launch") /\ UNCHANGED held
      BY <3>2, GotoType
    <3>. QED
      BY <2>2, <3>1, <3>2 DEF AfterLog
  <2>3. CASE FlushLog(t)
    <3>1. PcType' /\ HeldType'
      BY <2>2, <2>3, FinishType, GotoType DEF FlushLog
    <3>. QED
      BY <1>1, <2>3, <3>1 DEF FlushLog, clientVars
  <2>4. CASE CloseLog(t)
    BY <1>1, <2>2, <2>4 DEF CloseLog
  <2>. QED
    BY <2>1, <2>3, <2>4
<1>13. CASE UNCHANGED serverVars
  BY <1>1, <1>13 DEF serverVars, clientVars, threadVars
<1>. QED
  BY <1>3, <1>4, <1>5, <1>6, <1>7, <1>8, <1>9, <1>10, <1>11, <1>12, <1>13, NextCases

-----------------------------------------------------------------------------
(* The rest of Base is preserved.  Most actions leave the registry, the    *)
(* processes and their owners alone, but for removing an entry of the      *)
(* registry, choosing the target of a new request and killing workers.     *)
Owned == WorkersKnown /\ ProcessesOwned /\ ClientsHeld /\ ClientsRegistered

Quiet ==
  /\ UNCHANGED <<launched, posted, sender, event, owner, process, fresh>>
  /\ \A w \in Worker : phase'[w] = phase[w] \/ Live(w)
  /\ \A p \in Publisher : registry'[p] \in {registry[p], NoClient}
  /\ \A q \in Request : pc[q] # "new" => target'[q] = target[q]

(* A thread works for the same publisher from its arrival on.              *)
LEMMA IdStable ==
  ASSUME Base,
         \A h \in Post : h <= posted => sender'[h] = sender[h],
         \A w \in 1..launched : owner'[w] = owner[w],
         \A k \in Client : pc[k] # "new" => target'[k] = target[k],
         NEW u \in Thread,
         held[u] # NoClient \/ (u \in Post /\ u <= posted)
  PROVE  Id(u)' = Id(u)
<1>. USE ThreadKinds DEF Base
<1>1. CASE u \in Request
  BY <1>1 DEF Id, ClientsHeld, HoldingStage
<1>2. CASE u \in Post
  <2>1. u <= posted
    BY <1>2 DEF ClientsHeld, HoldingStage
  <2>2. sender[u] \in 1..launched /\ owner[sender[u]] \in Client /\ pc[owner[sender[u]]] # "new"
    BY <1>2, <2>1 DEF WorkersKnown, ClientsRegistered
  <2>. QED
    BY <1>2, <2>1, <2>2 DEF Id, IdOfWorker
<1>. QED
  BY <1>1, <1>2 DEF Thread

(* A statement that moves one thread on, or ends it.                       *)
LEMMA LocalStep ==
  ASSUME Base, Quiet, NEW t \in Thread, NEW s,
         pc' = [pc EXCEPT ![t] = s],
         \/ held' = [held EXCEPT ![t] = NoClient] /\ s \notin HoldingStage
         \/ UNCHANGED held /\ (pc[t] \in HoldingStage <=> s \in HoldingStage),
         s \notin {"new", "register", "assign"},
         s = "poll" => pc[t] = "poll",
         t \in Post => t <= posted
  PROVE  Owned'
<1>. USE ThreadKinds DEF Base, TypeOK
<1>1. WorkersKnown'
  <2>1. 1..launched \subseteq Worker
    BY WorkerAssumption DEF WorkerTypeOK, Worker
  <2>2. \A w \in Worker : w > launched' => phase'[w] = "unborn"
    BY DEF Quiet, WorkersKnown, Live
  <2>. QED
    BY <2>1, <2>2 DEF Quiet, WorkersKnown, Started
<1>7. \A u \in Thread : u # t => pc'[u] = pc[u] /\ held'[u] = held[u]
  OBVIOUS
<1>8. pc'[t] = s /\ held'[t] \in {held[t], NoClient} /\ (s \in HoldingStage <=> held'[t] # NoClient)
  BY DEF ClientsHeld
<1>9. UNCHANGED <<launched, posted, sender, event, owner, process, fresh>>
  BY DEF Quiet
<1>2. ProcessesOwned'
  <2>1. \A h \in Post : pc'[h] = "assign" => pc[h] = "assign" /\ held'[h] = held[h]
    BY <1>7, <1>8
  <2>. QED
    BY <1>9, <2>1 DEF ProcessesOwned, Started
<1>3. \A k \in Client : Started(k) => target'[k] = target[k] /\ pc[k] # "new"
  BY DEF Quiet, ClientsRegistered
<1>4. \A u \in Thread : held[u] # NoClient => Id(u)' = Id(u)
  BY IdStable DEF Quiet
<1>5. ClientsHeld'
  <2>1. \A u \in Thread : held'[u] # NoClient => Started(held[u])' /\ target'[held'[u]] = Id(u)'
    <3>1. \A u \in Thread : held'[u] # NoClient => held'[u] = held[u] /\ held[u] \in Client
      BY <1>7, <1>8
    <3>. QED
      BY <3>1, <1>3, <1>4, <1>9 DEF ClientsHeld, Started
  <2>2. \A u \in Thread : pc'[u] \in HoldingStage <=> held'[u] # NoClient
    BY <1>7, <1>8 DEF ClientsHeld
  <2>3. \A h \in Post : pc'[h] # "new" => h <= posted'
    BY <1>7, <1>9 DEF ClientsHeld
  <2>4. \A q \in Request : pc'[q] \in {"register", "poll"} => held'[q] = q
    <3>1. ASSUME NEW q \in Request, pc'[q] \in {"register", "poll"} PROVE held'[q] # NoClient
      BY <2>2, <3>1 DEF HoldingStage
    <3>2. \A q \in Request : pc'[q] \in {"register", "poll"} => pc[q] \in {"register", "poll"}
      BY <1>7, <1>8
    <3>. QED
      BY <1>7, <1>8, <3>1, <3>2 DEF ClientsHeld
  <2>. QED
    BY <2>1, <2>2, <2>3, <2>4 DEF ClientsHeld
<1>6. ClientsRegistered'
  <2>1. \A p \in Publisher : registry'[p] # NoClient =>
          Started(registry[p])' /\ target'[registry'[p]] = p /\ pc'[registry'[p]] # "register"
    <3>1. \A p \in Publisher : registry'[p] # NoClient => registry'[p] = registry[p] /\ registry[p] \in Client
      BY DEF Quiet
    <3>2. \A k \in Client : pc'[k] = "register" => pc[k] = "register"
      BY <1>7, <1>8
    <3>. QED
      BY <1>3, <1>9, <3>1, <3>2 DEF ClientsRegistered, Started
  <2>2. \A q \in Request : pc'[q] = "new" => ~Started(q)'
    BY <1>7, <1>8, <1>9 DEF ClientsRegistered, Started
  <2>. QED
    BY <2>1, <2>2 DEF ClientsRegistered
<1>. QED
  BY <1>1, <1>2, <1>5, <1>6 DEF Owned

(* The disturbances that are not local.  A start makes a new client.       *)
LEMMA StartStep ==
  ASSUME Base, TypeOK', NEW q \in Request, NEW p \in Publisher, NEW r, StartClient(q, p, r)
  PROVE  Owned'
<1>. USE ThreadKinds DEF Base
<1>1. /\ launched \in Nat /\ launched' = launched + 1 /\ launched' \in Worker
      /\ 1..launched' = 1..launched \cup {launched'} /\ 1..launched' \subseteq Worker
  BY WorkerAssumption DEF StartClient, Spawn, TypeOK, WorkerTypeOK, Worker
<1>2. /\ pc[q] = "new" /\ ~Started(q) /\ held[q] = NoClient
  BY DEF StartClient, Arrives, ClientsRegistered, ClientsHeld, HoldingStage, TypeOK
<1>3. /\ owner'[launched'] = q /\ process'[q] = launched' /\ target'[q] = p /\ held'[q] = q
      /\ pc'[q] = "register"
      /\ UNCHANGED <<posted, sender, event, registry, fresh>>
  BY <1>1 DEF StartClient, Spawn, TypeOK, Goto
<1>4. /\ \A w \in Worker : w # launched' => owner'[w] = owner[w] /\ phase'[w] = phase[w]
      /\ \A k \in Client : k # q => process'[k] = process[k] /\ target'[k] = target[k]
      /\ \A u \in Thread : u # q => pc'[u] = pc[u] /\ held'[u] = held[u]
  BY <1>1 DEF StartClient, Spawn, TypeOK, WorkerTypeOK, Goto
<1>5. \A k \in Client : Started(k) => Started(k)' /\ process'[k] = process[k] /\ target'[k] = target[k]
  BY <1>2, <1>4 DEF Started
<1>6. Started(q)' /\ launched' # NoWorker
  BY <1>1, <1>3 DEF Started, NoWorker
<1>7. WorkersKnown'
  <2>1. \A w \in Worker : w > launched' => phase'[w] = "unborn"
    BY <1>1, <1>4 DEF WorkersKnown, Worker
  <2>2. \A h \in Post : h <= posted' => sender'[h] \in 1..launched'
    BY <1>1, <1>3 DEF WorkersKnown
  <2>3. \A w \in 1..launched' : owner'[w] \in Client /\ Started(owner[w])'
    BY <1>1, <1>3, <1>4, <1>5, <1>6 DEF WorkersKnown
  <2>. QED
    BY <2>1, <2>2, <2>3 DEF WorkersKnown
<1>8. ProcessesOwned'
  <2>1. \A k \in Client : Started(k)' => process'[k] \in 1..launched' /\ owner'[process'[k]] = k
    BY <1>1, <1>3, <1>4 DEF ProcessesOwned, Started
  <2>2. \A h \in Post : pc'[h] = "assign" => fresh'[h] \in 1..launched' /\ owner'[fresh'[h]] = held'[h]
    BY <1>1, <1>3, <1>4 DEF ProcessesOwned
  <2>. QED
    BY <2>1, <2>2 DEF ProcessesOwned
<1>9. ClientsHeld'
  <2>1. \A u \in Thread : held'[u] # NoClient => Started(held[u])' /\ target'[held'[u]] = Id(u)'
    <3>1. \A u \in Thread : u # q /\ held[u] # NoClient => Id(u)' = Id(u)
      BY <1>2, <1>3, <1>4, <1>1, IdStable
    <3>2. Id(q)' = p
      BY <1>3 DEF Id
    <3>3. \A u \in Thread : u # q /\ held[u] # NoClient => held[u] \in Client /\ held[u] # q
      BY <1>2 DEF ClientsHeld, TypeOK
    <3>. QED
      BY <1>3, <1>4, <1>5, <1>6, <3>1, <3>2, <3>3 DEF ClientsHeld
  <2>. QED
    BY <2>1, <1>2, <1>3, <1>4 DEF ClientsHeld, HoldingStage
<1>10. ClientsRegistered'
  <2>1. \A x \in Publisher : registry'[x] # NoClient => registry'[x] \in Client /\ registry'[x] # q
    BY <1>2, <1>3 DEF ClientsRegistered, TypeOK
  <2>2. \A x \in Publisher : registry'[x] # NoClient =>
          Started(registry[x])' /\ target'[registry'[x]] = x /\ pc'[registry'[x]] # "register"
    BY <1>3, <1>4, <1>5, <2>1 DEF ClientsRegistered
  <2>3. \A u \in Request : pc'[u] = "new" => ~Started(u)'
    BY <1>3, <1>4 DEF ClientsRegistered, Started
  <2>. QED
    BY <2>2, <2>3 DEF ClientsRegistered
<1>. QED
  BY <1>7, <1>8, <1>9, <1>10 DEF Owned

LEMMA RegisterStep ==
  ASSUME Base, TypeOK', NEW q \in Request, Register(q)
  PROVE  Owned'
<1>. USE ThreadKinds DEF Base
<1>1. held[q] = q /\ Started(q) /\ target[q] \in Publisher
  BY DEF Register, ClientsHeld, TypeOK, NoClient
<1>2. /\ pc'[q] = "poll" /\ \A u \in Thread : u # q => pc'[u] = pc[u]
      /\ registry'[target[q]] = q
      /\ \A p \in Publisher : p # target[q] => registry'[p] = registry[p]
      /\ UNCHANGED <<workerVars, process, owner, target, held, fresh>>
  BY <1>1 DEF Register, TypeOK, Goto, clientVars
<1>3. \A u \in Thread : held[u] # NoClient => Id(u)' = Id(u)
  BY <1>2, IdStable DEF workerVars
<1>4. WorkersKnown'
  BY <1>2 DEF WorkersKnown, Started, workerVars
<1>5. ProcessesOwned'
  BY <1>2 DEF ProcessesOwned, Started, workerVars
<1>6. ClientsHeld'
  <2>1. \A u \in Thread : held'[u] # NoClient => Started(held[u])' /\ target'[held'[u]] = Id(u)'
    BY <1>2, <1>3 DEF ClientsHeld, Started
  <2>2. \A u \in Thread : pc'[u] \in HoldingStage <=> held'[u] # NoClient
    BY <1>1, <1>2 DEF ClientsHeld, HoldingStage
  <2>3. \A h \in Post : pc'[h] # "new" => h <= posted'
    BY <1>2 DEF ClientsHeld, workerVars
  <2>. QED
    BY <1>1, <1>2, <2>1, <2>2, <2>3 DEF ClientsHeld
<1>7. ClientsRegistered'
  <2>1. \A p \in Publisher : registry'[p] # NoClient =>
          Started(registry[p])' /\ target'[registry'[p]] = p /\ pc'[registry'[p]] # "register"
    <3>1. Started(q)' /\ target'[q] = target[q] /\ pc'[q] # "register"
      BY <1>1, <1>2 DEF Started
    <3>2. ASSUME NEW p \in Publisher, p # target[q], registry'[p] # NoClient
          PROVE  Started(registry[p])' /\ target'[registry'[p]] = p /\ pc'[registry'[p]] # "register"
      BY <1>2, <3>1, <3>2 DEF ClientsRegistered, Started, TypeOK
    <3>. QED
      BY <1>1, <1>2, <3>1, <3>2
  <2>2. \A u \in Request : pc'[u] = "new" => ~Started(u)'
    BY <1>2 DEF ClientsRegistered, Started
  <2>. QED
    BY <2>1, <2>2 DEF ClientsRegistered
<1>. QED
  BY <1>4, <1>5, <1>6, <1>7 DEF Owned

(* A thread looks its publisher's client up in the registry.               *)
LEMMA LookupStep ==
  ASSUME Base, TypeOK', NEW t \in Thread, NEW s \in {"put", "kill"},
         pc[t] # "new" \/ t \in Post, t \in Post => t <= posted,
         registry[Id(t)] # NoClient,
         pc' = [pc EXCEPT ![t] = s], held' = [held EXCEPT ![t] = registry[Id(t)]],
         UNCHANGED <<workerVars, registry, process, owner, target, fresh>>
  PROVE  Owned'
<1>. USE ThreadKinds DEF Base
<1>1. Id(t) \in Publisher
  BY IdType
<1>2. registry[Id(t)] \in Client /\ Started(registry[Id(t)]) /\ target[registry[Id(t)]] = Id(t)
  BY <1>1 DEF ClientsRegistered, TypeOK
<1>3. /\ pc'[t] = s /\ held'[t] = registry[Id(t)]
      /\ \A u \in Thread : u # t => pc'[u] = pc[u] /\ held'[u] = held[u]
  BY DEF TypeOK
<1>4. \A u \in Thread : Id(u)' = Id(u)
  BY DEF Id, IdOfWorker, workerVars
<1>5. WorkersKnown'
  BY DEF WorkersKnown, Started, workerVars
<1>6. ProcessesOwned'
  BY <1>3 DEF ProcessesOwned, Started, workerVars
<1>7. ClientsHeld'
  <2>1. \A u \in Thread : held'[u] # NoClient => Started(held[u])' /\ target'[held'[u]] = Id(u)'
    BY <1>2, <1>3, <1>4 DEF ClientsHeld, Started
  <2>2. \A u \in Thread : pc'[u] \in HoldingStage <=> held'[u] # NoClient
    BY <1>2, <1>3 DEF ClientsHeld, HoldingStage
  <2>3. \A h \in Post : pc'[h] # "new" => h <= posted'
    BY <1>3 DEF ClientsHeld, workerVars
  <2>4. \A q \in Request : pc'[q] \in {"register", "poll"} => held'[q] = q
    BY <1>3 DEF ClientsHeld
  <2>. QED
    BY <2>1, <2>2, <2>3, <2>4 DEF ClientsHeld
<1>8. ClientsRegistered'
  <2>1. \A p \in Publisher : registry'[p] # NoClient =>
          Started(registry[p])' /\ target'[registry'[p]] = p /\ pc'[registry'[p]] # "register"
    BY <1>3 DEF ClientsRegistered, Started, TypeOK
  <2>2. \A u \in Request : pc'[u] = "new" => ~Started(u)'
    BY <1>3 DEF ClientsRegistered, Started
  <2>. QED
    BY <2>1, <2>2 DEF ClientsRegistered
<1>. QED
  BY <1>5, <1>6, <1>7, <1>8 DEF Owned

LEMMA RelaunchStep ==
  ASSUME Base, TypeOK', NEW h \in Post, Relaunch(h)
  PROVE  Owned'
<1>. USE ThreadKinds DEF Base
<1>1. /\ launched \in Nat /\ launched' = launched + 1 /\ launched' \in Worker
      /\ 1..launched' = 1..launched \cup {launched'} /\ 1..launched' \subseteq Worker
  BY WorkerAssumption DEF Relaunch, Spawn, TypeOK, WorkerTypeOK, Worker
<1>2. /\ pc[h] = "launch" /\ held[h] \in Client /\ Started(held[h]) /\ h <= posted
  BY DEF Relaunch, ClientsHeld, HoldingStage, TypeOK
<1>3. /\ owner'[launched'] = held[h] /\ fresh'[h] = launched' /\ pc'[h] = "assign"
      /\ UNCHANGED <<posted, sender, event, registry, process, target, held>>
  BY <1>1 DEF Relaunch, Spawn, TypeOK, Goto
<1>4. /\ \A w \in Worker : w # launched' => owner'[w] = owner[w] /\ phase'[w] = phase[w]
      /\ \A u \in Thread : u # h => pc'[u] = pc[u]
      /\ \A u \in Post : u # h => fresh'[u] = fresh[u]
  BY <1>1 DEF Relaunch, Spawn, TypeOK, WorkerTypeOK, Goto
<1>5. \A u \in Thread : held[u] # NoClient => Id(u)' = Id(u)
  BY <1>1, <1>3, <1>4, IdStable
<1>6. WorkersKnown'
  <2>1. \A w \in Worker : w > launched' => phase'[w] = "unborn"
    BY <1>1, <1>4 DEF WorkersKnown, Worker
  <2>2. \A i \in Post : i <= posted' => sender'[i] \in 1..launched'
    BY <1>1, <1>3 DEF WorkersKnown
  <2>3. \A w \in 1..launched' : owner'[w] \in Client /\ Started(owner[w])'
    BY <1>1, <1>2, <1>3, <1>4 DEF WorkersKnown, Started
  <2>. QED
    BY <2>1, <2>2, <2>3 DEF WorkersKnown
<1>7. ProcessesOwned'
  <2>1. \A k \in Client : Started(k)' => process'[k] \in 1..launched' /\ owner'[process'[k]] = k
    BY <1>1, <1>3, <1>4 DEF ProcessesOwned, Started
  <2>2. \A i \in Post : pc'[i] = "assign" => fresh'[i] \in 1..launched' /\ owner'[fresh'[i]] = held'[i]
    BY <1>1, <1>3, <1>4 DEF ProcessesOwned
  <2>. QED
    BY <2>1, <2>2 DEF ProcessesOwned
<1>8. ClientsHeld'
  <2>1. \A u \in Thread : held'[u] # NoClient => Started(held[u])' /\ target'[held'[u]] = Id(u)'
    BY <1>3, <1>5 DEF ClientsHeld, Started
  <2>2. \A u \in Thread : pc'[u] \in HoldingStage <=> held'[u] # NoClient
    BY <1>2, <1>3, <1>4 DEF ClientsHeld, HoldingStage
  <2>3. \A i \in Post : pc'[i] # "new" => i <= posted'
    BY <1>2, <1>3, <1>4 DEF ClientsHeld
  <2>4. \A q \in Request : pc'[q] \in {"register", "poll"} => held'[q] = q
    BY <1>3, <1>4 DEF ClientsHeld
  <2>. QED
    BY <2>1, <2>2, <2>3, <2>4 DEF ClientsHeld
<1>9. ClientsRegistered'
  <2>1. \A p \in Publisher : registry'[p] # NoClient =>
          Started(registry[p])' /\ target'[registry'[p]] = p /\ pc'[registry'[p]] # "register"
    BY <1>3, <1>4 DEF ClientsRegistered, Started, TypeOK
  <2>2. \A u \in Request : pc'[u] = "new" => ~Started(u)'
    BY <1>3, <1>4 DEF ClientsRegistered, Started
  <2>. QED
    BY <2>1, <2>2 DEF ClientsRegistered
<1>. QED
  BY <1>6, <1>7, <1>8, <1>9 DEF Owned

LEMMA AssignStep ==
  ASSUME Base, TypeOK', NEW h \in Post, AssignProcess(h)
  PROVE  Owned'
<1>. USE ThreadKinds DEF Base
<1>1. /\ held[h] \in Client /\ fresh[h] \in 1..launched /\ owner[fresh[h]] = held[h] /\ h <= posted
  BY DEF AssignProcess, ClientsHeld, HoldingStage, TypeOK, ProcessesOwned
<1>2. fresh[h] # NoWorker
  BY <1>1 DEF NoWorker
<1>3. /\ process'[held[h]] = fresh[h] /\ \A k \in Client : k # held[h] => process'[k] = process[k]
      /\ pc'[h] = "done" /\ held'[h] = NoClient
      /\ \A u \in Thread : u # h => pc'[u] = pc[u] /\ held'[u] = held[u]
      /\ \A u \in Post : u # h => fresh'[u] = fresh[u]
      /\ UNCHANGED <<workerVars, registry, owner, target>>
  BY <1>1 DEF AssignProcess, TypeOK, Finish, Goto
<1>4. \A k \in Client : (Started(k)' <=> Started(k))
  BY <1>1, <1>2, <1>3 DEF Started, ClientsHeld
<1>5. \A u \in Thread : Id(u)' = Id(u)
  BY <1>3 DEF Id, IdOfWorker, workerVars
<1>6. WorkersKnown'
  BY <1>3, <1>4 DEF WorkersKnown, workerVars
<1>7. ProcessesOwned'
  <2>1. \A k \in Client : Started(k)' => process'[k] \in 1..launched' /\ owner'[process'[k]] = k
    BY <1>1, <1>3, <1>4 DEF ProcessesOwned, workerVars
  <2>2. \A i \in Post : pc'[i] = "assign" => fresh'[i] \in 1..launched' /\ owner'[fresh'[i]] = held'[i]
    BY <1>3 DEF ProcessesOwned, workerVars
  <2>. QED
    BY <2>1, <2>2 DEF ProcessesOwned
<1>8. ClientsHeld'
  <2>1. \A u \in Thread : held'[u] # NoClient => Started(held[u])' /\ target'[held'[u]] = Id(u)'
    <3>1. \A u \in Thread : held'[u] # NoClient => held'[u] = held[u] /\ held[u] \in Client
      BY <1>3 DEF TypeOK
    <3>2. \A u \in Thread : held'[u] # NoClient => process'[held'[u]] # NoWorker
      BY <1>4, <3>1 DEF ClientsHeld, Started
    <3>. QED
      BY <1>3, <1>5, <3>1, <3>2 DEF ClientsHeld, Started
  <2>2. \A u \in Thread : pc'[u] \in HoldingStage <=> held'[u] # NoClient
    BY <1>3 DEF ClientsHeld, HoldingStage
  <2>3. \A i \in Post : pc'[i] # "new" => i <= posted'
    BY <1>1, <1>3 DEF ClientsHeld, workerVars
  <2>4. \A q \in Request : pc'[q] \in {"register", "poll"} => held'[q] = q
    BY <1>3 DEF ClientsHeld
  <2>. QED
    BY <2>1, <2>2, <2>3, <2>4 DEF ClientsHeld
<1>9. ClientsRegistered'
  <2>1. \A p \in Publisher : registry'[p] # NoClient =>
          Started(registry[p])' /\ target'[registry'[p]] = p /\ pc'[registry'[p]] # "register"
    <3>1. \A p \in Publisher : registry'[p] # NoClient => registry'[p] = registry[p] /\ registry[p] \in Client
      BY <1>3 DEF TypeOK
    <3>2. \A p \in Publisher : registry'[p] # NoClient => process'[registry'[p]] # NoWorker
      BY <1>4, <3>1 DEF ClientsRegistered, Started
    <3>. QED
      BY <1>3, <3>1, <3>2 DEF ClientsRegistered, Started
  <2>2. \A u \in Request : pc'[u] = "new" => ~Started(u)'
    BY <1>3, <1>4 DEF ClientsRegistered
  <2>. QED
    BY <2>1, <2>2 DEF ClientsRegistered
<1>. QED
  BY <1>6, <1>7, <1>8, <1>9 DEF Owned

LEMMA ReportStep ==
  ASSUME Base, TypeOK', NEW w \in Worker, Report(w) \/ Fail(w), UNCHANGED serverVars
  PROVE  Owned'
<1>. USE ThreadKinds DEF Base
<1>1. PICK e : SendMsgToMain(w, e)
  BY DEF Report, Fail
<1>2. w \in 1..launched /\ 1..launched \subseteq Worker
  BY WorkerAssumption DEF Report, Fail, Live, WorkersKnown, TypeOK, WorkerTypeOK, Worker
<1>3. /\ UNCHANGED <<launched, registry, process, owner, pc, target, held, fresh>>
      /\ posted \in Nat /\ posted' = posted + 1 /\ posted' \in Post /\ sender'[posted'] = w
      /\ \A h \in Post : h <= posted => sender'[h] = sender[h]
  BY <1>1, WorkerAssumption DEF SendMsgToMain, serverVars, threadVars, clientVars, TypeOK, WorkerTypeOK, Post
<1>4. \A v \in Worker : phase'[v] = phase[v] \/ v = w
  BY DEF Report, Fail, TypeOK, WorkerTypeOK
<1>5. \A u \in Thread : held[u] # NoClient => Id(u)' = Id(u)
  BY <1>3, IdStable
<1>6. WorkersKnown'
  <2>1. \A v \in Worker : v > launched' => phase'[v] = "unborn"
    <3>1. launched \in Nat /\ w <= launched
      BY <1>2 DEF TypeOK, WorkerTypeOK
    <3>. QED
      BY <1>3, <1>4, <3>1 DEF WorkersKnown, Worker
  <2>2. \A h \in Post : h <= posted' => sender'[h] \in 1..launched'
    BY <1>2, <1>3 DEF WorkersKnown, Post
  <2>. QED
    BY <1>3, <2>1, <2>2 DEF WorkersKnown, Started
<1>7. ProcessesOwned'
  BY <1>3 DEF ProcessesOwned, Started
<1>8. ClientsHeld'
  <2>1. \A u \in Thread : held'[u] # NoClient => Started(held[u])' /\ target'[held'[u]] = Id(u)'
    BY <1>3, <1>5 DEF ClientsHeld, Started
  <2>2. \A h \in Post : pc'[h] # "new" => h <= posted'
    BY <1>3 DEF ClientsHeld, Post
  <2>. QED
    BY <1>3, <2>1, <2>2 DEF ClientsHeld
<1>9. ClientsRegistered'
  BY <1>3 DEF ClientsRegistered, Started
<1>. QED
  BY <1>6, <1>7, <1>8, <1>9 DEF Owned

(* A step that changes nothing but workers, or nothing at all.             *)
LEMMA IdleStep ==
  ASSUME Base, UNCHANGED <<launched, posted, sender>>, UNCHANGED serverVars,
         \A w \in Worker : phase'[w] = phase[w] \/ w <= launched
  PROVE  Owned'
<1>. USE DEF Base, serverVars, threadVars, clientVars
<1>1. WorkersKnown'
  <2>1. launched \in Nat /\ \A w \in Worker : w \in Nat
    BY WorkerAssumption DEF TypeOK, WorkerTypeOK, Worker
  <2>. QED
    BY <2>1 DEF WorkersKnown, Started
<1>2. ProcessesOwned'
  BY DEF ProcessesOwned, Started
<1>3. ClientsHeld'
  BY DEF ClientsHeld, Started, Id, IdOfWorker
<1>4. ClientsRegistered'
  BY DEF ClientsRegistered, Started
<1>. QED
  BY <1>1, <1>2, <1>3, <1>4 DEF Owned

(* LocalStep for the two ways a thread moves on.                           *)
LEMMA FinishStep ==
  ASSUME Base, Quiet, NEW t \in Thread, NEW s \in Reply \cup {"done"}, Finish(t, s),
         t \in Post => t <= posted
  PROVE  Owned'
<1>1. s \notin HoldingStage /\ s \notin {"new", "register", "assign", "poll"}
  BY DEF Reply, HoldingStage
<1>. QED
  BY <1>1, LocalStep DEF Finish, Goto

LEMMA GotoStep ==
  ASSUME Base, Quiet, NEW t \in Thread, held[t] # NoClient, UNCHANGED held,
         NEW s \in {"kill", "terminate", "restart", "pop", "flush", "close", "launch"}, Goto(t, s)
  PROVE  Owned'
<1>1. s \in HoldingStage /\ s \notin {"new", "register", "assign", "poll"}
  BY DEF HoldingStage
<1>2. pc[t] \in HoldingStage /\ (t \in Post => t <= posted)
  BY DEF Base, ClientsHeld, HoldingStage
<1>. QED
  BY <1>1, <1>2, LocalStep DEF Goto

LEMMA QuietUnchanged ==
  ASSUME UNCHANGED <<workerVars, registry, owner, process, target, fresh>>
  PROVE  Quiet
BY DEF Quiet, workerVars

LEMMA QuietSignal ==
  ASSUME Base, NEW w, Signal(w), UNCHANGED <<registry, owner, process, target, fresh>>
  PROVE  Quiet
BY DEF Quiet, Signal, Base, TypeOK, WorkerTypeOK

LEMMA OwnedNext ==
  ASSUME Base, TypeOK', Next
  PROVE  Owned'
<1>. USE ThreadKinds DEF Reply
<1>1. CASE \E q \in Request : \E r \in Rtsp : RefuseStart(q, r)
  BY <1>1, FinishStep, QuietUnchanged DEF RefuseStart, clientVars
<1>2. CASE \E q \in Request : RejectStart(q)
  BY <1>2, FinishStep, QuietUnchanged DEF RejectStart, clientVars
<1>3. CASE \E q \in Request, p \in Publisher, r \in Rtsp : StartClient(q, p, r)
  BY <1>3, StartStep
<1>4. CASE \E q \in Request, p \in Publisher : NotPublishing(q, p) \/ StopClient(q, p)
  <2>1. PICK q \in Request, p \in Publisher : NotPublishing(q, p) \/ StopClient(q, p)
    BY <1>4
  <2>2. CASE NotPublishing(q, p)
    BY <2>2, FinishStep, QuietUnchanged DEF NotPublishing, clientVars
  <2>3. CASE StopClient(q, p)
    <3>1. Quiet
      BY <2>3 DEF Quiet, StopClient, Arrives, clientVars, workerVars, Base, TypeOK
    <3>2. pc[q] = "new" /\ UNCHANGED held
      BY <2>3 DEF StopClient, Arrives
    <3>3. "lookup" \notin HoldingStage /\ "new" \notin HoldingStage
      BY DEF HoldingStage
    <3>. QED
      BY <2>3, <3>1, <3>2, <3>3, LocalStep DEF StopClient, Goto
  <2>. QED
    BY <2>1, <2>2, <2>3
<1>5. CASE \E q \in Request : Register(q) \/ PollQueue(q) \/ PollTimeout(q)
  <2>1. PICK q \in Request : Register(q) \/ PollQueue(q) \/ PollTimeout(q)
    BY <1>5
  <2>2. CASE Register(q)
    BY <2>2, RegisterStep
  <2>3. CASE PollQueue(q)
    <3>1. Quiet
      BY <2>3, QuietUnchanged DEF PollQueue
    <3>2. CASE Finish(q, "published") \/ Finish(q, "exception")
      BY <3>1, <3>2, FinishStep
    <3>3. CASE UNCHANGED <<pc, held>>
      <4>1. pc' = [pc EXCEPT ![q] = "poll"] /\ pc[q] = "poll"
        BY <2>3, <3>3 DEF PollQueue, Base, TypeOK
      <4>. QED
        BY <3>1, <3>3, <4>1, LocalStep
    <3>. QED
      BY <2>3, <3>2, <3>3 DEF PollQueue
  <2>4. CASE PollTimeout(q)
    BY <2>4, FinishStep, QuietUnchanged DEF PollTimeout, clientVars
  <2>. QED
    BY <2>1, <2>2, <2>3, <2>4
<1>6. CASE \E q \in Request : StopLookup(q) \/ Pop(q)
  <2>1. PICK q \in Request : StopLookup(q) \/ Pop(q)
    BY <1>6
  <2>2. CASE StopLookup(q)
    <3>1. UNCHANGED <<workerVars, registry, process, owner, target, fresh>> /\ pc[q] = "lookup"
      BY <2>2 DEF StopLookup, clientVars
    <3>2. CASE Finish(q, "error")
      BY <3>1, <3>2, FinishStep, QuietUnchanged
    <3>3. CASE registry[Id(q)] # NoClient /\ Hold(q, registry[Id(q)])
      BY <3>1, <3>3, LookupStep DEF Hold, Goto
    <3>. QED
      BY <2>2, <3>2, <3>3 DEF StopLookup, Id
  <2>3. CASE Pop(q)
    <3>1. Quiet
      BY <2>3 DEF Pop, Quiet, Base, TypeOK, clientVars, workerVars
    <3>2. held[q] # NoClient
      BY <2>3 DEF Pop, Base, ClientsHeld, HoldingStage
    <3>. QED
      BY <2>3, <3>1, <3>2, GotoStep DEF Pop
  <2>. QED
    BY <2>1, <2>2, <2>3
<1>7. CASE \E h \in Post : SubprocessMsg(h) \/ QueuePut(h) \/ RestartClient(h)
  <2>1. PICK h \in Post : SubprocessMsg(h) \/ QueuePut(h) \/ RestartClient(h)
    BY <1>7
  <2>2. h <= posted
    BY <2>1 DEF SubprocessMsg, QueuePut, RestartClient, Base, ClientsHeld
  <2>3. UNCHANGED <<workerVars, registry, process, owner, target, fresh>>
    BY <2>1 DEF SubprocessMsg, QueuePut, RestartClient, clientVars
  <2>4. CASE Finish(h, "done")
    BY <2>2, <2>3, <2>4, FinishStep, QuietUnchanged
  <2>5. CASE SubprocessMsg(h)
    <3>1. CASE registry[Id(h)] # NoClient /\ Goto(h, "put") /\ held' = [held EXCEPT ![h] = registry[Id(h)]]
      BY <2>2, <2>3, <3>1, LookupStep DEF Goto
    <3>. QED
      BY <2>4, <2>5, <3>1 DEF SubprocessMsg
  <2>6. CASE QueuePut(h)
    <3>1. held[h] # NoClient
      BY <2>6 DEF QueuePut, Base, ClientsHeld, HoldingStage
    <3>2. CASE (Goto(h, "kill") \/ Goto(h, "restart")) /\ UNCHANGED held
      BY <2>3, <3>1, <3>2, GotoStep, QuietUnchanged
    <3>. QED
      BY <2>4, <2>6, <3>2 DEF QueuePut
  <2>7. CASE RestartClient(h)
    <3>1. CASE registry[Id(h)] # NoClient /\ Hold(h, registry[Id(h)])
      BY <2>2, <2>3, <3>1, LookupStep DEF Hold, Goto
    <3>. QED
      BY <2>4, <2>7, <3>1 DEF RestartClient
  <2>. QED
    BY <2>1, <2>5, <2>6, <2>7
<1>8. CASE \E h \in Post : Relaunch(h) \/ RelaunchFails(h) \/ AssignProcess(h)
  <2>1. PICK h \in Post : Relaunch(h) \/ RelaunchFails(h) \/ AssignProcess(h)
    BY <1>8
  <2>2. CASE RelaunchFails(h)
    <3>1. h <= posted
      BY <2>2 DEF RelaunchFails, Base, ClientsHeld
    <3>. QED
      BY <2>2, <3>1, FinishStep, QuietUnchanged DEF RelaunchFails, clientVars
  <2>. QED
    BY <2>1, <2>2, RelaunchStep, AssignStep
<1>9. CASE \E t \in Thread : KillSubprocess(t) \/ Terminate(t)
  <2>1. PICK t \in Thread : KillSubprocess(t) \/ Terminate(t)
    BY <1>9
  <2>2. held[t] # NoClient /\ (t \in Post => t <= posted)
    BY <2>1 DEF KillSubprocess, Terminate, Base, ClientsHeld, HoldingStage
  <2>3. Quiet
    BY <2>1, QuietSignal DEF KillSubprocess, Terminate, clientVars
  <2>4. CASE Finish(t, "done")
    BY <2>2, <2>3, <2>4, FinishStep
  <2>5. CASE (Goto(t, "terminate") \/ Goto(t, "pop") \/ Goto(t, "flush")) /\ UNCHANGED held
    BY <2>2, <2>3, <2>5, GotoStep
  <2>. QED
    BY <2>1, <2>4, <2>5 DEF KillSubprocess, Terminate
<1>10. CASE \E t \in Thread : FlushLog(t) \/ CloseLog(t)
  <2>1. PICK t \in Thread : FlushLog(t) \/ CloseLog(t)
    BY <1>10
  <2>2. held[t] # NoClient /\ (t \in Post => t <= posted)
    BY <2>1 DEF FlushLog, CloseLog, Base, ClientsHeld, HoldingStage
  <2>3. Quiet
    BY <2>1, QuietUnchanged DEF FlushLog, CloseLog, clientVars
  <2>4. CASE Finish(t, "stopped") \/ Finish(t, "error") \/ Finish(t, "done")
    BY <2>2, <2>3, <2>4, FinishStep
  <2>5. CASE (Goto(t, "close") \/ Goto(t, "launch")) /\ UNCHANGED held
    BY <2>2, <2>3, <2>5, GotoStep
  <2>. QED
    BY <2>1, <2>4, <2>5 DEF FlushLog, CloseLog, AfterLog
<1>11. CASE \E w \in Worker : (Report(w) \/ Fail(w) \/ Leave(w)) /\ UNCHANGED serverVars
  <2>1. PICK w \in Worker : (Report(w) \/ Fail(w) \/ Leave(w)) /\ UNCHANGED serverVars
    BY <1>11
  <2>2. CASE Leave(w)
    <3>1. phase[w] = "running" /\ \A v \in Worker : phase'[v] = phase[v] \/ v = w
      BY <2>2 DEF Leave, Base, TypeOK, WorkerTypeOK
    <3>2. launched \in Nat /\ w \in Nat
      BY WorkerAssumption DEF Base, TypeOK, WorkerTypeOK, Worker
    <3>3. w <= launched
      BY <3>1, <3>2 DEF Base, WorkersKnown
    <3>. QED
      BY <2>1, <2>2, <3>1, <3>3, IdleStep DEF Leave
  <2>. QED
    BY <2>1, <2>2, ReportStep
<1>12. CASE \E w \in Worker : SendReturns(w) /\ UNCHANGED serverVars
  BY <1>12, IdleStep DEF SendReturns
<1>. QED
  BY <1>1, <1>2, <1>3, <1>4, <1>5, <1>6, <1>7, <1>8, <1>9, <1>10, <1>11, <1>12, NextCases

LEMMA OwnedInit == Init => Owned
<1>. SUFFICES ASSUME Init PROVE Owned
  OBVIOUS
<1>. USE ThreadKinds, WorkerAssumption DEF Init, WorkerInit, Started, HoldingStage, NoWorker, NoClient, Worker, Post
<1>1. WorkersKnown
  BY DEF WorkersKnown
<1>2. ProcessesOwned
  BY DEF ProcessesOwned
<1>3. ClientsHeld
  BY DEF ClientsHeld
<1>4. ClientsRegistered
  BY DEF ClientsRegistered
<1>. QED
  BY <1>1, <1>2, <1>3, <1>4 DEF Owned

LEMMA BaseInvariant == Spec => []Base
<1>1. Init => Base
  BY TypeInit, OwnedInit DEF Base, Owned
<1>2. Base /\ UNCHANGED vars => Base'
  <2>1. SUFFICES ASSUME Base, UNCHANGED vars PROVE Base'
    OBVIOUS
  <2>2. TypeOK'
    BY <2>1 DEF Base, TypeOK, WorkerTypeOK, vars, workerVars, serverVars, clientVars, threadVars
  <2>3. Owned'
    BY <2>1, IdleStep DEF vars, workerVars
  <2>. QED
    BY <2>2, <2>3 DEF Base, Owned
<1>3. Base /\ [Next]_vars => Base'
  BY <1>2, TypeNext, OwnedNext DEF Base, Owned
<1>. QED
  BY <1>1, <1>3, PTL DEF Spec

(* Every variable keeps its type.                                          *)
THEOREM TypeCorrect == Spec => []TypeOK
<1>1. Base => TypeOK
  BY DEF Base
<1>. QED
  BY <1>1, BaseInvariant, PTL

-----------------------------------------------------------------------------
(* Only kill_subprocess kills a worker.                                    *)
LEMMA Killers ==
  ASSUME Base, Next, NEW w \in Worker, phase[w] # "killed", phase'[w] = "killed"
  PROVE  \E t \in Thread : (KillSubprocess(t) \/ Terminate(t)) /\ process[held[t]] = w
<1>. USE DEF Base, TypeOK, WorkerTypeOK
<1>1. CASE UNCHANGED phase
  BY <1>1
<1>2. CASE Spawn
  BY <1>2 DEF Spawn
<1>3. CASE \E v \in Worker : Fail(v) \/ Leave(v)
  BY <1>3 DEF Fail, Leave
<1>4. CASE \E t \in Thread : KillSubprocess(t) \/ Terminate(t)
  <2>1. PICK t \in Thread : KillSubprocess(t) \/ Terminate(t)
    BY <1>4
  <2>2. Signal(process[held[t]])
    BY <2>1 DEF KillSubprocess, Terminate
  <2>3. process[held[t]] = w
    BY <2>2 DEF Signal
  <2>. QED
    BY <2>1, <2>3
<1>. QED
  BY <1>1, <1>2, <1>3, <1>4, NextCases DEF RefuseStart, RejectStart, StartClient,
     NotPublishing, StopClient, Register, PollQueue, PollTimeout, StopLookup, Pop,
     SubprocessMsg, QueuePut, RestartClient, Relaunch, RelaunchFails, AssignProcess,
     FlushLog, CloseLog, Report, SendReturns, SendMsgToMain, workerVars

(* A request about one publisher never kills the worker of another: the    *)
(* client a thread holds was started for the publisher of its request, and *)
(* a client's process was launched for that client.                        *)
THEOREM Isolation == Spec => PublisherIsolation
<1>1. Base /\ [Next]_vars =>
        \A w \in Worker : phase[w] # "killed" /\ phase'[w] = "killed" =>
          \E t \in Thread : /\ pc[t] \in {"kill", "terminate"} /\ pc'[t] # pc[t]
                            /\ Id(t) = IdOfWorker(w)
  <2>1. SUFFICES ASSUME Base, [Next]_vars, NEW w \in Worker,
                        phase[w] # "killed", phase'[w] = "killed"
                 PROVE  \E t \in Thread : /\ pc[t] \in {"kill", "terminate"} /\ pc'[t] # pc[t]
                                          /\ Id(t) = IdOfWorker(w)
    OBVIOUS
  <2>2. Next
    BY <2>1 DEF vars, workerVars
  <2>3. PICK t \in Thread : (KillSubprocess(t) \/ Terminate(t)) /\ process[held[t]] = w
    BY <2>1, <2>2, Killers
  <2>4. pc[t] \in {"kill", "terminate"} /\ pc'[t] # pc[t]
    BY <2>1, <2>3 DEF KillSubprocess, Terminate, Goto, Finish, Base, TypeOK
  <2>5. held[t] \in Client /\ Started(held[t]) /\ target[held[t]] = Id(t)
    BY <2>1, <2>4 DEF Base, TypeOK, ClientsHeld, HoldingStage
  <2>6. owner[w] = held[t]
    BY <2>1, <2>3, <2>5 DEF Base, ProcessesOwned
  <2>. QED
    BY <2>4, <2>5, <2>6 DEF IdOfWorker
<1>. QED
  BY <1>1, BaseInvariant, PTL DEF Spec, PublisherIsolation

-----------------------------------------------------------------------------
(* What a step does to an operation, a client and a worker.                *)
LEMMA WorkersStay ==
  ASSUME Base, Next, NEW w \in 1..launched
  PROVE  w \in 1..launched' /\ owner'[w] = owner[w] /\ (Live(w)' => Live(w))
<1>. USE WorkerAssumption DEF Base, TypeOK, WorkerTypeOK, Live, Worker
<1>1. CASE UNCHANGED <<launched, phase, owner>>
  BY <1>1
<1>2. CASE Spawn /\ \E x : owner' = [owner EXCEPT ![launched'] = x]
  BY <1>2 DEF Spawn
<1>3. CASE UNCHANGED owner /\ \E v : Signal(v)
  BY <1>3 DEF Signal
<1>4. CASE UNCHANGED <<launched, owner>> /\ \E v \in Worker : phase[v] = "running" /\ phase' = [phase EXCEPT ![v] = "ended"]
  BY <1>4
<1>. QED
  BY <1>1, <1>2, <1>3, <1>4, NextCases DEF RefuseStart, RejectStart, StartClient,
     NotPublishing, StopClient, Register, PollQueue, PollTimeout, StopLookup, Pop,
     SubprocessMsg, QueuePut, RestartClient, Relaunch, RelaunchFails, AssignProcess,
     KillSubprocess, Terminate, FlushLog, CloseLog, Report, Fail, Leave, SendReturns,
     SendMsgToMain, workerVars, serverVars

LEMMA TargetsStay ==
  ASSUME Base, Next, NEW k \in Client, Started(k)
  PROVE  target'[k] = target[k]
<1>. USE ThreadKinds
<1>1. pc[k] # "new"
  BY DEF Base, ClientsRegistered
<1>2. UNCHANGED target \/ \E q \in Request, p \in Publisher : pc[q] = "new" /\ target' = [target EXCEPT ![q] = p]
  BY NextCases DEF RefuseStart, RejectStart, StartClient,
     NotPublishing, StopClient, Register, PollQueue, PollTimeout, StopLookup, Pop,
     SubprocessMsg, QueuePut, RestartClient, Relaunch, RelaunchFails, AssignProcess,
     KillSubprocess, Terminate, FlushLog, CloseLog, Arrives, serverVars, threadVars
<1>. QED
  BY <1>1, <1>2 DEF Base, TypeOK

LEMMA EventsStay ==
  ASSUME Base, Next, NEW h \in Post, h <= posted
  PROVE  event'[h] = event[h]
<1>1. UNCHANGED event \/ \E w, e : SendMsgToMain(w, e)
  BY NextCases DEF RefuseStart, RejectStart, StartClient,
     NotPublishing, StopClient, Register, PollQueue, PollTimeout, StopLookup, Pop,
     SubprocessMsg, QueuePut, RestartClient, Relaunch, RelaunchFails, AssignProcess,
     KillSubprocess, Terminate, FlushLog, CloseLog, Report, Fail, Leave, SendReturns,
     Spawn, Signal, workerVars
<1>. QED
  BY <1>1, WorkerAssumption DEF SendMsgToMain, Base, TypeOK, WorkerTypeOK, Post

LEMMA ContendedGrows ==
  ASSUME Next
  PROVE  contended \subseteq contended'
BY NextCases DEF RefuseStart, RejectStart, StartClient,
     NotPublishing, StopClient, Register, PollQueue, PollTimeout, StopLookup, Pop,
     SubprocessMsg, QueuePut, RestartClient, Relaunch, RelaunchFails, AssignProcess,
     KillSubprocess, Terminate, FlushLog, CloseLog, serverVars, Hold

LEMMA RegistryStep ==
  ASSUME Base, Next, NEW p \in Publisher, registry[p] # NoClient,
         registry[p] \notin contended', registry'[p] # registry[p]
  PROVE  \E q \in Request : Pop(q) /\ held[q] = registry[p]
<1>. USE DEF Base, TypeOK
<1>1. \/ UNCHANGED registry
      \/ \E q \in Request : Register(q)
      \/ \E q \in Request : Pop(q)
  BY NextCases DEF RefuseStart, RejectStart, StartClient,
     NotPublishing, StopClient, PollQueue, PollTimeout, StopLookup,
     SubprocessMsg, QueuePut, RestartClient, Relaunch, RelaunchFails, AssignProcess,
     KillSubprocess, Terminate, FlushLog, CloseLog, serverVars
<1>2. ASSUME NEW q \in Request, Register(q) PROVE FALSE
  BY <1>2 DEF Register
<1>3. ASSUME NEW q \in Request, Pop(q) PROVE held[q] = registry[p]
  BY <1>3 DEF Pop
<1>. QED
  BY <1>1, <1>2, <1>3

LEMMA ProcessStep ==
  ASSUME Base, Next, NEW k \in Client, Started(k), process'[k] # process[k]
  PROVE  \E h \in Post : AssignProcess(h) /\ held[h] = k /\ process'[k] = fresh[h]
<1>. USE ThreadKinds DEF Base, TypeOK
<1>1. \/ UNCHANGED process
      \/ \E q \in Request : pc[q] = "new" /\ process' = [process EXCEPT ![q] = launched']
      \/ \E h \in Post : AssignProcess(h)
  BY NextCases DEF RefuseStart, RejectStart, StartClient, Arrives, Register,
     NotPublishing, StopClient, PollQueue, PollTimeout, StopLookup, Pop,
     SubprocessMsg, QueuePut, RestartClient, Relaunch, RelaunchFails,
     KillSubprocess, Terminate, FlushLog, CloseLog, serverVars, clientVars
<1>2. ASSUME NEW q \in Request, pc[q] = "new", process' = [process EXCEPT ![q] = launched']
      PROVE  FALSE
  BY <1>2 DEF ClientsRegistered
<1>3. ASSUME NEW h \in Post, AssignProcess(h) PROVE held[h] = k /\ process'[k] = fresh[h]
  BY <1>3 DEF AssignProcess
<1>. QED
  BY <1>1, <1>2, <1>3

(* A thread is moved on by its own statements only.                        *)
Acts(t) ==
  \/ t \in Request /\ (NewRequest(t) \/ RequestThread(t))
  \/ t \in Post /\ PostThread(t)

Stays(t) == /\ pc'[t] = pc[t] /\ held'[t] = held[t]
            /\ t \in Post => fresh'[t] = fresh[t]

LEMMA Actor ==
  ASSUME Base, Next, NEW t \in Thread
  PROVE  Acts(t) \/ Stays(t)
<1>. USE ThreadKinds DEF Base, TypeOK, Stays, Goto, Finish
<1>1. CASE \E q \in Request : NewRequest(q)
  <2>1. PICK q \in Request : NewRequest(q)
    BY <1>1
  <2>2. t # q => Stays(t)
    BY <2>1 DEF NewRequest, RejectStart, RefuseStart, StartClient, NotPublishing, StopClient
  <2>. QED
    BY <2>1, <2>2 DEF Acts
<1>2. CASE \E q \in Request : RequestThread(q)
  <2>1. PICK q \in Request : RequestThread(q)
    BY <1>2
  <2>2. t # q => Stays(t)
    BY <2>1 DEF RequestThread, Register, PollQueue, PollTimeout, StopLookup, KillSubprocess,
       Terminate, Pop, FlushLog, CloseLog, AfterLog, Hold
  <2>. QED
    BY <2>1, <2>2 DEF Acts
<1>3. CASE \E h \in Post : PostThread(h)
  <2>1. PICK h \in Post : PostThread(h)
    BY <1>3
  <2>2. t # h => Stays(t)
    BY <2>1 DEF PostThread, SubprocessMsg, QueuePut, RestartClient, KillSubprocess,
       Terminate, FlushLog, CloseLog, AfterLog, Hold, Relaunch, RelaunchFails, AssignProcess
  <2>. QED
    BY <2>1, <2>2 DEF Acts
<1>4. CASE UNCHANGED serverVars
  BY <1>4 DEF serverVars, threadVars
<1>. QED
  BY <1>1, <1>2, <1>3, <1>4 DEF Next, ReplyArrives, SendTimesOut

(* An operation starts with a lookup and goes on until its last statement. *)
LEMMA OperatesStep ==
  ASSUME Base, Next, NEW t \in Thread, NEW k \in Client, Operates(t, k)'
  PROVE  \/ Operates(t, k) /\ Stays(t)
         \/ Operates(t, k) /\ Acts(t)
         \/ /\ Hold(t, k) /\ pc[t] # "kill"
            /\ target[k] = Id(t) /\ registry[Id(t)] = k /\ UNCHANGED registry
<1>. USE ThreadKinds DEF Base, TypeOK
<1>1. held'[t] = k /\ pc'[t] \in {"kill", "terminate", "pop", "flush", "close", "launch", "assign"}
  BY DEF Operates
<1>2. t \in Post => event'[t] # Exception
  BY DEF Operates
<1>3. CASE Stays(t)
  <2>1. t \in Post => t <= posted
    BY <1>1, <1>3 DEF ClientsHeld, Stays
  <2>2. t \in Post => event[t] # Exception
    BY <1>2, <2>1, EventsStay
  <2>. QED
    BY <1>1, <1>3, <2>2 DEF Operates, Stays
<1>4. CASE t \in Request /\ NewRequest(t)
  BY <1>1, <1>4 DEF NewRequest, RejectStart, RefuseStart, StartClient, NotPublishing, StopClient,
     Goto, Finish
<1>5. CASE t \in Request /\ RequestThread(t)
  <2>1. CASE Register(t) \/ PollQueue(t) \/ PollTimeout(t)
    BY <1>1, <2>1 DEF Register, PollQueue, PollTimeout, Goto, Finish
  <2>2. CASE StopLookup(t)
    <3>1. Hold(t, registry[target[t]]) /\ registry[target[t]] # NoClient /\ UNCHANGED registry
      BY <1>1, <1>5, <2>2 DEF StopLookup, Goto, Finish
    <3>2. registry[target[t]] = k
      BY <1>1, <3>1 DEF Hold
    <3>3. target[k] = target[t]
      BY <1>5, <3>1, <3>2 DEF ClientsRegistered
    <3>. QED
      BY <1>5, <2>2, <3>1, <3>2, <3>3 DEF Id, StopLookup
  <2>3. CASE KillSubprocess(t) \/ Terminate(t) \/ Pop(t) \/ FlushLog(t) \/ CloseLog(t)
    <3>1. held[t] = k
      BY <1>1, <1>5, <2>3 DEF KillSubprocess, Terminate, Pop, FlushLog, CloseLog, AfterLog, Goto, Finish, NoClient
    <3>2. pc[t] \in {"kill", "terminate", "pop", "flush", "close"}
      BY <2>3 DEF KillSubprocess, Terminate, Pop, FlushLog, CloseLog
    <3>. QED
      BY <1>5, <3>1, <3>2 DEF Operates, Acts
  <2>. QED
    BY <1>5, <2>1, <2>2, <2>3 DEF RequestThread
<1>6. CASE t \in Post /\ PostThread(t)
  <2>1. t <= posted
    BY <1>6 DEF PostThread, SubprocessMsg, QueuePut, RestartClient, KillSubprocess, Terminate,
       FlushLog, CloseLog, Relaunch, RelaunchFails, AssignProcess, ClientsHeld
  <2>2. event[t] # Exception
    BY <1>2, <1>6, <2>1, EventsStay
  <2>3. CASE SubprocessMsg(t) \/ QueuePut(t) \/ RelaunchFails(t) \/ AssignProcess(t)
    BY <1>1, <1>6, <2>2, <2>3 DEF SubprocessMsg, QueuePut, RelaunchFails, AssignProcess, Goto, Finish
  <2>4. CASE RestartClient(t)
    <3>1. Hold(t, registry[Id(t)]) /\ registry[Id(t)] # NoClient /\ UNCHANGED registry
      BY <1>1, <1>6, <2>4 DEF RestartClient, Goto, Finish
    <3>2. registry[Id(t)] = k
      BY <1>1, <3>1 DEF Hold
    <3>3. target[k] = Id(t)
      BY <2>1, <3>1, <3>2, IdType DEF ClientsRegistered
    <3>. QED
      BY <2>4, <3>1, <3>2, <3>3 DEF RestartClient
  <2>5. CASE KillSubprocess(t) \/ Terminate(t) \/ FlushLog(t) \/ CloseLog(t) \/ Relaunch(t)
    <3>1. held[t] = k
      BY <1>1, <1>6, <2>5 DEF KillSubprocess, Terminate, FlushLog, CloseLog, AfterLog, Relaunch, Goto, Finish, NoClient
    <3>2. pc[t] \in {"kill", "terminate", "flush", "close", "launch"}
      BY <2>5 DEF KillSubprocess, Terminate, FlushLog, CloseLog, Relaunch
    <3>. QED
      BY <1>6, <2>2, <3>1, <3>2 DEF Operates, Acts
  <2>. QED
    BY <1>6, <2>3, <2>4, <2>5 DEF PostThread
<1>. QED
  BY <1>3, <1>4, <1>5, <1>6, Actor DEF Acts

LEMMA ExceptionsEndNext ==
  ASSUME Base, ExceptionsEnd, Next
  PROVE  ExceptionsEnd'
<1>1. SUFFICES ASSUME NEW h \in Post, pc'[h] \in {"restart", "flush", "close", "launch", "assign"}
               PROVE  event'[h] # Exception
  BY DEF ExceptionsEnd
<1>. USE ThreadKinds DEF Base, TypeOK
<1>2. CASE Stays(h)
  BY <1>1, <1>2, EventsStay DEF Stays, ExceptionsEnd, ClientsHeld
<1>3. CASE PostThread(h)
  <2>1. h <= posted
    BY <1>3 DEF PostThread, SubprocessMsg, QueuePut, RestartClient, KillSubprocess, Terminate,
       FlushLog, CloseLog, Relaunch, RelaunchFails, AssignProcess, ClientsHeld
  <2>2. event[h] # Exception
    BY <1>1, <1>3 DEF PostThread, SubprocessMsg, QueuePut, RestartClient, KillSubprocess, Terminate,
       FlushLog, CloseLog, AfterLog, Relaunch, RelaunchFails, AssignProcess, ExceptionsEnd,
       Hold, Goto, Finish, Restarts, Exception
  <2>. QED
    BY <2>1, <2>2, EventsStay
<1>. QED
  BY <1>2, <1>3, Actor DEF Acts

LEMMA ExclusiveNext ==
  ASSUME Base, ExclusiveOperation, Next
  PROVE  ExclusiveOperation'
<1>1. SUFFICES ASSUME NEW k \in Client, NEW t \in Thread, NEW u \in Thread,
                      k \notin contended', Operates(t, k)', Operates(u, k)', t # u
               PROVE  FALSE
  BY DEF ExclusiveOperation
<1>2. k \notin contended
  BY <1>1, ContendedGrows
<1>3. ASSUME NEW x \in Thread, NEW y \in Thread, x # y, Hold(x, k), pc[x] # "kill", Operates(y, k)'
      PROVE  FALSE
  <2>1. ~Operates(y, k)
    BY <1>1, <1>3 DEF Hold
  <2>2. Hold(y, k) => pc'[x] = pc[x] /\ pc'[x] = "kill"
    BY <1>3 DEF Hold, Goto, Base, TypeOK
  <2>. QED
    BY <1>3, <2>1, <2>2, OperatesStep
<1>4. Operates(t, k) \/ (Hold(t, k) /\ pc[t] # "kill")
  BY <1>1, OperatesStep
<1>5. Operates(u, k) \/ (Hold(u, k) /\ pc[u] # "kill")
  BY <1>1, OperatesStep
<1>. QED
  BY <1>1, <1>2, <1>3, <1>4, <1>5 DEF ExclusiveOperation

LEMMA RestartsNext ==
  ASSUME Base, ExclusiveOperation, RestartsRegistered, Next
  PROVE  RestartsRegistered'
<1>1. SUFFICES ASSUME NEW k \in Client, NEW h \in Post, k \notin contended', Operates(h, k)'
               PROVE  registry'[target'[k]] = k
  BY DEF RestartsRegistered
<1>. USE ThreadKinds DEF Base, TypeOK
<1>2. k \notin contended
  BY <1>1, ContendedGrows
<1>3. CASE Operates(h, k)
  <2>1. Started(k) /\ target[k] \in Publisher
    BY <1>3 DEF Operates, ClientsHeld
  <2>2. registry[target[k]] = k
    BY <1>2, <1>3 DEF RestartsRegistered
  <2>3. ASSUME NEW q \in Request, Pop(q), held[q] = k
        PROVE  FALSE
    <3>1. Operates(q, k)
      BY <2>3 DEF Operates, Pop
    <3>. QED
      BY <1>2, <1>3, <3>1 DEF ExclusiveOperation
  <2>4. registry'[target[k]] = k
    BY <1>1, <2>1, <2>2, <2>3, RegistryStep
  <2>. QED
    BY <2>1, <2>4, TargetsStay
<1>4. CASE target[k] = Id(h) /\ registry[Id(h)] = k /\ UNCHANGED registry
  <2>1. Started(k)
    <3>1. target[k] \in Publisher
      OBVIOUS
    <3>. QED
      BY <1>4, <3>1 DEF ClientsRegistered
  <2>. QED
    BY <1>4, <2>1, TargetsStay
<1>. QED
  BY <1>1, <1>3, <1>4, OperatesStep

(* The worker a step launches.                                             *)
LEMMA LaunchedFound ==
  ASSUME Base, TypeOK', ExclusiveOperation', ExclusiveOperation, RestartsRegistered, RestartsRegistered',
         ExceptionsEnd, Next,
         NEW w \in 1..launched', w \notin 1..launched, owner'[w] \notin contended'
  PROVE  Found(w)'
<1>. USE ThreadKinds DEF Base, TypeOK
<1>1. UNCHANGED launched \/ Spawn
  BY NextCases DEF RefuseStart, RejectStart, StartClient,
     NotPublishing, StopClient, Register, PollQueue, PollTimeout, StopLookup, Pop,
     SubprocessMsg, QueuePut, RestartClient, Relaunch, RelaunchFails, AssignProcess,
     KillSubprocess, Terminate, FlushLog, CloseLog, Report, Fail, Leave, SendReturns,
     SendMsgToMain, Signal, workerVars
<1>2. w = launched' /\ launched' = launched + 1 /\ launched' \in Worker
  BY <1>1, WorkerAssumption DEF WorkerTypeOK, Spawn, Worker
<1>3. \/ \E q \in Request, p \in Publisher, r \in Rtsp : StartClient(q, p, r)
      \/ \E h \in Post : Relaunch(h)
  <2>1. launched' # launched /\ launched \in Nat
    BY <1>2 DEF WorkerTypeOK
  <2>. QED
    BY <2>1, NextCases DEF RefuseStart, RejectStart,
     NotPublishing, StopClient, Register, PollQueue, PollTimeout, StopLookup, Pop,
     SubprocessMsg, QueuePut, RestartClient, RelaunchFails, AssignProcess,
     KillSubprocess, Terminate, FlushLog, CloseLog, Report, Fail, Leave, SendReturns,
     SendMsgToMain, Signal, workerVars
<1>4. CASE \E q \in Request, p \in Publisher, r \in Rtsp : StartClient(q, p, r)
  <2>1. PICK q \in Request, p \in Publisher, r \in Rtsp : StartClient(q, p, r)
    BY <1>4
  <2>2. owner'[w] = q /\ process'[q] = w /\ pc'[q] = "register"
    BY <1>2, <2>1 DEF StartClient, Goto
  <2>3. ~Started(q)
    BY <2>1 DEF StartClient, Arrives, ClientsRegistered
  <2>4. ASSUME NEW t \in Thread, Operates(t, q)' PROVE FALSE
    <3>1. CASE Operates(t, q)
      BY <2>3, <3>1 DEF Operates, ClientsHeld, NoClient
    <3>2. CASE target[q] = Id(t) /\ registry[Id(t)] = q
      <4>1. target[q] \in Publisher
        OBVIOUS
      <4>. QED
        BY <2>3, <3>2, <4>1 DEF ClientsRegistered
    <3>. QED
      BY <2>4, <3>1, <3>2, OperatesStep
  <2>. QED
    BY <2>2, <2>4 DEF Found
<1>5. CASE \E h \in Post : Relaunch(h)
  <2>1. PICK h \in Post : Relaunch(h)
    BY <1>5
  <2>2. /\ held[h] \in Client /\ owner'[w] = held[h] /\ fresh'[h] = w /\ pc'[h] = "assign"
        /\ held'[h] = held[h]
    BY <1>2, <2>1 DEF Relaunch, Goto, ClientsHeld, HoldingStage
  <2>3. Operates(h, held[h])'
    <3>1. event[h] # Exception /\ event' = event
      BY <2>1 DEF ExceptionsEnd, Relaunch, Spawn
    <3>. QED
      BY <2>2, <3>1 DEF Operates
  <2>4. registry'[target'[held[h]]] = held[h]
    BY <2>2, <2>3 DEF RestartsRegistered
  <2>5. ASSUME NEW t \in Thread, Operates(t, held[h])' PROVE t = h
    BY <2>2, <2>3, <2>5 DEF ExclusiveOperation
  <2>. QED
    BY <2>2, <2>4, <2>5 DEF Found
<1>. QED
  BY <1>3, <1>4, <1>5

(* A worker that was there keeps being found while it lives.               *)
LEMMA LiveStaysFound ==
  ASSUME Base, ExclusiveOperation, ExceptionsEnd, Next,
         NEW w \in 1..launched, Found(w), Live(w)', owner[w] \notin contended'
  PROVE  Found(w)'
<1>. USE ThreadKinds DEF Base, TypeOK
<1>7. PICK k \in Client : k = owner[w]
  BY DEF WorkersKnown
<1>. USE <1>7
<1>1. /\ Started(k) /\ k \notin contended /\ w \in Worker
      /\ target[k] \in Publisher /\ target'[k] = target[k]
  BY ContendedGrows, TargetsStay, WorkerAssumption DEF WorkersKnown, WorkerTypeOK, Worker
<1>2. owner'[w] = k
  BY WorkersStay
<1>3. ASSUME NEW h \in Post, pc[h] = "assign", held[h] = k PROVE fresh[h] = w
  <2>1. Operates(h, k)
    BY <1>3 DEF Operates, ExceptionsEnd
  <2>. QED
    BY <1>3, <2>1 DEF Found
<1>4. \/ process'[k] = w
      \/ \E h \in Post : pc'[h] = "assign" /\ held'[h] = k /\ fresh'[h] = w
  <2>1. ASSUME NEW h \in Post, AssignProcess(h), held[h] = k PROVE process'[k] = w
    BY <1>1, <1>3, <2>1 DEF AssignProcess
  <2>2. CASE process[k] = w
    BY <1>1, <2>1, <2>2, ProcessStep
  <2>3. ASSUME NEW h \in Post, pc[h] = "assign", held[h] = k, fresh[h] = w
        PROVE  process'[k] = w \/ (pc'[h] = "assign" /\ held'[h] = k /\ fresh'[h] = w)
    <3>1. CASE Stays(h)
      BY <2>3, <3>1 DEF Stays
    <3>2. CASE PostThread(h)
      <4>1. AssignProcess(h)
        BY <2>3, <3>2 DEF PostThread, SubprocessMsg, QueuePut, RestartClient, KillSubprocess,
           Terminate, FlushLog, CloseLog, Relaunch, RelaunchFails
      <4>. QED
        BY <2>1, <2>3, <4>1
    <3>. QED
      BY <3>1, <3>2, Actor DEF Acts
  <2>. QED
    BY <2>2, <2>3 DEF Found
<1>5. ASSUME NEW t \in Thread, Operates(t, k)'
      PROVE  pc'[t] = "kill" \/ (t \in Post /\ pc'[t] = "assign" /\ fresh'[t] = w)
  <2>1. CASE Operates(t, k) /\ Stays(t)
    BY <2>1 DEF Found, Stays
  <2>2. CASE Operates(t, k) /\ Acts(t)
    <3>1. CASE pc[t] = "kill"
      <4>1. KillSubprocess(t) /\ held[t] = k
        BY <2>2, <3>1 DEF Operates, Acts, NewRequest, RejectStart, RefuseStart, StartClient,
           NotPublishing, StopClient, Arrives, RequestThread, Register, PollQueue, PollTimeout,
           StopLookup, Terminate, Pop, FlushLog, CloseLog, PostThread, SubprocessMsg, QueuePut,
           RestartClient, Relaunch, RelaunchFails, AssignProcess
      <4>2. process[k] # w
        BY <1>1, <4>1 DEF KillSubprocess, Signal, Live, WorkerTypeOK
      <4>3. PICK h \in Post : pc[h] = "assign" /\ held[h] = k
        BY <4>2 DEF Found
      <4>4. Operates(h, k)
        BY <4>3 DEF Operates, ExceptionsEnd
      <4>. QED
        BY <1>1, <2>2, <3>1, <4>3, <4>4 DEF ExclusiveOperation
    <3>2. CASE t \in Post /\ pc[t] = "assign"
      <4>1. AssignProcess(t)
        BY <2>2, <3>2 DEF Acts, PostThread, SubprocessMsg, QueuePut, RestartClient,
           KillSubprocess, Terminate, FlushLog, CloseLog, Relaunch, RelaunchFails
      <4>. QED
        BY <1>5, <4>1 DEF Operates, AssignProcess, Finish, Goto
    <3>. QED
      BY <2>2, <3>1, <3>2 DEF Found
  <2>3. CASE Hold(t, k)
    BY <2>3 DEF Hold, Goto
  <2>4. (Operates(t, k) /\ (Stays(t) \/ Acts(t))) \/ Hold(t, k)
    BY <1>1, <1>5, OperatesStep
  <2>. QED
    BY <2>1, <2>2, <2>3, <2>4
<1>6. registry'[target[k]] = k \/ pc'[k] = "register"
  <2>1. CASE registry[target[k]] = k
    <3>1. ASSUME NEW q \in Request, Pop(q), held[q] = k PROVE FALSE
      <4>1. Operates(q, k) /\ pc[q] = "pop"
        BY <3>1 DEF Operates, Pop
      <4>. QED
        BY <4>1 DEF Found
    <3>. QED
      BY <1>1, <2>1, <3>1, RegistryStep
  <2>2. CASE pc[k] = "register"
    <3>1. CASE Stays(k)
      BY <2>2, <3>1 DEF Stays
    <3>2. CASE Acts(k)
      <4>1. Register(k) /\ held[k] = k
        BY <1>1, <2>2, <3>2 DEF Acts, NewRequest, RejectStart, RefuseStart, StartClient,
           NotPublishing, StopClient, Arrives, RequestThread, PollQueue, PollTimeout,
           StopLookup, KillSubprocess, Terminate, Pop, FlushLog, CloseLog, ClientsHeld
      <4>. QED
        BY <1>1, <4>1 DEF Register
    <3>. QED
      BY <1>1, <3>1, <3>2, Actor
  <2>. QED
    BY <2>1, <2>2 DEF Found
<1>. QED
  BY <1>1, <1>2, <1>4, <1>5, <1>6 DEF Found

LEMMA LiveWorkersNext ==
  ASSUME IInv, TypeOK', ExclusiveOperation', RestartsRegistered', Next
  PROVE  LiveWorkers'
<1>1. SUFFICES ASSUME NEW w \in 1..launched', Live(w)', owner'[w] \notin contended'
               PROVE  Found(w)'
  BY DEF LiveWorkers
<1>2. Base
  BY DEF IInv, Base
<1>3. CASE w \in 1..launched
  <2>1. Live(w) /\ owner[w] \notin contended /\ owner'[w] = owner[w]
    BY <1>1, <1>2, <1>3, WorkersStay, ContendedGrows
  <2>. QED
    BY <1>1, <1>2, <1>3, <2>1, LiveStaysFound DEF IInv, LiveWorkers
<1>. QED
  BY <1>1, <1>2, <1>3, LaunchedFound DEF IInv

LEMMA Inductive == Spec => []IInv
<1>1. Init => IInv
  <2>1. SUFFICES ASSUME Init PROVE IInv
    OBVIOUS
  <2>2. Base
    BY <2>1, TypeInit, OwnedInit DEF Base, Owned
  <2>3. \A t \in Thread : pc[t] = "new"
    BY <2>1 DEF Init
  <2>4. ExclusiveOperation /\ RestartsRegistered /\ ExceptionsEnd
    BY <2>3 DEF ExclusiveOperation, RestartsRegistered, ExceptionsEnd, Operates, Thread
  <2>5. LiveWorkers
    BY <2>1 DEF Init, WorkerInit, LiveWorkers
  <2>. QED
    BY <2>2, <2>4, <2>5 DEF IInv, Base
<1>2. IInv /\ UNCHANGED vars => IInv'
  <2>1. SUFFICES ASSUME IInv, UNCHANGED vars PROVE IInv'
    OBVIOUS
  <2>. USE <2>1 DEF IInv, vars, workerVars, serverVars, clientVars, threadVars
  <2>2. TypeOK'
    BY DEF TypeOK, WorkerTypeOK
  <2>3. Owned'
    BY IdleStep DEF Base
  <2>4. ExclusiveOperation' /\ RestartsRegistered' /\ ExceptionsEnd'
    BY DEF ExclusiveOperation, RestartsRegistered, ExceptionsEnd, Operates
  <2>5. LiveWorkers'
    BY DEF LiveWorkers, Found, Live, Operates
  <2>. QED
    BY <2>2, <2>3, <2>4, <2>5 DEF Owned
<1>3. IInv /\ Next => IInv'
  <2>1. SUFFICES ASSUME IInv, Next PROVE IInv'
    OBVIOUS
  <2>2. Base
    BY <2>1 DEF IInv, Base
  <2>3. TypeOK' /\ Owned'
    BY <2>1, <2>2, TypeNext, OwnedNext
  <2>4. ExclusiveOperation' /\ RestartsRegistered' /\ ExceptionsEnd'
    BY <2>1, <2>2, ExclusiveNext, RestartsNext, ExceptionsEndNext DEF IInv
  <2>5. LiveWorkers'
    BY <2>1, <2>3, <2>4, LiveWorkersNext
  <2>. QED
    BY <2>3, <2>4, <2>5 DEF IInv, Owned
<1>. QED
  BY <1>1, <1>2, <1>3, PTL DEF Spec

(* A live worker whose client no two operations disputed is the process of *)
(* a client that the registry holds or is about to hold, or about to become*)
(* one: no stop or restart leaves it behind.                               *)
THEOREM NoStray == Spec => []NoStrayWorker
<1>1. IInv => NoStrayWorker
  BY DEF IInv, LiveWorkers, Found, NoStrayWorker, WithinReach
<1>. QED
  BY <1>1, Inductive, PTL
=============================================================================
