----------------------------- MODULE Supervisor -----------------------------
(***************************************************************************)
(* The HTTP server (src/accrtsprtc.py) on top of the workers it launches.  *)
(* ThreadedHTTPServer handles every request in a thread of its own, and    *)
(* RequestHandler.clients, the registry of publishers, is shared by all of *)
(* them without a lock: each action below is one statement on shared state *)
(* and the threads interleave freely between statements.                   *)
(*                                                                         *)
(* A thread handles either an API request (start or stop) or one request   *)
(* of a worker (/camera/subprocess).  A start creates at most one          *)
(* RTSPClient, which goes by the number of its request.                    *)
(***************************************************************************)
EXTENDS Worker, Sequences

CONSTANTS
  Publisher,   \* publisher ids, the keys of the registry
  Rtsp,        \* the 'rtsp' form fields; a digit string may equal an id
  QueueSize,   \* capacity of RTSPClient.queue: 3 in the code
  MaxRequest   \* bound: API requests in a behaviour

ASSUME SupervisorAssumption ==
  /\ QueueSize \in Nat \ {0}
  /\ MaxRequest \in Nat \ {0}
  /\ Publisher # {}

(* API requests in the order they arrive, numbered after the workers' ones.*)
Request == MaxPost + 1 .. MaxPost + MaxRequest
Thread  == Request \cup Post

Client   == Request
NoClient == 0

\* The value of 'target' before the request arrives.
SomePublisher == CHOOSE p \in Publisher : TRUE

Reply == {"rejected", "published", "timeout", "exception", "stopped", "error"}
RequestStage == {"new", "register", "poll", "lookup", "kill", "terminate",
                 "pop", "flush", "close"} \cup Reply
PostStage == {"new", "put", "restart", "kill", "terminate", "flush", "close",
              "launch", "assign", "done"}

VARIABLES
  registry,    \* RequestHandler.clients: publisher -> client or NoClient
  process,     \* client.process, a worker or NoWorker
  log,         \* client.log_handler: "none", "open" or "closed"
  queue,       \* client.queue
  owner,       \* the client each worker was launched for
  pc,          \* the next statement of each thread, or its answer
  target,      \* the publisher id in the form of each API request
  held,        \* the local variable 'client' of each thread
  fresh,       \* the local variable 'proc' of restart_client
  contended    \* history: clients whose operations overlapped, see below

clientVars == <<process, log, queue>>
threadVars == <<pc, target, held, fresh>>
serverVars == <<registry, clientVars, owner, threadVars, contended>>
vars == <<workerVars, serverVars>>

TypeOK ==
  /\ WorkerTypeOK
  /\ registry \in [Publisher -> Client \cup {NoClient}]
  /\ process \in [Client -> Worker \cup {NoWorker}]
  /\ log \in [Client -> {"none", "open", "closed"}]
  /\ queue \in [Client -> Seq(Event)]
  /\ \A k \in Client : Len(queue[k]) <= QueueSize
  /\ owner \in [Worker -> Client \cup {NoClient}]
  /\ pc \in [Thread -> RequestStage \cup PostStage]
  /\ \A q \in Request : pc[q] \in RequestStage
  /\ \A h \in Post : pc[h] \in PostStage
  /\ target \in [Request -> Publisher]
  /\ held \in [Thread -> Client \cup {NoClient}]
  /\ fresh \in [Post -> Worker \cup {NoWorker}]
  /\ contended \in SUBSET Client

Init ==
  /\ WorkerInit
  /\ registry = [p \in Publisher |-> NoClient]
  /\ process = [k \in Client |-> NoWorker]
  /\ log = [k \in Client |-> "none"]
  /\ queue = [k \in Client |-> <<>>]
  /\ owner = [w \in Worker |-> NoClient]
  /\ pc = [t \in Thread |-> "new"]
  /\ target = [q \in Request |-> SomePublisher]
  /\ held = [t \in Thread |-> NoClient]
  /\ fresh = [h \in Post |-> NoWorker]
  /\ contended = {}

-----------------------------------------------------------------------------
Registered == {p \in Publisher : registry[p] # NoClient}

(* The publisher a thread works for, the 'id' of its form: a worker sends  *)
(* the --id it was launched with.                                          *)
IdOfWorker(w) == target[owner[w]]
Id(t) == IF t \in Request THEN target[t] ELSE IdOfWorker(sender[t])

(* Is thread t between looking client k up and its last statement on it, in*)
(* check_stop or in restart_client?  (The kill that answers an exception   *)
(* changes nothing but the process.)                                       *)
Operates(t, k) ==
  /\ held[t] = k
  /\ pc[t] \in {"kill", "terminate", "pop", "flush", "close", "launch", "assign"}
  /\ t \in Post => event[t] # Exception

Goto(t, stage) == pc' = [pc EXCEPT ![t] = stage]

(* The thread's last statement; a worker's request is answered with "done".*)
Finish(t, answer) ==
  /\ Goto(t, answer)
  /\ held' = [held EXCEPT ![t] = NoClient]

(* Thread t has looked client k up.  History: from here on two operations  *)
(* work on k if another thread was at it.                                  *)
Hold(t, k) ==
  /\ held' = [held EXCEPT ![t] = k]
  /\ contended' = IF \E u \in Thread \ {t} : Operates(u, k)
                  THEN contended \cup {k} ELSE contended
  /\ Goto(t, "kill")

(* Requests are numbered in the order their first statement runs.          *)
Arrives(q) ==
  /\ pc[q] = "new"
  /\ \A j \in Request : j < q => pc[j] # "new"

-----------------------------------------------------------------------------
(* check_start                                                             *)

(* "if rtsp in self.clients": the stream is looked up among publisher ids. *)
AlreadyPublished(r) == r \in Registered

RefuseStart(q, r) ==
  /\ Arrives(q)
  /\ AlreadyPublished(r)
  /\ Finish(q, "rejected")
  /\ UNCHANGED <<workerVars, registry, clientVars, owner, target, fresh, contended>>

(* A missing or malformed field, or launch_janus raises (no log file, no   *)
(* fork): whatever the answer, nothing was changed.                        *)
RejectStart(q) ==
  /\ Arrives(q)
  /\ Finish(q, "rejected")
  /\ UNCHANGED <<workerVars, registry, clientVars, owner, target, fresh, contended>>

(* A new RTSPClient and its process, which runs from here on although the  *)
(* registry has no such client yet.  With 'debug' it has a log file.       *)
StartClient(q, p, r) ==
  /\ Arrives(q)
  /\ ~AlreadyPublished(r)
  /\ Spawn
  /\ owner' = [owner EXCEPT ![launched'] = q]
  /\ process' = [process EXCEPT ![q] = launched']
  /\ \E l \in {"none", "open"} : log' = [log EXCEPT ![q] = l]
  /\ target' = [target EXCEPT ![q] = p]
  /\ held' = [held EXCEPT ![q] = q]
  /\ Goto(q, "register")
  /\ UNCHANGED <<registry, queue, fresh, contended>>

(* Mutant of Register: registered under the stream, as it is looked up.    *)
RegisterByStream(q) ==
  /\ pc[q] = "register"
  /\ \E r \in Rtsp \cap Publisher : registry' = [registry EXCEPT ![r] = held[q]]
  /\ Goto(q, "poll")
  /\ UNCHANGED <<workerVars, clientVars, owner, target, held, fresh, contended>>

(* self.clients[publisher] = client, whatever was there.                   *)
Register(q) ==
  LET p == target[q] IN
  /\ pc[q] = "register"
  /\ registry' = [registry EXCEPT ![p] = held[q]]
  /\ contended' = contended \cup ({registry[p]} \ {NoClient})
  /\ Goto(q, "poll")
  /\ UNCHANGED <<workerVars, clientVars, owner, target, held, fresh>>

(* Mutant of Succeeds: any message of the worker will do.                  *)
SucceedsOnAny(e) == e # Exception

(* The loop of check_start.  No worker sends 'close'.                      *)
Succeeds(e) == e \in {"close", "webrtc up"}

PollQueue(q) ==
  LET k == held[q]
      e == Head(queue[k])
  IN
  /\ pc[q] = "poll"
  /\ queue[k] # <<>>
  /\ queue' = [queue EXCEPT ![k] = Tail(@)]
  /\ \/ Succeeds(e) /\ Finish(q, "published")
     \/ e = Exception /\ Finish(q, "exception")
     \/ ~Succeeds(e) /\ e # Exception /\ UNCHANGED <<pc, held>>
  /\ UNCHANGED <<workerVars, registry, process, log, owner, target, fresh, contended>>

(* 30 s have passed.  The client stays registered and its worker runs on.  *)
PollTimeout(q) ==
  /\ pc[q] = "poll"
  /\ Finish(q, "timeout")
  /\ UNCHANGED <<workerVars, registry, clientVars, owner, target, fresh, contended>>

-----------------------------------------------------------------------------
(* check_stop, up to the client it works on.                               *)

NotPublishing(q, p) ==
  /\ Arrives(q)
  /\ registry[p] = NoClient
  /\ Finish(q, "rejected")
  /\ UNCHANGED <<workerVars, registry, clientVars, owner, target, fresh, contended>>

StopClient(q, p) ==
  /\ Arrives(q)
  /\ registry[p] # NoClient
  /\ target' = [target EXCEPT ![q] = p]
  /\ Goto(q, "lookup")
  /\ UNCHANGED <<workerVars, registry, clientVars, owner, held, fresh, contended>>

(* self.clients[publisher]: a KeyError when another stop popped it since.  *)
StopLookup(q) ==
  LET k == registry[target[q]] IN
  /\ pc[q] = "lookup"
  /\ \/ k = NoClient /\ Finish(q, "error") /\ UNCHANGED contended
     \/ k # NoClient /\ Hold(q, k)
  /\ UNCHANGED <<workerVars, registry, clientVars, owner, target, fresh>>

-----------------------------------------------------------------------------
(* subprocess_msg                                                          *)

(* The client is looked up by the id in the form, so the message of an old *)
(* worker reaches whoever is registered now; without one it is dropped.    *)
SubprocessMsg(h) ==
  LET k == registry[Id(h)] IN
  /\ h <= posted /\ pc[h] = "new"
  /\ \/ k = NoClient /\ Finish(h, "done")
     \/ k # NoClient /\ Goto(h, "put") /\ held' = [held EXCEPT ![h] = k]
  /\ UNCHANGED <<workerVars, registry, clientVars, owner, target, fresh, contended>>

(* No such session in Janus, or a failed peer connection.                  *)
Restarts(e) == e \in {"error 458", "pc failed"}

(* Mutant of Full: off by one.                                             *)
OverFull(k) == Len(queue[k]) > QueueSize

Full(k) == Len(queue[k]) >= QueueSize

(* queue.put() blocks while the queue is full; the event is acted on after *)
(* it returns.                                                             *)
QueuePut(h) ==
  LET k == held[h]
      e == event[h]
  IN
  /\ pc[h] = "put"
  /\ ~Full(k)
  /\ queue' = [queue EXCEPT ![k] = Append(@, e)]
  /\ \/ e = Exception /\ Goto(h, "kill") /\ UNCHANGED held
     \/ Restarts(e) /\ Goto(h, "restart") /\ UNCHANGED held
     \/ e # Exception /\ ~Restarts(e) /\ Finish(h, "done")
  /\ UNCHANGED <<workerVars, registry, process, log, owner, target, fresh, contended>>

(* restart_client looks the client up again; a KeyError ends the request.  *)
RestartClient(h) ==
  LET k == registry[Id(h)] IN
  /\ pc[h] = "restart"
  /\ \/ k = NoClient /\ Finish(h, "done") /\ UNCHANGED contended
     \/ k # NoClient /\ Hold(h, k)
  /\ UNCHANGED <<workerVars, registry, clientVars, owner, target, fresh>>

-----------------------------------------------------------------------------
(* kill_subprocess, shared by check_stop, restart_client and the handler of*)
(* an exception.  It reads client.process once for os.kill and again for   *)
(* terminate().  A client that was looked up has a process, so the early   *)
(* return for None is not taken.                                           *)
KillSubprocess(t) ==
  /\ pc[t] = "kill"
  /\ Signal(process[held[t]])
  /\ Goto(t, "terminate")
  /\ UNCHANGED <<registry, clientVars, owner, target, held, fresh, contended>>

Terminate(t) ==
  /\ pc[t] = "terminate"
  /\ Signal(process[held[t]])
  /\ \/ t \in Request /\ Goto(t, "pop") /\ UNCHANGED held
     \/ t \in Post /\ event[t] # Exception /\ Goto(t, "flush") /\ UNCHANGED held
     \/ t \in Post /\ event[t] = Exception /\ Finish(t, "done")
  /\ UNCHANGED <<registry, clientVars, owner, target, fresh, contended>>

(* self.clients.pop(publisher, None): whichever client is registered now.  *)
Pop(q) ==
  LET p == target[q] IN
  /\ pc[q] = "pop"
  /\ registry' = [registry EXCEPT ![p] = NoClient]
  /\ contended' = contended \cup ({registry[p]} \ {NoClient, held[q]})
  /\ Goto(q, "flush")
  /\ UNCHANGED <<workerVars, clientVars, owner, target, held, fresh>>

(* The log is done with: a stop answers, a restart goes on to launch.      *)
AfterLog(t) ==
  \/ t \in Request /\ Finish(t, "stopped")
  \/ t \in Post /\ Goto(t, "launch") /\ UNCHANGED held

(* log_handler.flush() raises on a closed file and the request ends there. *)
FlushLog(t) ==
  LET l == log[held[t]] IN
  /\ pc[t] = "flush"
  /\ \/ l = "none" /\ AfterLog(t)
     \/ l = "open" /\ Goto(t, "close") /\ UNCHANGED held
     \/ l = "closed" /\ Finish(t, IF t \in Request THEN "error" ELSE "done")
  /\ UNCHANGED <<workerVars, registry, clientVars, owner, target, fresh, contended>>

CloseLog(t) ==
  /\ pc[t] = "close"
  /\ log' = [log EXCEPT ![held[t]] = "closed"]
  /\ AfterLog(t)
  /\ UNCHANGED <<workerVars, registry, process, queue, owner, target, fresh, contended>>

(* launch_janus in restart_client.  This handler has the class's           *)
(* debug_log_level of 1, so the new worker always has a log file.          *)
Relaunch(h) ==
  /\ pc[h] = "launch"
  /\ Spawn
  /\ owner' = [owner EXCEPT ![launched'] = held[h]]
  /\ fresh' = [fresh EXCEPT ![h] = launched']
  /\ log' = [log EXCEPT ![held[h]] = "open"]
  /\ Goto(h, "assign")
  /\ UNCHANGED <<registry, process, queue, target, held, contended>>

RelaunchFails(h) ==
  /\ pc[h] = "launch"
  /\ Finish(h, "done")
  /\ UNCHANGED <<workerVars, registry, clientVars, owner, target, fresh, contended>>

(* Mutant of AssignProcess: the client keeps its old process.              *)
ForgetProcess(h) ==
  /\ pc[h] = "assign"
  /\ fresh' = [fresh EXCEPT ![h] = NoWorker]
  /\ Finish(h, "done")
  /\ UNCHANGED <<workerVars, registry, clientVars, owner, target, contended>>

(* client.process = proc                                                   *)
AssignProcess(h) ==
  /\ pc[h] = "assign"
  /\ process' = [process EXCEPT ![held[h]] = fresh[h]]
  /\ fresh' = [fresh EXCEPT ![h] = NoWorker]
  /\ Finish(h, "done")
  /\ UNCHANGED <<workerVars, registry, log, queue, owner, target, contended>>

-----------------------------------------------------------------------------
(* A worker inside urlopen(): the reply comes, or 5 s pass first; the      *)
(* server's handler goes on regardless.                                    *)
ReplyArrives(w) ==
  /\ SendReturns(w)
  /\ pc[waiting[w]] = "done"
  /\ UNCHANGED serverVars

(* Mutant of SendTimesOut: urlopen() has no timeout.                       *)
WaitsOn(w) == FALSE /\ UNCHANGED vars

SendTimesOut(w) ==
  /\ SendReturns(w)
  /\ pc[waiting[w]] # "done"
  /\ UNCHANGED serverVars

NewRequest(q) ==
  \/ RejectStart(q)
  \/ \E r \in Rtsp : RefuseStart(q, r)
  \/ \E r \in Rtsp, p \in Publisher : StartClient(q, p, r)
  \/ \E p \in Publisher : NotPublishing(q, p) \/ StopClient(q, p)

(* The statements of a request already in progress.                        *)
RequestThread(q) ==
  \/ Register(q) \/ PollQueue(q) \/ PollTimeout(q)
  \/ StopLookup(q) \/ KillSubprocess(q) \/ Terminate(q) \/ Pop(q)
  \/ FlushLog(q) \/ CloseLog(q)

PostThread(h) ==
  \/ SubprocessMsg(h) \/ QueuePut(h) \/ RestartClient(h)
  \/ KillSubprocess(h) \/ Terminate(h) \/ FlushLog(h) \/ CloseLog(h)
  \/ Relaunch(h) \/ RelaunchFails(h) \/ AssignProcess(h)

Next ==
  \/ \E q \in Request : NewRequest(q) \/ RequestThread(q)
  \/ \E h \in Post : PostThread(h)
  \/ \E w \in Worker :
       \/ WorkerStep(w) /\ UNCHANGED serverVars
       \/ ReplyArrives(w) \/ SendTimesOut(w)

(* Threads run: a request in progress takes its next statement, a socket   *)
(* operation ends.  Nobody owes a new request, no worker a report.         *)
Fairness ==
  /\ \A q \in Request : WF_vars(RequestThread(q))
  /\ \A h \in Post : WF_vars(PostThread(h))
  /\ \A w \in Worker : WF_vars(ReplyArrives(w) \/ SendTimesOut(w))

Spec == Init /\ [][Next]_vars /\ Fairness

-----------------------------------------------------------------------------
(* Is worker w within reach: the process of a registered client, which a   *)
(* stop finds, or of one about to be registered, or about to be assigned?  *)
WithinReach(w) ==
  LET k == owner[w] IN
  \/ process[k] = w /\ (registry[target[k]] = k \/ pc[k] = "register")
  \/ \E h \in Post : pc[h] = "assign" /\ held[h] = k /\ fresh[h] = w

(* No process runs on out of reach of every later stop (check_stop,        *)
(* restart_client), unless two operations overlapped on its client or a    *)
(* start overwrote it in the registry.                                     *)
NoStrayWorker ==
  \A w \in 1..launched : Live(w) /\ owner[w] \notin contended => WithinReach(w)

(* However late and to whichever client a message is delivered, a request  *)
(* about one publisher never kills the worker of another (the lookups by id*)
(* of check_stop, subprocess_msg and restart_client).                      *)
PublisherIsolation ==
  [][\A w \in Worker :
       phase[w] # "killed" /\ phase'[w] = "killed" =>
         \E t \in Thread : /\ pc[t] \in {"kill", "terminate"} /\ pc'[t] # pc[t]
                           /\ Id(t) = IdOfWorker(w)]_vars

(* Server and worker may both be blocked, the handler in queue.put() and   *)
(* the worker in urlopen() on that handler's reply, but never for good: the*)
(* worker's event loop gets going again (socket.setdefaulttimeout(5)).     *)
WorkerResumes ==
  \A w \in Worker, h \in Post :
    Live(w) /\ waiting[w] = h ~> ~(Live(w) /\ waiting[w] = h)

(* The start requests as their callers see them (check_start).             *)
Reported(e) == {Id(h) : h \in {i \in 1..posted : event[i] = e}}

Service == INSTANCE PublishService WITH
  Caller <- Request,
  call <- [q \in Request |-> IF pc[q] \in {"register", "poll"} THEN target[q] ELSE "idle"],
  answer <- [q \in Request |-> IF pc[q] \in {"published", "exception", "timeout"}
                               THEN pc[q] ELSE "none"],
  up <- Reported("webrtc up"),
  down <- Reported(Exception)

(* Every start is answered, with success only after some worker of that    *)
(* publisher reported its media up and with failure only after one failed. *)
ImplementsService == Service!Spec

(* A start for a publisher that is already publishing is refused ("You've  *)
(* published the stream!"), so nothing is registered over a client.        *)
NeverOverwritten ==
  [][\A p \in Publisher :
       registry[p] # NoClient => registry'[p] \in {NoClient, registry[p]}]_vars

(* "no such session, we restart it": the handler that was told so gets to  *)
(* the restart.                                                            *)
SessionLossHandled ==
  \A h \in Post :
    pc[h] = "put" /\ event[h] = "error 458" ~> pc[h] \in PostStage \ {"new", "put"}
=============================================================================
