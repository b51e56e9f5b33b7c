------------------------------- MODULE Worker -------------------------------
(***************************************************************************)
(* The publishing subprocess (src/janus.py) as the server sees it: it is   *)
(* launched, it reports with synchronous HTTP requests, it ends by itself  *)
(* or is killed.  JanusWorker has the steps of the subprocess and is shown *)
(* to implement this module; Supervisor puts the server on top of it.      *)
(***************************************************************************)
EXTENDS Naturals

CONSTANTS
  MaxWorker,   \* bound: subprocesses launched in a behaviour
  MaxPost,     \* bound: requests all of them send to the server
  Reports      \* what a running worker may report any number of times

Exception == "exception"

ASSUME WorkerAssumption ==
  /\ MaxWorker \in Nat \ {0}
  /\ MaxPost \in Nat \ {0}
  /\ Exception \notin Reports

Worker == 1..MaxWorker
Post == 1..MaxPost          \* the requests, in the order they are sent
Event == Reports \cup {Exception}

NoWorker == 0
NoPost == 0

(* A worker that ended may linger on: its process goes when its last thread*)
(* does.                                                                   *)
Phase == {"unborn", "running", "ended", "killed"}

VARIABLES
  launched,   \* number of processes started so far
  phase,      \* the state of each process
  posted,     \* number of requests sent so far
  sender,     \* which worker sent each request
  event,      \* and what it reports
  waiting     \* the request each worker is inside urlopen() for, or NoPost

workerVars == <<launched, phase, posted, sender, event, waiting>>

Live(w) == phase[w] \in {"running", "ended"}

WorkerTypeOK ==
  /\ launched \in 0..MaxWorker
  /\ phase \in [Worker -> Phase]
  /\ posted \in 0..MaxPost
  /\ sender \in [Post -> Worker \cup {NoWorker}]
  /\ event \in [Post -> Event]
  /\ waiting \in [Worker -> Post \cup {NoPost}]

WorkerInit ==
  /\ launched = 0
  /\ phase = [w \in Worker |-> "unborn"]
  /\ posted = 0
  /\ sender = [h \in Post |-> NoWorker]
  /\ event = [h \in Post |-> Exception]
  /\ waiting = [w \in Worker |-> NoPost]

(* subprocess.Popen: the next process starts running at once.              *)
Spawn ==
  /\ launched < MaxWorker
  /\ launched' = launched + 1
  /\ phase' = [phase EXCEPT ![launched + 1] = "running"]
  /\ UNCHANGED <<posted, sender, event, waiting>>

(* SIGTERM: the worker installs no handler, so the default action ends the *)
(* process, its threads included; a process already gone is left as it is. *)
Signal(w) ==
  /\ phase' = [phase EXCEPT ![w] = IF Live(w) THEN "killed" ELSE @]
  /\ UNCHANGED <<launched, posted, sender, event, waiting>>

(* send_msg_to_main has sent the request and blocks in urlopen().          *)
SendMsgToMain(w, e) ==
  /\ posted < MaxPost
  /\ waiting[w] = NoPost
  /\ posted' = posted + 1
  /\ sender' = [sender EXCEPT ![posted + 1] = w]
  /\ event' = [event EXCEPT ![posted + 1] = e]
  /\ waiting' = [waiting EXCEPT ![w] = posted + 1]
  /\ UNCHANGED launched

(* A callback that was due may still report as the loop is wound up.       *)
Report(w) ==
  /\ Live(w)
  /\ \E e \in Reports : SendMsgToMain(w, e)
  /\ UNCHANGED phase

(* An exception leaves the worker's loop and is reported, at most once.    *)
Fail(w) ==
  /\ phase[w] = "running"
  /\ SendMsgToMain(w, Exception)
  /\ phase' = [phase EXCEPT ![w] = "ended"]

(* The loop returns without a report.                                      *)
Leave(w) ==
  /\ phase[w] = "running" /\ waiting[w] = NoPost
  /\ phase' = [phase EXCEPT ![w] = "ended"]
  /\ UNCHANGED <<launched, posted, sender, event, waiting>>

WorkerStep(w) == Report(w) \/ Fail(w) \/ Leave(w)

(* urlopen() ends, and send_msg_to_main with it, whatever the outcome.     *)
SendReturns(w) ==
  /\ Live(w) /\ waiting[w] # NoPost
  /\ waiting' = [waiting EXCEPT ![w] = NoPost]
  /\ UNCHANGED <<launched, phase, posted, sender, event>>

-----------------------------------------------------------------------------
(* A fleet of workers under any server: it launches and kills them when it *)
(* likes, and a request ends with its reply or after 5 s.                  *)
WorkerNext ==
  \/ Spawn
  \/ \E w \in Worker : Signal(w) \/ WorkerStep(w) \/ SendReturns(w)

WorkerSpec == WorkerInit /\ [][WorkerNext]_workerVars
=============================================================================
