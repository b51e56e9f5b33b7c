--------------------------- MODULE PublishService ---------------------------
(***************************************************************************)
(* What a caller of /camera/push/start may rely on, without the registry,  *)
(* the worker processes, their queues and their threads:                   *)
(*                                                                         *)
(*   - "has been published" is answered only once some worker publishing   *)
(*     for that id has reported that its media is up;                      *)
(*   - a failure is answered only once such a worker has reported one;     *)
(*   - every request that got as far as a worker is answered.              *)
(***************************************************************************)
CONSTANTS Publisher, Caller

Idle == "idle"

VARIABLES
  call,     \* the id whose start each caller waits for, or Idle
  answer,   \* the last answer to a start, or "none"
  up,       \* ids for which media has been reported up
  down      \* ids for which a failure has been reported

vars == <<call, answer, up, down>>

Init ==
  /\ call = [c \in Caller |-> Idle]
  /\ answer = [c \in Caller |-> "none"]
  /\ up = {}
  /\ down = {}

Ask(c, p) ==
  /\ call[c] = Idle
  /\ call' = [call EXCEPT ![c] = p]
  /\ answer' = [answer EXCEPT ![c] = "none"]
  /\ UNCHANGED <<up, down>>

ReportUp(p) ==
  /\ up' = up \cup {p}
  /\ UNCHANGED <<call, answer, down>>

ReportDown(p) ==
  /\ down' = down \cup {p}
  /\ UNCHANGED <<call, answer, up>>

Finish(c, a) ==
  /\ call[c] # Idle
  /\ a = "published" => call[c] \in up
  /\ a = "exception" => call[c] \in down
  /\ call' = [call EXCEPT ![c] = Idle]
  /\ answer' = [answer EXCEPT ![c] = a]
  /\ UNCHANGED <<up, down>>

(* The caller goes on to other requests.                                   *)
Forget(c) ==
  /\ call[c] = Idle
  /\ answer' = [answer EXCEPT ![c] = "none"]
  /\ UNCHANGED <<call, up, down>>

Answered(c) == \E a \in {"published", "exception", "timeout"} : Finish(c, a)

Next ==
  \/ \E c \in Caller : Answered(c) \/ Forget(c) \/ \E p \in Publisher : Ask(c, p)
  \/ \E p \in Publisher : ReportUp(p) \/ ReportDown(p)

Spec == Init /\ [][Next]_vars /\ \A c \in Caller : WF_vars(Answered(c))
=============================================================================
