------------------------------ MODULE IceAgent ------------------------------
(***************************************************************************)
(* Two ICE agents, the Connection of src/aioice/ice.py at both ends: the   *)
(* check list, STUN transactions with retransmission, triggered and early  *)
(* checks, role conflicts, aggressive and regular nomination, the end of   *)
(* connect(), consent freshness and close().  One component.               *)
(*                                                                         *)
(* A path is a pair of a local and a remote candidate, seen by both ends.  *)
(* Messages are delayed, reordered, lost and sent again.  An answer is     *)
(* never slower than the last timer of its transaction: a transaction      *)
(* times out only when none of its messages is on its way.                 *)
(***************************************************************************)
EXTENDS Naturals, Sequences, FiniteSets

CONSTANTS
  Alice, Bob,     \* the agents: Bob answers the offer of Alice
  Senior,         \* the one with the larger tie-breaker
  Openings,       \* who starts as controlling agent: a set of sets of agents
  LiteAgents,     \* those that may be ICE Lite: they answer, and never check
  Paths, NoPath,
  Rank,           \* [Paths -> Nat]: the priority of the pair
  Foundation,     \* [agents -> [Paths -> _]]: that of the local candidate
  Reaches,        \* [agents -> SUBSET Paths]: where its messages get through
  Hidden,         \* [agents -> SUBSET Paths]: remote candidates not signalled
  Skewed,         \* paths whose answers come from some other address
  Closers,        \* the agents whose application may call close()
  MaxRequests,    \* 1 + RETRY_MAX
  MaxMisses,      \* CONSENT_FAILURES
  MaxTroubles     \* bound: consent messages lost, and requests sent again
                  \* before the answer could arrive, in a behaviour

Agents == {Alice, Bob}
OtherAgent(e) == CHOOSE x \in Agents : x # e

(* An agent without a single signalled candidate gets an empty set of      *)
(* components, and what connect() then does is left out.                   *)
ASSUME IceAssumption ==
  /\ Alice # Bob /\ Senior \in Agents /\ Openings \subseteq SUBSET Agents /\ Closers \subseteq Agents
  /\ LiteAgents \subseteq Agents
  /\ NoPath \notin Paths /\ Rank \in [Paths -> Nat]
  /\ Reaches \in [Agents -> SUBSET Paths] /\ Hidden \in [Agents -> SUBSET Paths]
  /\ \A e \in Agents : Hidden[e] # Paths
  /\ MaxRequests \in Nat \ {0} /\ MaxMisses \in Nat \ {0} /\ MaxTroubles \in Nat

(* The paths that work both ways and that both ends were told of.          *)
Working == {p \in Paths \ Skewed : \A e \in Agents : p \in Reaches[e] \ Hidden[e]}

VARIABLES
  agent,      \* the Connection at each end
  air,        \* set of messages on their way
  offered,    \* history: paths on which an agent sent USE-CANDIDATE
  troubles    \* those that may still happen

iceVars == <<agent, air, offered, troubles>>

(* check[p]: the transaction of the check in progress on p; stage "none"   *)
(* when there is none.  result: the queue _check_list_state, oldest first. *)
NoCheck == [stage |-> "none", controlling |-> FALSE, use |-> FALSE, tries |-> 0]

NewAgent(controls, lite) ==
  [phase |-> IF lite THEN "lite" ELSE "new", controlling |-> controls, nominating |-> FALSE,
   list |-> [p \in Paths |-> "none"], check |-> [p \in Paths |-> NoCheck],
   heard |-> {}, nominated |-> {}, early |-> {}, selected |-> NoPath,
   done |-> FALSE, result |-> <<>>, closed |-> FALSE,
   consent |-> FALSE, asked |-> NoPath, misses |-> 0]

IceInit ==
  /\ \E controls \in Openings, lite \in {{}} \cup {{e} : e \in LiteAgents} :
       agent = [e \in Agents |-> NewAgent(e \in controls, e \in lite)]
  /\ air = {}
  /\ offered = [e \in Agents |-> {}]
  /\ troubles = MaxTroubles

IsLite(e) == agent[e].phase = "lite"

-----------------------------------------------------------------------------
(* Messages.  live: what the answer is for, "nobody" once the transaction  *)
(* is over.                                                                *)

Request(e, p, controlling, use, live) ==
  [kind |-> "request", to |-> OtherAgent(e), path |-> p,
   controlling |-> controlling, use |-> use, live |-> live]

Response(m, kind) ==
  [kind |-> kind, to |-> OtherAgent(m.to), path |-> m.path, live |-> m.live]

CheckRequest(e, p, c) == Request(e, p, c.controlling, c.use, c.stage)

(* What arrives: nothing is sent by a closed socket, and nothing from e    *)
(* arrives by another path than those that let it through.                 *)
Carried(e, messages) ==
  {m \in messages : m.path \in Reaches[e] /\ ~agent[e].closed /\ ~agent[OtherAgent(e)].closed}

(* The transactions of the agent a at e that are over leave their requests *)
(* to be received, and their answers are dropped.                          *)
IsLive(e, a, m) ==
  LET c == a.check[m.path]
  IN IF m.live = "consent" THEN a.asked = m.path
     ELSE c.stage = m.live /\ (c.tries = 1 => c = agent[e].check[m.path])

Swept(e, a, messages) ==
  {IF m.kind = "request" /\ m.to # e /\ ~IsLive(e, a, m) THEN [m EXCEPT !.live = "nobody"] ELSE m :
     m \in {x \in messages : x.kind # "request" /\ x.to = e => IsLive(e, a, x)}}

(* The agent e becomes a: it took some messages and sent others.           *)
GoesTo(e, a, taken, messages) ==
  /\ agent' = [agent EXCEPT ![e] = a]
  /\ air' = Carried(e, messages) \cup Swept(e, a, air \ taken)
  /\ offered' = [offered EXCEPT ![e] = @ \cup
                   {m.path : m \in {x \in messages : x.kind = "request" /\ x.use}}]

Becomes(e, a, messages) == GoesTo(e, a, {}, messages) /\ UNCHANGED troubles

-----------------------------------------------------------------------------
(* The check list.                                                         *)

StartsCheck(a, p) ==
  [a EXCEPT !.list[p] = "in progress",
            !.check[p] = [stage |-> "check", controlling |-> a.controlling, tries |-> 1,
                          use |-> a.controlling /\ \A e \in Agents : ~IsLite(e)]]

(* Before connect() there is no remote password: the task of the check     *)
(* raises an exception and leaves the pair in progress.                    *)
Dies(a, p) == [a EXCEPT !.list[p] = "in progress"]

Triggered(a, p) ==
  IF a.list[p] \notin {"waiting", "failed"} THEN a
  ELSE IF a.phase = "new" THEN Dies(a, p) ELSE StartsCheck(a, p)

Reports(a, what) == IF a.done THEN a ELSE [a EXCEPT !.result = Append(@, what), !.done = TRUE]

Thaw(e, a, p) ==
  [a EXCEPT !.list = [q \in Paths |->
     IF a.list[q] = "frozen" /\ Foundation[e][q] = Foundation[e][p] THEN "waiting" ELSE a.list[q]]]

Exhausted(a) == \A p \in Paths : a.list[p] \in {"none", "succeeded", "failed"}

(* Mutant of ListFailed: a controlled agent does not wait for a nomination. *)
FailsEarly(a) == Exhausted(a)

ListFailed(a) == Exhausted(a) /\ (a.controlling \/ \A p \in Paths : a.list[p] # "succeeded")

CheckComplete(e, x, p) ==
  LET a == [x EXCEPT !.check[p] = NoCheck]
      b == IF a.list[p] = "succeeded" /\ p \in a.nominated
           THEN [a EXCEPT !.selected = p,
                   !.list = [q \in Paths |-> IF @[q] \in {"waiting", "frozen"} THEN "failed" ELSE @[q]]]
           ELSE a
      c == IF a.list[p] = "succeeded" THEN Thaw(e, b, p) ELSE b
  IN IF a.list[p] = "succeeded" /\ b.selected # NoPath THEN Reports(b, "completed")
     ELSE IF ListFailed(c) THEN Reports(c, "failed")
     ELSE c

CheckFails(e, a, p) == CheckComplete(e, [a EXCEPT !.list[p] = "failed"], p)

CheckSucceeds(e, a, p, nominated) ==
  CheckComplete(e, [a EXCEPT !.list[p] = "succeeded",
                             !.nominated = IF nominated THEN @ \cup {p} ELSE @], p)

CheckIncoming(e, a, m) ==
  LET p == m.path
      b == Triggered([a EXCEPT !.list[p] = IF @ = "none" THEN "waiting" ELSE @], p)
      c == [b EXCEPT !.heard = @ \cup {p}]
  IN IF ~m.use \/ b.controlling THEN b
     ELSE IF c.list[p] = "succeeded" THEN CheckComplete(e, [c EXCEPT !.nominated = @ \cup {p}], p)
     ELSE c

(* The requests of the checks that have just been started on some paths.   *)
FirstRequests(e, a, started) == {CheckRequest(e, p, a.check[p]) : p \in started}

-----------------------------------------------------------------------------
(* connect()                                                               *)

Described(e) == \A p \in Paths \ Hidden[e] : agent[e].list[p] # "none"

(* The remote candidates arrive, and their end; the sockets are there.     *)
Describe(e) ==
  /\ agent[e].phase = "new" /\ ~agent[e].closed /\ ~Described(e)
  /\ e = Alice => IsLite(Bob) \/ Described(Bob)
  /\ Becomes(e, [agent[e] EXCEPT !.list = [p \in Paths |-> IF p \in Hidden[e] THEN @[p] ELSE "frozen"]], {})

(* _unfreeze_initial compares foundations to the characters of the first   *)
(* one: one more pair of the first pair's foundation is unfrozen.          *)
Best(paths) == {p \in paths : \A q \in paths : Rank[p] >= Rank[q]}

Unfreeze(e, a) ==
  LET listed == {p \in Paths : a.list[p] # "none"}
      rest == {p \in listed \ Best(listed) : a.list[p] = "frozen"}
      next == UNION {Best({q \in rest : Foundation[e][q] = Foundation[e][p]}) : p \in rest}
  IN [a EXCEPT !.list = [p \in Paths |->
        IF a.list[p] = "frozen" /\ p \in Best(listed) \cup next THEN "waiting" ELSE a.list[p]]]

ConnectIce(e) ==
  /\ agent[e].phase = "new" /\ Described(e)
  /\ LET a == Unfreeze(e, [agent[e] EXCEPT !.phase = "checking", !.early = {}])
         paths == {x.path : x \in agent[e].early}
         begun == {p \in paths : a.list[p] \in {"none", "waiting"}}
         used == {x.path : x \in {y \in agent[e].early : y.use}}
         b == [a EXCEPT !.heard = IF a.controlling THEN @ ELSE @ \cup used,
                        !.list = [p \in Paths |-> IF p \in begun THEN "in progress" ELSE a.list[p]],
                        !.check = [p \in Paths |-> IF p \in begun THEN StartsCheck(a, p).check[p]
                                                   ELSE a.check[p]]]
     IN Becomes(e, b, FirstRequests(e, b, begun))

(* Every 20 ms one more check is started, until none is left.              *)
CheckPeriodic(e) ==
  LET a == agent[e]
      waiting == {p \in Paths : a.list[p] = "waiting"}
      frozen == {p \in Paths : a.list[p] = "frozen"}
  IN /\ a.phase = "checking"
     /\ IF waiting \cup frozen = {}
        THEN Becomes(e, [a EXCEPT !.phase = "awaiting"], {})
        ELSE \E p \in Best(IF waiting # {} THEN waiting ELSE frozen) :
               LET b == StartsCheck(a, p) IN Becomes(e, b, FirstRequests(e, b, {p}))

(* connect() takes the result, cancels the checks that are still running   *)
(* and starts to test consent, or raises ConnectionError.                  *)
ConnectEnds(e) ==
  LET a == agent[e]
      won == Head(a.result) = "completed"
  IN /\ a.phase = "awaiting" /\ a.result # <<>>
     /\ Becomes(e, [a EXCEPT !.phase = IF won THEN "connected" ELSE "failed", !.consent = won,
                             !.result = Tail(@), !.check = [p \in Paths |-> NoCheck]], {})

-----------------------------------------------------------------------------
(* Transactions.                                                           *)

Quiet(e, p, live) == \A m \in air : m.path = p /\ m.live = live => (m.kind = "request") = (m.to = e)

RetryCheck(e, p) ==
  LET c == agent[e].check[p]
  IN /\ c.stage # "none" /\ c.tries < MaxRequests
     /\ GoesTo(e, [agent[e] EXCEPT !.check[p].tries = @ + 1], {}, {CheckRequest(e, p, c)})
     /\ IF Quiet(e, p, c.stage) THEN UNCHANGED troubles ELSE troubles > 0 /\ troubles' = troubles - 1

CheckTimesOut(e, p) ==
  LET c == agent[e].check[p]
  IN /\ c.stage # "none" /\ c.tries = MaxRequests
     /\ Quiet(e, p, c.stage)
     /\ Becomes(e, CheckFails(e, agent[e], p), {})

(* Two controlling agents: the larger tie-breaker stays; two controlled    *)
(* ones: the larger one switches.                                          *)
Conflict(a, m) == a.controlling = m.controlling

(* Mutant of Refuses: who detects the conflict gives way.                  *)
NeverRefuses(e, a, m) == FALSE

Refuses(e, a, m) == Conflict(a, m) /\ (a.controlling <=> e = Senior)

ReceiveRequest(e, m) ==
  LET a == agent[e]
      b == IF Conflict(a, m) THEN [a EXCEPT !.controlling = ~@] ELSE a
      c == IF \A p \in Paths : b.list[p] = "none"
           THEN [b EXCEPT !.early = @ \cup {[path |-> m.path, use |-> m.use]}]
           ELSE CheckIncoming(e, b, m)
      begun == {p \in {m.path} : b.check[p] = NoCheck /\ c.check[p] # NoCheck}
  IN /\ m.kind = "request" /\ ~IsLite(e)
     /\ IF Refuses(e, a, m)
        THEN GoesTo(e, a, {m}, {Response(m, "conflict")})
        ELSE GoesTo(e, c, {m}, {Response(m, "ok")} \cup FirstRequests(e, c, begun))

(* Another implementation: it answers, and selects what is nominated.      *)
LiteAnswers(e, m) ==
  /\ m.kind = "request" /\ IsLite(e)
  /\ GoesTo(e, [agent[e] EXCEPT !.selected = IF m.use THEN m.path ELSE @], {m}, {Response(m, "ok")})

(* 487: the check starts again in the other role.                          *)
RoleConflict(e, m) ==
  LET p == m.path
      a == StartsCheck([agent[e] EXCEPT !.controlling = ~agent[e].check[p].controlling], p)
  IN /\ m.kind = "conflict" /\ m.live = "check"
     /\ GoesTo(e, a, {m}, FirstRequests(e, a, {p}))

CheckAnswered(e, m) ==
  LET a == agent[e]
      p == m.path
      regular == a.controlling /\ ~a.nominating
      b == [a EXCEPT !.nominating = TRUE,
                     !.check[p] = [stage |-> "nominate", controlling |-> TRUE, use |-> TRUE, tries |-> 1]]
  IN /\ m.kind = "ok" /\ m.live = "check"
     /\ IF p \in Skewed THEN GoesTo(e, CheckFails(e, a, p), {m}, {})
        ELSE IF a.check[p].use \/ p \in a.heard THEN GoesTo(e, CheckSucceeds(e, a, p, TRUE), {m}, {})
        ELSE IF regular THEN GoesTo(e, b, {m}, FirstRequests(e, b, {p}))
        ELSE GoesTo(e, CheckSucceeds(e, a, p, FALSE), {m}, {})

NominationAnswered(e, m) ==
  /\ m.kind # "request" /\ m.live = "nominate"
  /\ GoesTo(e, IF m.kind = "ok" THEN CheckSucceeds(e, agent[e], m.path, TRUE)
               ELSE CheckFails(e, agent[e], m.path), {m}, {})

-----------------------------------------------------------------------------
(* Consent, and the end.                                                   *)

(* close() reports a failure to a connect() that still waits, and to one   *)
(* that has not come that far.                                             *)
Closed(a) ==
  [a EXCEPT !.closed = TRUE, !.consent = FALSE, !.asked = NoPath, !.selected = NoPath,
            !.result = IF ~a.done /\ \E p \in Paths : a.list[p] # "none"
                       THEN Append(@, "failed") ELSE @]

Shuts(e, lost) ==
  /\ agent' = [agent EXCEPT ![e] = Closed(@)]
  /\ air' = Swept(e, Closed(agent[e]), {m \in air : m.to # e} \ lost)
  /\ UNCHANGED offered

CloseIce(e) == e \in Closers /\ ~agent[e].closed /\ Shuts(e, {}) /\ UNCHANGED troubles

AskConsent(e) ==
  LET a == agent[e]
  IN /\ a.consent /\ a.asked = NoPath /\ a.selected # NoPath
     /\ Becomes(e, [a EXCEPT !.asked = a.selected],
                {Request(e, a.selected, a.controlling, FALSE, "consent")})

Forgives(a) == [a EXCEPT !.asked = NoPath, !.misses = 0]

(* Mutant of Misses: consent is never given up.                            *)
StartsOver(a) == [a EXCEPT !.asked = NoPath, !.misses = 0]

Misses(a) == [a EXCEPT !.asked = NoPath, !.misses = @ + 1]

Missed(e, taken) ==
  IF Misses(agent[e]).misses < MaxMisses THEN GoesTo(e, Misses(agent[e]), taken, {})
  ELSE Shuts(e, taken)

ConsentAnswered(e, m) ==
  /\ m.kind # "request" /\ m.live = "consent"
  /\ IF m.kind = "ok" THEN GoesTo(e, Forgives(agent[e]), {m}, {}) ELSE Missed(e, {m})

ConsentTimesOut(e) ==
  /\ agent[e].asked # NoPath /\ Quiet(e, agent[e].asked, "consent")
  /\ Missed(e, {}) /\ UNCHANGED troubles

LoseConsent(m) ==
  /\ m.live = "consent" /\ troubles > 0
  /\ troubles' = troubles - 1 /\ air' = air \ {m}
  /\ UNCHANGED <<agent, offered>>

ReceiveStun(m) ==
  /\ \/ ReceiveRequest(m.to, m) \/ LiteAnswers(m.to, m) \/ RoleConflict(m.to, m)
     \/ CheckAnswered(m.to, m) \/ NominationAnswered(m.to, m) \/ ConsentAnswered(m.to, m)
  /\ UNCHANGED troubles

Connecting(e) == Describe(e) \/ ConnectIce(e) \/ CheckPeriodic(e) \/ ConnectEnds(e)
Consenting(e) == AskConsent(e) \/ ConsentTimesOut(e)
Timer(e, p) == RetryCheck(e, p) \/ CheckTimesOut(e, p)

IceNext ==
  \/ \E e \in Agents :
       \/ Describe(e) \/ ConnectIce(e) \/ CheckPeriodic(e) \/ ConnectEnds(e)
       \/ AskConsent(e) \/ ConsentTimesOut(e) \/ CloseIce(e)
       \/ \E p \in Paths : RetryCheck(e, p) \/ CheckTimesOut(e, p)
  \/ \E m \in air : ReceiveStun(m) \/ LoseConsent(m)

(* The event loop runs what is due, both applications call connect(), and  *)
(* on a path that works the network delivers what an end waits for.        *)
IceFairness ==
  \A e \in Agents :
    /\ WF_iceVars(Connecting(e)) /\ WF_iceVars(Consenting(e))
    /\ \A p \in Paths : WF_iceVars(Timer(e, p))
    /\ WF_iceVars(\E m \in air : m.to = e /\ m.live = "consent" /\ ReceiveStun(m))
    /\ WF_iceVars(\E m \in air : m.to = e /\ m.live # "consent" /\ ReceiveStun(m))

IceSpec == IceInit /\ [][IceNext]_iceVars /\ IceFairness

-----------------------------------------------------------------------------
(* The roles are settled once both agents selected a pair, and only what   *)
(* the controlling one nominated is selected, whoever started as what, and *)
(* whatever checks and conflicts crossed (request_received, check_start).  *)
NominatedByOne ==
  \A e \in Agents : ~IsLite(e) /\ agent[e].selected # NoPath =>
    /\ ~agent[e].controlling => agent[e].selected \in offered[OtherAgent(e)]
    /\ ~IsLite(OtherAgent(e)) /\ agent[OtherAgent(e)].selected # NoPath
         => agent[e].controlling # agent[OtherAgent(e)].controlling

(* A check that was triggered before connect() knew the password.          *)
Dead(e) == \E p \in Paths : agent[e].list[p] = "in progress" /\ agent[e].check[p] = NoCheck
             /\ agent[e].phase \notin {"connected", "failed"}

(* ICE finds the way: when some path works both ways, both connect() calls *)
(* end, and with success, unless an application closes or a check died     *)
(* before connect() (check_complete, check_incoming, check_periodic).      *)
BothConnect ==
  Working # {} =>
    <>\/ \E e \in Agents : agent[e].closed \/ Dead(e)
      \/ \A e \in Agents : agent[e].phase \in {"connected", "lite"} /\ agent[e].selected # NoPath

(* When the other end is gone, consent is not kept up for ever: an agent   *)
(* that tests it closes in the end (query_consent).                        *)
LossNoticed ==
  \A e \in Agents :
    (agent[e].consent /\ agent[OtherAgent(e)].closed) ~> agent[e].closed
=============================================================================
