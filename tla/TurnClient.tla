----------------------------- MODULE TurnClient -----------------------------
(***************************************************************************)
(* The TURN client of src/aioice/turn.py with the STUN transactions of     *)
(* src/aioice/stun.py that carry its requests: an allocation, its refresh  *)
(* and removal, and datagrams sent to peers over channels that have to be  *)
(* bound first.  Each operation is a coroutine of its own; everybody runs  *)
(* on while one of them awaits an answer.                                  *)
(*                                                                         *)
(* The TURN server is external.  It asks for authentication, changes its   *)
(* nonce, refuses a binding that contradicts another, and lets bindings    *)
(* expire, but not while a request is still under way: they live for ten   *)
(* minutes, a transaction for less than one.                               *)
(***************************************************************************)
EXTENDS Naturals, Sequences, FiniteSets, Functions

CONSTANTS
  TurnPeers,      \* remote addresses
  Calls,          \* calls of send_data, in the order in which they are made
  MaxTries,       \* 1 + RETRY_MAX: how often a transaction sends its request
  MaxBusy,        \* bound: operations that are under way at once
  MaxNonces       \* bound: nonces that the server ever uses

ASSUME TurnAssumption ==
  /\ Calls \in Seq(Range(Calls)) /\ IsInjective(Calls)
  /\ Range(Calls) \cap {"allocate", "refresh", "delete"} = {}
  /\ "no peer" \notin TurnPeers
  /\ {MaxTries, MaxBusy, MaxNonces} \subseteq Nat \ {0}

Service == {"allocate", "refresh", "delete"}
Sends == Range(Calls)
Operations == Service \cup Sends

(* Channel numbers count from 1 here, from 0x4000 there.                   *)
Numbers == 1 .. Len(Calls) + 1
NoNumber == 0
NoPeer == "no peer"
NoNonce == 0

VARIABLES
  client,     \* attributes of TurnClientMixin
  op,         \* the coroutines, each with its transaction
  turnNet,    \* requests and responses on their way
  server      \* the TURN server

turnVars == <<client, op, turnNet, server>>

(* since is a history: the server's nonce when the operation began.        *)
NewOp == [pc |-> "idle", to |-> NoPeer, number |-> NoNumber, new |-> FALSE, attempt |-> 0, tries |-> 0,
          nonce |-> NoNonce, since |-> NoNonce]

TurnInit ==
  /\ client = [number |-> 1, nonce |-> NoNonce, deleted |-> FALSE, lost |-> 0,
               channelToPeer |-> [n \in Numbers |-> NoPeer],
               peerToChannel |-> [p \in TurnPeers |-> NoNumber]]
  /\ op = [o \in Operations |-> NewOp]
  /\ turnNet = {}
  /\ server = [nonce |-> 1, allocated |-> FALSE, bound |-> [n \in Numbers |-> NoPeer]]

-----------------------------------------------------------------------------
(* STUN transactions.  Their ids are random: an operation and an attempt.  *)

RequestOf(o, x) ==
  [type |-> "request", op |-> o, attempt |-> x.attempt, to |-> x.to,
   number |-> x.number, nonce |-> x.nonce]

(* Transaction.run of a new transaction, signed with the given nonce.      *)
Begins(x, number, nonce) ==
  [x EXCEPT !.pc = "waiting", !.number = number, !.attempt = @ + 1, !.tries = 1,
            !.nonce = nonce]

Starting(o, to, number) ==
  Begins([op[o] EXCEPT !.since = server.nonce, !.to = to, !.new = (number = client.number)],
         number, client.nonce)

Waiting == {o \in Operations : op[o].pc = "waiting"}

StartTransaction(o, to, number) ==
  LET x == Starting(o, to, number)
  IN  /\ Cardinality(Waiting) < MaxBusy
      /\ op' = [op EXCEPT ![o] = x]
      /\ turnNet' = turnNet \cup {RequestOf(o, x)}

(* What is left of a transaction that is over: responses to it would be    *)
(* dropped (they are not in self.transactions), and so they are here; a    *)
(* request that still arrives matters if it binds a channel.               *)
Over(o) ==
  turnNet \ {m \in turnNet : m.op = o /\ (m.type = "response" \/ o \in Service)}

Ended(x, how) ==
  [NewOp EXCEPT !.pc = how, !.since = IF how = "unauthorized" THEN x.since ELSE NoNonce]

(* A coroutine ends; that of delete() reports connection_lost, whether its *)
(* request succeeded or not.                                               *)
Concludes(o, how) ==
  /\ op' = [op EXCEPT ![o] = Ended(op[o], how)]
  /\ client' = IF o = "delete" THEN [client EXCEPT !.lost = @ + 1] ELSE client

(* Mutant of TimesOut: the tries are counted anew.                         *)
TriesForEver(o) == op' = [op EXCEPT ![o].tries = 0] /\ UNCHANGED client

TimesOut(o) == Concludes(o, "failed")

(* __retry, by the timer.  The copy it sends is the request itself: one    *)
(* that was lost counts as late, and one that was served changes nothing   *)
(* when it is served again.                                                *)
Retry(o) ==
  LET x == op[o]
  IN  /\ x.pc = "waiting"
      /\ IF x.tries < MaxTries
           THEN /\ op' = [op EXCEPT ![o].tries = @ + 1]
                /\ UNCHANGED <<client, turnNet>>
           ELSE TimesOut(o) /\ turnNet' = Over(o)
      /\ UNCHANGED server

-----------------------------------------------------------------------------
(* Operations, up to their first await.                                    *)

Connect ==
  /\ op["allocate"].pc = "idle"
  /\ StartTransaction("allocate", NoPeer, NoNumber)
  /\ UNCHANGED <<client, server>>

(* A round of refresh(), after 5/6 of the lifetime.  A failure ends it.    *)
Refresh ==
  /\ op["allocate"].pc = "done" /\ ~ client.deleted
  /\ op["refresh"].pc = "idle"
  /\ StartTransaction("refresh", NoPeer, NoNumber)
  /\ UNCHANGED <<client, server>>

(* Mutant of Cancel: a refresh that is under way goes on.                  *)
LeaveRunning(x) == x

Cancel(x) == IF x.pc = "waiting" THEN Ended(x, "failed") ELSE x

Delete ==
  /\ op["allocate"].pc = "done" /\ op["delete"].pc = "idle"
  /\ LET x == Starting("delete", NoPeer, NoNumber)
     IN  /\ op' = [op EXCEPT !["delete"] = x, !["refresh"] = Cancel(@)]
         /\ turnNet' = Over("refresh") \cup {RequestOf("delete", x)}
  /\ client' = [client EXCEPT !.deleted = TRUE]
  /\ UNCHANGED server

(* send_data: a peer without a channel is given the next number.  A        *)
(* channel that was bound long ago is bound again first.                   *)
SendData(k, p, old) ==
  LET n == client.peerToChannel[p]
      s == Calls[k]
  IN  /\ op["allocate"].pc = "done" /\ op[s].pc = "idle"
      /\ \A i \in 1 .. k - 1 : op[Calls[i]].pc # "idle"
      /\ IF n = NoNumber \/ old
           THEN /\ StartTransaction(s, p, IF n = NoNumber THEN client.number ELSE n)
                /\ UNCHANGED client
           ELSE Concludes(s, "done") /\ UNCHANGED turnNet
      /\ UNCHANGED server

-----------------------------------------------------------------------------
(* Responses.                                                              *)

(* Mutant of Bound: the next number is whatever it was before the await.   *)
BoundToNext(c, x) ==
  [c EXCEPT !.channelToPeer[c.number] = x.to, !.peerToChannel[x.to] = c.number,
            !.number = @ + 1]

(* send_data goes on after channel_bind: a new channel enters both maps.   *)
Bound(c, x) ==
  IF ~ x.new THEN c
  ELSE [c EXCEPT !.channelToPeer[x.number] = x.to, !.peerToChannel[x.to] = x.number,
                 !.number = @ + 1]

Succeeds(o) ==
  /\ op' = [op EXCEPT ![o] = IF o = "refresh" THEN NewOp ELSE Ended(@, "done")]
  /\ client' = IF o = "delete" THEN [client EXCEPT !.lost = @ + 1]
               ELSE IF o \in Sends THEN Bound(client, op[o])
               ELSE client

(* Mutant of NewNonce: the retry is signed as the request was.             *)
OldNonce(m) == IF client.nonce = NoNonce THEN m.nonce ELSE client.nonce

NewNonce(m) == m.nonce

(* request_with_retry: an authentication error leads to one more attempt.  *)
TriesAgain(o, m) ==
  LET x == Begins(op[o], op[o].number, NewNonce(m))
  IN  /\ op' = [op EXCEPT ![o] = x]
      /\ client' = [client EXCEPT !.nonce = NewNonce(m)]
      /\ turnNet' = Over(o) \cup {RequestOf(o, x)}

Receive(m) ==
  LET o == m.op
  IN  /\ m.type = "response"
      /\ \/ m.answer = "unauthorized" /\ m.attempt = 1 /\ TriesAgain(o, m)
         \/ /\ turnNet' = Over(o)
            /\ \/ m.answer = "success" /\ Succeeds(o)
               \/ m.answer = "refused" /\ Concludes(o, "failed")
               \/ m.answer = "unauthorized" /\ m.attempt > 1 /\ Concludes(o, "unauthorized")
      /\ UNCHANGED server

-----------------------------------------------------------------------------
(* External: the server.                                                   *)

Contradicts(n, p) ==
  \/ server.bound[n] \notin {NoPeer, p}
  \/ \E k \in Numbers : k # n /\ server.bound[k] = p

Answer(r) ==
  IF r.nonce # server.nonce THEN "unauthorized"
  ELSE IF r.op = "allocate" THEN "success"
  ELSE IF ~ server.allocated THEN "refused"
  ELSE IF r.op \in Sends /\ Contradicts(r.number, r.to) THEN "refused"
  ELSE "success"

Serve(r) ==
  LET a == Answer(r)
  IN  /\ r.type = "request"
      /\ turnNet' = (turnNet \ {r}) \cup
           (IF op[r.op].pc # "waiting" \/ op[r.op].attempt # r.attempt THEN {}
            ELSE {[type |-> "response", op |-> r.op, attempt |-> r.attempt, answer |-> a,
                   nonce |-> server.nonce]})
      /\ server' = IF a # "success" THEN server
                   ELSE IF r.op \in Sends
                     THEN [server EXCEPT !.bound[r.number] = r.to]
                   ELSE [server EXCEPT !.allocated = (r.op # "delete")]
      /\ UNCHANGED <<client, op>>

ChangeNonce ==
  /\ server.nonce < MaxNonces
  /\ server' = [server EXCEPT !.nonce = @ + 1]
  /\ UNCHANGED <<client, op, turnNet>>

BindingExpires(n) ==
  /\ server.bound[n] # NoPeer
  /\ Waiting = {} /\ turnNet = {}
  /\ server' = [server EXCEPT !.bound[n] = NoPeer]
  /\ UNCHANGED <<client, op, turnNet>>

TurnNext ==
  \/ Connect \/ Refresh \/ Delete \/ ChangeNonce
  \/ \E k \in DOMAIN Calls, p \in TurnPeers, old \in BOOLEAN : SendData(k, p, old)
  \/ \E o \in Operations : Retry(o)
  \/ \E m \in turnNet : Receive(m) \/ Serve(m)
  \/ \E n \in Numbers : BindingExpires(n)

(* The timers of pending transactions run; nothing is assumed of the       *)
(* server and the network.  (Weak fairness; what enables Retry is written  *)
(* out for TLC.)                                                           *)
Once == Waiting \ {"refresh"}

TurnFairness ==
  /\ <>[](Once # {}) => []<><<\E o \in Once : Retry(o)>>_turnVars
  /\ <>[]("refresh" \in Waiting) => []<><<Retry("refresh")>>_turnVars

TurnSpec == TurnInit /\ [][TurnNext]_turnVars /\ TurnFairness

-----------------------------------------------------------------------------
(* The two maps are each other's inverse, and what the client takes a      *)
(* channel for is what the server takes it for, although send_data reads   *)
(* channel_number before an await and advances it afterwards, and several  *)
(* calls bind at once: no datagram goes to, or is taken to come from, the  *)
(* wrong peer.                                                             *)
OneChannelPerPeer ==
  /\ \A n \in Numbers, p \in TurnPeers :
       client.channelToPeer[n] = p <=> client.peerToChannel[p] = n
  /\ \A n \in Numbers :
       client.channelToPeer[n] # NoPeer => server.bound[n] \in {NoPeer, client.channelToPeer[n]}

(* An operation fails for want of authentication only if the server        *)
(* changed its nonce while it was under way, with whatever nonces of other *)
(* operations it was mixed up (request_with_retry).                        *)
FailsOnlyIfNonceMoved ==
  \A o \in Operations : op[o].pc = "unauthorized" => server.nonce > op[o].since

(* After delete() no refresh is under way that could keep, or seem to      *)
(* keep, the allocation, and the user is told at most once that it ended.  *)
DeletedForGood ==
  client.deleted => op["refresh"].pc # "waiting" /\ client.lost <= 1

(* Every operation ends, with an answer or without one, whatever is lost,  *)
(* and after close() connection_lost is reported: ICE's close() awaits it. *)
EverythingEnds ==
  /\ []<>(Once = {}) /\ []<>("refresh" \notin Waiting)
  /\ client.deleted ~> (client.lost = 1)
=============================================================================
