-------------------------- MODULE SctpAssociation --------------------------
(***************************************************************************)
(* How two RTCSctpTransports of src/aiortc/rtcsctptransport.py set up and  *)
(* end an association: the four-way handshake, its T1 timer, stop(), ABORT *)
(* and the shutdown that a peer may ask for (T2).                          *)
(*                                                                         *)
(* The network below loses packets, delays and reorders them.  Packets are *)
(* never duplicated (DTLS drops replays) but by retransmission: the wire   *)
(* is a bag.  A lost packet is one that stays on the wire for ever.        *)
(***************************************************************************)
EXTENDS Naturals, FiniteSets, Bags

CONSTANTS
  Client, Server,     \* the two ends: the ICE controlling one is the client
  MaxInitRetrans,     \* SCTP_MAX_INIT_RETRANS
  MaxAssocRetrans,    \* SCTP_MAX_ASSOCIATION_RETRANS
  MaxShutdowns        \* bound: SHUTDOWN chunks that a foreign peer sends

ASSUME AssocAssumption ==
  /\ Client # Server
  /\ {MaxInitRetrans, MaxAssocRetrans, MaxShutdowns} \subseteq Nat

End == {Client, Server}
Peer(e) == CHOOSE x \in End : x # e

NoTag == "no tag"
NoTimer == "off"

AssocState ==
  {"CLOSED", "COOKIE_WAIT", "COOKIE_ECHOED", "ESTABLISHED", "SHUTDOWN_ACK_SENT"}

VARIABLES
  peer,       \* the association at each end
  wire,       \* bag of packets on their way
  was,        \* history: what each end has been, of {"established", "ended"}
  shutdowns   \* SHUTDOWN chunks that the foreign peer may still send

assocVars == <<peer, wire, was, shutdowns>>

(* t1 and t2 hold the chunk that the timer sends again, or NoTimer; an end *)
(* whose remoteTag is NoTag knows no peer (it would send tag 0).           *)
NewPeer ==
  [state |-> "CLOSED", started |-> FALSE, registered |-> FALSE, remoteTag |-> NoTag,
   t1 |-> NoTimer, t1Failures |-> 0, t2 |-> NoTimer, t2Failures |-> 0]

AssocInit ==
  /\ peer = [e \in End |-> NewPeer]
  /\ wire = EmptyBag
  /\ was = [e \in End |-> {}]
  /\ shutdowns = MaxShutdowns

-----------------------------------------------------------------------------
(* The association's helpers, from the state of an end to its next.        *)

T1Cancel(p) == [p EXCEPT !.t1 = NoTimer]
T2Cancel(p) == [p EXCEPT !.t2 = NoTimer]

(* Mutant of T1Start: it only counts from 0 again.                         *)
T1Recount(p, chunk) == [p EXCEPT !.t1Failures = 0]

T1Start(p, chunk) == [p EXCEPT !.t1 = chunk, !.t1Failures = 0]

T2Start(p, chunk) == [p EXCEPT !.t2 = chunk, !.t2Failures = 0]


(* Mutant of SetState: closing leaves the timers running.                  *)
SetStateOnly(p, state) == [p EXCEPT !.state = state]

SetState(p, state) ==
  IF state = "CLOSED" THEN T1Cancel(T2Cancel([p EXCEPT !.state = state]))
                      ELSE [p EXCEPT !.state = state]

(* Every packet carries the verification tag that its sender learnt; an    *)
(* INIT goes out before there is one.  A tag is named after its owner.     *)
Packet(e, p, chunk) == [to |-> Peer(e), tag |-> p.remoteTag, chunk |-> chunk]

(* End e becomes p; the packets in "taken" leave the wire, chunks join it. *)
GoesOn(e, p, taken, chunks) ==
  /\ peer' = [peer EXCEPT ![e] = p]
  /\ wire' = (wire (-) taken) (+) SetToBag({Packet(e, p, c) : c \in chunks})
  /\ was' = [was EXCEPT ![e] = @ \cup
               (IF p.state = "ESTABLISHED" THEN {"established"} ELSE {}) \cup
               (IF p.state = "CLOSED" /\ p.started THEN {"ended"} ELSE {})]

-----------------------------------------------------------------------------
(* What an end does of its own accord.                                     *)

(* The peer connection starts each transport once, and none it stopped.    *)
Start(e) ==
  LET p == [peer[e] EXCEPT !.started = TRUE, !.registered = TRUE]
  IN  /\ ~ peer[e].started /\ "ended" \notin was[e]
      /\ IF e = Client
           THEN /\ peer' = [peer EXCEPT ![e] = SetState(T1Start(p, "INIT"), "COOKIE_WAIT")]
                /\ wire' = wire (+) SetToBag({Packet(e, p, "INIT")})
           ELSE /\ peer' = [peer EXCEPT ![e] = p]
                /\ UNCHANGED wire
      /\ UNCHANGED <<was, shutdowns>>

(* RTCSctpTransport.stop: the DTLS transport hands it nothing any more.    *)
Stop(e) ==
  LET p == [peer[e] EXCEPT !.registered = FALSE]
  IN  /\ peer[e].registered
      /\ GoesOn(e, SetState(p, "CLOSED"), EmptyBag,
                IF p.state = "CLOSED" THEN {} ELSE {"ABORT"})
      /\ UNCHANGED shutdowns

(* The chunk goes out again and the timer runs again, until it gives up.   *)
T1Expired(e) ==
  LET p == [peer[e] EXCEPT !.t1Failures = @ + 1]
  IN  /\ p.t1 # NoTimer
      /\ IF p.t1Failures > MaxInitRetrans
           THEN GoesOn(e, SetState(p, "CLOSED"), EmptyBag, {})
           ELSE GoesOn(e, p, EmptyBag, {p.t1})
      /\ UNCHANGED shutdowns

T2Expired(e) ==
  LET p == [peer[e] EXCEPT !.t2Failures = @ + 1]
  IN  /\ p.t2 # NoTimer
      /\ IF p.t2Failures > MaxAssocRetrans
           THEN GoesOn(e, SetState(p, "CLOSED"), EmptyBag, {})
           ELSE GoesOn(e, p, EmptyBag, {p.t2})
      /\ UNCHANGED shutdowns

(* External: this code never sends SHUTDOWN, another implementation does,  *)
(* once it is established with e, and ends with SHUTDOWN-COMPLETE.         *)
ForeignShutdown(e) ==
  LET f == Peer(e)
  IN  /\ shutdowns > 0 /\ "established" \in was[f]
      /\ shutdowns' = shutdowns - 1
      /\ wire' = wire (+) SetToBag({[to |-> e, tag |-> e, chunk |-> "SHUTDOWN"]})
      /\ UNCHANGED <<peer, was>>

ForeignComplete(e) ==
  LET a == [to |-> Peer(e), tag |-> Peer(e), chunk |-> "SHUTDOWN_ACK"]
  IN  /\ BagIn(a, wire)
      /\ wire' = (wire (-) SetToBag({a}))
                   (+) SetToBag({[to |-> e, tag |-> e, chunk |-> "SHUTDOWN_COMPLETE"]})
      /\ UNCHANGED <<peer, was, shutdowns>>

-----------------------------------------------------------------------------
(* _receive_chunk, one disjunct per chunk.  An end that stop() has         *)
(* unregistered gets none, and a packet needs the right verification tag:  *)
(* the receiver's own, and none if it is an INIT.                          *)

Mine(e, p) ==
  /\ p.to = e /\ peer[e].registered
  /\ p.tag = (IF p.chunk = "INIT" THEN NoTag ELSE e)

(* No branch of the handler takes the chunk.                               *)
Drops(e, pkt) == GoesOn(e, peer[e], SetToBag({pkt}), {})

OnAbort(e, pkt) ==
  /\ pkt.chunk = "ABORT"
  /\ GoesOn(e, SetState(peer[e], "CLOSED"), SetToBag({pkt}), {})

(* In any state; SHUTDOWN_RECEIVED lasts no longer than this handler.      *)
OnShutdown(e, pkt) ==
  /\ pkt.chunk = "SHUTDOWN"
  /\ GoesOn(e, SetState(T2Start(T2Cancel(peer[e]), "SHUTDOWN_ACK"), "SHUTDOWN_ACK_SENT"),
            SetToBag({pkt}), {"SHUTDOWN_ACK"})

OnShutdownComplete(e, pkt) ==
  /\ pkt.chunk = "SHUTDOWN_COMPLETE"
  /\ IF peer[e].state = "SHUTDOWN_ACK_SENT"
       THEN GoesOn(e, SetState(T2Cancel(peer[e]), "CLOSED"), SetToBag({pkt}), {})
       ELSE Drops(e, pkt)

(* The server, whatever its state is, learns the tag and makes a cookie.   *)
(* The first TSN of its peer, which it learns too, is InitialTsn of        *)
(* SctpReceiver.                                                           *)
OnInit(e, pkt) ==
  /\ pkt.chunk = "INIT"
  /\ IF e = Server
       THEN GoesOn(e, [peer[e] EXCEPT !.remoteTag = Peer(e)], SetToBag({pkt}), {"INIT_ACK"})
       ELSE Drops(e, pkt)

(* Mutant of AnswerToCookie: a cookie that is too old is acknowledged too. *)
AcksAnyCookie(fresh) == {"COOKIE_ACK"}

AnswerToCookie(fresh) == IF fresh THEN {"COOKIE_ACK"} ELSE {"ERROR"}

(* The server, whatever its state is.  The cookie's own time stamp decides *)
(* whether it is still fresh.                                              *)
OnCookieEcho(e, pkt, fresh) ==
  /\ pkt.chunk = "COOKIE_ECHO"
  /\ IF e = Server
       THEN GoesOn(e, IF fresh THEN SetState(peer[e], "ESTABLISHED") ELSE peer[e],
                   SetToBag({pkt}), AnswerToCookie(fresh))
       ELSE Drops(e, pkt)

(* INIT-ACK carries the tag of its sender.                                 *)
OnInitAck(e, pkt) ==
  /\ pkt.chunk = "INIT_ACK"
  /\ IF peer[e].state = "COOKIE_WAIT"
       THEN LET p == [T1Cancel(peer[e]) EXCEPT !.remoteTag = Peer(e)]
            IN  GoesOn(e, SetState(T1Start(p, "COOKIE_ECHO"), "COOKIE_ECHOED"),
                       SetToBag({pkt}), {"COOKIE_ECHO"})
       ELSE Drops(e, pkt)

(* Mutant of AwaitsCookieAck: any COOKIE-ACK establishes.                  *)
TakesCookieAck(p) == p.state # "ESTABLISHED"

AwaitsCookieAck(p) == p.state = "COOKIE_ECHOED"

OnCookieAck(e, pkt) ==
  /\ pkt.chunk = "COOKIE_ACK"
  /\ IF AwaitsCookieAck(peer[e])
       THEN GoesOn(e, SetState(T1Cancel(peer[e]), "ESTABLISHED"), SetToBag({pkt}), {})
       ELSE Drops(e, pkt)

OnError(e, pkt) ==
  /\ pkt.chunk = "ERROR"
  /\ IF peer[e].state \in {"COOKIE_WAIT", "COOKIE_ECHOED"}
       THEN GoesOn(e, SetState(T1Cancel(peer[e]), "CLOSED"), SetToBag({pkt}), {})
       ELSE Drops(e, pkt)

ReceiveChunk(e) ==
  /\ UNCHANGED shutdowns
  /\ \E pkt \in BagToSet(wire) :
       /\ Mine(e, pkt)
       /\ \/ OnAbort(e, pkt)
          \/ OnShutdown(e, pkt)
          \/ OnShutdownComplete(e, pkt)
          \/ OnInit(e, pkt)
          \/ \E fresh \in BOOLEAN : OnCookieEcho(e, pkt, fresh)
          \/ OnInitAck(e, pkt)
          \/ OnCookieAck(e, pkt)
          \/ OnError(e, pkt)

AssocNext ==
  \E e \in End :
    \/ Start(e)
    \/ Stop(e)
    \/ T1Expired(e)
    \/ T2Expired(e)
    \/ ForeignShutdown(e)
    \/ ForeignComplete(e)
    \/ ReceiveChunk(e)

(* A timer that runs expires; nothing is assumed of the network.           *)
AssocFairness ==
  \A e \in End : WF_assocVars(T1Expired(e)) /\ WF_assocVars(T2Expired(e))

AssocSpec == AssocInit /\ [][AssocNext]_assocVars /\ AssocFairness

-----------------------------------------------------------------------------
(* The client believes in an association only if the server has entered it *)
(* and each knows the other's tag (_receive_chunk, COOKIE-ACK): no loss,   *)
(* delay, retransmission or stale cookie makes it the only one.            *)
ClientIsNotAlone ==
  peer[Client].state = "ESTABLISHED" =>
    /\ "established" \in was[Server]
    /\ \A e \in End : peer[e].remoteTag = Peer(e)

(* The client's association is over for good once it was closed by an      *)
(* ABORT, an ERROR, a shutdown, stop() or a timer: whatever is still on    *)
(* its way does not bring it back.  (A late COOKIE-ECHO does bring back    *)
(* the server's, unless it was stopped.)                                   *)
ClientNotRevived ==
  "ended" \in was[Client] => peer[Client].state # "ESTABLISHED"

(* After stop() an end stays closed and owns no timer that could send, so  *)
(* a transport that was closed neither talks nor holds up the event loop.  *)
StoppedIsSilent ==
  \A e \in End :
    peer[e].started /\ ~ peer[e].registered =>
      peer[e].state = "CLOSED" /\ peer[e].t1 = NoTimer /\ peer[e].t2 = NoTimer

(* No end waits for its peer for good: T1 or T2 sees to it that each state *)
(* of waiting is left, though every packet may be lost.                    *)
NobodyWaitsForGood ==
  \A e \in End :
    \A s \in {"COOKIE_WAIT", "COOKIE_ECHOED", "SHUTDOWN_ACK_SENT"} :
      (peer[e].state = s) ~> (peer[e].state # s)
=============================================================================
