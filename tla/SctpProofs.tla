------------------------------ MODULE SctpProofs ------------------------------
(***************************************************************************)
(* Theorems about the association and about the transfer of messages over  *)
(* it.  Of SctpAssociation: for every number of retransmissions and of     *)
(* foreign SHUTDOWN chunks, and whatever is on the wire.  Of SctpTransfer: *)
(* for all messages and streams, whatever the network does to the packets. *)
(***************************************************************************)
EXTENDS SctpAssociation, SctpTransfer, DataLemmas

Chunk ==
  {"INIT", "INIT_ACK", "COOKIE_ECHO", "COOKIE_ACK", "ERROR", "ABORT",
   "SHUTDOWN", "SHUTDOWN_ACK", "SHUTDOWN_COMPLETE"}

PeerRecord ==
  [state : AssocState, started : BOOLEAN, registered : BOOLEAN, remoteTag : End \cup {NoTag},
   t1 : {NoTimer, "INIT", "COOKIE_ECHO"}, t1Failures : Nat,
   t2 : {NoTimer, "SHUTDOWN_ACK"}, t2Failures : Nat]

Types ==
  /\ peer \in [End -> PeerRecord]
  /\ was \in [End -> SUBSET {"established", "ended"}]

(* What holds of an end by itself: one that is not registered is silent,   *)
(* and the client, once its association ended, only ever shuts down again. *)
Sound(e, p, w) ==
  /\ ~ p.registered => p.state = "CLOSED" /\ p.t1 = NoTimer /\ p.t2 = NoTimer
  /\ e = Client /\ "ended" \in w => p.state \in {"CLOSED", "SHUTDOWN_ACK_SENT"}
  /\ e = Client /\ p.state \in {"COOKIE_ECHOED", "ESTABLISHED"} => p.remoteTag = Server

(* The server has been established, and knows the client's tag.            *)
ServerEntered == "established" \in was[Server] /\ peer[Server].remoteTag = Client

Acknowledges(m) == m.to = Client /\ m.tag = Client /\ m.chunk = "COOKIE_ACK"

AssocInv ==
  /\ Types
  /\ \A e \in End : Sound(e, peer[e], was[e])
  /\ peer[Client].state = "ESTABLISHED" => ServerEntered
  /\ \A m \in BagToSet(wire) : Acknowledges(m) => ServerEntered

-----------------------------------------------------------------------------
LEMMA Ends ==
  /\ End = {Client, Server} /\ Client # Server
  /\ Peer(Client) = Server /\ Peer(Server) = Client
<1>1. Client # Server /\ End = {Client, Server}
  BY AssocAssumption DEF AssocAssumption, End
<1>2. Peer(Client) = Server
  <2>1. \A x \in End : x # Client => x = Server
    BY <1>1
  <2>2. \E x \in End : x # Client
    BY <1>1
  <2>3. (CHOOSE x \in End : x # Client) \in End /\ (CHOOSE x \in End : x # Client) # Client
    BY <2>2
  <2> QED  BY <2>1, <2>3 DEF Peer
<1>3. Peer(Server) = Client
  <2>1. \A x \in End : x # Server => x = Client
    BY <1>1
  <2>2. \E x \in End : x # Server
    BY <1>1
  <2>3. (CHOOSE x \in End : x # Server) \in End /\ (CHOOSE x \in End : x # Server) # Server
    BY <2>2
  <2> QED  BY <2>1, <2>3 DEF Peer
<1> QED  BY <1>1, <1>2, <1>3

(* What a bag gains and loses, as sets.                                    *)
LEMMA BagsAsSets ==
  ASSUME NEW B, NEW C, NEW S
  PROVE  /\ BagToSet(SetToBag(S)) = S /\ BagToSet(EmptyBag) = {}
         /\ BagToSet(B (+) C) = BagToSet(B) \cup BagToSet(C)
         /\ BagToSet(B (-) C) \subseteq BagToSet(B)
<1>1. BagToSet(SetToBag(S)) = S /\ BagToSet(EmptyBag) = {}
  BY DEF BagToSet, SetToBag, EmptyBag
<1>2. BagToSet(B (+) C) = BagToSet(B) \cup BagToSet(C)
  BY DEF BagToSet, (+)
<1>3. BagToSet(B (-) C) \subseteq BagToSet(B)
  BY DEF BagToSet, (-)
<1> QED  BY <1>1, <1>2, <1>3

LEMMA AssocInitInv == AssocInit => AssocInv
<1> SUFFICES ASSUME AssocInit
             PROVE  AssocInv
  OBVIOUS
<1>1. Types
  BY DEF AssocInit, Types, NewPeer, PeerRecord, AssocState
<1>2. \A e \in End : Sound(e, peer[e], was[e])
  BY DEF AssocInit, Sound, NewPeer
<1>3. peer[Client].state = "ESTABLISHED" => ServerEntered
  BY Ends DEF AssocInit, NewPeer
<1>4. BagToSet(wire) = {}
  BY BagsAsSets DEF AssocInit
<1> QED  BY <1>1, <1>2, <1>3, <1>4 DEF AssocInv

(* The helpers, on the fields that matter here.                            *)
LEMMA Helpers ==
  ASSUME NEW p \in PeerRecord
  PROVE  /\ \A s \in AssocState :
              LET q == SetState(p, s)
              IN  /\ q \in PeerRecord /\ q.state = s /\ q.started = p.started
                  /\ q.registered = p.registered /\ q.remoteTag = p.remoteTag
                  /\ s = "CLOSED" => q.t1 = NoTimer /\ q.t2 = NoTimer
         /\ LET q == T1Cancel(p)
            IN  /\ q \in PeerRecord /\ q.state = p.state /\ q.started = p.started
                /\ q.registered = p.registered /\ q.remoteTag = p.remoteTag
         /\ LET q == T2Cancel(p)
            IN  /\ q \in PeerRecord /\ q.state = p.state /\ q.started = p.started
                /\ q.registered = p.registered /\ q.remoteTag = p.remoteTag
         /\ \A c \in {"INIT", "COOKIE_ECHO"} :
              LET q == T1Start(p, c)
              IN  /\ q \in PeerRecord /\ q.state = p.state /\ q.started = p.started
                  /\ q.registered = p.registered /\ q.remoteTag = p.remoteTag
         /\ LET q == T2Start(p, "SHUTDOWN_ACK")
            IN  /\ q \in PeerRecord /\ q.state = p.state /\ q.started = p.started
                /\ q.registered = p.registered /\ q.remoteTag = p.remoteTag
<1>1. \A s \in AssocState :
        LET q == SetState(p, s)
        IN  /\ q \in PeerRecord /\ q.state = s /\ q.started = p.started
            /\ q.registered = p.registered /\ q.remoteTag = p.remoteTag
            /\ s = "CLOSED" => q.t1 = NoTimer /\ q.t2 = NoTimer
  BY DEF PeerRecord, SetState, T1Cancel, T2Cancel
<1>2. LET q == T1Cancel(p)
      IN  /\ q \in PeerRecord /\ q.state = p.state /\ q.started = p.started
          /\ q.registered = p.registered /\ q.remoteTag = p.remoteTag
  BY DEF PeerRecord, T1Cancel
<1>3. LET q == T2Cancel(p)
      IN  /\ q \in PeerRecord /\ q.state = p.state /\ q.started = p.started
          /\ q.registered = p.registered /\ q.remoteTag = p.remoteTag
  BY DEF PeerRecord, T2Cancel
<1>4. \A c \in {"INIT", "COOKIE_ECHO"} :
        LET q == T1Start(p, c)
        IN  /\ q \in PeerRecord /\ q.state = p.state /\ q.started = p.started
            /\ q.registered = p.registered /\ q.remoteTag = p.remoteTag
  BY DEF PeerRecord, T1Start
<1>5. LET q == T2Start(p, "SHUTDOWN_ACK")
      IN  /\ q \in PeerRecord /\ q.state = p.state /\ q.started = p.started
          /\ q.registered = p.registered /\ q.remoteTag = p.remoteTag
  BY DEF PeerRecord, T2Start
<1> QED  BY <1>1, <1>2, <1>3, <1>4, <1>5

-----------------------------------------------------------------------------
(* A step of one end, with what the invariant asks of its outcome: only    *)
(* the server acknowledges a cookie, as it enters the association, and the *)
(* client enters it only if the server has.                                *)
LEMMA GoesOnInv ==
  ASSUME AssocInv, NEW e \in End, NEW p \in PeerRecord, NEW taken, NEW chunks,
         GoesOn(e, p, taken, chunks),
         Sound(e, p, was[e]),
         p.remoteTag \in {peer[e].remoteTag, Peer(e)},
         e = Client /\ p.state = "ESTABLISHED" => ServerEntered,
         "COOKIE_ACK" \in chunks => e = Server /\ p.state = "ESTABLISHED"
  PROVE  AssocInv'
<1>0. Types
  BY DEF AssocInv
<1>1. PICK w : w = was[e] \cup (IF p.state = "ESTABLISHED" THEN {"established"} ELSE {}) \cup
                   (IF p.state = "CLOSED" /\ p.started THEN {"ended"} ELSE {})
  OBVIOUS
<1>2. peer' = [peer EXCEPT ![e] = p] /\ was' = [was EXCEPT ![e] = w]
  BY <1>1 DEF GoesOn
<1>3. /\ peer'[e] = p /\ was'[e] = w
      /\ \A x \in End \ {e} : peer'[x] = peer[x] /\ was'[x] = was[x]
  BY <1>0, <1>2 DEF Types
<1>4. was[e] \subseteq w /\ w \subseteq {"established", "ended"}
  <2>1. was[e] \subseteq {"established", "ended"}
    BY <1>0 DEF Types
  <2> QED  BY <1>1, <2>1
<1>5. Types'
  BY <1>0, <1>2, <1>4 DEF Types
<1>6. \A x \in End : Sound(x, peer'[x], was'[x])
  <2>1. Sound(e, p, w)
    BY <1>1 DEF Sound
  <2>2. \A x \in End \ {e} : Sound(x, peer[x], was[x])
    BY DEF AssocInv
  <2> QED  BY <1>3, <2>1, <2>2
<1>7. ServerEntered => ServerEntered'
  BY <1>3, <1>4, Ends DEF ServerEntered
<1>8. peer'[Client].state = "ESTABLISHED" => ServerEntered'
  BY <1>3, <1>7, Ends DEF AssocInv
<1>9. \A m \in BagToSet(wire') : Acknowledges(m) => ServerEntered'
  <2>1. BagToSet(wire') \subseteq BagToSet(wire) \cup {Packet(e, p, c) : c \in chunks}
    <3>1. PICK S : S = {Packet(e, p, c) : c \in chunks}
      OBVIOUS
    <3>2. wire' = (wire (-) taken) (+) SetToBag(S)
      BY <3>1 DEF GoesOn
    <3>3. /\ BagToSet((wire (-) taken) (+) SetToBag(S)) = BagToSet(wire (-) taken) \cup BagToSet(SetToBag(S))
          /\ BagToSet(SetToBag(S)) = S /\ BagToSet(wire (-) taken) \subseteq BagToSet(wire)
      BY BagsAsSets
    <3> QED  BY <3>1, <3>2, <3>3
  <2>2. \A m \in BagToSet(wire) : Acknowledges(m) => ServerEntered'
    BY <1>7 DEF AssocInv
  <2>3. \A c \in chunks : Acknowledges(Packet(e, p, c)) => ServerEntered'
    <3>1. SUFFICES ASSUME NEW c \in chunks, Acknowledges(Packet(e, p, c))
                   PROVE  ServerEntered'
      OBVIOUS
    <3>2. c = "COOKIE_ACK" /\ p.remoteTag = Client
      BY <3>1 DEF Acknowledges, Packet
    <3>3. e = Server /\ p.state = "ESTABLISHED"
      BY <3>2
    <3> QED  BY <1>1, <1>3, <3>2, <3>3 DEF ServerEntered
  <2> QED  BY <2>1, <2>2, <2>3
<1> QED  BY <1>5, <1>6, <1>8, <1>9 DEF AssocInv

(* A step that leaves both ends alone adds no acknowledgement.             *)
LEMMA ForeignInv ==
  ASSUME AssocInv, UNCHANGED <<peer, was>>,
         \A m \in BagToSet(wire') : m \in BagToSet(wire) \/ m.chunk # "COOKIE_ACK"
  PROVE  AssocInv'
<1>1. Types' /\ (ServerEntered' <=> ServerEntered)
  BY DEF AssocInv, Types, ServerEntered
<1>2. \A m \in BagToSet(wire') : Acknowledges(m) => ServerEntered
  BY DEF AssocInv, Acknowledges
<1> QED  BY <1>1, <1>2 DEF AssocInv

LEMMA StartInv ==
  ASSUME AssocInv, NEW e \in End, Start(e)
  PROVE  AssocInv'
<1>0. Types
  BY DEF AssocInv
<1>1. PICK p : p = [peer[e] EXCEPT !.started = TRUE, !.registered = TRUE]
  OBVIOUS
<1>2. /\ p \in PeerRecord /\ p.started /\ p.registered /\ p.state = peer[e].state
      /\ p.remoteTag = peer[e].remoteTag
  <2>1. peer[e] \in PeerRecord
    BY <1>0 DEF Types
  <2> QED  BY <1>1, <2>1 DEF PeerRecord
<1>3. "ended" \notin was[e] /\ UNCHANGED was
  BY DEF Start
<1>4. PICK q : q = IF e = Client THEN SetState(T1Start(p, "INIT"), "COOKIE_WAIT") ELSE p
  OBVIOUS
<1>5. /\ q \in PeerRecord /\ q.registered /\ q.remoteTag = peer[e].remoteTag
      /\ q.state = IF e = Client THEN "COOKIE_WAIT" ELSE peer[e].state
  <2>1. T1Start(p, "INIT") \in PeerRecord /\ T1Start(p, "INIT").registered = p.registered
        /\ T1Start(p, "INIT").remoteTag = p.remoteTag
    BY <1>2, Helpers
  <2>2. "COOKIE_WAIT" \in AssocState
    BY DEF AssocState
  <2> QED  BY <1>2, <1>4, <2>1, <2>2, Helpers
<1>6. peer' = [peer EXCEPT ![e] = q]
  BY <1>1, <1>4 DEF Start
<1>7. peer'[e] = q /\ \A x \in End \ {e} : peer'[x] = peer[x]
  BY <1>0, <1>6 DEF Types
<1>8. Types'
  BY <1>0, <1>3, <1>5, <1>6 DEF Types
<1>9. \A x \in End : Sound(x, peer'[x], was'[x])
  <2>1. Sound(e, q, was[e])
    BY <1>3, <1>5 DEF Sound
  <2> QED  BY <1>3, <1>7, <2>1 DEF AssocInv
<1>10. ServerEntered' <=> ServerEntered
  BY <1>3, <1>5, <1>7, Ends DEF ServerEntered
<1>11. peer'[Client].state = "ESTABLISHED" => ServerEntered
  BY <1>5, <1>7, Ends DEF AssocInv
<1>12. \A m \in BagToSet(wire') : Acknowledges(m) => ServerEntered
  <2>1. BagToSet(wire') \subseteq BagToSet(wire) \cup {Packet(e, p, "INIT")}
    BY <1>1, BagsAsSets DEF Start
  <2>2. ~ Acknowledges(Packet(e, p, "INIT"))
    BY DEF Acknowledges, Packet
  <2> QED  BY <2>1, <2>2 DEF AssocInv
<1> QED  BY <1>8, <1>9, <1>10, <1>11, <1>12 DEF AssocInv

LEMMA StopInv ==
  ASSUME AssocInv, NEW e \in End, Stop(e)
  PROVE  AssocInv'
<1>1. PICK p : p = [peer[e] EXCEPT !.registered = FALSE]
  OBVIOUS
<1>2. p \in PeerRecord /\ ~ p.registered /\ p.remoteTag = peer[e].remoteTag
  <2>1. peer[e] \in PeerRecord
    BY DEF AssocInv, Types
  <2> QED  BY <1>1, <2>1 DEF PeerRecord
<1>3. PICK q : q = SetState(p, "CLOSED")
  OBVIOUS
<1>4. /\ q \in PeerRecord /\ q.state = "CLOSED" /\ q.remoteTag = peer[e].remoteTag
      /\ q.t1 = NoTimer /\ q.t2 = NoTimer
  <2>1. "CLOSED" \in AssocState
    BY DEF AssocState
  <2> QED  BY <1>2, <1>3, <2>1, Helpers
<1>5. Sound(e, q, was[e])
  BY <1>4 DEF Sound
<1>6. PICK chunks : GoesOn(e, q, EmptyBag, chunks) /\ "COOKIE_ACK" \notin chunks
  <2>1. GoesOn(e, q, EmptyBag, IF p.state = "CLOSED" THEN {} ELSE {"ABORT"})
    BY <1>1, <1>3 DEF Stop
  <2> QED  BY <2>1
<1> QED  BY <1>4, <1>5, <1>6, GoesOnInv

(* What a timer, a chunk that closes and one that is dropped have in       *)
(* common: the end stays as it is, or closes.                              *)
LEMMA StaysInv ==
  ASSUME AssocInv, NEW e \in End, NEW p \in PeerRecord, NEW taken, NEW chunks,
         p.state = peer[e].state, p.registered = peer[e].registered, p.remoteTag = peer[e].remoteTag,
         ~ p.registered => p.t1 = NoTimer /\ p.t2 = NoTimer,
         "COOKIE_ACK" \notin chunks, GoesOn(e, p, taken, chunks)
  PROVE  AssocInv'
<1>1. Sound(e, p, was[e])
  BY DEF AssocInv, Sound
<1>2. e = Client /\ p.state = "ESTABLISHED" => ServerEntered
  BY DEF AssocInv
<1> QED  BY <1>1, <1>2, GoesOnInv

LEMMA ClosesInv ==
  ASSUME AssocInv, NEW e \in End, NEW p \in PeerRecord, NEW taken,
         p.remoteTag = peer[e].remoteTag, GoesOn(e, SetState(p, "CLOSED"), taken, {})
  PROVE  AssocInv'
<1>1. PICK q : q = SetState(p, "CLOSED")
  OBVIOUS
<1>2. /\ q \in PeerRecord /\ q.state = "CLOSED" /\ q.remoteTag = peer[e].remoteTag
      /\ q.t1 = NoTimer /\ q.t2 = NoTimer
  <2>1. "CLOSED" \in AssocState
    BY DEF AssocState
  <2> QED  BY <1>1, <2>1, Helpers
<1>3. Sound(e, q, was[e])
  BY <1>2 DEF Sound
<1> QED  BY <1>1, <1>2, <1>3, GoesOnInv

LEMMA TimerInv ==
  ASSUME AssocInv, NEW e \in End, T1Expired(e) \/ T2Expired(e)
  PROVE  AssocInv'
<1>0. peer[e] \in PeerRecord /\ Sound(e, peer[e], was[e])
  BY DEF AssocInv, Types
<1>1. CASE T1Expired(e)
  <2>1. PICK p : p = [peer[e] EXCEPT !.t1Failures = @ + 1]
    OBVIOUS
  <2>2. /\ p \in PeerRecord /\ p.state = peer[e].state /\ p.registered = peer[e].registered
        /\ p.remoteTag = peer[e].remoteTag /\ p.t1 = peer[e].t1 /\ p.t2 = peer[e].t2
        /\ p.t1 \in {NoTimer, "INIT", "COOKIE_ECHO"}
    BY <1>0, <2>1 DEF PeerRecord
  <2>3. \/ GoesOn(e, SetState(p, "CLOSED"), EmptyBag, {})
        \/ GoesOn(e, p, EmptyBag, {p.t1})
    BY <1>1, <2>1 DEF T1Expired
  <2>4. p.t1 # "COOKIE_ACK" /\ (~ p.registered => p.t1 = NoTimer /\ p.t2 = NoTimer)
    BY <1>0, <2>2 DEF Sound, NoTimer
  <2> QED  BY <2>2, <2>3, <2>4, StaysInv, ClosesInv
<1>2. CASE T2Expired(e)
  <2>1. PICK p : p = [peer[e] EXCEPT !.t2Failures = @ + 1]
    OBVIOUS
  <2>2. /\ p \in PeerRecord /\ p.state = peer[e].state /\ p.registered = peer[e].registered
        /\ p.remoteTag = peer[e].remoteTag /\ p.t1 = peer[e].t1 /\ p.t2 = peer[e].t2
        /\ p.t2 \in {NoTimer, "SHUTDOWN_ACK"}
    BY <1>0, <2>1 DEF PeerRecord
  <2>3. \/ GoesOn(e, SetState(p, "CLOSED"), EmptyBag, {})
        \/ GoesOn(e, p, EmptyBag, {p.t2})
    BY <1>2, <2>1 DEF T2Expired
  <2>4. p.t2 # "COOKIE_ACK" /\ (~ p.registered => p.t1 = NoTimer /\ p.t2 = NoTimer)
    BY <1>0, <2>2 DEF Sound, NoTimer
  <2> QED  BY <2>2, <2>3, <2>4, StaysInv, ClosesInv
<1> QED  BY <1>1, <1>2

-----------------------------------------------------------------------------
(* Chunks reach an end that is registered.                                 *)
LEMMA ChunkInv ==
  ASSUME AssocInv, NEW e \in End, ReceiveChunk(e)
  PROVE  AssocInv'
<1>0. peer[e] \in PeerRecord /\ Sound(e, peer[e], was[e])
  BY DEF AssocInv, Types
<1> DEFINE p == peer[e]
           q(s) == SetState(p, s)
<1>1. PICK pkt \in BagToSet(wire) :
        /\ Mine(e, pkt)
        /\ \/ OnAbort(e, pkt)
           \/ OnShutdown(e, pkt)
           \/ OnShutdownComplete(e, pkt)
           \/ OnInit(e, pkt)
           \/ \E fresh \in BOOLEAN : OnCookieEcho(e, pkt, fresh)
           \/ OnInitAck(e, pkt)
           \/ OnCookieAck(e, pkt)
           \/ OnError(e, pkt)
  BY DEF ReceiveChunk
<1>2. /\ pkt.to = e /\ p.registered
      /\ pkt.tag = (IF pkt.chunk = "INIT" THEN NoTag ELSE e)
  BY <1>1 DEF Mine
<1>3. PICK took : took = SetToBag({pkt})
  OBVIOUS
<1>4. Drops(e, pkt) => AssocInv'
  BY <1>0, <1>2, StaysInv DEF Drops
<1>5. /\ T1Cancel(p) \in PeerRecord /\ T1Cancel(p).remoteTag = p.remoteTag
      /\ T1Cancel(p).registered /\ T1Cancel(p).state = p.state
      /\ T2Cancel(p) \in PeerRecord /\ T2Cancel(p).remoteTag = p.remoteTag
      /\ T2Cancel(p).registered /\ T2Cancel(p).state = p.state
  BY <1>0, <1>2, Helpers
<1>6. {"CLOSED", "ESTABLISHED", "COOKIE_ECHOED", "SHUTDOWN_ACK_SENT"} \subseteq AssocState
  BY DEF AssocState
<1>7. CASE OnAbort(e, pkt)
  BY <1>0, <1>7, ClosesInv DEF OnAbort
<1>8. CASE OnShutdown(e, pkt)
  <2>1. PICK b : b = T2Start(T2Cancel(p), "SHUTDOWN_ACK")
    OBVIOUS
  <2>2. b \in PeerRecord /\ b.registered /\ b.remoteTag = p.remoteTag
    BY <1>5, <2>1, Helpers
  <2>3. PICK d : d = SetState(b, "SHUTDOWN_ACK_SENT")
    OBVIOUS
  <2>4. d \in PeerRecord /\ d.registered /\ d.remoteTag = p.remoteTag /\ d.state = "SHUTDOWN_ACK_SENT"
    BY <1>6, <2>2, <2>3, Helpers
  <2>5. GoesOn(e, d, took, {"SHUTDOWN_ACK"})
    BY <1>3, <1>8, <2>1, <2>3 DEF OnShutdown
  <2>6. Sound(e, d, was[e])
    BY <2>4 DEF Sound
  <2> QED  BY <2>4, <2>5, <2>6, GoesOnInv
<1>9. CASE OnShutdownComplete(e, pkt)
  BY <1>4, <1>5, <1>9, ClosesInv DEF OnShutdownComplete
<1>10. CASE OnInit(e, pkt)
  <2>1. CASE e = Server
    <3>1. PICK b : b = [p EXCEPT !.remoteTag = Peer(e)]
      OBVIOUS
    <3>2. Peer(e) \in End
      BY <2>1, Ends
    <3>3. b \in PeerRecord /\ b.registered /\ b.remoteTag = Peer(e)
      BY <1>0, <1>2, <3>1, <3>2 DEF PeerRecord
    <3>4. GoesOn(e, b, took, {"INIT_ACK"})
      BY <1>3, <1>10, <2>1, <3>1 DEF OnInit
    <3>5. Sound(e, b, was[e]) /\ e # Client
      BY <2>1, <3>3, Ends DEF Sound
    <3> QED  BY <3>3, <3>4, <3>5, GoesOnInv
  <2>2. CASE e # Server
    BY <1>4, <1>10, <2>2 DEF OnInit
  <2> QED  BY <2>1, <2>2
<1>11. ASSUME NEW fresh \in BOOLEAN, OnCookieEcho(e, pkt, fresh)
       PROVE  AssocInv'
  <2>1. CASE e = Server /\ fresh
    <3>1. PICK b : b = SetState(p, "ESTABLISHED")
      OBVIOUS
    <3>2. b \in PeerRecord /\ b.registered /\ b.remoteTag = p.remoteTag /\ b.state = "ESTABLISHED"
      BY ZenonT(40), <1>0, <1>2, <1>6, <3>1, Helpers
    <3>3. GoesOn(e, b, took, {"COOKIE_ACK"})
      BY <1>3, <1>11, <2>1, <3>1 DEF OnCookieEcho, AnswerToCookie
    <3>4. Sound(e, b, was[e]) /\ e # Client
      BY <2>1, <3>2, Ends DEF Sound
    <3> QED  BY <2>1, <3>2, <3>3, <3>4, GoesOnInv
  <2>2. CASE e = Server /\ ~ fresh
    <3>1. GoesOn(e, p, took, {"ERROR"})
      BY <1>3, <1>11, <2>2 DEF OnCookieEcho, AnswerToCookie
    <3> QED  BY <1>0, <1>2, <3>1, StaysInv
  <2>3. CASE e # Server
    BY <1>4, <1>11, <2>3 DEF OnCookieEcho
  <2> QED  BY <2>1, <2>2, <2>3
<1>12. CASE OnInitAck(e, pkt)
  <2>1. CASE p.state = "COOKIE_WAIT"
    <3>1. PICK a : a = [T1Cancel(p) EXCEPT !.remoteTag = Peer(e)]
      OBVIOUS
    <3>2. Peer(e) \in End /\ (e = Client => Peer(e) = Server)
      BY Ends
    <3>3. a \in PeerRecord /\ a.registered /\ a.remoteTag = Peer(e)
      BY <1>5, <3>1, <3>2 DEF PeerRecord
    <3>4. PICK b : b = T1Start(a, "COOKIE_ECHO")
      OBVIOUS
    <3>5. b \in PeerRecord /\ b.registered /\ b.remoteTag = Peer(e)
      BY <3>3, <3>4, Helpers
    <3>6. PICK d : d = SetState(b, "COOKIE_ECHOED")
      OBVIOUS
    <3>7. d \in PeerRecord /\ d.registered /\ d.remoteTag = Peer(e) /\ d.state = "COOKIE_ECHOED"
      BY <1>6, <3>5, <3>6, Helpers
    <3>8. GoesOn(e, d, took, {"COOKIE_ECHO"})
      BY <1>3, <1>12, <2>1, <3>1, <3>4, <3>6 DEF OnInitAck
    <3>9. Sound(e, d, was[e])
      BY <1>0, <2>1, <3>2, <3>7 DEF Sound
    <3> QED  BY <3>7, <3>8, <3>9, GoesOnInv
  <2>2. CASE p.state # "COOKIE_WAIT"
    BY <1>4, <1>12, <2>2 DEF OnInitAck
  <2> QED  BY <2>1, <2>2
<1>13. CASE OnCookieAck(e, pkt)
  <2>1. CASE p.state = "COOKIE_ECHOED"
    <3>1. PICK b : b = SetState(T1Cancel(p), "ESTABLISHED")
      OBVIOUS
    <3>2. b \in PeerRecord /\ b.registered /\ b.remoteTag = p.remoteTag /\ b.state = "ESTABLISHED"
      BY <1>5, <1>6, <3>1, Helpers
    <3>3. GoesOn(e, b, took, {})
      BY <1>3, <1>13, <2>1, <3>1 DEF OnCookieAck, AwaitsCookieAck
    <3>4. e = Client => ServerEntered
      <4>1. pkt.chunk = "COOKIE_ACK"
        BY <1>13 DEF OnCookieAck
      <4>2. e = Client => Acknowledges(pkt)
        BY <1>2, <4>1 DEF Acknowledges
      <4> QED  BY <1>1, <4>2 DEF AssocInv
    <3>5. Sound(e, b, was[e])
      BY <1>0, <2>1, <3>2 DEF Sound
    <3> QED  BY <3>2, <3>3, <3>4, <3>5, GoesOnInv
  <2>2. CASE p.state # "COOKIE_ECHOED"
    BY <1>4, <1>13, <2>2 DEF OnCookieAck, AwaitsCookieAck
  <2> QED  BY <2>1, <2>2
<1>14. CASE OnError(e, pkt)
  BY <1>4, <1>5, <1>14, ClosesInv DEF OnError
<1> QED  BY <1>1, <1>7, <1>8, <1>9, <1>10, <1>11, <1>12, <1>13, <1>14

LEMMA AssocNextInv == AssocInv /\ [AssocNext]_assocVars => AssocInv'
<1> SUFFICES ASSUME AssocInv, [AssocNext]_assocVars
             PROVE  AssocInv'
  OBVIOUS
<1>1. ASSUME NEW e \in End, ForeignShutdown(e)
      PROVE  AssocInv'
  <2>1. PICK m : m = [to |-> e, tag |-> e, chunk |-> "SHUTDOWN"]
    OBVIOUS
  <2>2. wire' = wire (+) SetToBag({m}) /\ UNCHANGED <<peer, was>>
    BY <1>1, <2>1 DEF ForeignShutdown
  <2>3. BagToSet(wire (+) SetToBag({m})) = BagToSet(wire) \cup {m}
    BY BagsAsSets
  <2> QED  BY <2>1, <2>2, <2>3, ForeignInv
<1>2. ASSUME NEW e \in End, ForeignComplete(e)
      PROVE  AssocInv'
  <2>1. PICK m, t : /\ m = [to |-> e, tag |-> e, chunk |-> "SHUTDOWN_COMPLETE"]
                    /\ t = SetToBag({[to |-> Peer(e), tag |-> Peer(e), chunk |-> "SHUTDOWN_ACK"]})
    OBVIOUS
  <2>2. wire' = (wire (-) t) (+) SetToBag({m}) /\ UNCHANGED <<peer, was>>
    BY <1>2, <2>1 DEF ForeignComplete
  <2>3. /\ BagToSet((wire (-) t) (+) SetToBag({m})) = BagToSet(wire (-) t) \cup BagToSet(SetToBag({m}))
        /\ BagToSet(SetToBag({m})) = {m} /\ BagToSet(wire (-) t) \subseteq BagToSet(wire)
    BY BagsAsSets
  <2>4. \A x \in BagToSet(wire') : x \in BagToSet(wire) \/ x.chunk # "COOKIE_ACK"
    BY <2>1, <2>2, <2>3
  <2> QED  BY <2>2, <2>4, ForeignInv
<1>3. CASE UNCHANGED assocVars
  BY <1>3 DEF assocVars, AssocInv, Types, Sound, ServerEntered
<1> QED  BY <1>1, <1>2, <1>3, StartInv, StopInv, TimerInv, ChunkInv DEF AssocNext

-----------------------------------------------------------------------------
LEMMA AssocInvariant == AssocSpec => []AssocInv
  BY AssocInitInv, AssocNextInv, PTL DEF AssocSpec

(* Whatever is lost, delayed, or sent again: the client takes itself for   *)
(* established only if the server was, and they know each other's tag.     *)
THEOREM HandshakeHolds == AssocSpec => []ClientIsNotAlone
<1>1. AssocInv => ClientIsNotAlone
  BY Ends DEF AssocInv, Sound, ServerEntered, ClientIsNotAlone
<1> QED  BY <1>1, AssocInvariant, PTL

(* An association that ended at the client stays ended.                    *)
THEOREM EndingHolds == AssocSpec => []ClientNotRevived
<1>1. AssocInv => ClientNotRevived
  BY Ends DEF AssocInv, Sound, ClientNotRevived
<1> QED  BY <1>1, AssocInvariant, PTL

(* An end that was stopped is closed, and no timer of its can send.        *)
THEOREM SilenceHolds == AssocSpec => []StoppedIsSilent
<1>1. AssocInv => StoppedIsSilent
  BY DEF AssocInv, Sound, StoppedIsSilent
<1> QED  BY <1>1, AssocInvariant, PTL

-----------------------------------------------------------------------------
(***************************************************************************)
(* Transfer.  The fragments of all messages are numbered; what the sender  *)
(* may still owe is compared with what the receiver has got.               *)
(***************************************************************************)

(* Fragments are numbered from 1, in the order in which they are sent:     *)
(* Before[m] of them belong to messages before m.                          *)
Before[m \in 1 .. Len(Messages) + 1] ==
  IF m = 1 THEN 0 ELSE Before[m - 1] + Len(Messages[m - 1].sizes)

Fragments == Before[Len(Messages) + 1]

(* TSNs are compared within half of their range.  The network may keep a   *)
(* packet for ever, so what is sent in all has to fit in.                  *)
NoWrap == Fragments < Tsn!Half

(* The TSN of fragment n, and for 0 the one that precedes the first.       *)
Nth(n) == Tsn!Plus(InitialTsn, TsnModulo - 1 + n)

(* Ordered messages are counted on each stream.  Earlier[m][x] of those    *)
(* before m are on stream x, and the number modulo SsnModulo is the stream *)
(* sequence number.                                                        *)
Earlier[m \in 1 .. Len(Messages) + 1] ==
  IF m = 1 THEN [x \in Stream |-> 0]
  ELSE IF Messages[m - 1].ordered THEN [Earlier[m - 1] EXCEPT ![Messages[m - 1].stream] = @ + 1]
  ELSE Earlier[m - 1]
Turn(m) == IF Messages[m].ordered THEN Earlier[m][Messages[m].stream] % SsnModulo ELSE 0

Parts(m) == DOMAIN Messages[m].sizes
Rank(c) == Before[c.msg] + c.part

Fragment ==
  {c \in [tsn : Int, msg : Message, part : Nat, seq : Int] :
     c.part \in Parts(c.msg) /\ c.tsn = Nth(Rank(c)) /\ c.seq = Turn(c.msg)}

(* What may not get lost.                                                  *)
Unlimited(m) == Messages[m].limit = NoLimit /\ ~Messages[m].timed

Has(A, m, i) == \E c \in A : c.msg = m /\ c.part = i

(* The TSNs up to which no such fragment is missing in G.                  *)
Covered(G, n) ==
  \A m \in Message : Unlimited(m) =>
    \A i \in Parts(m) : Before[m] + i <= n => Has(G, m, i)
Safe(G) == {Nth(n) : n \in {k \in 0 .. Fragments : Covered(G, k)}}

-----------------------------------------------------------------------------
LEMMA Numbers ==
  /\ TsnModulo \in Nat \ {0} /\ SsnModulo \in Nat \ {0} /\ Mtu \in Nat \ {0} /\ Rwnd \in Nat
  /\ InitialTsn \in 0 .. TsnModulo - 1 /\ Tsn!Half \in Nat /\ Tsn!Half + Tsn!Half = TsnModulo
  /\ Len(Messages) \in Nat /\ Message = 1 .. Len(Messages)
<1>1. Len(Messages) \in Nat
  BY SctpAssumption
<1>2. TsnModulo \in Nat \ {0} /\ SsnModulo \in Nat \ {0} /\ TsnModulo % 2 = 0
  BY SctpAssumption
<1>3. Tsn!Half \in Nat /\ Tsn!Half + Tsn!Half = TsnModulo
  BY <1>2 DEF Tsn!Half
<1> QED  BY SctpAssumption, <1>1, <1>2, <1>3 DEF Message

LEMMA MessageIs ==
  ASSUME NEW m \in Message
  PROVE  /\ Messages[m].stream \in Stream /\ Messages[m].ordered \in BOOLEAN
         /\ Messages[m].limit \in Int /\ Messages[m].timed \in BOOLEAN
         /\ Len(Messages[m].sizes) \in Nat \ {0} /\ Parts(m) = 1 .. Len(Messages[m].sizes)
         /\ \A i \in Parts(m) : Messages[m].sizes[i] \in Int
<1> DEFINE R == [stream : Stream, ordered : BOOLEAN, limit : Nat \cup {NoLimit},
                 timed : BOOLEAN, sizes : Seq(1 .. Mtu) \ {<<>>}]
<1>1. Messages \in Seq(R) /\ m \in 1 .. Len(Messages)
  BY SctpAssumption DEF Message
<1>2. Messages[m] \in R
  <2> HIDE DEF R
  <2> QED  BY <1>1
<1>3. Messages[m].sizes \in Seq(1 .. Mtu) /\ Messages[m].sizes # <<>>
  BY <1>2
<1>4. Messages[m].limit \in Int
  BY <1>2 DEF NoLimit
<1>5. 1 .. Mtu \subseteq Int
  BY Numbers
<1> DEFINE z == Messages[m].sizes
<1>6. z \in Seq(Int) /\ z # <<>>
  <2>1. \A A, B, y : A \subseteq B /\ y \in Seq(A) => y \in Seq(B)
    OBVIOUS
  <2> QED  BY <1>3, <1>5, <2>1
<1>7. Len(z) \in Nat \ {0} /\ DOMAIN z = 1 .. Len(z) /\ \A i \in DOMAIN z : z[i] \in Int
  <2> HIDE DEF z
  <2> QED  BY <1>6
<1> QED  BY <1>2, <1>4, <1>7 DEF Parts

LEMMA BeforeIs ==
  /\ Before \in [1 .. Len(Messages) + 1 -> Nat] /\ Before[1] = 0
  /\ \A m \in Message : Before[m + 1] = Before[m] + Len(Messages[m].sizes)
<1> DEFINE n == Len(Messages)
           s == [m \in 1 .. n |-> Len(Messages[m].sizes)]
           f == [y \in Nat \X Nat |-> y[1] + y[2]]
           Is(b) == b = [m \in 1 .. n + 1 |->
                           IF m = 1 THEN 0 ELSE b[m - 1] + Len(Messages[m - 1].sizes)]
<1>1. n \in Nat /\ \A m \in 1 .. n : Len(Messages[m].sizes) \in Nat
  BY Numbers, MessageIs
<1>2. s \in Seq(Nat) /\ Len(s) = n /\ f \in [Nat \X Nat -> Nat] /\ 0 \in Nat
  BY <1>1
<1>3. \A a, b \in Nat : f[<<a, b>>] = a + b
  OBVIOUS
<1>3a. \A m \in 1 .. n : s[m] = Len(Messages[m].sizes)
  OBVIOUS
<1> HIDE DEF s, f, n
<1>4. PICK it : it \in FoldTables(Nat, f, 0, s)
  <2>1. FoldTables(Nat, f, 0, s) # {}
    BY <1>2, FoldExists
  <2> QED  BY <2>1
<1>5. it[{}] = 0 /\ \A k \in 0 .. n - 1 : it[1 .. k + 1] = it[1 .. k] + s[k + 1]
  <2>1. \A d \in SUBSET (1 .. n) : it[d] \in Nat
    BY <1>2, <1>4 DEF FoldTables
  <2>2. ASSUME NEW k \in 0 .. n - 1 PROVE it[1 .. k + 1] = it[1 .. k] + s[k + 1]
    <3>1. /\ 1 .. k + 1 \in SUBSET (1 .. n) /\ 1 .. k + 1 # {} /\ s[k + 1] \in Nat
          /\ Max(1 .. k + 1) = k + 1 /\ (1 .. k + 1) \ {k + 1} = 1 .. k
      BY <1>2, FoldIndices
    <3>2. it[1 .. k + 1] = f[<<it[1 .. k], s[k + 1]>>]
      BY <1>2, <1>4, <3>1 DEF FoldTables
    <3>3. it[1 .. k] \in Nat
      <4>1. 1 .. k \in SUBSET (1 .. n)
        BY <1>1, <3>1
      <4> QED  BY <2>1, <4>1
    <3> QED  BY <1>3, <3>1, <3>2, <3>3
  <2>3. it[{}] = 0
    BY <1>2, <1>4 DEF FoldTables
  <2> QED  BY <2>2, <2>3
<1> DEFINE b == [m \in 1 .. n + 1 |-> it[1 .. m - 1]]
<1>6. Is(b)
  <2>1. ASSUME NEW m \in 1 .. n + 1
        PROVE  b[m] = IF m = 1 THEN 0 ELSE b[m - 1] + Len(Messages[m - 1].sizes)
    <3>1. CASE m = 1
      <4>1. 1 .. m - 1 = {}
        BY <3>1
      <4> QED  BY <1>5, <3>1, <4>1
    <3>2. CASE m # 1
      <4>1. m - 2 \in 0 .. n - 1 /\ m - 1 \in 1 .. n /\ m - 2 + 1 = m - 1 /\ m - 1 \in 1 .. n + 1
            /\ m - 1 - 1 = m - 2
        BY <1>1, <3>2
      <4>2. it[1 .. m - 1] = it[1 .. m - 2] + s[m - 1]
        BY <1>5, <4>1
      <4> QED  BY <1>3a, <3>2, <4>1, <4>2
    <3> QED  BY <3>1, <3>2
  <2> HIDE DEF b
  <2> QED  BY <2>1 DEF b
<1>7. Is(Before)
  <2> HIDE DEF b
  <2>1. \E c : Is(c)
    BY <1>6
  <2> QED  BY <2>1 DEF Before, n
<1>a. /\ DOMAIN Before = 1 .. n + 1
      /\ \A k \in 1 .. n + 1 :
           Before[k] = IF k = 1 THEN 0 ELSE Before[k - 1] + Len(Messages[k - 1].sizes)
  BY <1>7
<1>8. Before[1] = 0
  BY <1>1, <1>a
<1>9. ASSUME NEW m \in 1 .. n
      PROVE  Before[m + 1] = Before[m] + Len(Messages[m].sizes)
  <2>1. m + 1 \in 1 .. n + 1 /\ m + 1 # 1 /\ m + 1 - 1 = m
    BY <1>1
  <2>2. Before[m + 1] = Before[m + 1 - 1] + Len(Messages[m + 1 - 1].sizes)
    <3>1. \A k \in 1 .. n + 1 : k # 1 => Before[k] = Before[k - 1] + Len(Messages[k - 1].sizes)
      BY <1>a
    <3> QED  BY <2>1, <3>1
  <2> QED  BY <2>1, <2>2
<1>10. \A m \in 1 .. n + 1 : Before[m] \in Nat
  <2> DEFINE T == {k \in 0 .. n : Before[k + 1] \in Nat}
  <2>1. 0 \in T
    BY <1>1, <1>8
  <2>2. \A k \in 0 .. n - 1 : k \in T => k + 1 \in T
    <3> SUFFICES ASSUME NEW k \in 0 .. n - 1, k \in T PROVE k + 1 \in T
      OBVIOUS
    <3>1. k + 1 \in 1 .. n /\ k + 1 \in 0 .. n
      BY <1>1
    <3>2. Before[k + 1 + 1] = Before[k + 1] + Len(Messages[k + 1].sizes)
      BY <1>9, <3>1
    <3> QED  BY <1>1, <3>1, <3>2
  <2> HIDE DEF T
  <2>3. \A k \in 0 .. n : k \in T
    BY <1>1, <2>1, <2>2, Interval
  <2> QED
    <3> SUFFICES ASSUME NEW m \in 1 .. n + 1 PROVE Before[m] \in Nat
      OBVIOUS
    <3>1. m - 1 \in 0 .. n /\ m - 1 + 1 = m
      BY <1>1
    <3>2. m - 1 \in T
      BY <2>3, <3>1
    <3> QED  BY <3>1, <3>2 DEF T
<1> QED  BY <1>7, <1>8, <1>9, <1>10 DEF Message, n

-----------------------------------------------------------------------------
(* How fragments and their TSNs are ordered.                               *)

LEMMA BeforeGrows ==
  ASSUME NEW m \in Message, NEW k \in 1 .. Len(Messages) + 1, m < k
  PROVE  Before[m] + Len(Messages[m].sizes) <= Before[k]
<1> DEFINE n == Len(Messages)
           T == {d \in 0 .. n - m : Before[m] + Len(Messages[m].sizes) <= Before[m + 1 + d]}
<1>1. n \in Nat /\ Message = 1 .. n
  BY Numbers
<1>2. \A j \in 1 .. n + 1 : Before[j] \in Nat
  BY BeforeIs
<1>3. \A j \in 1 .. n : Before[j + 1] = Before[j] + Len(Messages[j].sizes) /\ Len(Messages[j].sizes) \in Nat
  BY <1>1, BeforeIs, MessageIs
<1> HIDE DEF n
<1>4. 0 \in T
  <2>1. m + 1 + 0 = m + 1 /\ m + 1 \in 1 .. n + 1 /\ m \in 1 .. n /\ m \in 1 .. n + 1 /\ 0 \in 0 .. n - m
    BY <1>1
  <2> QED  BY <1>2, <1>3, <2>1
<1>5. ASSUME NEW d \in 0 .. n - m - 1, d \in T  PROVE d + 1 \in T
  <2>1. /\ m + 1 + d \in 1 .. n /\ m + 1 + d \in 1 .. n + 1 /\ m + 1 + (d + 1) = m + 1 + d + 1
        /\ m + 1 + d + 1 \in 1 .. n + 1 /\ d + 1 \in 0 .. n - m /\ m \in 1 .. n /\ m \in 1 .. n + 1
    BY <1>1
  <2>2. Before[m + 1 + d + 1] >= Before[m + 1 + d]
    BY SMTT(30), <1>2, <1>3, <2>1
  <2>3. Before[m] + Len(Messages[m].sizes) <= Before[m + 1 + d]
    BY <1>5
  <2>4. /\ Before[m] \in Nat /\ Len(Messages[m].sizes) \in Nat
        /\ Before[m + 1 + d] \in Nat /\ Before[m + 1 + d + 1] \in Nat
    BY <1>2, <1>3, <2>1
  <2>5. Before[m] + Len(Messages[m].sizes) <= Before[m + 1 + d + 1]
    BY <2>2, <2>3, <2>4
  <2> QED  BY <2>1, <2>5
<1>6. k - m - 1 \in 0 .. n - m /\ n - m \in Nat /\ m + 1 + (k - m - 1) = k
  BY <1>1 DEF n
<1> HIDE DEF T
<1>7. \A d \in 0 .. n - m : d \in T
  BY <1>4, <1>5, <1>6, Interval
<1>8. k - m - 1 \in T
  BY <1>6, <1>7
<1> QED  BY <1>6, <1>8 DEF T

(* The fragments in the order of messages and parts.                       *)
LEMMA PartsOrder ==
  ASSUME NEW m \in Message, NEW i \in Parts(m)
  PROVE  /\ Before[m] + i \in 1 .. Fragments /\ Before[m] \in Nat /\ i \in Nat \ {0}
         /\ \A k \in 1 .. Len(Messages) + 1 : m < k => Before[m] + i <= Before[k]
         /\ \A k \in 1 .. Len(Messages) + 1 : k <= m => Before[k] < Before[m] + i
<1>1. /\ Len(Messages) \in Nat /\ Message = 1 .. Len(Messages) /\ i \in 1 .. Len(Messages[m].sizes)
      /\ Len(Messages[m].sizes) \in Nat
  BY Numbers, MessageIs
<1>2. \A j \in 1 .. Len(Messages) + 1 : Before[j] \in Nat
  BY BeforeIs
<1>3. /\ m \in 1 .. Len(Messages) + 1 /\ Len(Messages) + 1 \in 1 .. Len(Messages) + 1
      /\ m < Len(Messages) + 1
  BY <1>1
<1>4. \A k \in 1 .. Len(Messages) + 1 : m < k => Before[m] + i <= Before[k]
  <2> SUFFICES ASSUME NEW k \in 1 .. Len(Messages) + 1, m < k PROVE Before[m] + i <= Before[k]
    OBVIOUS
  <2>1. Before[m] + Len(Messages[m].sizes) <= Before[k]
    BY BeforeGrows
  <2> QED  BY <1>1, <1>2, <1>3, <2>1
<1>5. \A k \in 1 .. Len(Messages) + 1 : k <= m => Before[k] < Before[m] + i
  <2> SUFFICES ASSUME NEW k \in 1 .. Len(Messages) + 1, k <= m PROVE Before[k] < Before[m] + i
    OBVIOUS
  <2>1. CASE k = m
    BY <1>1, <1>2, <2>1
  <2>2. CASE k < m
    <3>1. k \in Message /\ Len(Messages[k].sizes) \in Nat
      BY <1>1, <2>2, MessageIs
    <3>2. Before[k] + Len(Messages[k].sizes) <= Before[m]
      BY <1>3, <2>2, <3>1, BeforeGrows
    <3> QED  BY SMTT(30), <1>1, <1>2, <1>3, <3>1, <3>2
  <2> QED  BY <1>1, <2>1, <2>2
<1> QED  BY <1>1, <1>2, <1>3, <1>4, <1>5 DEF Fragments

LEMMA RankIs ==
  ASSUME NEW c \in Fragment
  PROVE  /\ c.msg \in Message /\ c.part \in Parts(c.msg) /\ c.part \in Nat
         /\ Rank(c) \in 1 .. Fragments /\ c.tsn = Nth(Rank(c)) /\ c.seq \in Int
<1>1. c.msg \in Message /\ c.part \in Parts(c.msg) /\ c.tsn = Nth(Rank(c)) /\ c.seq \in Int /\ c.part \in Nat
  BY DEF Fragment
<1> QED  BY <1>1, PartsOrder DEF Rank

(* A rank belongs to one part of one message.                              *)
LEMMA RankMeansPart ==
  ASSUME NEW m \in Message, NEW i \in Parts(m), NEW k \in Message, NEW j \in Parts(k),
         Before[m] + i = Before[k] + j
  PROVE  m = k /\ i = j
<1>1. Message = 1 .. Len(Messages) /\ Len(Messages) \in Nat
  BY Numbers
<1>2. m \in 1 .. Len(Messages) + 1 /\ k \in 1 .. Len(Messages) + 1
  BY <1>1
<1>3. /\ Before[m] \in Nat /\ Before[k] \in Nat /\ i \in Nat /\ j \in Nat
      /\ m < k => Before[m] + i <= Before[k] /\ Before[k] < Before[k] + j
      /\ k < m => Before[k] + j <= Before[m] /\ Before[m] < Before[m] + i
  BY <1>2, PartsOrder
<1>4. ~ m < k /\ ~ k < m
  BY <1>3
<1>5. m = k
  BY <1>1, <1>4
<1> QED  BY <1>3, <1>5

LEMMA NthIs ==
  ASSUME NEW n \in 0 .. TsnModulo - 1
  PROVE  /\ Nth(n) \in 0 .. TsnModulo - 1
         /\ Nth(n) = IF InitialTsn + n = 0 THEN TsnModulo - 1
                     ELSE IF InitialTsn + n <= TsnModulo THEN InitialTsn + n - 1
                     ELSE InitialTsn + n - 1 - TsnModulo
<1> DEFINE M == TsnModulo
           a == InitialTsn + n - 1
<1>1. M \in Nat \ {0} /\ InitialTsn \in 0 .. M - 1
  BY Numbers
<1>2. Nth(n) = (a + M) % M
  <2>1. InitialTsn + (M - 1 + n) = a + M
    BY <1>1
  <2> QED  BY <2>1 DEF Nth, Tsn!Plus
<1> HIDE DEF M
<1>3. CASE InitialTsn + n = 0
  <2>1. a + M = M - 1 /\ M - 1 \in 0 .. M - 1
    BY <1>1, <1>3 DEF M
  <2>2. (M - 1) % M = M - 1
    BY <1>1, <2>1, ModSmall
  <2> QED  BY <1>2, <1>3, <2>1, <2>2 DEF M
<1>4. CASE InitialTsn + n # 0 /\ InitialTsn + n <= M
  <2>1. a \in 0 .. M - 1 /\ a + M = M * 1 + a
    BY <1>1, <1>4 DEF M
  <2>2. (M * 1 + a) % M = a
    BY <1>1, <2>1, ModIs
  <2> QED  BY <1>2, <1>4, <2>1, <2>2 DEF M
<1>5. CASE InitialTsn + n > M
  <2>1. a - M \in 0 .. M - 1 /\ a + M = M * 2 + (a - M)
    BY <1>1, <1>5 DEF M
  <2>2. (M * 2 + (a - M)) % M = a - M
    <3> HIDE DEF a
    <3> QED  BY SMTT(30), <1>1, <2>1, ModIs
  <2> QED  BY <1>1, <1>2, <1>5, <2>1, <2>2 DEF M
<1> QED  BY <1>1, <1>3, <1>4, <1>5 DEF M

(* TSNs are in the order of what they number.                              *)
LEMMA NthOrder ==
  ASSUME NoWrap, NEW a \in 0 .. Fragments, NEW b \in 0 .. Fragments
  PROVE  /\ Nth(a) \in 0 .. TsnModulo - 1
         /\ Nth(a) = Nth(b) <=> a = b
         /\ Tsn!Gt(Nth(a), Nth(b)) <=> a > b
         /\ Tsn!Gte(Nth(a), Nth(b)) <=> a >= b
<1>1. /\ TsnModulo \in Nat \ {0} /\ InitialTsn \in 0 .. TsnModulo - 1
      /\ Tsn!Half \in Nat /\ Tsn!Half + Tsn!Half = TsnModulo
  BY Numbers
<1>2. Fragments \in Nat /\ Fragments < Tsn!Half
  <2>1. Len(Messages) + 1 \in 1 .. Len(Messages) + 1
    BY Numbers
  <2> QED  BY <2>1, BeforeIs DEF NoWrap, Fragments
<1>3. a \in 0 .. TsnModulo - 1 /\ b \in 0 .. TsnModulo - 1
  BY <1>1, <1>2
<1> DEFINE x == Nth(a)
           y == Nth(b)
           h == Tsn!Half
<1>4. /\ x \in 0 .. TsnModulo - 1 /\ y \in 0 .. TsnModulo - 1
      /\ x = IF InitialTsn + a = 0 THEN TsnModulo - 1
             ELSE IF InitialTsn + a <= TsnModulo THEN InitialTsn + a - 1
             ELSE InitialTsn + a - 1 - TsnModulo
      /\ y = IF InitialTsn + b = 0 THEN TsnModulo - 1
             ELSE IF InitialTsn + b <= TsnModulo THEN InitialTsn + b - 1
             ELSE InitialTsn + b - 1 - TsnModulo
  BY <1>3, NthIs
<1>5. Tsn!Gt(x, y) <=> (x < y /\ y - x > h) \/ (x > y /\ x - y < h)
  BY DEF Tsn!Gt
<1> HIDE DEF x, y, h
<1>6. h \in Nat /\ h + h = TsnModulo /\ Fragments < h
  BY <1>1, <1>2 DEF h
<1>7. x = y <=> a = b
  BY <1>1, <1>2, <1>4, <1>6
<1>8. (x < y /\ y - x > h) \/ (x > y /\ x - y < h) <=> a > b
  BY <1>1, <1>2, <1>4, <1>6
<1>9. Tsn!Gte(x, y) <=> x = y \/ Tsn!Gt(x, y)
  BY DEF Tsn!Gte
<1>10. a = b \/ a > b <=> a >= b
  BY <1>2
<1> QED  BY <1>4, <1>5, <1>7, <1>8, <1>9, <1>10 DEF x, y

-----------------------------------------------------------------------------
(* The state of the sender, and what each of its methods makes of it.      *)

Entry ==
  [chunk : Fragment, acked : BOOLEAN, abandoned : BOOLEAN, retransmit : BOOLEAN,
   misses : Int, count : Int]

DataPacket(Q) == [type : {"data"}, chunk : {c \in Fragment : c.msg <= Q}]
(* A FORWARD-TSN gives up limited messages only, and names each stream's   *)
(* last one, of which at least a fragment is up to its TSN.                *)
GivesUp(x, n, k) ==
  \E c \in Fragment : /\ StreamOf(c) = x /\ Ordered(c) /\ ~Unlimited(c.msg)
                      /\ c.seq = n /\ Rank(c) <= k
ForwardPacket(G) ==
  {f \in [type : {"forward"}, tsn : Int, streams : UNION {[X -> Int] : X \in SUBSET Stream}] :
     \E k \in 0 .. Fragments :
       Covered(G, k) /\ f.tsn = Nth(k) /\ \A x \in DOMAIN f.streams : GivesUp(x, f.streams[x], k)}

SenderState(G, Q) ==
  [given : 0 .. Len(Messages), localTsn : Int, ssn : [Stream -> Int], outbound : Seq(Fragment),
   sent : Seq(Entry), flight : Int, cwnd : Int, ssthresh : Int, partial : Int, exit : Int,
   boost : BOOLEAN, sacked : Int, forward : SUBSET ForwardPacket(G), t3 : BOOLEAN,
   packets : SUBSET (DataPacket(Q) \cup ForwardPacket(G))]

(* The queues hold fragments of the messages given, in their order.        *)
InOrder(s) ==
  /\ s.localTsn = Nth(Before[s.given + 1] + 1)
  /\ s.ssn = [x \in Stream |-> Earlier[s.given + 1][x] % SsnModulo]
  /\ \A i \in DOMAIN s.sent : s.sent[i].chunk.msg <= s.given
  /\ \A i \in DOMAIN s.outbound : s.outbound[i].msg <= s.given
  /\ \A i, j \in DOMAIN s.sent : i < j => Rank(s.sent[i].chunk) < Rank(s.sent[j].chunk)
  /\ \A i, j \in DOMAIN s.outbound : i < j => Rank(s.outbound[i]) < Rank(s.outbound[j])
  /\ \A i \in DOMAIN s.sent, j \in DOMAIN s.outbound :
       Rank(s.sent[i].chunk) < Rank(s.outbound[j])

(* Only what is limited is given up.                                       *)
Patient(s) == \A i \in DOMAIN s.sent : s.sent[i].abandoned => ~Unlimited(s.sent[i].chunk.msg)

(* No other fragment is neither here nor in G.                             *)
KeptBy(s) == Range(s.outbound) \cup {x.chunk : x \in Range(s.sent)}
AllThere(G, s) ==
  \A m \in 1 .. s.given : Unlimited(m) => \A i \in Parts(m) : Has(KeptBy(s) \cup G, m, i)

Good(G, Q) ==
  {s \in SenderState(G, Q) : InOrder(s) /\ Patient(s) /\ AllThere(G, s) /\ s.given <= Q}

-----------------------------------------------------------------------------
LEMMA SameQueues ==
  ASSUME NEW G, NEW Q \in Nat, NEW s \in Good(G, Q), NEW t \in SenderState(G, Q),
         t.given = s.given, t.localTsn = s.localTsn, t.ssn = s.ssn, t.outbound = s.outbound,
         Len(t.sent) = Len(s.sent),
         \A i \in DOMAIN s.sent :
           /\ t.sent[i].chunk = s.sent[i].chunk
           /\ t.sent[i].abandoned => s.sent[i].abandoned \/ ~Unlimited(s.sent[i].chunk.msg)
  PROVE  t \in Good(G, Q)
<1>1. s \in SenderState(G, Q) /\ InOrder(s) /\ Patient(s) /\ AllThere(G, s) /\ s.given <= Q
  BY DEF Good
<1>2. s.sent \in Seq(Entry) /\ t.sent \in Seq(Entry)
  BY <1>1 DEF SenderState
<1>3. DOMAIN t.sent = DOMAIN s.sent
  BY <1>2
<1>4. InOrder(t)
  BY <1>1, <1>3 DEF InOrder
<1>5. Patient(t)
  BY <1>1, <1>3 DEF Patient
<1>6. KeptBy(t) = KeptBy(s)
  <2>1. {x.chunk : x \in Range(t.sent)} = {t.sent[i].chunk : i \in DOMAIN t.sent}
    BY DEF Range
  <2>2. {x.chunk : x \in Range(s.sent)} = {s.sent[i].chunk : i \in DOMAIN s.sent}
    BY DEF Range
  <2>3. {t.sent[i].chunk : i \in DOMAIN t.sent} = {s.sent[i].chunk : i \in DOMAIN s.sent}
    BY <1>3
  <2> QED  BY <2>1, <2>2, <2>3 DEF KeptBy
<1>7. AllThere(G, t)
  BY <1>1, <1>6 DEF AllThere
<1> QED  BY <1>1, <1>4, <1>5, <1>7 DEF Good

LEMMA SizeIs ==
  ASSUME NEW c \in Fragment
  PROVE  Size(c) \in Int
  BY RankIs, MessageIs DEF Size

(* A sender that sends something.                                          *)
LEMMA SenderSends ==
  ASSUME NEW G, NEW Q \in Nat, NEW s \in SenderState(G, Q), NEW f \in Int, NEW o \in Seq(Fragment), NEW q \in Seq(Entry),
         NEW k \in SUBSET (DataPacket(Q) \cup ForwardPacket(G)), NEW b \in BOOLEAN, NEW d \in BOOLEAN
  PROVE  [s EXCEPT !.flight = f, !.packets = k, !.outbound = o, !.sent = q, !.boost = d, !.t3 = b]
           \in SenderState(G, Q)
  BY DEF SenderState

LEMMA EntryIs ==
  ASSUME NEW x \in Entry, NEW m \in Int, NEW b \in BOOLEAN
  PROVE  /\ [x EXCEPT !.misses = m, !.retransmit = b] \in Entry
         /\ [x EXCEPT !.misses = m, !.retransmit = b].chunk = x.chunk
         /\ [x EXCEPT !.misses = m, !.retransmit = b].abandoned = x.abandoned
  BY DEF Entry

LEMMA CountIs ==
  ASSUME NEW x \in Entry
  PROVE  CountSent(x) \in Entry /\ CountSent(x).chunk = x.chunk /\ CountSent(x).abandoned = x.abandoned
<1>1. x.count \in Int /\ x.chunk \in Fragment
  BY DEF Entry
<1>2. Messages[x.chunk.msg].limit \in Int
  BY <1>1, RankIs, MessageIs
<1> DEFINE n == Smaller(x.count + 1, Larger(Messages[x.chunk.msg].limit + 1, 1))
<1>3. n \in Int
  BY <1>1, <1>2 DEF Smaller, Larger
<1>4. CountSent(x) = [x EXCEPT !.count = n]
  BY DEF CountSent
<1> HIDE DEF n
<1> QED  BY <1>3, <1>4 DEF Entry

(* What only concerns the window, the timer and the network.               *)
LEMMA SendForwardGood ==
  ASSUME NEW G, NEW Q \in Nat, NEW s \in Good(G, Q)
  PROVE  SendForward(s) \in Good(G, Q) /\ Len(SendForward(s).sent) = Len(s.sent)
<1> DEFINE t == [s EXCEPT !.packets = @ \cup s.forward, !.forward = NoForward, !.t3 = TRUE]
<1>1. s \in SenderState(G, Q)
  BY DEF Good
<1>2. t \in SenderState(G, Q)
  BY <1>1 DEF SenderState, NoForward
<1>3. t.given = s.given /\ t.localTsn = s.localTsn /\ t.ssn = s.ssn /\ t.outbound = s.outbound /\ t.sent = s.sent
  BY <1>1 DEF SenderState
<1> HIDE DEF t
<1>4. t \in Good(G, Q)
  BY <1>2, <1>3, SameQueues
<1>5. SendForward(s) = s \/ SendForward(s) = t
  BY DEF SendForward, t
<1> QED  BY <1>3, <1>4, <1>5

LEMMA RetransmitGood ==
  ASSUME NEW G, NEW Q \in Nat, NEW s \in Good(G, Q), NEW i \in 1 .. Len(s.sent), NEW w \in Int
  PROVE  Retransmit(s, i, w) \in Good(G, Q) /\ Len(Retransmit(s, i, w).sent) = Len(s.sent)
<1>1. s \in SenderState(G, Q) /\ s.sent \in Seq(Entry)
  BY DEF Good, SenderState
<1> DEFINE x == s.sent[i]
           y == CountSent([x EXCEPT !.misses = 0, !.retransmit = FALSE])
           p == [type |-> "data", chunk |-> x.chunk]
           t == [SendChunk(Increase(s, x.chunk), p)
                  EXCEPT !.boost = FALSE, !.sent[i] = CountSent([@ EXCEPT !.misses = 0, !.retransmit = FALSE]),
                         !.t3 = @ \/ i = 1]
<1>2. x \in Entry /\ DOMAIN s.sent = 1 .. Len(s.sent) /\ Len(s.sent) \in Nat
  BY <1>1
<1> DEFINE z == [x EXCEPT !.misses = 0, !.retransmit = FALSE]
<1>3. z \in Entry /\ z.chunk = x.chunk /\ z.abandoned = x.abandoned
  <2> HIDE DEF x
  <2>1. \A m \in Int, b \in BOOLEAN : LET v == [x EXCEPT !.misses = m, !.retransmit = b]
                                    IN v \in Entry /\ v.chunk = x.chunk /\ v.abandoned = x.abandoned
    BY <1>2, EntryIs
  <2>2. 0 \in Int /\ FALSE \in BOOLEAN
    OBVIOUS
  <2> QED  BY <2>1, <2>2, Zenon
<1>4. y \in Entry /\ y.chunk = x.chunk /\ y.abandoned = x.abandoned
  <2> HIDE DEF z, x
  <2>1. y = CountSent(z)
    BY DEF z
  <2> QED  BY <1>3, <2>1, CountIs
<1>5. x.chunk \in Fragment /\ Size(x.chunk) \in Int
  BY <1>2, SizeIs DEF Entry
<1>6. p \in DataPacket(Q)
  <2>1. x.chunk.msg <= s.given /\ s.given <= Q /\ s.given \in Nat
    BY <1>1, <1>2 DEF Good, InOrder, SenderState
  <2>2. x.chunk.msg \in Nat
    <3> DEFINE c == x.chunk
    <3> HIDE DEF c
    <3>1. c \in Fragment
      BY <1>5 DEF c
    <3>2. c.msg \in Message /\ Message \subseteq Nat
      BY <3>1, RankIs, Numbers
    <3> QED  BY <3>2 DEF c
  <2> HIDE DEF x
  <2> QED  BY <1>5, <2>1, <2>2 DEF DataPacket
<1> DEFINE q == [s.sent EXCEPT ![i] = y]
<1>7. t = [s EXCEPT !.flight = @ + Size(x.chunk), !.packets = @ \cup {p}, !.boost = FALSE,
                    !.sent = q, !.t3 = @ \/ i = 1]
  BY <1>1 DEF SenderState, SendChunk, Increase
<1>8. q \in Seq(Entry) /\ Len(q) = Len(s.sent) /\ \A j \in DOMAIN s.sent : q[j] = IF j = i THEN y ELSE s.sent[j]
  <2> HIDE DEF y
  <2> QED  BY <1>1, <1>4
<1> HIDE DEF q, p, y, x
<1> DEFINE f == s.flight + Size(x.chunk)
           k == s.packets \cup {p}
           b == s.t3 \/ i = 1
<1>8a. f \in Int /\ k \in SUBSET (DataPacket(Q) \cup ForwardPacket(G)) /\ b \in BOOLEAN
  <2>1. s.flight \in Int /\ s.packets \in SUBSET (DataPacket(Q) \cup ForwardPacket(G)) /\ s.t3 \in BOOLEAN
    BY <1>1 DEF SenderState
  <2> QED  BY <1>5, <1>6, <2>1
<1>8b. t = [s EXCEPT !.flight = f, !.packets = k, !.boost = FALSE, !.sent = q, !.t3 = b]
  BY <1>7
<1> HIDE DEF f, k, b
<1>9. t \in SenderState(G, Q)
  <2> DEFINE u == [s EXCEPT !.flight = f, !.packets = k, !.outbound = s.outbound, !.sent = q,
                            !.boost = FALSE, !.t3 = b]
  <2>1. u \in SenderState(G, Q)
    BY ZenonT(40), <1>1, <1>8, <1>8a, SenderSends DEF SenderState
  <2>2. t = u
    BY <1>1, <1>8b DEF SenderState
  <2> QED  BY <2>1, <2>2
<1>10. t.given = s.given /\ t.localTsn = s.localTsn /\ t.ssn = s.ssn /\ t.outbound = s.outbound /\ t.sent = q
  BY <1>1, <1>7 DEF SenderState
<1> HIDE DEF t
<1>11. t \in Good(G, Q)
  BY <1>4, <1>8, <1>9, <1>10, SameQueues DEF x
<1>12. Retransmit(s, i, w) = s \/ Retransmit(s, i, w) = t
  BY DEF Retransmit, t, p, x
<1> QED  BY <1>8, <1>10, <1>11, <1>12

LEMMA SendNewGood ==
  ASSUME NEW G, NEW Q \in Nat, NEW s \in Good(G, Q), NEW w \in Int
  PROVE  SendNew(s, w) \in Good(G, Q)
<1>1. /\ s \in SenderState(G, Q) /\ s.sent \in Seq(Entry) /\ s.outbound \in Seq(Fragment)
      /\ InOrder(s) /\ Patient(s) /\ AllThere(G, s) /\ s.given <= Q
  BY DEF Good, SenderState
<1> DEFINE c == Head(s.outbound)
           x == [chunk |-> c, acked |-> FALSE, abandoned |-> FALSE,
                 retransmit |-> FALSE, misses |-> 0, count |-> 1]
           p == [type |-> "data", chunk |-> c]
           t == [SendChunk(Increase(s, c), p)
                  EXCEPT !.outbound = Tail(@), !.sent = Append(@, x), !.t3 = TRUE]
           o == Tail(s.outbound)
           q == Append(s.sent, x)
           n == Len(s.sent)
<1>0. SUFFICES ASSUME s.outbound # <<>>, s.flight < w
               PROVE  SendNew(s, w) \in Good(G, Q)
  BY DEF SendNew
<1>2. /\ c \in Fragment /\ 1 \in DOMAIN s.outbound /\ c = s.outbound[1] /\ o \in Seq(Fragment)
      /\ \A j \in DOMAIN o : j + 1 \in DOMAIN s.outbound /\ o[j] = s.outbound[j + 1] /\ j \in Nat /\ j > 0
      /\ \A j \in DOMAIN s.outbound : j = 1 \/ (j - 1 \in DOMAIN o /\ s.outbound[j] = o[j - 1])
      /\ Len(o) = Len(s.outbound) - 1 /\ Len(s.outbound) \in Nat
  BY SMTT(30), <1>0, <1>1
<1>3. x \in Entry /\ x.chunk = c /\ ~x.abandoned
  BY <1>2 DEF Entry
<1>4. Size(c) \in Int /\ p \in DataPacket(Q)
  <2>1. c.msg <= s.given /\ s.given <= Q /\ s.given \in Nat
    BY <1>1, <1>2 DEF InOrder, SenderState
  <2>2. c.msg \in Nat
    BY <1>2, RankIs, Numbers
  <2> HIDE DEF c
  <2> QED  BY <1>2, <2>1, <2>2, SizeIs DEF DataPacket
<1>5. /\ q \in Seq(Entry) /\ n \in Nat /\ DOMAIN q = 1 .. n + 1 /\ DOMAIN s.sent = 1 .. n
      /\ \A j \in 1 .. n : q[j] = s.sent[j] /\ j \in DOMAIN s.sent /\ q[n + 1] = x
  <2> HIDE DEF x
  <2> QED  BY <1>1, <1>3
<1>5a. q[n + 1] = x
  <2> HIDE DEF x
  <2> QED  BY <1>1, <1>3
<1>6. t = [s EXCEPT !.flight = @ + Size(c), !.packets = @ \cup {p}, !.outbound = o,
                    !.sent = q, !.t3 = TRUE]
  BY <1>1 DEF SenderState, SendChunk, Increase
<1> HIDE DEF c, x, p, o, q, n
<1> DEFINE f == s.flight + Size(c)
           k == s.packets \cup {p}
<1>6a. f \in Int /\ k \in SUBSET (DataPacket(Q) \cup ForwardPacket(G))
  <2>1. s.flight \in Int /\ s.packets \in SUBSET (DataPacket(Q) \cup ForwardPacket(G))
    BY <1>1 DEF SenderState
  <2> QED  BY <1>4, <2>1
<1>6b. t = [s EXCEPT !.flight = f, !.packets = k, !.outbound = o, !.sent = q, !.t3 = TRUE]
  BY <1>6
<1> HIDE DEF f, k
<1>7. t \in SenderState(G, Q)
  <2> DEFINE u == [s EXCEPT !.flight = f, !.packets = k, !.outbound = o, !.sent = q,
                            !.boost = s.boost, !.t3 = TRUE]
  <2>1. s.boost \in BOOLEAN
    BY <1>1 DEF SenderState
  <2>2. u \in SenderState(G, Q)
    BY <1>1, <1>2, <1>5, <1>6a, <2>1, SenderSends
  <2>3. t = u
    BY <1>1, <1>6b DEF SenderState
  <2> QED  BY <2>2, <2>3
<1>8. t.given = s.given /\ t.localTsn = s.localTsn /\ t.ssn = s.ssn /\ t.outbound = o /\ t.sent = q
  BY <1>1, <1>6 DEF SenderState
<1> HIDE DEF t
<1>9. InOrder(t)
  <2>1. \A i \in 1 .. n + 1 : i \in 1 .. n \/ i = n + 1
    BY <1>5
  <2>2. \A i \in DOMAIN t.sent : t.sent[i].chunk.msg <= t.given
    BY <1>1, <1>2, <1>3, <1>5, <1>5a, <1>8, <2>1 DEF InOrder
  <2>3. \A i, j \in DOMAIN t.sent : i < j => Rank(t.sent[i].chunk) < Rank(t.sent[j].chunk)
    <3> SUFFICES ASSUME NEW i \in 1 .. n + 1, NEW j \in 1 .. n + 1, i < j
                 PROVE  Rank(q[i].chunk) < Rank(q[j].chunk)
      BY <1>5, <1>8
    <3>1. i \in 1 .. n
      BY <1>5
    <3>2. CASE j \in 1 .. n
      BY <1>1, <1>5, <3>1, <3>2 DEF InOrder
    <3>3. CASE j = n + 1
      BY <1>1, <1>2, <1>3, <1>5, <1>5a, <3>1, <3>3 DEF InOrder
    <3> QED  BY <2>1, <3>2, <3>3
  <2>4. \A i, j \in DOMAIN o : i < j => Rank(o[i]) < Rank(o[j])
    <3>1. \A i, j \in DOMAIN o : i < j => i + 1 < j + 1
      BY <1>2
    <3> QED  BY <1>1, <1>2, <3>1 DEF InOrder
  <2>5. \A i \in DOMAIN o : Rank(c) < Rank(o[i])
    <3>1. \A i \in DOMAIN o : 1 < i + 1
      BY <1>2
    <3> QED  BY <1>1, <1>2, <3>1 DEF InOrder
  <2>6. \A i \in DOMAIN q, j \in DOMAIN o : Rank(q[i].chunk) < Rank(o[j])
    <3> SUFFICES ASSUME NEW i \in DOMAIN q, NEW j \in DOMAIN o
                 PROVE  Rank(q[i].chunk) < Rank(o[j])
      OBVIOUS
    <3>1. CASE i = n + 1
      BY <1>3, <1>5a, <2>5, <3>1
    <3>2. CASE i # n + 1
      <4>1. i \in 1 .. n
        BY <1>5, <3>2
      <4>2. q[i] = s.sent[i] /\ i \in DOMAIN s.sent /\ o[j] = s.outbound[j + 1] /\ j + 1 \in DOMAIN s.outbound
        BY <1>2, <1>5, <4>1
      <4> QED  BY <1>1, <4>2 DEF InOrder
    <3> QED  BY <3>1, <3>2
  <2>7. \A i \in DOMAIN o : o[i].msg <= s.given
    BY <1>1, <1>2 DEF InOrder
  <2>8. /\ t.localTsn = Nth(Before[t.given + 1] + 1)
        /\ t.ssn = [y \in Stream |-> Earlier[t.given + 1][y] % SsnModulo]
    BY <1>1, <1>8 DEF InOrder
  <2> QED  BY <1>8, <2>2, <2>3, <2>4, <2>6, <2>7, <2>8 DEF InOrder
<1>10. Patient(t)
  <2>1. \A i \in 1 .. n + 1 : i \in 1 .. n \/ i = n + 1
    BY <1>5
  <2> QED  BY <1>1, <1>3, <1>5, <1>5a, <1>8, <2>1 DEF Patient
<1>11. KeptBy(s) \subseteq KeptBy(t)
  <2>1. \A i \in DOMAIN s.sent : s.sent[i] \in Range(q)
    <3>1. \A i \in DOMAIN s.sent : i \in DOMAIN q /\ q[i] = s.sent[i]
      BY <1>5
    <3> QED  BY <3>1 DEF Range
  <2>2. x \in Range(q)
    BY <1>5, <1>5a DEF Range
  <2>3. \A j \in DOMAIN s.outbound : s.outbound[j] = c \/ s.outbound[j] \in Range(o)
    BY <1>2 DEF Range
  <2> QED  BY <1>3, <1>8, <2>1, <2>2, <2>3 DEF KeptBy, Range
<1>12. AllThere(G, t)
  BY <1>1, <1>8, <1>11 DEF AllThere, Has
<1>13. t \in Good(G, Q)
  BY <1>1, <1>7, <1>8, <1>9, <1>10, <1>12 DEF Good
<1>14. SendNew(s, w) = t
  BY <1>0 DEF SendNew, t, x, p, c
<1> QED  BY <1>13, <1>14

LEMMA FoldEnds ==
  ASSUME NEW S, NEW E, NEW s \in Seq(E), NEW jt, jt[{}] \in S,
         \A k \in 0 .. Len(s) - 1 : jt[1 .. k] \in S => jt[1 .. k + 1] \in S
  PROVE  jt[DOMAIN s] \in S
<1> DEFINE n == Len(s)
           W == [k \in 0 .. n |-> S]
<1>1. n \in Nat /\ DOMAIN s = 1 .. n
  BY FoldIndices
<1>2. \A k \in 0 .. n : W[k] = S
  OBVIOUS
<1>3. 0 \in 0 .. n /\ n \in 0 .. n /\ \A k \in 0 .. n - 1 : k \in 0 .. n /\ k + 1 \in 0 .. n
  BY <1>1
<1> HIDE DEF W, n
<1>4. \A k \in 0 .. n - 1 : jt[1 .. k] \in W[k] => jt[1 .. k + 1] \in W[k + 1]
  BY <1>2, <1>3 DEF n
<1>5. jt[{}] \in W[0]
  BY <1>2, <1>3
<1>6. jt[1 .. n] \in W[n]
  BY <1>1, <1>4, <1>5, FoldStays
<1> QED  BY <1>1, <1>2, <1>3, <1>6

LEMMA PositionsAre ==
  ASSUME NEW T, NEW q \in Seq(T)
  PROVE  Positions(q) \in Seq(1 .. Len(q)) /\ Positions(q) \in Seq(Nat)
<1>1. Len(q) \in Nat
  OBVIOUS
<1>2. \A i \in 1 .. Len(q) : i \in Nat
  BY <1>1
<1> QED  BY <1>1, <1>2 DEF Positions

LEMMA QueuesAre ==
  ASSUME NEW G, NEW Q \in Nat, NEW t \in Good(G, Q)
  PROVE  /\ t.sent \in Seq(Entry) /\ t.outbound \in Seq(Fragment) /\ t \in SenderState(G, Q)
         /\ {t.flight, t.cwnd, t.ssthresh, t.partial, t.exit, t.sacked, t.localTsn} \subseteq Int
         /\ t.given \in 0 .. Len(Messages) /\ t.packets \subseteq DataPacket(Q) \cup ForwardPacket(G)
  BY DEF Good, SenderState

(* The loop over what is to be sent again.                                 *)
LEMMA RetransmitsGood ==
  ASSUME NEW G, NEW Q \in Nat, NEW b \in Good(G, Q), NEW w \in Int
  PROVE  FoldLeft(LAMBDA t, i : Retransmit(t, i, w), b, Positions(b.sent)) \in Good(G, Q)
<1> DEFINE s == Positions(b.sent)
           S == {t \in Good(G, Q) : Len(t.sent) = Len(b.sent)}
           E == (1 .. Len(b.sent))
           Op(t, i) == Retransmit(t, i, w)
           f == [y \in S \X E |-> Op(y[1], y[2])]
           Fold(it) == it = [d \in SUBSET (DOMAIN s) |->
             IF d = {} THEN b ELSE Op(it[d \ {Max(d)}], s[Max(d)])]
           n == Len(s)
           jt == CHOOSE it : Fold(it)
<1>0. s \in Seq(E) /\ b \in S
  BY QueuesAre, PositionsAre
<1>1. FoldLeft(LAMBDA t, i : Retransmit(t, i, w), b, Positions(b.sent)) = jt[DOMAIN s]
  BY DEF FoldLeft, MapThenFoldSet
<1>2. ASSUME NEW t \in S, NEW i \in E PROVE Op(t, i) \in S
  BY <1>2, RetransmitGood
<1>3. f \in [S \X E -> S] /\ \A t \in S, i \in E : f[<<t, i>>] = Op(t, i)
  BY <1>2
<1> HIDE DEF Op, f, s, S, E
<1>4. PICK it : it \in FoldTables(S, f, b, s)
  <2>1. FoldTables(S, f, b, s) # {}
    BY <1>0, <1>3, FoldExists
  <2> QED  BY <2>1
<1>5. Fold(it)
  <2>1. \A d \in SUBSET (1 .. n) :
          it[d] = IF d = {} THEN b ELSE Op(it[d \ {Max(d)}], s[Max(d)])
    BY <1>0, <1>3, <1>4, FoldIndices DEF FoldTables
  <2>2. it \in [SUBSET (DOMAIN s) -> S]
    BY <1>0, <1>4, FoldIndices DEF FoldTables
  <2>3. DOMAIN s = 1 .. n
    BY <1>0, FoldIndices
  <2> HIDE DEF n
  <2> QED  BY <2>1, <2>2, <2>3
<1>6. Fold(jt)
  BY <1>5
<1> HIDE DEF jt
<1>7. jt[{}] = b
  BY <1>0, <1>6, FoldIndices
<1>8. ASSUME NEW k \in 0 .. n - 1, jt[1 .. k] \in S  PROVE jt[1 .. k + 1] \in S
  <2>1. /\ 1 .. k + 1 \in SUBSET (DOMAIN s) /\ 1 .. k + 1 # {} /\ s[k + 1] \in E
        /\ Max(1 .. k + 1) = k + 1 /\ (1 .. k + 1) \ {k + 1} = 1 .. k
    BY <1>0, FoldIndices
  <2>2. jt[1 .. k + 1] = Op(jt[1 .. k], s[k + 1])
    BY <1>6, <2>1
  <2> QED  BY <1>2, <1>8, <2>1, <2>2
<1>9. jt[DOMAIN s] \in S
  BY <1>0, <1>7, <1>8, FoldEnds
<1> QED  BY <1>1, <1>9 DEF S

(* The loop over what has not been sent.                                   *)
LEMMA SendsGood ==
  ASSUME NEW G, NEW Q \in Nat, NEW b \in Good(G, Q), NEW w \in Int, NEW q \in Seq(Fragment)
  PROVE  FoldLeft(LAMBDA t, i : SendNew(t, w), b, Positions(q)) \in Good(G, Q)
<1> DEFINE s == Positions(q)
           S == Good(G, Q)
           E == Nat
           Op(t, i) == SendNew(t, w)
           f == [y \in S \X E |-> Op(y[1], y[2])]
           Fold(it) == it = [d \in SUBSET (DOMAIN s) |->
             IF d = {} THEN b ELSE Op(it[d \ {Max(d)}], s[Max(d)])]
           n == Len(s)
           jt == CHOOSE it : Fold(it)
<1>0. s \in Seq(E) /\ b \in S
  BY QueuesAre, PositionsAre
<1>1. FoldLeft(LAMBDA t, i : SendNew(t, w), b, Positions(q)) = jt[DOMAIN s]
  BY DEF FoldLeft, MapThenFoldSet
<1>2. ASSUME NEW t \in S, NEW i \in E PROVE Op(t, i) \in S
  BY <1>2, SendNewGood
<1>3. f \in [S \X E -> S] /\ \A t \in S, i \in E : f[<<t, i>>] = Op(t, i)
  BY <1>2
<1> HIDE DEF Op, f, s, S, E
<1>4. PICK it : it \in FoldTables(S, f, b, s)
  <2>1. FoldTables(S, f, b, s) # {}
    BY <1>0, <1>3, FoldExists
  <2> QED  BY <2>1
<1>5. Fold(it)
  <2>1. \A d \in SUBSET (1 .. n) :
          it[d] = IF d = {} THEN b ELSE Op(it[d \ {Max(d)}], s[Max(d)])
    BY <1>0, <1>3, <1>4, FoldIndices DEF FoldTables
  <2>2. it \in [SUBSET (DOMAIN s) -> S]
    BY <1>0, <1>4, FoldIndices DEF FoldTables
  <2>3. DOMAIN s = 1 .. n
    BY <1>0, FoldIndices
  <2> HIDE DEF n
  <2> QED  BY <2>1, <2>2, <2>3
<1>6. Fold(jt)
  BY <1>5
<1> HIDE DEF jt
<1>7. jt[{}] = b
  BY <1>0, <1>6, FoldIndices
<1>8. ASSUME NEW k \in 0 .. n - 1, jt[1 .. k] \in S  PROVE jt[1 .. k + 1] \in S
  <2>1. /\ 1 .. k + 1 \in SUBSET (DOMAIN s) /\ 1 .. k + 1 # {} /\ s[k + 1] \in E
        /\ Max(1 .. k + 1) = k + 1 /\ (1 .. k + 1) \ {k + 1} = 1 .. k
    BY <1>0, FoldIndices
  <2>2. jt[1 .. k + 1] = Op(jt[1 .. k], s[k + 1])
    BY <1>6, <2>1
  <2> QED  BY <1>2, <1>8, <2>1, <2>2
<1>9. jt[DOMAIN s] \in S
  BY <1>0, <1>7, <1>8, FoldEnds
<1> QED  BY <1>1, <1>9 DEF S

LEMMA TransmitGood ==
  ASSUME NEW G, NEW Q \in Nat, NEW s \in Good(G, Q)
  PROVE  Transmit(s) \in Good(G, Q)
<1> DEFINE burst == IF s.exit = NoTsn THEN 4 * Mtu ELSE 2 * Mtu
           w == Smaller(s.flight + burst, s.cwnd)
           a == SendForward(s)
           b == FoldLeft(LAMBDA t, i : Retransmit(t, i, w), a, Positions(s.sent))
           c == FoldLeft(LAMBDA t, i : SendNew(t, w), b, Positions(s.outbound))
<1>1. w \in Int
  <2>1. s.flight \in Int /\ s.cwnd \in Int
    BY QueuesAre
  <2>2. 4 * Mtu \in Int /\ 2 * Mtu \in Int
    BY Numbers
  <2>3. burst \in Int
    BY <2>2
  <2> HIDE DEF burst
  <2>4. s.flight + burst \in Int
    BY <2>1, <2>3
  <2> QED  BY <2>1, <2>4 DEF Smaller
<1>2. Transmit(s) = c
  BY DEF Transmit
<1> HIDE DEF w
<1>3. a \in Good(G, Q) /\ Positions(a.sent) = Positions(s.sent)
  BY SendForwardGood DEF Positions
<1>4. b = FoldLeft(LAMBDA t, i : Retransmit(t, i, w), a, Positions(a.sent))
  BY <1>3
<1> HIDE DEF a
<1>5. b \in Good(G, Q)
  <2> HIDE DEF b
  <2> QED  BY <1>1, <1>3, <1>4, RetransmitsGood
<1> HIDE DEF b
<1>6. c \in Good(G, Q)
  BY <1>1, <1>5, SendsGood, QueuesAre
<1> QED  BY <1>2, <1>6

LEMMA NthMore ==
  ASSUME NEW n \in Nat, NEW k \in Nat
  PROVE  Tsn!Plus(Nth(n), k) = Nth(n + k) /\ Nth(n) \in Int
<1> DEFINE a == InitialTsn + (TsnModulo - 1 + n)
<1>1. TsnModulo \in Nat \ {0} /\ a \in Int /\ a + k = InitialTsn + (TsnModulo - 1 + (n + k))
  BY Numbers
<1>2. Nth(n) = a % TsnModulo /\ Nth(n + k) = (a + k) % TsnModulo
  BY <1>1 DEF Nth, Tsn!Plus
<1> HIDE DEF a
<1>3. ((a % TsnModulo) + k) % TsnModulo = (a + k) % TsnModulo
  <2>1. k \in Int /\ TsnModulo \in Nat \ {0} /\ a \in Int
    BY <1>1
  <2> QED  BY <2>1, ModAdd, Zenon
<1>4. a % TsnModulo \in Int
  BY <1>1, DivMod
<1> QED  BY <1>2, <1>3, <1>4 DEF Tsn!Plus

(* How many ordered messages of each stream are before a message.          *)
LEMMA EarlierIs ==
  /\ \A x \in Stream : Earlier[1][x] = 0
  /\ \A m \in 1 .. Len(Messages) + 1 : Earlier[m] \in [Stream -> Nat]
  /\ \A m \in Message : \A x \in Stream :
       Earlier[m + 1][x] = IF x = Messages[m].stream /\ Messages[m].ordered
                           THEN Earlier[m][x] + 1 ELSE Earlier[m][x]
<1> DEFINE n == Len(Messages)
           S == [Stream -> Nat]
           s == [m \in 1 .. n |-> m]
           Step(a, m) == IF Messages[m].ordered THEN [a EXCEPT ![Messages[m].stream] = @ + 1] ELSE a
           f == [y \in S \X (1 .. n) |-> Step(y[1], y[2])]
           zero == [x \in Stream |-> 0]
           Is(b) == b = [m \in 1 .. n + 1 |-> IF m = 1 THEN zero ELSE Step(b[m - 1], m - 1)]
<1>1. n \in Nat /\ Message = 1 .. n
  BY Numbers
<1>2. \A a \in S, m \in 1 .. n :
        /\ Step(a, m) \in S
        /\ \A x \in Stream : Step(a, m)[x] = IF x = Messages[m].stream /\ Messages[m].ordered
                                             THEN a[x] + 1 ELSE a[x]
  <2> SUFFICES ASSUME NEW a \in S, NEW m \in 1 .. n
               PROVE  /\ Step(a, m) \in S
                      /\ \A x \in Stream :
                           Step(a, m)[x] = IF x = Messages[m].stream /\ Messages[m].ordered
                                           THEN a[x] + 1 ELSE a[x]
    OBVIOUS
  <2>1. Messages[m].stream \in Stream /\ Messages[m].ordered \in BOOLEAN
    BY <1>1, MessageIs
  <2> QED  BY <2>1
<1> HIDE DEF Step
<1>3. /\ s \in Seq(1 .. n) /\ Len(s) = n /\ f \in [S \X (1 .. n) -> S] /\ zero \in S
      /\ \A m \in 1 .. n : s[m] = m
      /\ \A a \in S, m \in 1 .. n : f[<<a, m>>] = Step(a, m)
  BY <1>1, <1>2
<1> HIDE DEF s, f, n, zero, S
<1>4. PICK it : it \in FoldTables(S, f, zero, s)
  <2>1. FoldTables(S, f, zero, s) # {}
    BY <1>3, FoldExists
  <2> QED  BY <2>1
<1>5. it[{}] = zero /\ \A k \in 0 .. n - 1 : it[1 .. k + 1] = Step(it[1 .. k], k + 1)
  <2>1. \A d \in SUBSET (1 .. n) : it[d] \in S
    BY <1>3, <1>4 DEF FoldTables
  <2>2. ASSUME NEW k \in 0 .. n - 1 PROVE it[1 .. k + 1] = Step(it[1 .. k], k + 1)
    <3>1. /\ 1 .. k + 1 \in SUBSET (DOMAIN s) /\ 1 .. k + 1 # {}
          /\ Max(1 .. k + 1) = k + 1 /\ (1 .. k + 1) \ {k + 1} = 1 .. k /\ DOMAIN s = 1 .. Len(s)
      BY <1>3, FoldIndices
    <3>1a. k + 1 \in 1 .. n
      BY <1>1
    <3>2. it[1 .. k + 1] = f[<<it[1 .. k], s[k + 1]>>]
      BY <1>4, <3>1 DEF FoldTables
    <3>3. it[1 .. k] \in S
      <4>1. 1 .. k \in SUBSET (1 .. n)
        BY <1>1, <3>1
      <4> QED  BY <2>1, <4>1
    <3> QED  BY <1>3, <3>1a, <3>2, <3>3
  <2>3. it[{}] = zero
    BY <1>3, <1>4 DEF FoldTables
  <2> QED  BY <2>2, <2>3
<1> DEFINE b == [m \in 1 .. n + 1 |-> it[1 .. m - 1]]
<1>6. Is(b)
  <2>1. ASSUME NEW m \in 1 .. n + 1
        PROVE  b[m] = IF m = 1 THEN zero ELSE Step(b[m - 1], m - 1)
    <3>1. CASE m = 1
      <4>1. 1 .. m - 1 = {}
        BY <3>1
      <4> QED  BY <1>5, <3>1, <4>1
    <3>2. CASE m # 1
      <4>1. m - 2 \in 0 .. n - 1 /\ m - 1 \in 1 .. n /\ m - 2 + 1 = m - 1 /\ m - 1 \in 1 .. n + 1
            /\ m - 1 - 1 = m - 2
        BY <1>1, <3>2
      <4>2. it[1 .. m - 1] = Step(it[1 .. m - 2], m - 1)
        BY <1>5, <4>1
      <4> QED  BY <3>2, <4>1, <4>2
    <3> QED  BY <3>1, <3>2
  <2> HIDE DEF b
  <2> QED  BY <2>1 DEF b
<1>7. Is(Earlier)
  <2> HIDE DEF b
  <2>1. \E c : Is(c)
    BY <1>6
  <2> QED  BY <2>1, Zenon DEF Earlier, n, zero, Step
<1>8. \A k \in 1 .. n + 1 : Earlier[k] = IF k = 1 THEN zero ELSE Step(Earlier[k - 1], k - 1)
  BY <1>7
<1>9. Earlier[1] = zero
  BY <1>1, <1>8
<1>10. ASSUME NEW m \in 1 .. n PROVE Earlier[m + 1] = Step(Earlier[m], m)
  <2>1. m + 1 \in 1 .. n + 1 /\ m + 1 # 1 /\ m + 1 - 1 = m
    BY <1>1
  <2>2. Earlier[m + 1] = Step(Earlier[m + 1 - 1], m + 1 - 1)
    <3>1. \A k \in 1 .. n + 1 : k # 1 => Earlier[k] = Step(Earlier[k - 1], k - 1)
      BY <1>8
    <3> QED  BY <2>1, <3>1
  <2> QED  BY <2>1, <2>2
<1>11. \A m \in 1 .. n + 1 : Earlier[m] \in S
  <2> DEFINE T == {k \in 0 .. n : Earlier[k + 1] \in S}
  <2>1. 0 \in T
    BY <1>1, <1>3, <1>9
  <2>2. \A k \in 0 .. n - 1 : k \in T => k + 1 \in T
    <3> SUFFICES ASSUME NEW k \in 0 .. n - 1, k \in T PROVE k + 1 \in T
      OBVIOUS
    <3>1. k + 1 \in 1 .. n /\ k + 1 \in 0 .. n
      BY <1>1
    <3>2. Earlier[k + 1 + 1] = Step(Earlier[k + 1], k + 1)
      BY <1>10, <3>1
    <3> QED  BY <1>2, <3>1, <3>2 DEF S
  <2> HIDE DEF T
  <2>3. \A k \in 0 .. n : k \in T
    BY <1>1, <2>1, <2>2, Interval
  <2> QED
    <3> SUFFICES ASSUME NEW m \in 1 .. n + 1 PROVE Earlier[m] \in S
      OBVIOUS
    <3>1. m - 1 \in 0 .. n /\ m - 1 + 1 = m
      BY <1>1
    <3>2. m - 1 \in T
      BY <2>3, <3>1
    <3> QED  BY <3>1, <3>2 DEF T
<1>12. ASSUME NEW m \in 1 .. n, NEW x \in Stream
       PROVE  Earlier[m + 1][x] = IF x = Messages[m].stream /\ Messages[m].ordered
                                  THEN Earlier[m][x] + 1 ELSE Earlier[m][x]
  <2>1. m \in 1 .. n + 1
    BY <1>1
  <2>2. Earlier[m] \in S
    BY <1>11, <2>1
  <2> QED  BY <1>2, <1>10, <2>2
<1> QED  BY <1>1, <1>9, <1>11, <1>12 DEF n, zero, S

LEMMA SendGood ==
  ASSUME NEW G, NEW Q \in Nat, NEW s \in Good(G, Q), s.given < Len(Messages), s.given < Q
  PROVE  Send(s) \in Good(G, Q)
<1> DEFINE m == s.given + 1
           z == Messages[m]
           n == Len(z.sizes)
           seq == IF z.ordered THEN s.ssn[z.stream] ELSE 0
           new == [i \in 1 .. n |-> [tsn |-> Tsn!Plus(s.localTsn, i - 1), msg |-> m, part |-> i, seq |-> seq]]
           l == Tsn!Plus(s.localTsn, n)
           v == IF z.ordered THEN Ssn!Plus(s.ssn[z.stream], 1) ELSE s.ssn[z.stream]
           r == [s.ssn EXCEPT ![z.stream] = v]
           o == s.outbound \o new
           t == [s EXCEPT !.given = m, !.localTsn = l, !.outbound = o, !.ssn = r]
<1>1. /\ s \in SenderState(G, Q) /\ s.sent \in Seq(Entry) /\ s.outbound \in Seq(Fragment)
      /\ InOrder(s) /\ Patient(s) /\ AllThere(G, s) /\ s.given \in 0 .. Len(Messages)
      /\ s.ssn \in [Stream -> Int]
  BY DEF Good, SenderState
<1>2. /\ m \in Message /\ m \in 1 .. Len(Messages) + 1 /\ m + 1 \in 1 .. Len(Messages) + 1
      /\ m \in 0 .. Len(Messages) /\ \A k \in 0 .. s.given : k < m /\ Message = 1 .. Len(Messages)
      /\ \A k \in 1 .. m : k \in 1 .. s.given \/ k = m
  BY SMTT(30), <1>1, Numbers
<1>3. /\ z.stream \in Stream /\ z.ordered \in BOOLEAN /\ n \in Nat \ {0} /\ Parts(m) = 1 .. n
  BY <1>2, MessageIs
<1> HIDE DEF m
<1>4. Before[m] \in Nat /\ Before[m + 1] = Before[m] + n
  BY <1>2, BeforeIs
<1>5. s.localTsn = Nth(Before[m] + 1)
  BY <1>1 DEF InOrder, m
<1>6. r \in [Stream -> Int]
  <2>1. s.ssn[z.stream] \in Int
    BY <1>1, <1>3
  <2>2. Ssn!Plus(s.ssn[z.stream], 1) \in Int
    BY <2>1, Numbers DEF Ssn!Plus
  <2>3. v \in Int
    BY <2>1, <2>2
  <2> HIDE DEF v, z
  <2> QED  BY <1>1, <2>3
<1>7. seq \in Int
  BY <1>1, <1>3
<1>7a. seq = Turn(m) /\ r = [x \in Stream |-> Earlier[m + 1][x] % SsnModulo]
  <2> DEFINE a == Earlier[m]
             b == Earlier[m + 1]
  <2>1. /\ a \in [Stream -> Nat] /\ b \in [Stream -> Nat]
        /\ \A x \in Stream : b[x] = IF x = z.stream /\ z.ordered THEN a[x] + 1 ELSE a[x]
    BY <1>2, EarlierIs
  <2>2. s.ssn = [x \in Stream |-> a[x] % SsnModulo]
    BY <1>1 DEF InOrder, m
  <2> HIDE DEF a, b
  <2>3. seq = Turn(m)
    BY <1>3, <2>2 DEF Turn, seq, a
  <2>4. ASSUME NEW x \in Stream PROVE r[x] = b[x] % SsnModulo
    <3>1. CASE x = z.stream /\ z.ordered
      <4> DEFINE c == a[x]
      <4>1. c \in Nat /\ 1 \in Int /\ c \in Int
        BY <2>1
      <4>2. r[x] = ((c % SsnModulo) + 1) % SsnModulo
        BY <1>1, <2>2, <3>1 DEF r, Ssn!Plus
      <4>3. b[x] = c + 1
        BY <2>1, <3>1
      <4> HIDE DEF c
      <4>4. ((c % SsnModulo) + 1) % SsnModulo = (c + 1) % SsnModulo
        BY <4>1, Numbers, ModAdd, Zenon
      <4> QED  BY <4>2, <4>3, <4>4
    <3>2. CASE ~(x = z.stream /\ z.ordered)
      <4>1. r[x] = s.ssn[x]
        BY <1>1, <3>2 DEF r
      <4> QED  BY <2>1, <2>2, <3>2, <4>1
    <3> QED  BY <3>1, <3>2
  <2>5. r = [x \in Stream |-> r[x]]
    BY <1>1 DEF r
  <2> HIDE DEF r
  <2>6. r = [x \in Stream |-> b[x] % SsnModulo]
    BY <2>4, <2>5
  <2> QED  BY <2>3, <2>6 DEF b
<1> HIDE DEF seq, r
<1>8. l = Nth(Before[m + 1] + 1) /\ l \in Int
  <2> HIDE DEF n
  <2>1. Before[m] + 1 \in Nat /\ Before[m] + 1 + n = Before[m + 1] + 1 /\ Before[m + 1] + 1 \in Nat
    BY SMTT(30), <1>3, <1>4
  <2>2. Tsn!Plus(Nth(Before[m] + 1), n) = Nth(Before[m] + 1 + n)
    BY <1>3, <2>1, NthMore
  <2> QED  BY ZenonT(40), <1>5, <2>1, <2>2, NthMore
<1>9. ASSUME NEW i \in 1 .. n
      PROVE  new[i] \in Fragment /\ new[i].msg = m /\ new[i].part = i /\ Rank(new[i]) = Before[m] + i
  <2>1. i \in Nat /\ i - 1 \in Nat /\ Before[m] + 1 \in Nat /\ Before[m] + 1 + (i - 1) = Before[m] + i
        /\ Before[m] + i \in Nat
    <3> DEFINE b == Before[m]
    <3>1. b \in Nat /\ n \in Nat /\ i \in Nat /\ 1 <= i
      BY <1>3, <1>4
    <3> HIDE DEF n, b
    <3>2. i - 1 \in Nat /\ b + 1 \in Nat /\ b + 1 + (i - 1) = b + i /\ b + i \in Nat
      BY <3>1
    <3> QED  BY <3>1, <3>2 DEF b
  <2>2. Tsn!Plus(s.localTsn, i - 1) = Nth(Before[m] + i)
    BY ZenonT(40), <1>5, <2>1, NthMore
  <2>3. Nth(Before[m] + i) \in Int
    BY <2>1, NthMore
  <2>4. new[i] = [tsn |-> Nth(Before[m] + i), msg |-> m, part |-> i, seq |-> seq]
    BY <2>2
  <2> HIDE DEF new, n
  <2> QED  BY <1>2, <1>3, <1>7, <1>7a, <2>1, <2>3, <2>4 DEF Fragment, Rank
<1>10. new \in Seq(Fragment) /\ Len(new) = n
  <2>1. new = [i \in 1 .. n |-> new[i]] /\ n \in Nat
    BY <1>3
  <2> HIDE DEF new, n
  <2>2. [i \in 1 .. n |-> new[i]] \in Seq(Fragment)
    BY <1>9, <2>1
  <2>3. Len([i \in 1 .. n |-> new[i]]) = n
    BY <2>1
  <2> QED  BY <2>1, <2>2, <2>3
<1> DEFINE k == Len(s.outbound)
<1>11. /\ o \in Seq(Fragment) /\ k \in Nat /\ DOMAIN o = 1 .. k + n /\ DOMAIN s.outbound = 1 .. k
       /\ \A i \in 1 .. k : o[i] = s.outbound[i]
       /\ \A i \in k + 1 .. k + n : o[i] = new[i - k] /\ i - k \in 1 .. n
       /\ \A i \in 1 .. n : o[i + k] = new[i] /\ i + k \in 1 .. k + n
       /\ \A i \in 1 .. k + n : i \in 1 .. k \/ i \in k + 1 .. k + n
  <2> DEFINE a == s.outbound
  <2>1. a \in Seq(Fragment) /\ new \in Seq(Fragment) /\ Len(new) = n
    BY <1>1, <1>10
  <2> HIDE DEF new, n, a
  <2>2. /\ Len(a) \in Nat /\ DOMAIN a = 1 .. Len(a) /\ n \in Nat /\ DOMAIN new = 1 .. n
    BY <2>1
  <2>3. a \o new \in Seq(Fragment) /\ DOMAIN (a \o new) = 1 .. Len(a) + n
    BY <2>1
  <2>4. \A i \in 1 .. Len(a) : (a \o new)[i] = a[i]
    BY <2>1, <2>2
  <2>5. \A i \in Len(a) + 1 .. Len(a) + n : (a \o new)[i] = new[i - Len(a)] /\ i - Len(a) \in 1 .. n
    BY <2>1, <2>2
  <2>6. \A i \in 1 .. n : (a \o new)[i + Len(a)] = new[i] /\ i + Len(a) \in 1 .. Len(a) + n
    BY <2>1, <2>2
  <2>7. \A i \in 1 .. Len(a) + n : i \in 1 .. Len(a) \/ i \in Len(a) + 1 .. Len(a) + n
    BY <2>2
  <2> QED  BY <2>2, <2>3, <2>4, <2>5, <2>6, <2>7 DEF a
<1> HIDE DEF o, new, l, n, k
<1>12. /\ t \in SenderState(G, Q) /\ t.given = m /\ t.localTsn = l /\ t.ssn = r
       /\ t.outbound = o /\ t.sent = s.sent
  <2>1. s \in SenderState(G, Q) /\ m \in 0 .. Len(Messages) /\ l \in Int /\ o \in Seq(Fragment) /\ r \in [Stream -> Int]
    BY <1>1, <1>2, <1>6, <1>8, <1>11
  <2>2. t = [s EXCEPT !.given = m, !.localTsn = l, !.outbound = o, !.ssn = r]
    OBVIOUS
  <2> HIDE DEF t
  <2> QED  BY <2>1, <2>2 DEF SenderState
<1>13. Send(s) = IF t.t3 THEN t ELSE Transmit(t)
  <2>1. t = [s EXCEPT !.given = m, !.localTsn = Tsn!Plus(@, n), !.outbound = @ \o new,
                      !.ssn[z.stream] = IF z.ordered THEN Ssn!Plus(@, 1) ELSE @]
    BY <1>1 DEF SenderState, l, o, r
  <2> HIDE DEF t
  <2> QED  BY <2>1 DEF Send, m, n, new, seq
<1> HIDE DEF t
<1>14. \A c \in Fragment : c.msg <= s.given => Rank(c) <= Before[m]
  <2> SUFFICES ASSUME NEW c \in Fragment, c.msg <= s.given PROVE Rank(c) <= Before[m]
    OBVIOUS
  <2>1. c.msg \in Message /\ c.part \in Parts(c.msg) /\ c.msg < m
    <3>1. c.msg \in Message /\ c.part \in Parts(c.msg)
      BY RankIs
    <3>2. c.msg \in 0 .. s.given
      BY <1>1, <1>2, <3>1, Numbers
    <3> QED  BY <1>2, <3>1, <3>2
  <2> QED  BY <1>2, <2>1, PartsOrder DEF Rank
<1>15. \A c \in Fragment : Rank(c) \in Nat
  BY RankIs
<1>16. \A i \in 1 .. k + n : \/ i \in 1 .. k /\ o[i] = s.outbound[i] /\ o[i] \in Fragment /\ o[i].msg <= s.given
                             \/ i - k \in 1 .. n /\ o[i].msg = m /\ Rank(o[i]) = Before[m] + (i - k)
  <2> SUFFICES ASSUME NEW i \in 1 .. k + n
               PROVE  \/ i \in 1 .. k /\ o[i] = s.outbound[i] /\ o[i] \in Fragment /\ o[i].msg <= s.given
                      \/ i - k \in 1 .. n /\ o[i].msg = m /\ Rank(o[i]) = Before[m] + (i - k)
    OBVIOUS
  <2>1. CASE i \in 1 .. k
    <3>1. i \in DOMAIN s.outbound /\ o[i] = s.outbound[i]
      BY <1>11, <2>1
    <3>2. o[i] \in Fragment
      BY <1>1, <3>1
    <3> QED  BY <1>1, <2>1, <3>1, <3>2 DEF InOrder
  <2>2. CASE i \in k + 1 .. k + n
    BY <1>9, <1>11, <2>2
  <2> QED  BY <1>11, <2>1, <2>2
<1>16a. \A c \in Fragment : c.msg <= s.given => c.msg <= m
  <2> SUFFICES ASSUME NEW c \in Fragment, c.msg <= s.given PROVE c.msg <= m
    OBVIOUS
  <2>1. c.msg \in Nat /\ s.given \in Nat
    BY <1>1, RankIs, Numbers
  <2> QED  BY <2>1 DEF m
<1>16b. \A i \in DOMAIN s.sent : s.sent[i].chunk \in Fragment
  <2>1. \A i \in DOMAIN s.sent : s.sent[i] \in Entry
    BY <1>1
  <2> QED  BY <2>1 DEF Entry
<1>17. InOrder(t)
  <2>1. \A i \in DOMAIN o : o[i].msg <= m
    BY <1>2, <1>11, <1>16, <1>16a
  <2>2. \A i, j \in DOMAIN o : i < j => Rank(o[i]) < Rank(o[j])
    <3> SUFFICES ASSUME NEW i \in 1 .. k + n, NEW j \in 1 .. k + n, i < j PROVE Rank(o[i]) < Rank(o[j])
      BY <1>11
    <3>1. CASE i \in 1 .. k /\ j \in 1 .. k
      BY <1>1, <1>11, <3>1 DEF InOrder
    <3>2. CASE i \in 1 .. k /\ j - k \in 1 .. n
      <4>1. Rank(o[i]) <= Before[m] /\ Rank(o[i]) \in Nat
        <5>1. i \in 1 .. k + n /\ ~(i - k \in 1 .. n)
          BY <1>3, <1>11, <3>2
        <5>2. o[i] \in Fragment /\ o[i].msg <= s.given
          BY <1>16, <5>1
        <5> QED  BY <1>14, <1>15, <5>2
      <4>2. Rank(o[j]) = Before[m] + (j - k)
        BY <1>11, <1>16, <3>2
      <4> QED  BY <1>4, <1>11, <3>2, <4>1, <4>2
    <3>3. CASE i - k \in 1 .. n /\ j - k \in 1 .. n
      <4>1. Rank(o[i]) = Before[m] + (i - k) /\ Rank(o[j]) = Before[m] + (j - k)
        BY <1>11, <1>16, <3>3
      <4> QED  BY <1>4, <1>11, <3>3, <4>1
    <3> QED  BY <1>11, <1>16, <3>1, <3>2, <3>3
  <2>3. \A i \in DOMAIN s.sent, j \in DOMAIN o : Rank(s.sent[i].chunk) < Rank(o[j])
    <3> SUFFICES ASSUME NEW i \in DOMAIN s.sent, NEW j \in 1 .. k + n
                 PROVE  Rank(s.sent[i].chunk) < Rank(o[j])
      BY <1>11
    <3>1. CASE j \in 1 .. k
      BY <1>1, <1>11, <3>1 DEF InOrder
    <3>2. CASE j - k \in 1 .. n
      <4>1. s.sent[i].chunk \in Fragment /\ s.sent[i].chunk.msg <= s.given
        BY <1>1, <1>16b DEF InOrder
      <4>2. Rank(s.sent[i].chunk) <= Before[m] /\ Rank(s.sent[i].chunk) \in Nat
        BY <1>14, <1>15, <4>1
      <4>3. Rank(o[j]) = Before[m] + (j - k)
        BY <1>11, <1>16, <3>2
      <4> QED  BY <1>4, <3>2, <4>2, <4>3
    <3> QED  BY <1>16, <3>1, <3>2
  <2>4. \A i \in DOMAIN s.sent : s.sent[i].chunk.msg <= m
    <3> SUFFICES ASSUME NEW i \in DOMAIN s.sent PROVE s.sent[i].chunk.msg <= m
      OBVIOUS
    <3>1. s.sent[i].chunk \in Fragment /\ s.sent[i].chunk.msg <= s.given
      BY <1>1, <1>16b DEF InOrder
    <3> QED  BY <1>16a, <3>1
  <2>5. \A i, j \in DOMAIN s.sent : i < j => Rank(s.sent[i].chunk) < Rank(s.sent[j].chunk)
    BY <1>1 DEF InOrder
  <2> QED  BY <1>7a, <1>8, <1>12, <2>1, <2>2, <2>3, <2>4, <2>5 DEF InOrder
<1>18. Patient(t)
  BY <1>1, <1>12 DEF Patient
<1>19. KeptBy(s) \subseteq KeptBy(t) /\ \A i \in 1 .. n : new[i] \in KeptBy(t)
  <2>1. Range(s.outbound) \subseteq Range(o)
    <3>1. \A i \in 1 .. k : i \in 1 .. k + n
      BY <1>3, <1>11
    <3> QED  BY <1>11, <3>1 DEF Range
  <2>2. \A i \in 1 .. n : new[i] \in Range(o)
    BY <1>11 DEF Range
  <2> QED  BY <1>12, <2>1, <2>2 DEF KeptBy
<1>20. AllThere(G, t)
  <2> SUFFICES ASSUME NEW j \in 1 .. m, Unlimited(j), NEW i \in Parts(j)
               PROVE  Has(KeptBy(t) \cup G, j, i)
    BY <1>12 DEF AllThere
  <2>1. CASE j \in 1 .. s.given
    BY <1>1, <1>19, <2>1 DEF AllThere, Has
  <2>2. CASE j = m
    BY <1>3, <1>9, <1>19, <2>2 DEF Has
  <2> QED  BY <1>2, <2>1, <2>2
<1>21. t \in Good(G, Q)
  <2>1. m <= Q
    BY <1>1 DEF m
  <2> QED  BY <1>12, <1>17, <1>18, <1>20, <2>1 DEF Good
<1> QED  BY <1>13, <1>21, TransmitGood

(* What may be flushed has been given by the application.                  *)
LEMMA FlushGood ==
  ASSUME NEW G, NEW Q \in 0 .. Len(Messages), NEW b \in Good(G, Q)
  PROVE  Flush(b, Q) \in Good(G, Q)
<1> DEFINE s == Positions(Messages)
           S == Good(G, Q)
           E == Nat
           Op(t, i) == IF t.given < Q /\ t.outbound = <<>> THEN Send(t) ELSE t
           f == [y \in S \X E |-> Op(y[1], y[2])]
           Fold(it) == it = [d \in SUBSET (DOMAIN s) |->
             IF d = {} THEN b ELSE Op(it[d \ {Max(d)}], s[Max(d)])]
           n == Len(s)
           jt == CHOOSE it : Fold(it)
<1>0. s \in Seq(E) /\ b \in S
  BY SctpAssumption, PositionsAre
<1>1. Flush(b, Q) = jt[DOMAIN s]
  BY DEF Flush, FoldLeft, MapThenFoldSet
<1>2. ASSUME NEW t \in S, NEW i \in E PROVE Op(t, i) \in S
  <2>0. Q \in Nat /\ Q <= Len(Messages)
    BY Numbers
  <2>1. t.given < Q => t.given < Len(Messages)
    BY <1>2, <2>0, QueuesAre, Numbers
  <2> QED  BY <1>2, <2>0, <2>1, SendGood
<1>3. f \in [S \X E -> S] /\ \A t \in S, i \in E : f[<<t, i>>] = Op(t, i)
  BY <1>2
<1> HIDE DEF Op, f, s, S, E
<1>4. PICK it : it \in FoldTables(S, f, b, s)
  <2>1. FoldTables(S, f, b, s) # {}
    BY <1>0, <1>3, FoldExists
  <2> QED  BY <2>1
<1>5. Fold(it)
  <2>1. \A d \in SUBSET (1 .. n) :
          it[d] = IF d = {} THEN b ELSE Op(it[d \ {Max(d)}], s[Max(d)])
    BY <1>0, <1>3, <1>4, FoldIndices DEF FoldTables
  <2>2. it \in [SUBSET (DOMAIN s) -> S]
    BY <1>0, <1>4, FoldIndices DEF FoldTables
  <2>3. DOMAIN s = 1 .. n
    BY <1>0, FoldIndices
  <2> HIDE DEF n
  <2> QED  BY <2>1, <2>2, <2>3
<1>6. Fold(jt)
  BY <1>5
<1> HIDE DEF jt
<1>7. jt[{}] = b
  BY <1>0, <1>6, FoldIndices
<1>8. ASSUME NEW k \in 0 .. n - 1, jt[1 .. k] \in S  PROVE jt[1 .. k + 1] \in S
  <2>1. /\ 1 .. k + 1 \in SUBSET (DOMAIN s) /\ 1 .. k + 1 # {} /\ s[k + 1] \in E
        /\ Max(1 .. k + 1) = k + 1 /\ (1 .. k + 1) \ {k + 1} = 1 .. k
    BY <1>0, FoldIndices
  <2>2. jt[1 .. k + 1] = Op(jt[1 .. k], s[k + 1])
    BY <1>6, <2>1
  <2> QED  BY <1>2, <1>8, <2>1, <2>2
<1>9. jt[DOMAIN s] \in S
  BY <1>0, <1>7, <1>8, FoldEnds
<1> QED  BY <1>1, <1>9 DEF S

(* What is noted of one chunk, and of what is in flight.                   *)
LEMMA NoteGood ==
  ASSUME NEW G, NEW Q \in Nat, NEW s \in Good(G, Q), NEW i \in 1 .. Len(s.sent), NEW f \in Int, NEW y \in Entry,
         y.chunk = s.sent[i].chunk, y.abandoned = s.sent[i].abandoned
  PROVE  /\ [s EXCEPT !.flight = f, !.sent = [s.sent EXCEPT ![i] = y]] \in Good(G, Q)
         /\ Len([s EXCEPT !.flight = f, !.sent = [s.sent EXCEPT ![i] = y]].sent) = Len(s.sent)
<1>a. SUFFICES ASSUME NEW t, t = [s EXCEPT !.flight = f, !.sent = [s.sent EXCEPT ![i] = y]]
               PROVE  t \in Good(G, Q) /\ Len(t.sent) = Len(s.sent)
  OBVIOUS
<1> DEFINE q == [s.sent EXCEPT ![i] = y]
<1>0. t = [s EXCEPT !.flight = f, !.sent = q]
  BY <1>a
<1>1. s \in SenderState(G, Q) /\ s.sent \in Seq(Entry)
  BY DEF Good, SenderState
<1>2. /\ q \in Seq(Entry) /\ Len(q) = Len(s.sent)
      /\ \A j \in DOMAIN s.sent : q[j] = IF j = i THEN y ELSE s.sent[j]
  BY <1>1
<1> HIDE DEF q
<1>3. /\ t \in SenderState(G, Q) /\ t.sent = q /\ t.given = s.given /\ t.localTsn = s.localTsn /\ t.ssn = s.ssn
      /\ t.outbound = s.outbound
  BY <1>0, <1>1, <1>2 DEF SenderState
<1>4. t \in Good(G, Q)
  <2>1. \A j \in DOMAIN s.sent :
          /\ t.sent[j].chunk = s.sent[j].chunk
          /\ t.sent[j].abandoned => s.sent[j].abandoned \/ ~Unlimited(s.sent[j].chunk.msg)
    BY <1>2, <1>3
  <2>2. Len(t.sent) = Len(s.sent)
    BY <1>2, <1>3
  <2> QED  BY <1>3, <2>1, <2>2, SameQueues, SMTT(60)
<1> QED  BY <1>2, <1>3, <1>4

(* What leaves the queue in front is not missed.                           *)
LEMMA DropGood ==
  ASSUME NEW G, NEW Q \in Nat, NEW s \in Good(G, Q), NEW n \in 0 .. Len(s.sent), NEW t \in SenderState(G, Q),
         t.given = s.given, t.localTsn = s.localTsn, t.ssn = s.ssn, t.outbound = s.outbound,
         t.sent = Drop(s.sent, n),
         \A i \in 1 .. n : LET c == s.sent[i].chunk IN Unlimited(c.msg) => Has(G, c.msg, c.part)
  PROVE  t \in Good(G, Q)
<1>1. /\ s.sent \in Seq(Entry) /\ InOrder(s) /\ Patient(s) /\ AllThere(G, s)
      /\ s.outbound \in Seq(Fragment)
  BY DEF Good, SenderState
<1> DEFINE q == Drop(s.sent, n)
           l == Len(s.sent)
<1>2. /\ l \in Nat /\ DOMAIN s.sent = 1 .. l /\ DOMAIN q = 1 .. l - n /\ n \in Nat
      /\ \A j \in 1 .. l - n : q[j] = s.sent[j + n] /\ j + n \in 1 .. l /\ j \in Nat
      /\ \A j \in 1 .. l : j \in 1 .. n \/ (j - n \in 1 .. l - n /\ s.sent[j] = q[j - n])
  <2> DEFINE a == s.sent
  <2>1. a \in Seq(Entry) /\ n \in 0 .. Len(a)
    BY <1>1
  <2> HIDE DEF a
  <2>2. Len(a) \in Nat /\ DOMAIN a = 1 .. Len(a) /\ n \in Nat
    BY <2>1
  <2>3. /\ DOMAIN Drop(a, n) = 1 .. Len(a) - n
        /\ \A j \in 1 .. Len(a) - n : Drop(a, n)[j] = a[j + n]
    BY <2>1, <2>2 DEF Drop
  <2>4. /\ \A j \in 1 .. Len(a) - n : j + n \in 1 .. Len(a) /\ j \in Nat
        /\ \A j \in 1 .. Len(a) : j \in 1 .. n \/ (j - n \in 1 .. Len(a) - n /\ (j - n) + n = j)
    BY <2>2
  <2> QED  BY <2>2, <2>3, <2>4 DEF a
<1> HIDE DEF q, l
<1>3. t.sent = q
  BY DEF q
<1>4. InOrder(t)
  <2>1. \A i, j \in 1 .. l - n : i < j => i + n < j + n
    BY <1>2
  <2>2. \A i, j \in DOMAIN q : i < j => Rank(q[i].chunk) < Rank(q[j].chunk)
    <3> SUFFICES ASSUME NEW i \in 1 .. l - n, NEW j \in 1 .. l - n, i < j
                 PROVE  Rank(q[i].chunk) < Rank(q[j].chunk)
      BY <1>2
    <3>1. /\ i + n \in DOMAIN s.sent /\ j + n \in DOMAIN s.sent /\ i + n < j + n
          /\ q[i] = s.sent[i + n] /\ q[j] = s.sent[j + n]
      BY <1>2, <2>1
    <3> QED  BY <1>1, <3>1 DEF InOrder
  <2>3. \A i \in DOMAIN q : /\ q[i].chunk.msg <= s.given
                            /\ \A j \in DOMAIN s.outbound : Rank(q[i].chunk) < Rank(s.outbound[j])
    <3> SUFFICES ASSUME NEW i \in 1 .. l - n
                 PROVE  /\ q[i].chunk.msg <= s.given
                        /\ \A j \in DOMAIN s.outbound : Rank(q[i].chunk) < Rank(s.outbound[j])
      BY <1>2
    <3>1. i + n \in DOMAIN s.sent /\ q[i] = s.sent[i + n]
      BY <1>2
    <3> QED  BY <1>1, <3>1 DEF InOrder
  <2> QED  BY <1>1, <1>3, <2>2, <2>3 DEF InOrder
<1>5. Patient(t)
  BY <1>1, <1>2, <1>3 DEF Patient
<1>6. AllThere(G, t)
  <2> SUFFICES ASSUME NEW m \in 1 .. s.given, Unlimited(m), NEW i \in Parts(m)
               PROVE  Has(KeptBy(t) \cup G, m, i)
    BY DEF AllThere
  <2>1. PICK c \in KeptBy(s) \cup G : c.msg = m /\ c.part = i
    BY <1>1 DEF AllThere, Has
  <2>2. CASE c \in G \/ c \in Range(s.outbound)
    BY <2>1, <2>2 DEF Has, KeptBy
  <2>3. CASE \E j \in 1 .. n : c = s.sent[j].chunk
    <3>1. Has(G, m, i)
      BY <2>1, <2>3
    <3> QED  BY <3>1 DEF Has
  <2>4. CASE \E j \in 1 .. l - n : c = q[j].chunk
    <3>1. \A j \in 1 .. l - n : q[j] \in Range(q)
      BY <1>2 DEF Range
    <3>2. c \in KeptBy(t)
      BY <1>3, <2>4, <3>1 DEF KeptBy
    <3> QED  BY <2>1, <3>2 DEF Has
  <2>5. c \in G \/ c \in Range(s.outbound) \/ \E j \in 1 .. l : c = s.sent[j].chunk
    BY <1>2 DEF KeptBy, Range
  <2> QED  BY <1>2, <2>2, <2>3, <2>4, <2>5
<1> QED  BY <1>4, <1>5, <1>6 DEF Good

(* There is a number of leading elements.                                  *)
LEMMA LeadingIs ==
  ASSUME NEW n \in Nat, NEW T
  PROVE  \E k \in 0 .. n : (\A i \in 1 .. k : i \in T) /\ (k < n => k + 1 \notin T)
<1> DEFINE B == {k \in 0 .. n : k < n => k + 1 \notin T}
<1>1. B \subseteq Nat /\ n \in B
  OBVIOUS
<1>2. PICK k \in B : \A y \in B : k <= y
  <2>1. B # {}
    BY <1>1
  <2> HIDE DEF B
  <2> QED  BY <1>1, <2>1, LeastNatural
<1>3. \A i \in 1 .. k : i \in T
  <2> SUFFICES ASSUME NEW i \in 1 .. k, i \notin T PROVE FALSE
    OBVIOUS
  <2>1. i - 1 \in B /\ i - 1 < k
    BY <1>1
  <2>2. k <= i - 1
    BY <1>2, <2>1
  <2> QED  BY <1>1, <2>1, <2>2
<1> QED  BY <1>1, <1>3

-----------------------------------------------------------------------------
LEMMA AgainGood ==
  ASSUME NEW G, NEW Q \in Nat, NEW s \in Good(G, Q), NEW i \in 1 .. Len(s.sent)
  PROVE  /\ [s EXCEPT !.sent[i].retransmit = TRUE] \in Good(G, Q)
         /\ Len([s EXCEPT !.sent[i].retransmit = TRUE].sent) = Len(s.sent)
<1> DEFINE x == s.sent[i]
           y == [x EXCEPT !.retransmit = TRUE]
<1>1. s \in SenderState(G, Q) /\ s.sent \in Seq(Entry) /\ s.flight \in Int
  BY QueuesAre
<1>2. x \in Entry
  BY <1>1
<1>3. y \in Entry /\ y.chunk = x.chunk /\ y.abandoned = x.abandoned
  <2> HIDE DEF x
  <2> QED  BY <1>2 DEF Entry
<1>1a. s.flight \in Int
  BY <1>1
<1> HIDE DEF y
<1>4. [s EXCEPT !.sent[i].retransmit = TRUE]
        = [s EXCEPT !.flight = s.flight, !.sent = [s.sent EXCEPT ![i] = y]]
  BY <1>1 DEF SenderState, y
<1>5. /\ [s EXCEPT !.flight = s.flight, !.sent = [s.sent EXCEPT ![i] = y]] \in Good(G, Q)
      /\ Len([s EXCEPT !.flight = s.flight, !.sent = [s.sent EXCEPT ![i] = y]].sent) = Len(s.sent)
  <2>1. ASSUME NEW z \in Entry, z.chunk = s.sent[i].chunk, z.abandoned = s.sent[i].abandoned
        PROVE  [s EXCEPT !.flight = s.flight, !.sent = [s.sent EXCEPT ![i] = z]] \in Good(G, Q)
    BY <1>1a, <2>1, NoteGood
  <2> HIDE DEF x
  <2>2. [s EXCEPT !.flight = s.flight, !.sent = [s.sent EXCEPT ![i] = y]] \in Good(G, Q)
    BY <1>3, <2>1 DEF x
  <2>3. [s EXCEPT !.flight = s.flight, !.sent = [s.sent EXCEPT ![i] = y]].sent
          = [s.sent EXCEPT ![i] = y]
    BY <1>1 DEF SenderState
  <2> QED  BY <1>1, <2>2, <2>3
<1> QED  BY <1>4, <1>5

(* What is given up is limited: by its number of transmissions or by time. *)
Limited(A) == \A m \in A : m \in Message => ~Unlimited(m)

LEMMA AbandonGood ==
  ASSUME NEW G, NEW Q \in Nat, NEW s \in Good(G, Q), NEW i \in 1 .. Len(s.sent), NEW A, Limited(A)
  PROVE  /\ AbandonOrRetransmit(s, i, A) \in Good(G, Q)
         /\ Len(AbandonOrRetransmit(s, i, A).sent) = Len(s.sent)
<1> DEFINE x == s.sent[i]
           l == Len(s.sent)
<1>1. s \in SenderState(G, Q) /\ s.sent \in Seq(Entry) /\ Patient(s)
  BY DEF Good, SenderState
<1>2. l \in Nat /\ DOMAIN s.sent = 1 .. l /\ x \in Entry /\ \A j \in 1 .. l : s.sent[j] \in Entry
  BY <1>1
<1>3. CASE Abandons(x, A)
  <2>1. x.chunk.msg \in Message
    BY <1>2, RankIs DEF Entry
  <2>2. ~Unlimited(x.chunk.msg)
    BY <1>1, <1>2, <1>3, <2>1 DEF Abandons, Unlimited, Patient, Limited
  <2> DEFINE E(j) == IF s.sent[j].chunk.msg = x.chunk.msg
                     THEN [s.sent[j] EXCEPT !.abandoned = TRUE, !.retransmit = FALSE]
                     ELSE s.sent[j]
             q == [j \in 1 .. l |-> E(j)]
             t == [s EXCEPT !.sent = q]
  <2>3. ASSUME NEW j \in 1 .. l
        PROVE  /\ E(j) \in Entry /\ E(j).chunk = s.sent[j].chunk
               /\ E(j).abandoned => s.sent[j].abandoned \/ ~Unlimited(s.sent[j].chunk.msg)
    <3>1. \A e \in Entry : LET v == [e EXCEPT !.abandoned = TRUE, !.retransmit = FALSE]
                           IN v \in Entry /\ v.chunk = e.chunk
      BY DEF Entry
    <3>2. s.sent[j] \in Entry
      BY <1>2
    <3> HIDE DEF x
    <3>3. CASE s.sent[j].chunk.msg = x.chunk.msg
      BY <2>2, <3>1, <3>2, <3>3
    <3>4. CASE s.sent[j].chunk.msg # x.chunk.msg
      BY <3>2, <3>4
    <3> QED  BY <3>3, <3>4
  <2> HIDE DEF E
  <2>4. q \in Seq(Entry) /\ Len(q) = l /\ \A j \in 1 .. l : q[j] = E(j)
    BY <1>2, <2>3
  <2> HIDE DEF q
  <2>5. /\ t \in SenderState(G, Q) /\ t.sent = q /\ t.given = s.given /\ t.localTsn = s.localTsn /\ t.ssn = s.ssn
        /\ t.outbound = s.outbound
    BY <1>1, <2>4 DEF SenderState
  <2> HIDE DEF t
  <2>6. t \in Good(G, Q)
    BY SMTT(30), <1>2, <2>3, <2>4, <2>5, SameQueues
  <2>7. AbandonOrRetransmit(s, i, A) = IF x.abandoned THEN s ELSE t
    <3>1. t = [s EXCEPT !.sent = [j \in DOMAIN @ |-> IF @[j].chunk.msg = @[i].chunk.msg
                                  THEN [@[j] EXCEPT !.abandoned = TRUE, !.retransmit = FALSE]
                                  ELSE @[j]]]
      BY <1>1, <1>2 DEF t, q, E, SenderState
    <3> QED  BY <1>3, <3>1 DEF AbandonOrRetransmit, Abandon
  <2> QED  BY <2>4, <2>5, <2>6, <2>7
<1>4. CASE ~Abandons(x, A)
  <2>1. AbandonOrRetransmit(s, i, A) = [s EXCEPT !.sent[i].retransmit = TRUE]
    BY <1>4 DEF AbandonOrRetransmit
  <2> QED  BY <2>1, AgainGood
<1> QED  BY <1>3, <1>4

-----------------------------------------------------------------------------
LEMMA AdvanceGood ==
  ASSUME NEW G, NEW Q \in Nat, NEW s \in Good(G, Q)
  PROVE  UpdateAdvancedPeerAckPoint(s) \in Good(G, Q)
<1> DEFINE q == s.sent
           l == Len(q)
           n == Leading(q, LAMBDA x : x.abandoned)
           gone == {i \in 1 .. n : Ordered(q[i].chunk)}
           on(x) == {i \in gone : StreamOf(q[i].chunk) = x}
           latest(x) == CHOOSE i \in on(x) : \A j \in on(x) : j <= i
           X == {y \in Stream : on(y) # {}}
           v == [x \in X |-> q[latest(x)].chunk.seq]
           f == [type |-> "forward", tsn |-> q[n].chunk.tsn, streams |-> v]
           t == [s EXCEPT !.sent = Drop(q, n), !.forward = {f}]
<1>1. /\ s \in SenderState(G, Q) /\ q \in Seq(Entry) /\ InOrder(s) /\ Patient(s) /\ AllThere(G, s)
      /\ s.outbound \in Seq(Fragment) /\ s.given \in 0 .. Len(Messages)
  BY DEF Good, SenderState
<1>2. l \in Nat /\ DOMAIN q = 1 .. l /\ \A i \in 1 .. l : q[i] \in Entry /\ q[i].chunk \in Fragment
  <2>1. l \in Nat /\ DOMAIN q = 1 .. l /\ \A i \in 1 .. l : q[i] \in Entry
    BY <1>1
  <2> QED  BY <2>1 DEF Entry
<1>3. n \in 0 .. l /\ \A i \in 1 .. n : q[i].abandoned
  <2> DEFINE T == {i \in 1 .. l : q[i].abandoned}
  <2>1. \E k \in 0 .. l : (\A i \in 1 .. k : i \in T) /\ (k < l => k + 1 \notin T)
    <3> HIDE DEF T, l
    <3> QED  BY <1>2, LeadingIs
  <2>2. \E k \in 0 .. l : (\A i \in 1 .. k : q[i].abandoned) /\ (k < l => ~q[k + 1].abandoned)
    <3>1. PICK k \in 0 .. l : (\A i \in 1 .. k : i \in T) /\ (k < l => k + 1 \notin T)
      BY <2>1
    <3>2. k < l => k + 1 \in 1 .. l
      BY <1>2
    <3> QED  BY <3>1, <3>2
  <2>3. n = CHOOSE k \in 0 .. l : (\A i \in 1 .. k : q[i].abandoned) /\ (k < l => ~q[k + 1].abandoned)
    BY DEF Leading
  <2> HIDE DEF n, q, l
  <2> QED  BY <2>2, <2>3
<1>4. UpdateAdvancedPeerAckPoint(s) = IF n = 0 THEN s ELSE t
  BY DEF UpdateAdvancedPeerAckPoint
<1> HIDE DEF n
<1>5. SUFFICES ASSUME n # 0 PROVE t \in Good(G, Q)
  BY <1>4, Zenon
<1>6. n \in 1 .. l /\ q[n].chunk \in Fragment /\ \A i \in 1 .. n : i \in 1 .. l
  BY <1>2, <1>3, <1>5
<1>7. f \in ForwardPacket(G)
  <2> DEFINE r == Rank(q[n].chunk)
  <2>1. q[n].chunk.tsn = Nth(r) /\ r \in 1 .. Fragments
    BY <1>6, RankIs
  <2>2. Covered(G, r)
    <3> SUFFICES ASSUME NEW m \in Message, Unlimited(m), NEW i \in Parts(m), Before[m] + i <= r
                 PROVE  Has(G, m, i)
      BY DEF Covered
    <3>1. m \in 1 .. s.given
      <4> DEFINE c == q[n].chunk
      <4>1. c.msg \in Message /\ c.part \in Parts(c.msg) /\ c.msg <= s.given
        BY <1>1, <1>2, <1>6, RankIs DEF InOrder
      <4>2. m \in 1 .. Len(Messages) /\ Message = 1 .. Len(Messages) /\ Len(Messages) \in Nat
        BY Numbers
      <4>3. CASE s.given < m
        <5>1. c.msg < m /\ m \in 1 .. Len(Messages) + 1
          BY SMTT(30), <1>1, <4>1, <4>2, <4>3
        <5>2. Before[c.msg] + c.part <= Before[m]
          BY <4>1, <5>1, PartsOrder
        <5>3. r <= Before[m] /\ r \in Nat /\ Before[m] \in Nat /\ i \in Nat \ {0}
          BY <2>1, <5>2, PartsOrder DEF Rank
        <5> HIDE DEF r
        <5> QED  BY <5>3
      <4> QED  BY <1>1, <4>2, <4>3
    <3>2. PICK c \in KeptBy(s) \cup G : c.msg = m /\ c.part = i
      BY <1>1, <3>1 DEF AllThere, Has
    <3>3. Rank(c) <= r /\ r \in Nat
      BY <2>1, <3>2 DEF Rank
    <3>4. CASE c \in Range(s.outbound)
      <4>1. PICK j \in DOMAIN s.outbound : c = s.outbound[j]
        BY <3>4 DEF Range
      <4>2. r < Rank(c) /\ c \in Fragment
        BY <1>1, <1>2, <1>6, <4>1 DEF InOrder
      <4>3. Rank(c) \in Nat
        BY <4>2, RankIs
      <4> HIDE DEF r
      <4> QED  BY <3>3, <4>2, <4>3
    <3>5. CASE \E j \in 1 .. l : c = q[j].chunk
      <4>1. PICK j \in 1 .. l : c = q[j].chunk
        BY <3>5
      <4>2. j \in 1 .. n
        <5>1. CASE n < j
          <6>1. r < Rank(c) /\ c \in Fragment
            BY <1>1, <1>2, <1>6, <4>1, <5>1 DEF InOrder
          <6>2. Rank(c) \in Nat
            BY <6>1, RankIs
          <6> HIDE DEF r
          <6> QED  BY <3>3, <6>1, <6>2
        <5> QED  BY <1>2, <1>6, <5>1
      <4>3. ~Unlimited(m)
        BY <1>1, <1>2, <1>3, <1>6, <3>2, <4>1, <4>2 DEF Patient
      <4> QED  BY <4>3
    <3>6. CASE c \in G
      BY <3>2, <3>6 DEF Has
    <3>7. c \in G \/ c \in Range(s.outbound) \/ \E j \in 1 .. l : c = q[j].chunk
      BY <1>2 DEF KeptBy, Range
    <3> QED  BY <3>4, <3>5, <3>6, <3>7
  <2>4. q[n].chunk.tsn \in Int
    BY <1>6 DEF Fragment
  <2>5. v \in [X -> Int] /\ \A x \in X : GivesUp(x, v[x], r)
    <3>1. ASSUME NEW x \in X
          PROVE  q[latest(x)].chunk.seq \in Int /\ GivesUp(x, q[latest(x)].chunk.seq, r)
      <4>1. on(x) \in SUBSET (1 .. n) /\ on(x) # {}
        OBVIOUS
      <4>2. Max(on(x)) \in on(x) /\ \A y \in on(x) : y <= Max(on(x))
        <5>1. n \in Nat
          BY <1>2, <1>6
        <5> HIDE DEF on
        <5> QED  BY <4>1, <5>1, MaxIn
      <4>3. latest(x) \in on(x)
        <5> HIDE DEF on
        <5> QED  BY <4>2
      <4>4. latest(x) \in 1 .. n
        BY <4>1, <4>3
      <4>4a. Ordered(q[latest(x)].chunk) /\ StreamOf(q[latest(x)].chunk) = x
        BY <4>3, Zenon
      <4> HIDE DEF latest
      <4>5. q[latest(x)].chunk \in Fragment /\ latest(x) \in 1 .. l
        BY <1>2, <1>6, <4>4
      <4>6. ~Unlimited(q[latest(x)].chunk.msg)
        BY <1>1, <1>2, <1>3, <4>4, <4>5 DEF Patient
      <4>7. Rank(q[latest(x)].chunk) <= r
        <5>1. Rank(q[latest(x)].chunk) \in Nat /\ r \in Nat
          BY <2>1, <4>5, RankIs
        <5>2. latest(x) < n => Rank(q[latest(x)].chunk) < r
          BY <1>1, <1>2, <1>6, <4>5 DEF InOrder
        <5>3. latest(x) = n \/ latest(x) < n
          BY <1>2, <1>6, <4>4
        <5> HIDE DEF r
        <5>4. latest(x) < n => Rank(q[latest(x)].chunk) <= r
          BY <5>1, <5>2
        <5> QED  BY <5>1, <5>3, <5>4 DEF r
      <4> HIDE DEF r
      <4> QED  BY <4>4a, <4>5, <4>6, <4>7, RankIs DEF GivesUp
    <3> HIDE DEF latest, X, r
    <3> QED  BY <3>1
  <2>6. X \in SUBSET Stream
    OBVIOUS
  <2> HIDE DEF v, X, q, r
  <2>7. r \in 0 .. Fragments
    BY <2>1
  <2>8. DOMAIN v = X /\ v \in UNION {[Y -> Int] : Y \in SUBSET Stream}
    BY <2>5, <2>6
  <2> QED  BY <2>1, <2>2, <2>4, <2>5, <2>7, <2>8 DEF ForwardPacket
<1>8. Drop(q, n) \in Seq(Entry)
  BY <1>1, <1>3 DEF Drop
<1> HIDE DEF f
<1>9. /\ t \in SenderState(G, Q) /\ t.given = s.given /\ t.localTsn = s.localTsn /\ t.ssn = s.ssn
      /\ t.outbound = s.outbound /\ t.sent = Drop(q, n)
  BY <1>1, <1>7, <1>8 DEF SenderState
<1> HIDE DEF t
<1>10. \A i \in 1 .. n : ~Unlimited(q[i].chunk.msg)
  BY <1>1, <1>2, <1>3, <1>6 DEF Patient
<1> QED  BY <1>3, <1>9, <1>10, DropGood

(* Acknowledged, and not acknowledged after all.                           *)
AckedAs(s, c, i, b) == [Decrease(s, c) EXCEPT !.sent[i].acked = b]
MissedAs(s, i, m) == [s EXCEPT !.sent[i].misses = m]

LEMMA MarkGood ==
  ASSUME NEW G, NEW Q \in Nat, NEW s \in Good(G, Q), NEW i \in 1 .. Len(s.sent), NEW c \in Fragment, NEW b \in BOOLEAN
  PROVE  AckedAs(s, c, i, b) \in Good(G, Q) /\ Len(AckedAs(s, c, i, b).sent) = Len(s.sent)
<1> DEFINE x == s.sent[i]
           y == [x EXCEPT !.acked = b]
           f == Larger(0, s.flight - Size(c))
<1>1. s \in SenderState(G, Q) /\ s.sent \in Seq(Entry) /\ s.flight \in Int
  BY QueuesAre
<1>2. x \in Entry
  BY <1>1
<1>3. y \in Entry /\ y.chunk = x.chunk /\ y.abandoned = x.abandoned
  <2> HIDE DEF x
  <2> QED  BY <1>2 DEF Entry
<1>4. f \in Int
  BY <1>1, SizeIs DEF Larger
<1> HIDE DEF y, f
<1>5. [Decrease(s, c) EXCEPT !.sent[i].acked = b]
        = [s EXCEPT !.flight = f, !.sent = [s.sent EXCEPT ![i] = y]]
  BY <1>1 DEF SenderState, y, f, Decrease
<1> HIDE DEF x
<1>6. [s EXCEPT !.flight = f, !.sent = [s.sent EXCEPT ![i] = y]] \in Good(G, Q)
  <2>1. ASSUME NEW z \in Entry, z.chunk = s.sent[i].chunk, z.abandoned = s.sent[i].abandoned,
               NEW k \in Int
        PROVE  [s EXCEPT !.flight = k, !.sent = [s.sent EXCEPT ![i] = z]] \in Good(G, Q)
    BY <2>1, NoteGood
  <2> QED  BY <1>3, <1>4, <2>1 DEF x
<1>7. [s EXCEPT !.flight = f, !.sent = [s.sent EXCEPT ![i] = y]].sent = [s.sent EXCEPT ![i] = y]
  BY <1>1 DEF SenderState
<1>8. Len([s.sent EXCEPT ![i] = y]) = Len(s.sent)
  BY <1>1
<1> QED  BY <1>5, <1>6, <1>7, <1>8 DEF AckedAs

LEMMA MissGood ==
  ASSUME NEW G, NEW Q \in Nat, NEW s \in Good(G, Q), NEW i \in 1 .. Len(s.sent), NEW m \in Int
  PROVE  MissedAs(s, i, m) \in Good(G, Q) /\ Len(MissedAs(s, i, m).sent) = Len(s.sent)
<1> DEFINE x == s.sent[i]
           y == [x EXCEPT !.misses = m]
           f == s.flight
<1>1. s \in SenderState(G, Q) /\ s.sent \in Seq(Entry) /\ s.flight \in Int
  BY QueuesAre
<1>2. x \in Entry
  BY <1>1
<1>3. y \in Entry /\ y.chunk = x.chunk /\ y.abandoned = x.abandoned
  <2> HIDE DEF x
  <2> QED  BY <1>2 DEF Entry
<1>4. f \in Int
  BY <1>1
<1> HIDE DEF y, f
<1>5. [s EXCEPT !.sent[i].misses = m]
        = [s EXCEPT !.flight = f, !.sent = [s.sent EXCEPT ![i] = y]]
  BY <1>1 DEF SenderState, y, f
<1> HIDE DEF x
<1>6. [s EXCEPT !.flight = f, !.sent = [s.sent EXCEPT ![i] = y]] \in Good(G, Q)
  <2>1. ASSUME NEW z \in Entry, z.chunk = s.sent[i].chunk, z.abandoned = s.sent[i].abandoned,
               NEW k \in Int
        PROVE  [s EXCEPT !.flight = k, !.sent = [s.sent EXCEPT ![i] = z]] \in Good(G, Q)
    BY <2>1, NoteGood
  <2> QED  BY <1>3, <1>4, <2>1 DEF x
<1>7. [s EXCEPT !.flight = f, !.sent = [s.sent EXCEPT ![i] = y]].sent = [s.sent EXCEPT ![i] = y]
  BY <1>1 DEF SenderState
<1>8. Len([s.sent EXCEPT ![i] = y]) = Len(s.sent)
  BY <1>1
<1> QED  BY <1>5, <1>6, <1>7, <1>8 DEF MissedAs

(* The window and the timer are no concern of what is kept.                *)
LEMMA WindowGood ==
  ASSUME NEW G, NEW Q \in Nat, NEW s \in Good(G, Q), NEW e \in Int, NEW f \in Int, NEW p \in Int, NEW h \in Int,
         NEW c \in Int
  PROVE  /\ [s EXCEPT !.exit = e, !.flight = f, !.partial = p, !.ssthresh = h, !.cwnd = c] \in Good(G, Q)
         /\ [s EXCEPT !.exit = e, !.flight = f, !.partial = p, !.ssthresh = h, !.cwnd = c].sent = s.sent
<1> DEFINE t == [s EXCEPT !.exit = e, !.flight = f, !.partial = p, !.ssthresh = h, !.cwnd = c]
<1>1. /\ t \in SenderState(G, Q) /\ t.given = s.given /\ t.localTsn = s.localTsn /\ t.ssn = s.ssn
      /\ t.outbound = s.outbound /\ t.sent = s.sent
  <2>1. s \in SenderState(G, Q)
    BY QueuesAre
  <2> QED  BY <2>1 DEF SenderState
<1> HIDE DEF t
<1>2. t \in Good(G, Q)
  BY <1>1, SameQueues
<1> QED  BY <1>1, <1>2 DEF t

LEMMA TimerGood ==
  ASSUME NEW G, NEW Q \in Nat, NEW s \in Good(G, Q), NEW b \in BOOLEAN
  PROVE  [s EXCEPT !.t3 = b] \in Good(G, Q) /\ [s EXCEPT !.t3 = b].sent = s.sent
<1> DEFINE t == [s EXCEPT !.t3 = b]
<1>1. /\ t \in SenderState(G, Q) /\ t.given = s.given /\ t.localTsn = s.localTsn /\ t.ssn = s.ssn
      /\ t.outbound = s.outbound /\ t.sent = s.sent
  <2>1. s \in SenderState(G, Q)
    BY QueuesAre
  <2> QED  BY <2>1 DEF SenderState
<1> HIDE DEF t
<1>2. t \in Good(G, Q)
  BY <1>1, SameQueues
<1> QED  BY <1>1, <1>2 DEF t

LEMMA SentGood ==
  ASSUME NEW G, NEW Q \in Nat, NEW s \in Good(G, Q)
  PROVE  [s EXCEPT !.packets = {}] \in Good(G, Q)
<1> DEFINE t == [s EXCEPT !.packets = {}]
<1>1. /\ t \in SenderState(G, Q) /\ t.given = s.given /\ t.localTsn = s.localTsn /\ t.ssn = s.ssn
      /\ t.outbound = s.outbound /\ t.sent = s.sent
  <2>1. s \in SenderState(G, Q)
    BY QueuesAre
  <2> QED  BY <2>1 DEF SenderState
<1> HIDE DEF t
<1>2. t \in Good(G, Q)
  BY <1>1, SameQueues
<1> QED  BY <1>2 DEF t

(* The loop of _t3_expired.                                                *)
Marked(b, A) == FoldLeft(LAMBDA t, i : AbandonOrRetransmit(t, i, A), b, Positions(b.sent))

LEMMA AbandonsGood ==
  ASSUME NEW G, NEW Q \in Nat, NEW b \in Good(G, Q), NEW A, Limited(A)
  PROVE  Marked(b, A) \in Good(G, Q)
<1> DEFINE s == Positions(b.sent)
           S == {t \in Good(G, Q) : Len(t.sent) = Len(b.sent)}
           E == (1 .. Len(b.sent))
           Op(t, i) == AbandonOrRetransmit(t, i, A)
           f == [y \in S \X E |-> Op(y[1], y[2])]
           Fold(it) == it = [d \in SUBSET (DOMAIN s) |->
             IF d = {} THEN b ELSE Op(it[d \ {Max(d)}], s[Max(d)])]
           n == Len(s)
           jt == CHOOSE it : Fold(it)
<1>0. s \in Seq(E) /\ b \in S
  BY QueuesAre, PositionsAre
<1>1. Marked(b, A) = jt[DOMAIN s]
  BY DEF Marked, FoldLeft, MapThenFoldSet
<1>2. ASSUME NEW t \in S, NEW i \in E PROVE Op(t, i) \in S
  BY <1>2, AbandonGood
<1>3. f \in [S \X E -> S] /\ \A t \in S, i \in E : f[<<t, i>>] = Op(t, i)
  BY <1>2
<1> HIDE DEF Op, f, s, S, E
<1>4. PICK it : it \in FoldTables(S, f, b, s)
  <2>1. FoldTables(S, f, b, s) # {}
    BY <1>0, <1>3, FoldExists
  <2> QED  BY <2>1
<1>5. Fold(it)
  <2>1. \A d \in SUBSET (1 .. n) :
          it[d] = IF d = {} THEN b ELSE Op(it[d \ {Max(d)}], s[Max(d)])
    BY <1>0, <1>3, <1>4, FoldIndices DEF FoldTables
  <2>2. it \in [SUBSET (DOMAIN s) -> S]
    BY <1>0, <1>4, FoldIndices DEF FoldTables
  <2>3. DOMAIN s = 1 .. n
    BY <1>0, FoldIndices
  <2> HIDE DEF n
  <2> QED  BY <2>1, <2>2, <2>3
<1>6. Fold(jt)
  BY <1>5
<1> HIDE DEF jt
<1>7. jt[{}] = b
  BY <1>0, <1>6, FoldIndices
<1>8. ASSUME NEW k \in 0 .. n - 1, jt[1 .. k] \in S  PROVE jt[1 .. k + 1] \in S
  <2>1. /\ 1 .. k + 1 \in SUBSET (DOMAIN s) /\ 1 .. k + 1 # {} /\ s[k + 1] \in E
        /\ Max(1 .. k + 1) = k + 1 /\ (1 .. k + 1) \ {k + 1} = 1 .. k
    BY <1>0, FoldIndices
  <2>2. jt[1 .. k + 1] = Op(jt[1 .. k], s[k + 1])
    BY <1>6, <2>1
  <2> QED  BY <1>2, <1>8, <2>1, <2>2
<1>9. jt[DOMAIN s] \in S
  BY <1>0, <1>7, <1>8, FoldEnds
<1> QED  BY <1>1, <1>9 DEF S

LEMMA T3ExpiredGood ==
  ASSUME NEW G, NEW Q \in Nat, NEW s \in Good(G, Q), NEW A, Limited(A)
  PROVE  T3Expired(s, A) \in Good(G, Q)
<1> DEFINE b == [s EXCEPT !.t3 = FALSE]
           a == FoldLeft(LAMBDA t, i : AbandonOrRetransmit(t, i, A), b, Positions(s.sent))
           u == UpdateAdvancedPeerAckPoint(a)
           h == Larger(s.cwnd \div 2, 4 * Mtu)
<1>1. b \in Good(G, Q) /\ b.sent = s.sent
  <2>1. FALSE \in BOOLEAN
    OBVIOUS
  <2> QED  BY <2>1, TimerGood
<1> HIDE DEF b
<1>2. a \in Good(G, Q)
  <2>1. Positions(b.sent) = Positions(s.sent)
    BY <1>1
  <2>2. a = Marked(b, A)
    BY <2>1 DEF Marked
  <2> HIDE DEF a
  <2> QED  BY <1>1, <2>2, AbandonsGood
<1> HIDE DEF a
<1>3. u \in Good(G, Q)
  BY <1>2, AdvanceGood
<1> HIDE DEF u
<1>4. h \in Int /\ Mtu \in Int /\ NoTsn \in Int
  <2>1. s.cwnd \in Int /\ Mtu \in Int
    BY QueuesAre, Numbers
  <2> QED  BY <2>1 DEF Larger, NoTsn
<1> HIDE DEF h
<1>5. \A e, f, p, k, c \in Int :
        [u EXCEPT !.exit = e, !.flight = f, !.partial = p, !.ssthresh = k, !.cwnd = c] \in Good(G, Q)
  BY <1>3, WindowGood
<1>6. T3Expired(s, A)
        = [u EXCEPT !.exit = NoTsn, !.flight = 0, !.partial = 0, !.ssthresh = h, !.cwnd = Mtu]
  BY DEF T3Expired, b, a, u, h
<1> QED
  <2>1. 0 \in Int
    OBVIOUS
  <2>2. [u EXCEPT !.exit = NoTsn, !.flight = 0, !.partial = 0, !.ssthresh = h, !.cwnd = Mtu]
          \in Good(G, Q)
    BY <1>4, <1>5, <2>1, Zenon
  <2> QED  BY <1>6, <2>2, Zenon

-----------------------------------------------------------------------------
(* SACKs.                                                                  *)

(* What the handling of a SACK hands on, with n chunks still in the queue. *)
Handled(G, Q, n) ==
  {h \in [s : Good(G, Q), done : Nat, bytes : Int, newest : Int, loss : BOOLEAN] :
     Len(h.s.sent) = n /\ (n = 0 => h.loss = FALSE)}

LEMMA HandledIs ==
  ASSUME NEW G, NEW Q \in Nat, NEW n \in Nat, NEW g \in Handled(G, Q, n), NEW t \in Good(G, Q), Len(t.sent) = n,
         NEW b \in Int, NEW k \in Int
  PROVE  /\ [g EXCEPT !.s = t, !.bytes = b, !.newest = k] \in Handled(G, Q, n)
         /\ [g EXCEPT !.s = t] \in Handled(G, Q, n)
         /\ n # 0 => [g EXCEPT !.s = t, !.loss = TRUE] \in Handled(G, Q, n)
  BY DEF Handled

Bytes(p) == FoldLeft(LAMBDA b, x : b + Unacked(x), 0, p)

LEMMA BytesAre ==
  ASSUME NEW p \in Seq(Entry)
  PROVE  Bytes(p) \in Int
<1> DEFINE s == p
           S == Int
           E == Entry
           Op(t, i) == t + Unacked(i)
           f == [y \in S \X E |-> Op(y[1], y[2])]
           Fold(it) == it = [d \in SUBSET (DOMAIN s) |->
             IF d = {} THEN 0 ELSE Op(it[d \ {Max(d)}], s[Max(d)])]
           n == Len(s)
           jt == CHOOSE it : Fold(it)
<1>0. s \in Seq(E) /\ 0 \in S
  OBVIOUS
<1>1. Bytes(p) = jt[DOMAIN s]
  BY DEF Bytes, FoldLeft, MapThenFoldSet
<1>2. ASSUME NEW t \in S, NEW i \in E PROVE Op(t, i) \in S
  <2>1. i.chunk \in Fragment
    BY <1>2 DEF Entry
  <2>2. Unacked(i) \in Int
    BY <2>1, SizeIs DEF Unacked
  <2> QED  BY <1>2, <2>2
<1>3. f \in [S \X E -> S] /\ \A t \in S, i \in E : f[<<t, i>>] = Op(t, i)
  BY <1>2
<1> HIDE DEF Op, f, s, S, E
<1>4. PICK it : it \in FoldTables(S, f, 0, s)
  <2>1. FoldTables(S, f, 0, s) # {}
    BY <1>0, <1>3, FoldExists
  <2> QED  BY <2>1
<1>5. Fold(it)
  <2>1. \A d \in SUBSET (1 .. n) :
          it[d] = IF d = {} THEN 0 ELSE Op(it[d \ {Max(d)}], s[Max(d)])
    BY <1>0, <1>3, <1>4, FoldIndices DEF FoldTables
  <2>2. it \in [SUBSET (DOMAIN s) -> S]
    BY <1>0, <1>4, FoldIndices DEF FoldTables
  <2>3. DOMAIN s = 1 .. n
    BY <1>0, FoldIndices
  <2> HIDE DEF n
  <2> QED  BY <2>1, <2>2, <2>3
<1>6. Fold(jt)
  BY <1>5
<1> HIDE DEF jt
<1>7. jt[{}] = 0
  BY <1>0, <1>6, FoldIndices
<1>8. ASSUME NEW k \in 0 .. n - 1, jt[1 .. k] \in S  PROVE jt[1 .. k + 1] \in S
  <2>1. /\ 1 .. k + 1 \in SUBSET (DOMAIN s) /\ 1 .. k + 1 # {} /\ s[k + 1] \in E
        /\ Max(1 .. k + 1) = k + 1 /\ (1 .. k + 1) \ {k + 1} = 1 .. k
    BY <1>0, FoldIndices
  <2>2. jt[1 .. k + 1] = Op(jt[1 .. k], s[k + 1])
    BY <1>6, <2>1
  <2> QED  BY <1>2, <1>8, <2>1, <2>2
<1>9. jt[DOMAIN s] \in S
  BY <1>0, <1>7, <1>8, FoldEnds
<1> QED  BY <1>1, <1>9 DEF S

(* What a SACK has in its TSN has been received.                           *)
LEMMA AckCumulativeGood ==
  ASSUME NoWrap, NEW G, NEW Q \in Nat, NEW s \in Good(G, Q), NEW cum \in Safe(G)
  PROVE  \E n \in Nat : AckCumulative(s, cum) \in Handled(G, Q, n)
<1> DEFINE q == s.sent
           l == Len(q)
           n == Leading(q, LAMBDA x : Tsn!Gte(cum, x.chunk.tsn))
           p == SubSeq(q, 1, n)
           bytes == Bytes(p)
           f == Larger(0, s.flight - bytes)
           d == Drop(q, n)
           t == [s EXCEPT !.sent = d, !.flight = f, !.sacked = cum]
<1>1. s \in SenderState(G, Q) /\ q \in Seq(Entry) /\ s.flight \in Int
  BY QueuesAre
<1>2. l \in Nat /\ DOMAIN q = 1 .. l /\ \A i \in 1 .. l : q[i] \in Entry /\ q[i].chunk \in Fragment
  <2>1. l \in Nat /\ DOMAIN q = 1 .. l /\ \A i \in 1 .. l : q[i] \in Entry
    BY <1>1
  <2> QED  BY <2>1 DEF Entry
<1>3. n \in 0 .. l /\ \A i \in 1 .. n : Tsn!Gte(cum, q[i].chunk.tsn)
  <2> DEFINE T == {i \in 1 .. l : Tsn!Gte(cum, q[i].chunk.tsn)}
  <2>1. \E k \in 0 .. l : (\A i \in 1 .. k : i \in T) /\ (k < l => k + 1 \notin T)
    <3> HIDE DEF T, l
    <3> QED  BY <1>2, LeadingIs
  <2>2. \E k \in 0 .. l : /\ \A i \in 1 .. k : Tsn!Gte(cum, q[i].chunk.tsn)
                          /\ k < l => ~Tsn!Gte(cum, q[k + 1].chunk.tsn)
    <3>1. PICK k \in 0 .. l : (\A i \in 1 .. k : i \in T) /\ (k < l => k + 1 \notin T)
      BY <2>1
    <3>2. k < l => k + 1 \in 1 .. l
      BY <1>2
    <3> QED  BY <3>1, <3>2
  <2>3. n = CHOOSE k \in 0 .. l : /\ \A i \in 1 .. k : Tsn!Gte(cum, q[i].chunk.tsn)
                                  /\ k < l => ~Tsn!Gte(cum, q[k + 1].chunk.tsn)
    BY DEF Leading
  <2> HIDE DEF n, q, l
  <2> QED  BY <2>2, <2>3
<1>4. AckCumulative(s, cum)
        = [s |-> t, done |-> n, bytes |-> bytes, newest |-> cum, loss |-> FALSE]
  BY DEF AckCumulative, Bytes
<1> HIDE DEF n
<1>5. p \in Seq(Entry) /\ d \in Seq(Entry)
  BY <1>1, <1>2, <1>3 DEF Drop
<1> HIDE DEF p, d
<1>6. bytes \in Int
  BY <1>5, BytesAre
<1> HIDE DEF bytes
<1>7. f \in Int
  BY <1>1, <1>6 DEF Larger
<1> HIDE DEF f
<1>8. PICK k \in 0 .. Fragments : cum = Nth(k) /\ Covered(G, k)
  BY DEF Safe
<1>9. cum \in Int
  BY <1>8, NthOrder
<1>10. \A i \in 1 .. n : Unlimited(q[i].chunk.msg) => Has(G, q[i].chunk.msg, q[i].chunk.part)
  <2> SUFFICES ASSUME NEW i \in 1 .. n, Unlimited(q[i].chunk.msg)
               PROVE  Has(G, q[i].chunk.msg, q[i].chunk.part)
    OBVIOUS
  <2>1. PICK c \in Fragment : c = q[i].chunk
    BY <1>2, <1>3
  <2>2. /\ c.msg \in Message /\ c.part \in Parts(c.msg) /\ Rank(c) \in 1 .. Fragments
        /\ c.tsn = Nth(Rank(c))
    BY RankIs
  <2>3. Fragments \in Nat
    BY BeforeIs, Numbers DEF Fragments
  <2>4. Rank(c) \in 0 .. Fragments
    BY <2>2, <2>3
  <2>5. Tsn!Gte(Nth(k), Nth(Rank(c)))
    BY <1>3, <1>8, <2>1, <2>2
  <2>6. k >= Rank(c)
    BY <2>4, <2>5, NthOrder
  <2>7. Rank(c) <= k
    BY <2>3, <2>4, <2>6
  <2>8. Before[c.msg] + c.part <= k
    BY <2>7 DEF Rank
  <2> QED  BY <1>8, <2>1, <2>2, <2>8 DEF Covered
<1>11. /\ t \in SenderState(G, Q) /\ t.given = s.given /\ t.localTsn = s.localTsn /\ t.ssn = s.ssn
       /\ t.outbound = s.outbound /\ t.sent = d
  BY <1>1, <1>5, <1>7, <1>9 DEF SenderState
<1> HIDE DEF t
<1>12. t \in Good(G, Q)
  BY <1>3, <1>10, <1>11, DropGood DEF d
<1>13. Len(t.sent) \in Nat /\ n \in Nat
  BY <1>3, <1>5, <1>11
<1>14. AckCumulative(s, cum) \in Handled(G, Q, Len(t.sent))
  BY <1>4, <1>6, <1>9, <1>12, <1>13 DEF Handled
<1> QED  BY <1>13, <1>14

LEMMA AckOneGood ==
  ASSUME NEW G, NEW Q \in Nat, NEW n \in Nat, NEW g \in Handled(G, Q, n), NEW i \in 1 .. n
  PROVE  [g EXCEPT !.s = [Decrease(@, g.s.sent[i].chunk) EXCEPT !.sent[i].acked = TRUE],
                   !.bytes = @ + Size(g.s.sent[i].chunk),
                   !.newest = g.s.sent[i].chunk.tsn] \in Handled(G, Q, n)
<1> DEFINE s == g.s
           c == s.sent[i].chunk
           t == [Decrease(s, c) EXCEPT !.sent[i].acked = TRUE]
           b == g.bytes + Size(c)
           k == c.tsn
<1>1. s \in Good(G, Q) /\ Len(s.sent) = n /\ g.bytes \in Int
  BY DEF Handled
<1>2. c \in Fragment
  <2>1. s.sent \in Seq(Entry)
    BY <1>1, QueuesAre
  <2>2. s.sent[i] \in Entry
    BY <1>1, <2>1
  <2> QED  BY <2>2 DEF Entry
<1>3. b \in Int /\ k \in Int
  BY SMTT(30), <1>1, <1>2, SizeIs DEF Fragment
<1>4. [g EXCEPT !.s = [Decrease(@, g.s.sent[i].chunk) EXCEPT !.sent[i].acked = TRUE],
                !.bytes = @ + Size(g.s.sent[i].chunk),
                !.newest = g.s.sent[i].chunk.tsn] = [g EXCEPT !.s = t, !.bytes = b, !.newest = k]
  BY DEF Handled
<1> HIDE DEF b, k
<1>5. t \in Good(G, Q) /\ Len(t.sent) = n
  <2>1. \A e \in Fragment, a \in BOOLEAN :
          /\ [Decrease(s, e) EXCEPT !.sent[i].acked = a] \in Good(G, Q)
          /\ Len([Decrease(s, e) EXCEPT !.sent[i].acked = a].sent) = Len(s.sent)
    <3>1. i \in 1 .. Len(s.sent)
      BY <1>1
    <3> HIDE DEF s
    <3> SUFFICES ASSUME NEW e \in Fragment, NEW a \in BOOLEAN
                 PROVE  /\ [Decrease(s, e) EXCEPT !.sent[i].acked = a] \in Good(G, Q)
                        /\ Len([Decrease(s, e) EXCEPT !.sent[i].acked = a].sent) = Len(s.sent)
      OBVIOUS
    <3>2. AckedAs(s, e, i, a) \in Good(G, Q) /\ Len(AckedAs(s, e, i, a).sent) = Len(s.sent)
      BY <1>1, <3>1, MarkGood
    <3> QED  BY <3>2 DEF AckedAs
  <2>2. TRUE \in BOOLEAN
    OBVIOUS
  <2> HIDE DEF s, c
  <2> QED  BY <1>1, <1>2, <2>1, <2>2, Zenon
<1> HIDE DEF t
<1>6. [g EXCEPT !.s = t, !.bytes = b, !.newest = k] \in Handled(G, Q, n)
  BY <1>3, <1>5, HandledIs
<1> QED  BY <1>4, <1>6

LEMMA AckGapsGood ==
  ASSUME NEW G, NEW Q \in Nat, NEW l \in Nat, NEW h \in Handled(G, Q, l), NEW gaps
  PROVE  AckGaps(h, gaps) \in Handled(G, Q, l)
<1> DEFINE highest == CHOOSE t \in gaps : \A u \in gaps : u <= t
           n == Leading(h.s.sent, LAMBDA x : ~Tsn!Gt(x.chunk.tsn, highest))
<1>a. Len(h.s.sent) = l /\ l \in Nat
  BY DEF Handled
<1>b. n \in 0 .. l
  <2> HIDE DEF highest
  <2>0. n = CHOOSE k \in 0 .. l : /\ \A i \in 1 .. k : ~Tsn!Gt(h.s.sent[i].chunk.tsn, highest)
                                  /\ k < l => ~~Tsn!Gt(h.s.sent[k + 1].chunk.tsn, highest)
    BY <1>a DEF Leading
  <2> DEFINE T == {i \in 1 .. l : ~Tsn!Gt(h.s.sent[i].chunk.tsn, highest)}
  <2>1. PICK k \in 0 .. l : (\A i \in 1 .. k : i \in T) /\ (k < l => k + 1 \notin T)
    <3> HIDE DEF T
    <3> QED  BY <1>a, LeadingIs
  <2>2. k < l => k + 1 \in 1 .. l
    BY <1>a
  <2> HIDE DEF n
  <2> QED  BY <2>0, <2>1, <2>2
<1> HIDE DEF n
<1> DEFINE s == [i \in 1 .. n |-> i]
           S == Handled(G, Q, l)
           E == 1 .. l
           Op(t, i) == 
             LET x == t.s.sent[i] IN
             IF x.chunk.tsn \in gaps /\ ~x.acked
             THEN [t EXCEPT !.s = [Decrease(@, x.chunk) EXCEPT !.sent[i].acked = TRUE],
                            !.bytes = @ + Size(x.chunk),
                            !.newest = x.chunk.tsn]
             ELSE t
           f == [y \in S \X E |-> Op(y[1], y[2])]
           Fold(it) == it = [d \in SUBSET (DOMAIN s) |->
             IF d = {} THEN h ELSE Op(it[d \ {Max(d)}], s[Max(d)])]
           m == Len(s)
           jt == CHOOSE it : Fold(it)
<1>0. s \in Seq(E) /\ h \in S
  BY <1>a, <1>b
<1>1. AckGaps(h, gaps) = jt[DOMAIN s]
  BY DEF AckGaps, n, highest, FoldLeft, MapThenFoldSet
<1>2. ASSUME NEW t \in S, NEW i \in E PROVE Op(t, i) \in S
  BY <1>2, AckOneGood, Zenon
<1> HIDE DEF Op
<1>3. f \in [S \X E -> S] /\ \A t \in S, i \in E : f[<<t, i>>] = Op(t, i)
  BY <1>2
<1> HIDE DEF Op, f, s, S, E
<1>4. PICK it : it \in FoldTables(S, f, h, s)
  <2>1. FoldTables(S, f, h, s) # {}
    BY <1>0, <1>3, FoldExists
  <2> QED  BY <2>1
<1>5. Fold(it)
  <2>1. \A d \in SUBSET (1 .. m) :
          it[d] = IF d = {} THEN h ELSE Op(it[d \ {Max(d)}], s[Max(d)])
    BY <1>0, <1>3, <1>4, FoldIndices DEF FoldTables
  <2>2. it \in [SUBSET (DOMAIN s) -> S]
    BY <1>0, <1>4, FoldIndices DEF FoldTables
  <2>3. DOMAIN s = 1 .. m
    BY <1>0, FoldIndices
  <2> HIDE DEF m
  <2> QED  BY <2>1, <2>2, <2>3
<1>6. Fold(jt)
  BY <1>5
<1> HIDE DEF jt
<1>7. jt[{}] = h
  BY <1>0, <1>6, FoldIndices
<1>8. ASSUME NEW k \in 0 .. m - 1, jt[1 .. k] \in S  PROVE jt[1 .. k + 1] \in S
  <2>1. /\ 1 .. k + 1 \in SUBSET (DOMAIN s) /\ 1 .. k + 1 # {} /\ s[k + 1] \in E
        /\ Max(1 .. k + 1) = k + 1 /\ (1 .. k + 1) \ {k + 1} = 1 .. k
    BY <1>0, FoldIndices
  <2>2. jt[1 .. k + 1] = Op(jt[1 .. k], s[k + 1])
    BY <1>6, <2>1
  <2> QED  BY <1>2, <1>8, <2>1, <2>2
<1>9. jt[DOMAIN s] \in S
  BY <1>0, <1>7, <1>8, FoldEnds
<1> QED  BY <1>1, <1>9 DEF S

(* A chunk is reported missing: once more, or for the last time.           *)
Lost(s, i, A) == AbandonOrRetransmit([s EXCEPT !.sent[i].misses = 0], i, A)

LEMMA StrikeOneGood ==
  ASSUME NEW G, NEW Q \in Nat, NEW n \in Nat, NEW g \in Handled(G, Q, n), NEW i \in 1 .. n, NEW A, Limited(A)
  PROVE  /\ [g EXCEPT !.s.sent[i].misses = @ + 1] \in Handled(G, Q, n)
         /\ [g EXCEPT !.s = [Decrease(Lost(g.s, i, A), g.s.sent[i].chunk)
                              EXCEPT !.sent[i].acked = FALSE],
                      !.loss = TRUE] \in Handled(G, Q, n)
<1> DEFINE s == g.s
           c == s.sent[i].chunk
           m == s.sent[i].misses + 1
           t == [s EXCEPT !.sent[i].misses = m]
           u == [s EXCEPT !.sent[i].misses = 0]
           v == AbandonOrRetransmit(u, i, A)
           w == [Decrease(v, c) EXCEPT !.sent[i].acked = FALSE]
<1>1. s \in Good(G, Q) /\ Len(s.sent) = n /\ i \in 1 .. Len(s.sent)
  BY DEF Handled
<1>2. s.sent[i] \in Entry
  <2>1. s.sent \in Seq(Entry)
    BY <1>1, QueuesAre
  <2> QED  BY <1>1, <2>1
<1>3. c \in Fragment /\ m \in Int
  BY <1>2 DEF Entry
<1>4. \A k \in Int : [s EXCEPT !.sent[i].misses = k] \in Good(G, Q)
                     /\ Len([s EXCEPT !.sent[i].misses = k].sent) = Len(s.sent)
  <2> HIDE DEF s
  <2> SUFFICES ASSUME NEW k \in Int
               PROVE  /\ [s EXCEPT !.sent[i].misses = k] \in Good(G, Q)
                      /\ Len([s EXCEPT !.sent[i].misses = k].sent) = Len(s.sent)
    OBVIOUS
  <2>1. MissedAs(s, i, k) \in Good(G, Q) /\ Len(MissedAs(s, i, k).sent) = Len(s.sent)
    BY <1>1, MissGood
  <2> QED  BY <2>1 DEF MissedAs
<1>5. t \in Good(G, Q) /\ Len(t.sent) = n
  <2> HIDE DEF m, s
  <2> QED  BY <1>1, <1>3, <1>4, Zenon
<1>6. u \in Good(G, Q) /\ Len(u.sent) = n
  <2>1. 0 \in Int
    OBVIOUS
  <2> HIDE DEF s
  <2> QED  BY <1>1, <1>4, <2>1, Zenon
<1>7. [g EXCEPT !.s.sent[i].misses = @ + 1] = [g EXCEPT !.s = t]
  BY DEF Handled
<1>8. [g EXCEPT !.s = [Decrease(Lost(g.s, i, A), g.s.sent[i].chunk) EXCEPT !.sent[i].acked = FALSE],
                !.loss = TRUE] = [g EXCEPT !.s = w, !.loss = TRUE]
  BY DEF Lost
<1> HIDE DEF t, u
<1>9. v \in Good(G, Q) /\ Len(v.sent) = n
  BY <1>1, <1>6, AbandonGood
<1> HIDE DEF v
<1>10. w \in Good(G, Q) /\ Len(w.sent) = n
  <2>1. \A e \in Fragment, a \in BOOLEAN :
          /\ [Decrease(v, e) EXCEPT !.sent[i].acked = a] \in Good(G, Q)
          /\ Len([Decrease(v, e) EXCEPT !.sent[i].acked = a].sent) = Len(v.sent)
    <3>1. i \in 1 .. Len(v.sent)
      BY <1>9
    <3> SUFFICES ASSUME NEW e \in Fragment, NEW a \in BOOLEAN
                 PROVE  /\ [Decrease(v, e) EXCEPT !.sent[i].acked = a] \in Good(G, Q)
                        /\ Len([Decrease(v, e) EXCEPT !.sent[i].acked = a].sent) = Len(v.sent)
      OBVIOUS
    <3>2. AckedAs(v, e, i, a) \in Good(G, Q) /\ Len(AckedAs(v, e, i, a).sent) = Len(v.sent)
      BY <1>9, <3>1, MarkGood
    <3> QED  BY <3>2 DEF AckedAs
  <2>2. FALSE \in BOOLEAN
    OBVIOUS
  <2> HIDE DEF s, c
  <2> QED  BY <1>3, <1>9, <2>1, <2>2, Zenon
<1> HIDE DEF w
<1>11. n # 0
  OBVIOUS
<1>12. \A b \in Int, k \in Int :
         /\ [g EXCEPT !.s = t] \in Handled(G, Q, n)
         /\ [g EXCEPT !.s = w, !.loss = TRUE] \in Handled(G, Q, n)
  BY <1>5, <1>10, <1>11, HandledIs
<1> QED  BY <1>7, <1>8, <1>12

LEMMA StrikeMissingGood ==
  ASSUME NEW G, NEW Q \in Nat, NEW l \in Nat, NEW h \in Handled(G, Q, l), NEW gaps, NEW A, Limited(A)
  PROVE  StrikeMissing(h, gaps, A) \in Handled(G, Q, l)
<1> DEFINE n == Leading(h.s.sent, LAMBDA x : ~Tsn!Gt(x.chunk.tsn, h.newest))
<1>a. Len(h.s.sent) = l /\ l \in Nat
  BY DEF Handled
<1>b. n \in 0 .. l
  <2>0. n = CHOOSE k \in 0 .. l : /\ \A i \in 1 .. k : ~Tsn!Gt(h.s.sent[i].chunk.tsn, h.newest)
                                  /\ k < l => ~~Tsn!Gt(h.s.sent[k + 1].chunk.tsn, h.newest)
    BY <1>a DEF Leading
  <2> DEFINE T == {i \in 1 .. l : ~Tsn!Gt(h.s.sent[i].chunk.tsn, h.newest)}
  <2>1. PICK k \in 0 .. l : (\A i \in 1 .. k : i \in T) /\ (k < l => k + 1 \notin T)
    <3> HIDE DEF T
    <3> QED  BY <1>a, LeadingIs
  <2>2. k < l => k + 1 \in 1 .. l
    BY <1>a
  <2> HIDE DEF n
  <2> QED  BY <2>0, <2>1, <2>2
<1> HIDE DEF n
<1> DEFINE s == [i \in 1 .. n |-> i]
           S == Handled(G, Q, l)
           E == 1 .. l
           Op(t, i) == 
             LET x == t.s.sent[i]
                 lost == AbandonOrRetransmit([t.s EXCEPT !.sent[i].misses = 0], i, A)
             IN CASE x.chunk.tsn \in gaps -> t
                  [] x.chunk.tsn \notin gaps /\ x.misses < 2 -> [t EXCEPT !.s.sent[i].misses = @ + 1]
                  [] OTHER -> [t EXCEPT !.s = [Decrease(lost, x.chunk) EXCEPT !.sent[i].acked = FALSE],
                                        !.loss = TRUE]
           f == [y \in S \X E |-> Op(y[1], y[2])]
           Fold(it) == it = [d \in SUBSET (DOMAIN s) |->
             IF d = {} THEN h ELSE Op(it[d \ {Max(d)}], s[Max(d)])]
           m == Len(s)
           jt == CHOOSE it : Fold(it)
<1>0. s \in Seq(E) /\ h \in S
  BY <1>a, <1>b
<1>1. StrikeMissing(h, gaps, A) = jt[DOMAIN s]
  BY DEF StrikeMissing, n, FoldLeft, MapThenFoldSet
<1>2. ASSUME NEW t \in S, NEW i \in E PROVE Op(t, i) \in S
  <2> DEFINE x == t.s.sent[i]
             a == [t EXCEPT !.s.sent[i].misses = @ + 1]
             z == [t EXCEPT !.s = [Decrease(Lost(t.s, i, A), x.chunk) EXCEPT !.sent[i].acked = FALSE],
                            !.loss = TRUE]
  <2>1. a \in S /\ z \in S
    BY <1>2, StrikeOneGood, Zenon
  <2>2. Op(t, i) = CASE x.chunk.tsn \in gaps -> t
                     [] x.chunk.tsn \notin gaps /\ x.misses < 2 -> a
                     [] OTHER -> z
    BY DEF Lost
  <2> HIDE DEF a, z, x, Op
  <2> QED  BY <1>2, <2>1, <2>2
<1> HIDE DEF Op
<1>3. f \in [S \X E -> S] /\ \A t \in S, i \in E : f[<<t, i>>] = Op(t, i)
  BY <1>2
<1> HIDE DEF Op, f, s, S, E
<1>4. PICK it : it \in FoldTables(S, f, h, s)
  <2>1. FoldTables(S, f, h, s) # {}
    BY <1>0, <1>3, FoldExists
  <2> QED  BY <2>1
<1>5. Fold(it)
  <2>1. \A d \in SUBSET (1 .. m) :
          it[d] = IF d = {} THEN h ELSE Op(it[d \ {Max(d)}], s[Max(d)])
    BY <1>0, <1>3, <1>4, FoldIndices DEF FoldTables
  <2>2. it \in [SUBSET (DOMAIN s) -> S]
    BY <1>0, <1>4, FoldIndices DEF FoldTables
  <2>3. DOMAIN s = 1 .. m
    BY <1>0, FoldIndices
  <2> HIDE DEF m
  <2> QED  BY <2>1, <2>2, <2>3
<1>6. Fold(jt)
  BY <1>5
<1> HIDE DEF jt
<1>7. jt[{}] = h
  BY <1>0, <1>6, FoldIndices
<1>8. ASSUME NEW k \in 0 .. m - 1, jt[1 .. k] \in S  PROVE jt[1 .. k + 1] \in S
  <2>1. /\ 1 .. k + 1 \in SUBSET (DOMAIN s) /\ 1 .. k + 1 # {} /\ s[k + 1] \in E
        /\ Max(1 .. k + 1) = k + 1 /\ (1 .. k + 1) \ {k + 1} = 1 .. k
    BY <1>0, FoldIndices
  <2>2. jt[1 .. k + 1] = Op(jt[1 .. k], s[k + 1])
    BY <1>6, <2>1
  <2> QED  BY <1>2, <1>8, <2>1, <2>2
<1>9. jt[DOMAIN s] \in S
  BY <1>0, <1>7, <1>8, FoldEnds
<1> QED  BY <1>1, <1>9 DEF S

LEMMA CwndGood ==
  ASSUME NEW G, NEW Q \in Nat, NEW s \in Good(G, Q), NEW c \in Int, NEW p \in Int, NEW e \in Int
  PROVE  /\ [s EXCEPT !.cwnd = c] \in Good(G, Q) /\ [s EXCEPT !.cwnd = c].sent = s.sent
         /\ [s EXCEPT !.partial = p] \in Good(G, Q) /\ [s EXCEPT !.partial = p].sent = s.sent
         /\ [s EXCEPT !.partial = p, !.cwnd = c] \in Good(G, Q)
         /\ [s EXCEPT !.partial = p, !.cwnd = c].sent = s.sent
         /\ [s EXCEPT !.exit = e] \in Good(G, Q)
<1> DEFINE Same(t) == /\ t \in SenderState(G, Q) /\ t.given = s.given /\ t.localTsn = s.localTsn /\ t.ssn = s.ssn
                      /\ t.outbound = s.outbound /\ t.sent = s.sent
<1>1. s \in SenderState(G, Q)
  BY QueuesAre
<1>2. ASSUME NEW t, Same(t) PROVE t \in Good(G, Q) /\ t.sent = s.sent
  BY <1>2, SameQueues
<1>3. Same([s EXCEPT !.cwnd = c])
  BY <1>1 DEF SenderState
<1>4. Same([s EXCEPT !.partial = p])
  BY <1>1 DEF SenderState
<1>5. Same([s EXCEPT !.partial = p, !.cwnd = c])
  BY <1>1 DEF SenderState
<1>6. Same([s EXCEPT !.exit = e])
  BY <1>1 DEF SenderState
<1> HIDE DEF Same
<1> QED  BY <1>2, <1>3, <1>4, <1>5, <1>6

LEMMA LossGood ==
  ASSUME NEW G, NEW Q \in Nat, NEW s \in Good(G, Q), NEW c \in Int, NEW p \in Int, NEW e \in Int, NEW b \in BOOLEAN
  PROVE  [s EXCEPT !.ssthresh = c, !.cwnd = c, !.partial = p, !.boost = b, !.exit = e] \in Good(G, Q)
<1> DEFINE t == [s EXCEPT !.ssthresh = c, !.cwnd = c, !.partial = p, !.boost = b, !.exit = e]
<1>1. s \in SenderState(G, Q)
  BY QueuesAre
<1>2. /\ t \in SenderState(G, Q) /\ t.given = s.given /\ t.localTsn = s.localTsn /\ t.ssn = s.ssn
      /\ t.outbound = s.outbound /\ t.sent = s.sent
  BY <1>1 DEF SenderState
<1> HIDE DEF t
<1>3. t \in Good(G, Q)
  BY <1>2, SameQueues
<1> QED  BY <1>3 DEF t

LEMMA AdjustWindowGood ==
  ASSUME NEW G, NEW Q \in Nat, NEW l \in Nat, NEW h \in Handled(G, Q, l), NEW full \in BOOLEAN
  PROVE  AdjustWindow(h, full) \in Good(G, Q)
<1> DEFINE s == h.s
           k == s.cwnd + Smaller(h.bytes, Mtu)
           p == s.partial + h.bytes - s.cwnd
           w == s.cwnd + Mtu
           r == s.partial + h.bytes
           grown ==
             IF ~(h.done > 0 /\ full) THEN s
             ELSE IF s.cwnd <= s.ssthresh THEN [s EXCEPT !.cwnd = k]
             ELSE IF r >= s.cwnd THEN [s EXCEPT !.partial = p, !.cwnd = w]
             ELSE [s EXCEPT !.partial = r]
           half == Larger(grown.cwnd \div 2, 4 * Mtu)
           e == grown.sent[Len(grown.sent)].chunk.tsn
           lost == [grown EXCEPT !.ssthresh = half, !.cwnd = half, !.partial = 0, !.boost = TRUE,
                                 !.exit = e]
<1>1. s \in Good(G, Q) /\ h.bytes \in Int /\ Len(s.sent) = l /\ (l = 0 => h.loss = FALSE)
  BY DEF Handled
<1>2. s.cwnd \in Int /\ s.partial \in Int /\ s \in SenderState(G, Q) /\ Mtu \in Int
  BY <1>1, QueuesAre, Numbers
<1>3. k \in Int /\ p \in Int /\ w \in Int /\ r \in Int
  BY <1>1, <1>2 DEF Smaller
<1>4. grown = IF ~(h.done > 0 /\ full) THEN s
              ELSE IF s.cwnd <= s.ssthresh THEN [s EXCEPT !.cwnd = @ + Smaller(h.bytes, Mtu)]
              ELSE IF s.partial + h.bytes >= s.cwnd
              THEN [s EXCEPT !.partial = @ + h.bytes - s.cwnd, !.cwnd = @ + Mtu]
              ELSE [s EXCEPT !.partial = @ + h.bytes]
  BY <1>2 DEF SenderState
<1>5. AdjustWindow(h, full) =
        IF s.exit # NoTsn
        THEN IF Tsn!Gte(s.sacked, s.exit) THEN [s EXCEPT !.exit = NoTsn] ELSE s
        ELSE IF h.loss THEN lost ELSE grown
  BY <1>4 DEF AdjustWindow
<1> HIDE DEF k, p, w, r
<1>6. grown \in Good(G, Q) /\ grown.sent = s.sent
  <2> HIDE DEF s
  <2> DEFINE x == [s EXCEPT !.cwnd = k]
             y == [s EXCEPT !.partial = p, !.cwnd = w]
             z == [s EXCEPT !.partial = r]
  <2>1. \A c, q, v \in Int :
          /\ [s EXCEPT !.cwnd = c] \in Good(G, Q) /\ [s EXCEPT !.cwnd = c].sent = s.sent
          /\ [s EXCEPT !.partial = q] \in Good(G, Q) /\ [s EXCEPT !.partial = q].sent = s.sent
          /\ [s EXCEPT !.partial = q, !.cwnd = c] \in Good(G, Q)
          /\ [s EXCEPT !.partial = q, !.cwnd = c].sent = s.sent
          /\ [s EXCEPT !.exit = v] \in Good(G, Q)
    BY <1>1, CwndGood
  <2>2. /\ x \in Good(G, Q) /\ x.sent = s.sent /\ y \in Good(G, Q) /\ y.sent = s.sent
        /\ z \in Good(G, Q) /\ z.sent = s.sent
    BY <1>3, <2>1, Zenon
  <2>3. grown = s \/ grown = x \/ grown = y \/ grown = z
    BY Zenon
  <2> HIDE DEF x, y, z, grown
  <2> QED  BY <1>1, <2>2, <2>3
<1> HIDE DEF grown
<1>7. half \in Int
  <2>1. grown.cwnd \in Int
    BY <1>6, QueuesAre
  <2> QED  BY <1>2, <2>1 DEF Larger
<1> HIDE DEF half
<1>8. ASSUME h.loss PROVE lost \in Good(G, Q)
  <2>1. l \in 1 .. l
    BY <1>1, <1>8
  <2>2. grown.sent \in Seq(Entry) /\ Len(grown.sent) = l
    BY <1>1, <1>6, QueuesAre
  <2>3. grown.sent[l] \in Entry
    BY <2>1, <2>2
  <2>4. e \in Int
    BY <2>2, <2>3 DEF Entry, Fragment
  <2>5. 0 \in Int /\ TRUE \in BOOLEAN
    OBVIOUS
  <2> HIDE DEF e
  <2> QED  BY <1>6, <1>7, <2>4, <2>5, LossGood, Zenon
<1> HIDE DEF lost
<1>9. [s EXCEPT !.exit = NoTsn] \in Good(G, Q)
  <2>1. NoTsn \in Int /\ 0 \in Int
    BY DEF NoTsn
  <2> HIDE DEF s
  <2> QED  BY <1>1, <2>1, CwndGood, Zenon
<1> QED  BY <1>1, <1>5, <1>6, <1>8, <1>9

LEMMA UpdateT3Good ==
  ASSUME NEW G, NEW Q \in Nat, NEW s \in Good(G, Q), NEW n
  PROVE  UpdateT3(s, n) \in Good(G, Q)
<1> DEFINE b == s.sent # <<>> /\ (s.t3 \/ n > 0)
<1>1. UpdateT3(s, n) = [s EXCEPT !.t3 = b]
  BY DEF UpdateT3
<1>2. b \in BOOLEAN
  OBVIOUS
<1> HIDE DEF b
<1> QED  BY <1>1, <1>2, TimerGood

LEMMA ReceiveSackGood ==
  ASSUME NoWrap, NEW G, NEW Q \in 0 .. Len(Messages), NEW s \in Good(G, Q),
         NEW sack, sack.tsn \in Safe(G), NEW A, Limited(A)
  PROVE  ReceiveSack(s, sack, Q, A) \in Good(G, Q)
<1> DEFINE acked == AckCumulative(s, sack.tsn)
           noted == AckGaps(acked, sack.gaps)
           struck == IF sack.gaps = {} THEN acked
                     ELSE StrikeMissing(noted, sack.gaps, A)
           full == s.flight >= s.cwnd
           grown == AdjustWindow(struck, full)
           timed == UpdateT3(grown, struck.done)
           ahead == UpdateAdvancedPeerAckPoint(timed)
           flushed == Flush(ahead, Q)
<1>0. Q \in Nat
  OBVIOUS
<1>1. ReceiveSack(s, sack, Q, A) = IF Tsn!Gt(s.sacked, sack.tsn) THEN s ELSE Transmit(flushed)
  BY DEF ReceiveSack
<1>2. PICK n \in Nat : acked \in Handled(G, Q, n)
  BY <1>0, AckCumulativeGood
<1> HIDE DEF acked
<1>3. noted \in Handled(G, Q, n)
  BY <1>0, <1>2, AckGapsGood
<1> HIDE DEF noted
<1>4. struck \in Handled(G, Q, n)
  BY <1>0, <1>2, <1>3, StrikeMissingGood
<1> HIDE DEF struck
<1>5. full \in BOOLEAN
  OBVIOUS
<1> HIDE DEF full
<1>6. grown \in Good(G, Q)
  BY <1>0, <1>4, <1>5, AdjustWindowGood
<1> HIDE DEF grown
<1>7. timed \in Good(G, Q)
  BY <1>0, <1>6, UpdateT3Good
<1> HIDE DEF timed
<1>8. ahead \in Good(G, Q)
  BY <1>0, <1>7, AdvanceGood
<1> HIDE DEF ahead
<1>9. flushed \in Good(G, Q)
  BY <1>8, FlushGood
<1> HIDE DEF flushed
<1>10. Transmit(flushed) \in Good(G, Q)
  BY <1>0, <1>9, TransmitGood
<1> QED  BY <1>1, <1>10

-----------------------------------------------------------------------------
(* The receiver, and the TSN up to which it has everything.                *)

LEMMA PlusIs ==
  ASSUME NEW a \in 0 .. TsnModulo - 1, NEW n \in 0 .. TsnModulo
  PROVE  Tsn!Plus(a, n) = IF a + n < TsnModulo THEN a + n ELSE a + n - TsnModulo
<1> DEFINE M == TsnModulo
<1>1. M \in Nat \ {0}
  BY Numbers
<1>2. Tsn!Plus(a, n) = (a + n) % M
  BY DEF Tsn!Plus
<1> HIDE DEF M
<1>3. CASE a + n < M
  <2>1. a + n \in 0 .. M - 1
    BY <1>1, <1>3 DEF M
  <2>2. (a + n) % M = a + n
    <3> DEFINE b == a + n
    <3> HIDE DEF b
    <3> QED  BY <1>1, <2>1, ModSmall DEF b
  <2> QED  BY <1>2, <1>3, <2>2 DEF M
<1>4. CASE ~(a + n < M)
  <2>1. a + n - M \in 0 .. M - 1 /\ a + n = M * 1 + (a + n - M)
    BY <1>1, <1>4 DEF M
  <2>2. (M * 1 + (a + n - M)) % M = a + n - M
    <3> DEFINE b == a + n - M
    <3> HIDE DEF b
    <3> QED  BY <1>1, <2>1, ModIs DEF b
  <2> QED  BY <1>2, <1>4, <2>1, <2>2 DEF M
<1> QED  BY <1>3, <1>4 DEF M

Tsns(G) == {c.tsn : c \in G}

(* A receiver that has got the chunks in G.                                *)
Fields(r) ==
  r \in [last : {r.last}, misordered : {r.misordered}, reassembly : {r.reassembly},
         expected : {r.expected}, delivered : {r.delivered}, got : {r.got}]
Fits(G, r) == Fields(r) /\ r.last \in Safe(G) /\ r.misordered \subseteq Tsns(G)

(* The next fragment makes one more that nothing is missing up to.         *)
LEMMA OneMore ==
  ASSUME NoWrap, NEW G \in SUBSET Fragment, NEW k \in 0 .. Fragments, Covered(G, k),
         NEW c \in G, NEW j \in Nat, c.tsn = Tsn!Plus(Nth(k), 1) + j,
         k + j \in 0 .. Fragments, Covered(G, k + j)
  PROVE  k + j + 1 \in 0 .. Fragments /\ Covered(G, k + j + 1)
<1> DEFINE M == TsnModulo
           n == Rank(c)
           x == Nth(k)
           y == Tsn!Plus(x, 1)
           z == Nth(k + j + 1)
<1>1. /\ M \in Nat \ {0} /\ InitialTsn \in 0 .. M - 1
      /\ Tsn!Half \in Nat /\ Tsn!Half + Tsn!Half = M
  BY Numbers
<1>2. Fragments \in Nat /\ Fragments < Tsn!Half
  <2>1. Len(Messages) + 1 \in 1 .. Len(Messages) + 1
    BY Numbers
  <2> QED  BY <2>1, BeforeIs DEF NoWrap, Fragments
<1>3. n \in 1 .. Fragments /\ c.tsn = Nth(n)
  BY RankIs
<1>4. k \in 0 .. M - 1 /\ k + j + 1 \in 0 .. M - 1 /\ n \in 0 .. M - 1 /\ 1 \in 0 .. M
  BY <1>1, <1>2, <1>3
<1>5. /\ x \in 0 .. M - 1
      /\ x = IF InitialTsn + k = 0 THEN M - 1
             ELSE IF InitialTsn + k <= M THEN InitialTsn + k - 1
             ELSE InitialTsn + k - 1 - M
  BY <1>4, NthIs
<1>6. /\ z = IF InitialTsn + (k + j + 1) = 0 THEN M - 1
             ELSE IF InitialTsn + (k + j + 1) <= M THEN InitialTsn + (k + j + 1) - 1
             ELSE InitialTsn + (k + j + 1) - 1 - M
  BY <1>4, NthIs
<1>7. /\ c.tsn \in 0 .. M - 1
      /\ c.tsn = IF InitialTsn + n = 0 THEN M - 1
                 ELSE IF InitialTsn + n <= M THEN InitialTsn + n - 1
                 ELSE InitialTsn + n - 1 - M
  BY <1>3, <1>4, NthIs
<1>8. y = IF x + 1 < M THEN x + 1 ELSE x + 1 - M
  <2> HIDE DEF x
  <2> QED  BY <1>4, <1>5, PlusIs
<1>9. c.tsn = y + j
  OBVIOUS
<1> HIDE DEF x, y, z, M, n
<1>10. n = k + j + 1
  <2> DEFINE t == c.tsn
  <2> HIDE DEF t
  <2>1. /\ t \in 0 .. M - 1 /\ t = y + j
        /\ t = IF InitialTsn + n = 0 THEN M - 1
               ELSE IF InitialTsn + n <= M THEN InitialTsn + n - 1
               ELSE InitialTsn + n - 1 - M
    BY <1>7, <1>9 DEF t
  <2>2. k \in Nat /\ j \in Nat /\ n \in Nat /\ n < M /\ k + j + 1 < M /\ M \in Nat
        /\ InitialTsn \in Nat /\ InitialTsn < M
    BY <1>1, <1>4
  <2> QED  BY <1>5, <1>8, <2>1, <2>2
<1>11. Covered(G, k + j + 1)
  <2> SUFFICES ASSUME NEW m \in Message, Unlimited(m), NEW i \in Parts(m), Before[m] + i <= k + j + 1
               PROVE  Has(G, m, i)
    BY DEF Covered
  <2>1. Before[m] + i \in Nat
    BY PartsOrder, BeforeIs
  <2>2. CASE Before[m] + i <= k + j
    BY <2>2 DEF Covered
  <2>3. CASE Before[m] + i = n
    <3>1. c.msg \in Message /\ c.part \in Parts(c.msg) /\ Before[c.msg] + c.part = n
      BY RankIs DEF Rank, n
    <3>2. m = c.msg /\ i = c.part
      BY <2>3, <3>1, RankMeansPart
    <3> QED  BY <3>2 DEF Has
  <2> QED  BY <1>10, <2>1, <2>2, <2>3
<1> QED  BY <1>3, <1>10, <1>11

LEMMA ConsolidateFits ==
  ASSUME NoWrap, NEW G \in SUBSET Fragment, NEW r, Fits(G, r)
  PROVE  /\ Fits(G, Consolidate(r)) /\ Consolidate(r).got = r.got
         /\ Consolidate(r).reassembly = r.reassembly /\ Consolidate(r).expected = r.expected
         /\ Consolidate(r).delivered = r.delivered
         /\ Consolidate(r).misordered = {t \in r.misordered : Tsn!Gt(t, Consolidate(r).last)}
         /\ \E k \in 0 .. Fragments : \E j \in k .. Fragments :
              r.last = Nth(k) /\ Consolidate(r).last = Nth(j)
<1> DEFINE M == TsnModulo
           next == Tsn!Plus(r.last, 1)
           Stops(k) == /\ next + k \notin r.misordered
                      /\ \A i \in 0 .. k - 1 : next + i \in r.misordered
           n == IF \E t \in r.misordered : t < next THEN 0
                ELSE CHOOSE k \in 0 .. M - next : Stops(k)
           last == Tsn!Plus(r.last, n)
           left == {t \in r.misordered : Tsn!Gt(t, last)}
           s == [r EXCEPT !.last = last, !.misordered = left]
<1>1. /\ M \in Nat \ {0} /\ Tsn!Half \in Nat /\ Tsn!Half + Tsn!Half = M
  BY Numbers
<1>2. Fragments \in Nat /\ Fragments < Tsn!Half
  <2>1. Len(Messages) + 1 \in 1 .. Len(Messages) + 1
    BY Numbers
  <2> QED  BY <2>1, BeforeIs DEF NoWrap, Fragments
<1>3. Consolidate(r) = s
  BY DEF Consolidate, Fits, Fields
<1>4. PICK k \in 0 .. Fragments : r.last = Nth(k) /\ Covered(G, k)
  BY DEF Fits, Safe
<1>5. r.last \in 0 .. M - 1 /\ next \in 0 .. M - 1
  <2>1. r.last \in 0 .. M - 1
    BY <1>4, NthOrder
  <2>2. 1 \in 0 .. M
    BY <1>1
  <2>3. next = IF r.last + 1 < M THEN r.last + 1 ELSE r.last + 1 - M
    BY <2>1, <2>2, PlusIs
  <2> QED  BY <1>1, <2>1, <2>3
<1>6. \A t \in r.misordered : t \in 0 .. M - 1
  <2>1. \A c \in Fragment : c.tsn \in 0 .. M - 1
    <3> SUFFICES ASSUME NEW c \in Fragment PROVE c.tsn \in 0 .. M - 1
      OBVIOUS
    <3>1. Rank(c) \in 0 .. Fragments /\ c.tsn = Nth(Rank(c))
      BY <1>2, RankIs
    <3> QED  BY <3>1, NthOrder
  <2> QED  BY <2>1 DEF Fits, Tsns
<1>7. n \in 0 .. M - next /\ \A i \in 0 .. n - 1 : next + i \in r.misordered
  <2> DEFINE N == M - next
             T == {i \in 1 .. N : next + (i - 1) \in r.misordered}
  <2>0. N \in Nat /\ next \in Nat
    BY <1>1, <1>5
  <2>1. PICK e \in 0 .. N : (\A i \in 1 .. e : i \in T) /\ (e < N => e + 1 \notin T)
    <3> HIDE DEF N, T
    <3> QED  BY <2>0, LeadingIs
  <2>2. Stops(e)
    <3>1. ASSUME NEW i \in 0 .. e - 1 PROVE next + i \in r.misordered
      <4>1. i + 1 \in 1 .. e /\ (i + 1) - 1 = i
        BY <2>0
      <4>2. i + 1 \in T
        BY <2>1, <4>1
      <4> HIDE DEF next
      <4> QED  BY <4>1, <4>2
    <3>2. CASE e < N
      <4>1. e + 1 \in 1 .. N /\ (e + 1) - 1 = e
        BY <2>0, <3>2
      <4> HIDE DEF next
      <4> QED  BY <2>1, <3>1, <3>2, <4>1
    <3>3. CASE e = N
      <4>1. next + e = M
        BY <1>1, <2>0, <3>3
      <4>2. M \notin 0 .. M - 1
        BY <1>1
      <4> HIDE DEF next, M
      <4> QED  BY <1>6, <3>1, <4>1, <4>2
    <3> QED  BY <2>0, <2>1, <3>2, <3>3
  <2> HIDE DEF Ends, next
  <2>3. CASE \E t \in r.misordered : t < next
    <3>1. n = 0
      BY <2>3
    <3> HIDE DEF n
    <3> QED  BY <2>0, <3>1
  <2>4. CASE ~\E t \in r.misordered : t < next
    <3>1. n = CHOOSE d \in 0 .. M - next : Stops(d)
      BY <2>4
    <3> HIDE DEF n
    <3>2. n \in 0 .. M - next /\ Stops(n)
      BY <2>2, <3>1
    <3> QED  BY <3>2 DEF Ends
  <2> QED  BY <2>3, <2>4
<1> HIDE DEF n, next
<1>8. \A j \in 0 .. n : k + j \in 0 .. Fragments /\ Covered(G, k + j)
  <2> DEFINE T == {j \in 0 .. n : k + j \in 0 .. Fragments /\ Covered(G, k + j)}
  <2>0. n \in Nat
    BY <1>1, <1>5, <1>7
  <2>1. 0 \in T
    <3>1. k + 0 = k /\ 0 \in 0 .. n
      BY <1>2, <2>0
    <3> QED  BY <1>4, <3>1
  <2>2. ASSUME NEW j \in 0 .. n - 1, j \in T PROVE j + 1 \in T
    <3>1. j \in Nat /\ j + 1 \in 0 .. n /\ k + (j + 1) = k + j + 1
      BY <1>2, <2>0
    <3>2. next + j \in Tsns(G)
      BY <1>7 DEF Fits
    <3>3. PICK c \in G : c.tsn = next + j
      BY <3>2 DEF Tsns
    <3>4. c.tsn = Tsn!Plus(Nth(k), 1) + j
      BY <1>4, <3>3 DEF next
    <3>5. k + j \in 0 .. Fragments /\ Covered(G, k + j)
      BY <2>2
    <3>6. k + j + 1 \in 0 .. Fragments /\ Covered(G, k + j + 1)
      BY <1>4, <3>1, <3>4, <3>5, OneMore
    <3> QED  BY <3>1, <3>6
  <2> HIDE DEF T
  <2>3. \A j \in 0 .. n : j \in T
    BY <2>0, <2>1, <2>2, Interval
  <2> QED  BY <2>3 DEF T
<1>9. last \in Safe(G) /\ \E j \in k .. Fragments : last = Nth(j)
  <2>1. n \in 0 .. n /\ n \in Nat /\ n <= M
    BY <1>1, <1>5, <1>7
  <2>2. k + n \in 0 .. Fragments /\ Covered(G, k + n)
    BY <1>8, <2>1
  <2>3. last = Nth(k + n)
    <3>1. k \in 0 .. M - 1 /\ k + n \in 0 .. M - 1 /\ n \in 0 .. M
      BY <1>1, <1>2, <2>1, <2>2
    <3> DEFINE x == Nth(k)
               y == Nth(k + n)
    <3>2. /\ x \in 0 .. M - 1
          /\ x = IF InitialTsn + k = 0 THEN M - 1
                 ELSE IF InitialTsn + k <= M THEN InitialTsn + k - 1
                 ELSE InitialTsn + k - 1 - M
      BY <3>1, NthIs
    <3>3. y = IF InitialTsn + (k + n) = 0 THEN M - 1
              ELSE IF InitialTsn + (k + n) <= M THEN InitialTsn + (k + n) - 1
              ELSE InitialTsn + (k + n) - 1 - M
      BY <3>1, NthIs
    <3>4. x = r.last
      BY <1>4
    <3> HIDE DEF x, y
    <3>5. Tsn!Plus(x, n) = IF x + n < M THEN x + n ELSE x + n - M
      BY <3>1, <3>2, PlusIs
    <3>6. InitialTsn \in Nat /\ InitialTsn < M /\ k \in Nat
      BY Numbers
    <3>7. Tsn!Plus(x, n) = y
      <4> DEFINE v == Tsn!Plus(x, n)
      <4>1. v = IF x + n < M THEN x + n ELSE x + n - M
        BY <3>5
      <4> HIDE DEF v, M
      <4>2. v = y
        BY <1>1, <2>1, <3>1, <3>2, <3>3, <3>6, <4>1
      <4> QED  BY <4>2 DEF v
    <3> QED  BY <3>4, <3>7 DEF y
  <2>4. k + n \in k .. Fragments
    BY <1>2, <2>1, <2>2
  <2> HIDE DEF last
  <2> QED  BY <2>2, <2>3, <2>4 DEF Safe
<1> HIDE DEF last
<1>10. left \subseteq Tsns(G)
  BY DEF Fits
<1> HIDE DEF left
<1>11. /\ Fields(s) /\ s.last = last /\ s.misordered = left /\ s.got = r.got
       /\ s.reassembly = r.reassembly /\ s.expected = r.expected /\ s.delivered = r.delivered
  BY DEF Fits, Fields
<1> HIDE DEF s
<1>12. Fits(G, s) /\ s.misordered = {t \in r.misordered : Tsn!Gt(t, s.last)}
  BY <1>9, <1>10, <1>11 DEF Fits, left
<1> QED  BY <1>3, <1>4, <1>9, <1>11, <1>12

LEMMA SafeGrows ==
  ASSUME NEW G, NEW H, G \subseteq H
  PROVE  Safe(G) \subseteq Safe(H) /\ Tsns(G) \subseteq Tsns(H)
<1>1. \A m, i : Has(G, m, i) => Has(H, m, i)
  BY DEF Has
<1>2. \A k : Covered(G, k) => Covered(H, k)
  BY <1>1 DEF Covered
<1> QED  BY <1>2 DEF Safe, Tsns

LEMMA ForwardGrows ==
  ASSUME NEW G, NEW H, G \subseteq H
  PROVE  /\ ForwardPacket(G) \subseteq ForwardPacket(H)
         /\ \A f \in ForwardPacket(G) : f.tsn \in Safe(G)
<1>1. \A m, i : Has(G, m, i) => Has(H, m, i)
  BY DEF Has
<1>2. \A k : Covered(G, k) => Covered(H, k)
  BY <1>1 DEF Covered
<1>3. ForwardPacket(G) \subseteq ForwardPacket(H)
  BY <1>2 DEF ForwardPacket
<1>4. \A f \in ForwardPacket(G) : f.tsn \in Safe(G)
  BY DEF ForwardPacket, Safe
<1> QED  BY <1>3, <1>4

LEMMA GoodGrows ==
  ASSUME NEW G, NEW H, G \subseteq H, NEW Q \in Nat, NEW P \in Nat, Q <= P, NEW s \in Good(G, Q)
  PROVE  s \in Good(H, P)
<1>1. ForwardPacket(G) \subseteq ForwardPacket(H)
  BY ForwardGrows
<1>2. DataPacket(Q) \subseteq DataPacket(P)
  <2>1. \A c \in Fragment : c.msg <= Q => c.msg <= P
    <3>1. \A c \in Fragment : c.msg \in Nat
      BY RankIs, Numbers
    <3> QED  BY <3>1
  <2> QED  BY <2>1 DEF DataPacket
<1>3. /\ s \in SenderState(G, Q) /\ InOrder(s) /\ Patient(s) /\ AllThere(G, s) /\ s.given <= Q
      /\ s.given \in 0 .. Len(Messages)
  BY DEF Good, SenderState
<1>4. s \in SenderState(H, P)
  <2>1. DataPacket(Q) \cup ForwardPacket(G) \subseteq DataPacket(P) \cup ForwardPacket(H)
    BY <1>1, <1>2
  <2>2. \A A, B, C, D : A \subseteq C /\ B \subseteq D => SUBSET A \subseteq SUBSET C /\ SUBSET B \subseteq SUBSET D
    OBVIOUS
  <2> DEFINE A == SUBSET ForwardPacket(G)
             B == SUBSET (DataPacket(Q) \cup ForwardPacket(G))
             C == SUBSET ForwardPacket(H)
             D == SUBSET (DataPacket(P) \cup ForwardPacket(H))
  <2>3. A \subseteq C /\ B \subseteq D
    BY <1>1, <2>1
  <2> HIDE DEF A, B, C, D
  <2> QED  BY <1>3, <2>3 DEF SenderState, A, B, C, D
<1>5. AllThere(H, s)
  BY <1>3 DEF AllThere, Has
<1>6. s.given <= P
  BY <1>3, Numbers
<1> QED  BY <1>3, <1>4, <1>5, <1>6 DEF Good

LEMMA PopKeeps ==
  ASSUME NEW r, Fields(r), NEW x
  PROVE  LET t == PopMessages(r, x)
         IN Fields(t) /\ t.last = r.last /\ t.misordered = r.misordered /\ t.got = r.got
<1> DEFINE q == r.reassembly[x]
           starts == RunStarts(q, r.expected[x])
           ordered == {p \in starts : Ordered(q[p])}
           taken(S) == UNION {Whole(q, p) : p \in S}
           Pick(S) == FoldLeft(LAMBDA t, i : IF i \in S THEN Append(t, q[i]) ELSE t, <<>>, Positions(q))
           LastOf(S) == Pick({i \in taken(S) : LastFrag(q[i])})
           a == Pick(DOMAIN q \ taken(starts))
           b == FoldLeft(LAMBDA n, c : IF c.seq = n THEN Ssn!Plus(n, 1) ELSE n,
                         r.expected[x], LastOf(ordered))
           d == r.delivered[x] \o [i \in DOMAIN LastOf(starts) |-> LastOf(starts)[i].msg]
           t == [r EXCEPT !.reassembly[x] = a, !.expected[x] = b, !.delivered[x] = d]
<1>1. PopMessages(r, x) = t
  BY DEF PopMessages
<1> HIDE DEF a, b, d
<1>2. Fields(t) /\ t.last = r.last /\ t.misordered = r.misordered /\ t.got = r.got
  BY DEF Fields
<1> QED  BY <1>1, <1>2

(* What has a TSN the receiver has not got before is new to it.            *)
LEMMA DataFits ==
  ASSUME NoWrap, NEW r, r.got \in SUBSET Fragment, Fits(r.got, r), NEW c \in Fragment
  PROVE  LET t == ReceiveData(r, c)
         IN t.got \in SUBSET Fragment /\ r.got \subseteq t.got /\ Fits(t.got, t)
<1> DEFINE x == StreamOf(c)
           G == r.got \cup {c}
           u == [r EXCEPT !.misordered = @ \cup {c.tsn}]
           v == Consolidate(u)
           n == Leading(v.reassembly[x], LAMBDA d : ~Tsn!Gt(d.tsn, c.tsn))
           a == InsertAt(v.reassembly[x], n + 1, c)
           w == [v EXCEPT !.reassembly[x] = a]
           y == [w EXCEPT !.got = @ \cup {c}]
           z == PopMessages(y, x)
<1>1. ReceiveData(r, c) = IF Received(r, c.tsn) THEN r ELSE z
  BY DEF ReceiveData, MarkReceived, AddChunk
<1>2. G \in SUBSET Fragment /\ r.got \subseteq G /\ c \in G
  OBVIOUS
<1> HIDE DEF G
<1>3. Safe(r.got) \subseteq Safe(G) /\ Tsns(r.got) \subseteq Tsns(G) /\ c.tsn \in Tsns(G)
  BY <1>2, SafeGrows DEF Tsns
<1>4. Fits(G, u) /\ u.got = r.got
  <2>1. Fields(u) /\ u.last = r.last /\ u.misordered = r.misordered \cup {c.tsn} /\ u.got = r.got
    BY DEF Fits, Fields
  <2> HIDE DEF u
  <2> QED  BY <1>3, <2>1 DEF Fits
<1> HIDE DEF u
<1>5. Fits(G, v) /\ v.got = r.got
  BY <1>2, <1>4, ConsolidateFits
<1> HIDE DEF v, a
<1>6. Fields(w) /\ w.last = v.last /\ w.misordered = v.misordered /\ w.got = r.got
  BY <1>5 DEF Fits, Fields
<1> HIDE DEF w
<1>7. Fields(y) /\ y.last = v.last /\ y.misordered = v.misordered /\ y.got = G
  BY <1>6 DEF Fields, G
<1> HIDE DEF y
<1>8. Fields(z) /\ z.last = v.last /\ z.misordered = v.misordered /\ z.got = G
  BY <1>7, PopKeeps
<1> HIDE DEF z
<1>9. Fits(G, z)
  BY <1>5, <1>8 DEF Fits
<1> QED  BY <1>1, <1>2, <1>8, <1>9

LEMMA ForwardFits ==
  ASSUME NoWrap, NEW r, r.got \in SUBSET Fragment, Fits(r.got, r), NEW f, f.tsn \in Safe(r.got)
  PROVE  LET t == ReceiveForward(r, f)
         IN t.got = r.got /\ Fits(r.got, t)
<1> DEFINE G == r.got
           m == {t \in r.misordered : Tsn!Gt(t, f.tsn)}
           u == [r EXCEPT !.last = f.tsn, !.misordered = m]
           v == Consolidate(u)
           Skip(x) == IF x \in DOMAIN f.streams
                      THEN PopMessages([v EXCEPT !.expected[x] = Ssn!Plus(f.streams[x], 1)], x)
                      ELSE v
           a == [x \in Stream |-> Skip(x).expected[x]]
           b == [x \in Stream |-> Skip(x).delivered[x]]
           d == [x \in Stream |-> PruneChunks(Skip(x).reassembly[x], v.last)]
           w == [v EXCEPT !.expected = a, !.delivered = b, !.reassembly = d]
<1>1. ReceiveForward(r, f) = IF Tsn!Gte(r.last, f.tsn) THEN r ELSE w
  BY DEF ReceiveForward
<1>2. m \subseteq Tsns(G)
  BY DEF Fits
<1> HIDE DEF m
<1>3. Fields(u) /\ u.last = f.tsn /\ u.misordered = m /\ u.got = G
  BY DEF Fits, Fields
<1> HIDE DEF u
<1>4. Fits(G, u)
  BY <1>2, <1>3 DEF Fits
<1>5. Fits(G, v) /\ v.got = G
  BY <1>3, <1>4, ConsolidateFits
<1> HIDE DEF v, a, b, d
<1>6. Fields(w) /\ w.last = v.last /\ w.misordered = v.misordered /\ w.got = G
  BY <1>5 DEF Fits, Fields
<1> HIDE DEF w
<1>7. Fits(G, w)
  BY <1>5, <1>6 DEF Fits
<1> QED  BY <1>1, <1>6, <1>7

-----------------------------------------------------------------------------
(* Both of them, with the network in between.                              *)

SenderFits == sender \in Good(receiver.got, queued)
ReceiverFits == receiver.got \in SUBSET Fragment /\ Fits(receiver.got, receiver)
NetFits ==
  \A p \in net : /\ p.type = "data" => p.chunk \in Fragment /\ p.chunk.msg <= queued
                 /\ p.type = "sack" => p.tsn \in Safe(receiver.got)
                 /\ p.type = "forward" => p \in ForwardPacket(receiver.got)
OthersFit == queued \in 0 .. Len(Messages) /\ Limited(expired)
NothingLost == SenderFits /\ ReceiverFits /\ NetFits /\ OthersFit

LEMMA InitFits ==
  ASSUME NoWrap
  PROVE  Init => NothingLost
<1> SUFFICES ASSUME Init PROVE NothingLost
  OBVIOUS
<1> DEFINE M == TsnModulo
           s == SenderInit
           r == ReceiverInit
<1>1. /\ M \in Nat \ {0} /\ InitialTsn \in 0 .. M - 1 /\ Tsn!Half \in Nat /\ Tsn!Half + Tsn!Half = M
      /\ Mtu \in Int /\ Rwnd \in Int /\ Len(Messages) \in Nat
  BY Numbers
<1>2. Fragments \in Nat
  <2>1. Len(Messages) + 1 \in 1 .. Len(Messages) + 1
    BY Numbers
  <2> QED  BY <2>1, BeforeIs DEF Fragments
<1>3. 0 \in 0 .. M - 1 /\ 1 \in 0 .. M - 1 /\ 0 \in 0 .. Fragments
  BY <1>1, <1>2
<1>4. Nth(0) = Tsn!Plus(InitialTsn, M - 1) /\ Nth(0) \in 0 .. M - 1
  <2>1. M - 1 + 0 = M - 1
    BY <1>1
  <2> QED  BY <1>3, <2>1, NthIs DEF Nth
<1>5. Nth(1) = InitialTsn
  <2>1. Nth(1) = IF InitialTsn + 1 = 0 THEN M - 1
                 ELSE IF InitialTsn + 1 <= M THEN InitialTsn + 1 - 1
                 ELSE InitialTsn + 1 - 1 - M
    BY <1>3, NthIs
  <2> DEFINE y == Nth(1)
  <2> HIDE DEF y
  <2>2. y = InitialTsn
    BY <1>1, <2>1 DEF y
  <2> QED  BY <2>2 DEF y
<1>6. sender = s /\ receiver = r /\ net = {} /\ queued = 0 /\ expired = {}
  BY DEF Init
<1>7. /\ r.got = {} /\ r.misordered = {} /\ r.last = Nth(0) /\ Fields(r)
  BY <1>4 DEF ReceiverInit, Fields
<1>8. Nth(0) \in Safe({})
  <2>1. Covered({}, 0)
    <3> SUFFICES ASSUME NEW m \in Message, NEW i \in Parts(m), Before[m] + i <= 0
                 PROVE  FALSE
      BY DEF Covered
    <3> QED  BY PartsOrder
  <2> QED  BY <1>3, <2>1 DEF Safe
<1>9. s \in SenderState({}, 0)
  <2> DEFINE z == Tsn!Plus(InitialTsn, M - 1)
             w == 3 * Mtu
  <2>1. z \in Int /\ w \in Int /\ NoTsn \in Int /\ 0 \in 0 .. Len(Messages) /\ InitialTsn \in Int
    BY <1>1, <1>4 DEF NoTsn
  <2>2. s = [given |-> 0, localTsn |-> InitialTsn, ssn |-> [x \in Stream |-> 0], outbound |-> <<>>,
             sent |-> <<>>, flight |-> 0, cwnd |-> w, ssthresh |-> Rwnd, partial |-> 0,
             exit |-> NoTsn, boost |-> FALSE, sacked |-> z, forward |-> NoForward, t3 |-> FALSE,
             packets |-> {}]
    BY DEF SenderInit
  <2> HIDE DEF z, w, s
  <2>3. <<>> \in Seq(Fragment) /\ <<>> \in Seq(Entry)
    OBVIOUS
  <2>4. [x \in Stream |-> 0] \in [Stream -> Int]
    OBVIOUS
  <2> QED  BY <1>1, <2>1, <2>2, <2>3, <2>4 DEF SenderState, NoForward
<1>10. /\ s.given = 0 /\ s.localTsn = InitialTsn /\ s.ssn = [x \in Stream |-> 0]
       /\ s.sent = <<>> /\ s.outbound = <<>>
  BY DEF SenderInit
<1> HIDE DEF s, r
<1>11. InOrder(s)
  <2>1. Before[s.given + 1] + 1 = 1
    BY <1>10, BeforeIs
  <2>2. DOMAIN s.sent = {} /\ DOMAIN s.outbound = {}
    BY <1>10
  <2>3. s.ssn = [x \in Stream |-> Earlier[s.given + 1][x] % SsnModulo]
    <3>1. \A x \in Stream : Earlier[1][x] = 0
      BY EarlierIs
    <3>2. 0 % SsnModulo = 0
      BY Numbers, ModSmall
    <3> QED  BY <1>10, <3>1, <3>2
  <2> QED  BY <1>5, <1>10, <2>1, <2>2, <2>3 DEF InOrder
<1>12. Patient(s) /\ AllThere({}, s)
  <2>1. DOMAIN s.sent = {} /\ 1 .. s.given = {}
    BY <1>10
  <2> QED  BY <2>1 DEF Patient, AllThere
<1>13. s \in Good({}, 0)
  BY <1>9, <1>10, <1>11, <1>12 DEF Good
<1>14. Fits({}, r)
  BY <1>7, <1>8 DEF Fits
<1>15. Limited(expired) /\ queued \in 0 .. Len(Messages)
  BY <1>1, <1>6 DEF Limited
<1> QED  BY <1>6, <1>7, <1>13, <1>14, <1>15
         DEF NothingLost, SenderFits, ReceiverFits, NetFits, OthersFit

(* What the sender does and sends.                                         *)
LEMMA SenderKeeps ==
  ASSUME NothingLost, NEW s \in Good(receiver.got, queued), NEW taken, SenderGoesOn(s, taken)
  PROVE  NothingLost'
<1>1. /\ sender' = [s EXCEPT !.packets = {}] /\ net' = (net \ taken) \cup s.packets
      /\ receiver' = receiver /\ queued' = queued /\ expired' = expired
  BY DEF SenderGoesOn
<1>0. queued \in Nat
  BY Numbers DEF NothingLost, OthersFit
<1>2. SenderFits'
  BY <1>0, <1>1, SentGood DEF SenderFits
<1>3. ReceiverFits' /\ OthersFit'
  BY <1>1 DEF NothingLost, ReceiverFits, OthersFit
<1>4. NetFits'
  <2>1. s.packets \subseteq DataPacket(queued) \cup ForwardPacket(receiver.got)
    BY <1>0, QueuesAre
  <2>2. ASSUME NEW p \in s.packets
        PROVE  /\ p.type = "data" => p.chunk \in Fragment /\ p.chunk.msg <= queued
               /\ p.type = "sack" => p.tsn \in Safe(receiver.got)
               /\ p.type = "forward" => p \in ForwardPacket(receiver.got)
    BY <2>1 DEF DataPacket, ForwardPacket
  <2> QED  BY <1>1, <2>2 DEF NothingLost, NetFits
<1> QED  BY <1>2, <1>3, <1>4 DEF NothingLost

(* What the receiver does and answers.                                     *)
LEMMA ReceiverKeeps ==
  ASSUME NothingLost, NEW r, r.got \in SUBSET Fragment, receiver.got \subseteq r.got,
         Fits(r.got, r), NEW p, ReceiverGoesOn(r, p)
  PROVE  NothingLost'
<1>1. /\ sender' = sender /\ net' = (net \ {p}) \cup {Sack(r)}
      /\ receiver' = r /\ queued' = queued /\ expired' = expired
  BY DEF ReceiverGoesOn
<1>0. queued \in Nat
  BY Numbers DEF NothingLost, OthersFit
<1>2. SenderFits'
  BY <1>0, <1>1, GoodGrows DEF NothingLost, SenderFits
<1>3. ReceiverFits' /\ OthersFit'
  BY <1>1 DEF NothingLost, ReceiverFits, OthersFit
<1>4. NetFits'
  <2>1. /\ Safe(receiver.got) \subseteq Safe(r.got)
        /\ ForwardPacket(receiver.got) \subseteq ForwardPacket(r.got)
    BY SafeGrows, ForwardGrows
  <2>2. Sack(r).type = "sack" /\ Sack(r).tsn \in Safe(r.got)
    BY DEF Sack, Fits
  <2> QED  BY <1>1, <2>1, <2>2 DEF NothingLost, NetFits
<1> QED  BY <1>2, <1>3, <1>4 DEF NothingLost

LEMMA StepFits ==
  ASSUME NoWrap
  PROVE  NothingLost /\ [Next]_vars => NothingLost'
<1> SUFFICES ASSUME NothingLost, [Next]_vars PROVE NothingLost'
  OBVIOUS
<1>0. /\ sender \in Good(receiver.got, queued) /\ receiver.got \in SUBSET Fragment
      /\ Fits(receiver.got, receiver) /\ queued \in 0 .. Len(Messages) /\ Limited(expired)
      /\ \A p \in net : /\ p.type = "data" => p.chunk \in Fragment /\ p.chunk.msg <= queued
                        /\ p.type = "sack" => p.tsn \in Safe(receiver.got)
                        /\ p.type = "forward" => p \in ForwardPacket(receiver.got)
  BY DEF NothingLost, SenderFits, ReceiverFits, NetFits, OthersFit
<1>1. CASE DataChannelSend
  <2>1. queued' \in 0 .. Len(Messages) /\ queued' \in Nat /\ queued \in Nat /\ queued <= queued'
    BY <1>0, <1>1, Numbers DEF DataChannelSend
  <2>2. sender \in Good(receiver.got, queued')
    BY <1>0, <2>1, GoodGrows
  <2>3. \A c \in Fragment : c.msg <= queued => c.msg <= queued'
    <3>1. \A c \in Fragment : c.msg \in Nat
      BY RankIs, Numbers
    <3> QED  BY <2>1, <3>1
  <2> QED  BY <1>0, <1>1, <2>1, <2>2, <2>3
           DEF DataChannelSend, NothingLost, SenderFits, ReceiverFits, NetFits, OthersFit
<1>2. CASE RunFlush
  <2>1. Flush(sender, queued) \in Good(receiver.got, queued)
    BY <1>0, FlushGood
  <2> QED  BY <1>2, <2>1, SenderKeeps DEF RunFlush
<1>3. CASE T3Expires
  <2>1. T3Expired(sender, expired) \in Good(receiver.got, queued)
    BY <1>0, Numbers, T3ExpiredGood
  <2> QED  BY <1>3, <2>1, SenderKeeps DEF T3Expires
<1>4. CASE RunTransmit
  <2>1. Transmit(sender) \in Good(receiver.got, queued)
    BY <1>0, Numbers, TransmitGood
  <2> QED  BY <1>4, <2>1, SenderKeeps DEF RunTransmit
<1>5. ASSUME NEW m \in Message, LifetimeEnds(m) PROVE NothingLost'
  <2>1. Limited(expired')
    BY <1>0, <1>5 DEF LifetimeEnds, Limited, Unlimited
  <2> QED  BY <1>0, <1>5, <2>1
           DEF LifetimeEnds, NothingLost, SenderFits, ReceiverFits, NetFits, OthersFit
<1>6. ASSUME NEW p \in net, Data(p) PROVE NothingLost'
  <2> DEFINE r == ReceiveData(receiver, p.chunk)
  <2>1. p.chunk \in Fragment
    BY <1>0, <1>6 DEF Data
  <2>2. r.got \in SUBSET Fragment /\ receiver.got \subseteq r.got /\ Fits(r.got, r)
    BY <1>0, <2>1, DataFits
  <2>3. ReceiverGoesOn(r, p)
    BY <1>6 DEF Data
  <2> HIDE DEF r
  <2> QED  BY <2>2, <2>3, ReceiverKeeps
<1>7. ASSUME NEW p \in net, ForwardTsn(p) PROVE NothingLost'
  <2> DEFINE r == ReceiveForward(receiver, p)
  <2>1. p.tsn \in Safe(receiver.got)
    BY <1>0, <1>7, ForwardGrows DEF ForwardTsn
  <2>2. r.got = receiver.got /\ Fits(receiver.got, r)
    BY <1>0, <2>1, ForwardFits
  <2>3. ReceiverGoesOn(r, p)
    BY <1>7 DEF ForwardTsn
  <2> HIDE DEF r
  <2> QED  BY <1>0, <2>2, <2>3, ReceiverKeeps
<1>8. ASSUME NEW p \in net, SackArrives(p) PROVE NothingLost'
  <2>1. p.tsn \in Safe(receiver.got)
    BY <1>0, <1>8 DEF SackArrives
  <2>2. ReceiveSack(sender, p, queued, expired) \in Good(receiver.got, queued)
    BY <1>0, <2>1, ReceiveSackGood
  <2> QED  BY <1>8, <2>2, SenderKeeps DEF SackArrives
<1>9. ASSUME NEW p \in net, Lose(p) PROVE NothingLost'
  BY <1>0, <1>9 DEF Lose, NothingLost, SenderFits, ReceiverFits, NetFits, OthersFit
<1>10. CASE UNCHANGED vars
  BY <1>0, <1>10 DEF vars, NothingLost, SenderFits, ReceiverFits, NetFits, OthersFit
<1> QED  BY <1>1, <1>2, <1>3, <1>4, <1>5, <1>6, <1>7, <1>8, <1>9, <1>10 DEF Next

THEOREM NothingForgotten ==
  ASSUME NoWrap
  PROVE  Spec => []ForgottenOnlyIfReceived
<1>1. Init => NothingLost
  BY InitFits
<1>2. NothingLost /\ [Next]_vars => NothingLost'
  BY StepFits
<1>3. NothingLost => ForgottenOnlyIfReceived
  <2> SUFFICES ASSUME NothingLost,
                      NEW m \in 1 .. sender.given, Unlimited(m), NEW i \in Parts(m)
               PROVE  \E c \in Kept \cup receiver.got : c.msg = m /\ c.part = i
    BY DEF ForgottenOnlyIfReceived, Unlimited, Parts
  <2>1. AllThere(receiver.got, sender)
    BY DEF NothingLost, SenderFits, Good
  <2>2. Has(KeptBy(sender) \cup receiver.got, m, i)
    BY <2>1 DEF AllThere
  <2> QED  BY <2>2 DEF Has, Kept, KeptBy
<1> QED  BY <1>1, <1>2, <1>3, PTL DEF Spec
-----------------------------------------------------------------------------
(***************************************************************************)
(* What the receiver delivers: InboundStream, chunk by chunk.              *)
(***************************************************************************)

(* PopMessages in parts, for a queue q and an expected sequence number e.  *)
Picked(q, S) == FoldLeft(LAMBDA t, i : IF i \in S THEN Append(t, q[i]) ELSE t, <<>>, Positions(q))
Taken(q, S) == UNION {Whole(q, p) : p \in S}
LastOf(q, S) == Picked(q, {i \in Taken(q, S) : LastFrag(q[i])})
Left(q, e) == Picked(q, DOMAIN q \ Taken(q, RunStarts(q, e)))
Moved(e, l) == FoldLeft(LAMBDA n, c : IF c.seq = n THEN Ssn!Plus(n, 1) ELSE n, e, l)
Inline(q, e) == {p \in RunStarts(q, e) : Ordered(q[p])}
Given(q, e) == LastOf(q, RunStarts(q, e))
Popped(q, e) == [i \in DOMAIN Given(q, e) |-> Given(q, e)[i].msg]

(* The elements of q at the positions in S, in their order.                *)
Picks(t, q, S) ==
  \E f \in [1 .. Len(t) -> S] :
    /\ \A i \in 1 .. Len(t) : t[i] = q[f[i]]
    /\ \A i, j \in 1 .. Len(t) : i < j => f[i] < f[j]
    /\ \A p \in S : \E i \in 1 .. Len(t) : f[i] = p

LEMMA PickedIs ==
  ASSUME NEW T, NEW q \in Seq(T), NEW U \in SUBSET (DOMAIN q)
  PROVE  Picked(q, U) \in Seq(T) /\ Picks(Picked(q, U), q, U)
<1> DEFINE s == Positions(q)
           S == Seq(T)
           E == 1 .. Len(q)
           Op(t, i) == IF i \in U THEN Append(t, q[i]) ELSE t
           f == [y \in S \X E |-> Op(y[1], y[2])]
           Fold(it) == it = [d \in SUBSET (DOMAIN s) |->
             IF d = {} THEN <<>> ELSE Op(it[d \ {Max(d)}], s[Max(d)])]
           n == Len(s)
           jt == CHOOSE it : Fold(it)
           V == [k \in 0 .. n |-> {t \in S : Picks(t, q, U \cap (1 .. k))}]
<1>0. /\ s \in Seq(E) /\ <<>> \in S /\ n = Len(q) /\ n \in Nat /\ \A i \in 1 .. n : s[i] = i
      /\ DOMAIN q = 1 .. n /\ DOMAIN s = 1 .. n
  BY DEF Positions
<1>1. Picked(q, U) = jt[DOMAIN s]
  BY DEF Picked, FoldLeft, MapThenFoldSet
<1>2. ASSUME NEW t \in S, NEW i \in E PROVE Op(t, i) \in S
  BY <1>2
<1>3. f \in [S \X E -> S] /\ \A t \in S, i \in E : f[<<t, i>>] = Op(t, i)
  BY <1>2
<1>3a. \A t \in S, i \in E : Op(t, i) = IF i \in U THEN Append(t, q[i]) ELSE t
  OBVIOUS
<1> HIDE DEF Op, f, s, S, E
<1>4. PICK it : it \in FoldTables(S, f, <<>>, s)
  <2>1. FoldTables(S, f, <<>>, s) # {}
    BY <1>0, <1>3, FoldExists
  <2> QED  BY <2>1
<1>5. Fold(it)
  <2>1. \A d \in SUBSET (1 .. n) :
          it[d] = IF d = {} THEN <<>> ELSE Op(it[d \ {Max(d)}], s[Max(d)])
    BY <1>0, <1>3, <1>4, FoldIndices DEF FoldTables
  <2>2. it \in [SUBSET (DOMAIN s) -> S]
    BY <1>0, <1>4, FoldIndices DEF FoldTables
  <2> HIDE DEF n
  <2> QED  BY <1>0, <2>1, <2>2
<1>6. Fold(jt)
  BY <1>5
<1> HIDE DEF jt
<1>7. jt[{}] \in V[0]
  <2>1. jt[{}] = <<>>
    BY <1>0, <1>6, FoldIndices
  <2>2. Picks(<<>>, q, U \cap (1 .. 0))
    <3>1. U \cap (1 .. 0) = {} /\ 1 .. Len(<<>>) = {}
      OBVIOUS
    <3>2. [i \in {} |-> i] \in [{} -> {}]
      OBVIOUS
    <3> QED  BY <3>1, <3>2 DEF Picks
  <2>3. 0 \in 0 .. n
    BY <1>0
  <2> HIDE DEF n
  <2> QED  BY <1>0, <2>1, <2>2, <2>3
<1>8. ASSUME NEW k \in 0 .. n - 1, jt[1 .. k] \in V[k]  PROVE jt[1 .. k + 1] \in V[k + 1]
  <2>1. /\ 1 .. k + 1 \in SUBSET (DOMAIN s) /\ 1 .. k + 1 # {} /\ s[k + 1] \in E
        /\ Max(1 .. k + 1) = k + 1 /\ (1 .. k + 1) \ {k + 1} = 1 .. k
    BY <1>0, FoldIndices
  <2>2. jt[1 .. k + 1] = Op(jt[1 .. k], k + 1)
    <3>1. k + 1 \in 1 .. n
      BY <1>0
    <3> QED  BY ZenonT(40), <1>0, <1>6, <2>1, <3>1
  <2>3. k \in 0 .. n /\ k + 1 \in 0 .. n /\ k + 1 \in E /\ k \in Nat
    BY <1>0 DEF E
  <2> DEFINE t == jt[1 .. k]
             u == Op(t, k + 1)
             m == Len(t)
  <2>4. t \in S /\ Picks(t, q, U \cap (1 .. k))
    BY <1>8, <2>3
  <2>5. u \in S /\ m \in Nat
    BY <1>2, <2>3, <2>4 DEF S
  <2>6. PICK g \in [1 .. m -> U \cap (1 .. k)] :
          /\ \A i \in 1 .. m : t[i] = q[g[i]]
          /\ \A i, j \in 1 .. m : i < j => g[i] < g[j]
          /\ \A p \in U \cap (1 .. k) : \E i \in 1 .. m : g[i] = p
    BY <2>4 DEF Picks
  <2>7. Picks(u, q, U \cap (1 .. k + 1))
    <3>1. CASE k + 1 \notin U
      <4>1. U \cap (1 .. k + 1) = U \cap (1 .. k)
        BY <2>3, <3>1
      <4> QED  BY <1>3a, <2>3, <2>4, <3>1, <4>1
    <3>2. CASE k + 1 \in U
      <4>1. u = Append(t, q[k + 1])
        BY <1>3a, <2>3, <2>4, <3>2
      <4>2. /\ Len(u) = m + 1 /\ u[m + 1] = q[k + 1]
            /\ \A i \in 1 .. m : u[i] = t[i]
        <5>1. t \in Seq(T)
          BY <2>4 DEF S
        <5> HIDE DEF t, u
        <5> QED  BY <4>1, <5>1
      <4> DEFINE h == [i \in 1 .. m + 1 |-> IF i = m + 1 THEN k + 1 ELSE g[i]]
      <4> HIDE DEF t, u, m
      <4>3. U \cap (1 .. k + 1) = (U \cap (1 .. k)) \cup {k + 1}
        BY <2>3, <3>2
      <4>4. \A i \in 1 .. m + 1 : i = m + 1 \/ i \in 1 .. m
        BY <2>5
      <4>5. h[m + 1] = k + 1 /\ \A i \in 1 .. m : h[i] = g[i] /\ i \in 1 .. m + 1 /\ i # m + 1
        BY <2>5
      <4>6. h \in [1 .. m + 1 -> U \cap (1 .. k + 1)]
        BY <4>3, <4>4
      <4> HIDE DEF h
      <4>7. \A i \in 1 .. m + 1 : u[i] = q[h[i]]
        BY <2>6, <4>2, <4>4, <4>5
      <4>8. \A i, j \in 1 .. m + 1 : i < j => h[i] < h[j]
        <5> SUFFICES ASSUME NEW i \in 1 .. m + 1, NEW j \in 1 .. m + 1, i < j
                     PROVE  h[i] < h[j]
          OBVIOUS
        <5>1. i \in 1 .. m
          BY <2>5
        <5>2. g[i] \in 1 .. k
          BY <2>6, <5>1
        <5>3. CASE j = m + 1
          BY <2>3, <4>5, <5>1, <5>2, <5>3
        <5>4. CASE j \in 1 .. m
          BY <2>6, <4>5, <5>1, <5>4
        <5> QED  BY <4>4, <5>3, <5>4
      <4>9. \A p \in U \cap (1 .. k + 1) : \E i \in 1 .. m + 1 : h[i] = p
        <5>1. m + 1 \in 1 .. m + 1
          BY <2>5
        <5> QED  BY <2>6, <4>3, <4>5, <5>1
      <4> QED  BY <4>2, <4>6, <4>7, <4>8, <4>9 DEF Picks
    <3> QED  BY <3>1, <3>2
  <2> HIDE DEF n, u
  <2> QED  BY <2>2, <2>3, <2>5, <2>7 DEF u
<1>9. jt[1 .. n] \in V[n]
  <2> HIDE DEF V, n
  <2> QED  BY <1>0, <1>7, <1>8, FoldStays
<1>10. n \in 0 .. n /\ U \cap (1 .. n) = U
  BY <1>0
<1> HIDE DEF n
<1> QED  BY ZenonT(40), <1>0, <1>1, <1>9, <1>10 DEF S

(* A queue is in the order of TSNs.                                        *)
Sorted(q) == \A i, j \in DOMAIN q : i < j => Rank(q[i]) < Rank(q[j])

LEMMA FragmentsAre == Fragments \in Nat
<1>1. Len(Messages) + 1 \in 1 .. Len(Messages) + 1
  BY Numbers
<1> QED  BY <1>1, BeforeIs DEF Fragments

(* From p to the end of the run no fragment is missing; after it one is.   *)
LEMMA RunEnds ==
  ASSUME NoWrap, NEW q \in Seq(Fragment), Sorted(q), NEW p \in 1 .. Len(q)
  PROVE  /\ RunEnd(q, p) \in p .. Len(q)
         /\ \A i \in p .. RunEnd(q, p) : Rank(q[i]) = Rank(q[p]) + (i - p)
         /\ RunEnd(q, p) < Len(q) => Rank(q[RunEnd(q, p) + 1]) # Rank(q[RunEnd(q, p)]) + 1
<1> DEFINE n == Len(q)
           a == Rank(q[p])
           In(e) == \A i \in p .. e : q[i].tsn = Tsn!Plus(q[p].tsn, i - p)
           Breaks(e) == e < n => q[e + 1].tsn # Tsn!Plus(q[e].tsn, 1)
           T == {e \in p .. n : In(e)}
<1>0. Fragments \in Nat
  BY FragmentsAre
<1>1. /\ n \in Nat /\ DOMAIN q = 1 .. n /\ p \in Nat
      /\ \A i \in 1 .. n : q[i] \in Fragment
  OBVIOUS
<1>2. \A i \in 1 .. n : Rank(q[i]) \in 1 .. Fragments /\ q[i].tsn = Nth(Rank(q[i])) /\ Rank(q[i]) \in Nat
  BY <1>1, RankIs
<1>3. a \in 1 .. Fragments /\ q[p].tsn = Nth(a) /\ a \in Nat
  BY <1>2
<1> HIDE DEF a, n
<1>3a. p \in 1 .. n
  BY DEF n
<1>4. p \in T
  <2>1. Tsn!Plus(Nth(a), 0) = Nth(a + 0) /\ a + 0 = a
    BY <1>3, NthMore
  <2>2. \A i \in p .. p : i = p /\ i - p = 0
    BY <1>1
  <2>3. p \in p .. n
    BY <1>1, <1>3a
  <2> QED  BY <1>3, <2>1, <2>2, <2>3
<1>5. ASSUME NEW e \in T, NEW i \in p .. e  PROVE Rank(q[i]) = a + (i - p)
  <2> DEFINE U == {k \in 0 .. e - p : Rank(q[p + k]) = a + k}
             d == e - p
  <2>1. e \in p .. n /\ In(e) /\ d \in Nat
    BY <1>1
  <2>2. 0 \in U
    <3>1. p + 0 = p /\ a + 0 = a /\ 0 \in 0 .. e - p
      BY <1>1, <1>3, <2>1
    <3> QED  BY <3>1 DEF a
  <2>3. ASSUME NEW k \in 0 .. d - 1, k \in U  PROVE k + 1 \in U
    <3>1. /\ k \in Nat /\ k + 1 \in Nat /\ k + 1 \in 0 .. e - p /\ p + k \in 1 .. n /\ p + (k + 1) \in 1 .. n
          /\ p + k < p + (k + 1) /\ p + (k + 1) \in p .. e /\ p + (k + 1) - p = k + 1
      BY <1>1, <1>3a, <2>1
    <3>2. Rank(q[p + k]) = a + k
      BY <2>3
    <3> DEFINE b == Rank(q[p + (k + 1)])
    <3>3. a + k < b /\ b \in 1 .. Fragments /\ q[p + (k + 1)].tsn = Nth(b)
      BY <1>1, <1>2, <3>1, <3>2 DEF Sorted
    <3>4. q[p + (k + 1)].tsn = Tsn!Plus(Nth(a), k + 1)
      BY <1>3, <2>1, <3>1
    <3>5. Tsn!Plus(Nth(a), k + 1) = Nth(a + (k + 1))
      BY <1>3, <3>1, NthMore
    <3> HIDE DEF b
    <3>6. a + (k + 1) \in 0 .. Fragments /\ b \in 0 .. Fragments
      BY <1>0, <1>3, <3>1, <3>3
    <3>7. b = a + (k + 1)
      BY <3>3, <3>4, <3>5, <3>6, NthOrder
    <3> QED  BY <3>1, <3>7 DEF b
  <2>4. \A k \in 0 .. d : k \in U
    <3> HIDE DEF U, d
    <3> QED  BY <2>1, <2>2, <2>3, Interval
  <2>5. i - p \in 0 .. d /\ p + (i - p) = i
    BY <1>1, <2>1
  <2>6. i - p \in U
    BY <2>4, <2>5
  <2> QED  BY <2>5, <2>6
<1>6. PICK m \in T : \A y \in T : y <= m
  <2>1. T \in SUBSET (1 .. n)
    BY <1>1, <1>3a
  <2>2. T # {}
    BY <1>4
  <2> HIDE DEF T
  <2> QED  BY <1>1, <2>1, <2>2, MaxIn
<1>7. Breaks(m)
  <2> SUFFICES ASSUME m < n, q[m + 1].tsn = Tsn!Plus(q[m].tsn, 1) PROVE FALSE
    OBVIOUS
  <2>1. m \in p .. n /\ In(m) /\ m \in Nat /\ m \in 1 .. n
    BY <1>1, <1>3a
  <2>2. q[m].tsn = Nth(a + (m - p))
    <3>1. m \in T /\ m \in p .. m
      BY <1>1, <1>6, <2>1
    <3>1a. Rank(q[m]) = a + (m - p)
      <4> HIDE DEF T
      <4> QED  BY <1>5, <3>1
    <3> QED  BY <1>2, <2>1, <3>1a
  <2>3. a + (m - p) \in Nat /\ a + (m - p) + 1 = a + (m + 1 - p) /\ m + 1 - p \in Nat /\ 1 \in Nat
    BY <1>1, <1>3, <2>1
  <2>4. Tsn!Plus(Nth(a + (m - p)), 1) = Nth(a + (m - p) + 1)
    BY <2>3, NthMore
  <2>5. Tsn!Plus(Nth(a), m + 1 - p) = Nth(a + (m + 1 - p))
    BY <1>3, <2>3, NthMore
  <2>6. q[m + 1].tsn = Tsn!Plus(q[p].tsn, m + 1 - p)
    BY <1>3, <2>2, <2>3, <2>4, <2>5
  <2>7. m + 1 \in p .. n /\ \A i \in p .. m + 1 : i \in p .. m \/ i = m + 1
    BY <1>1, <2>1
  <2>8. In(m + 1)
    BY <2>1, <2>6, <2>7
  <2>9. m + 1 \in T
    BY <2>7, <2>8
  <2>10. m + 1 <= m
    BY <1>6, <2>9
  <2> QED  BY <2>1, <2>10
<1>8. RunEnd(q, p) \in p .. n /\ In(RunEnd(q, p)) /\ Breaks(RunEnd(q, p))
  <2>1. \E e \in p .. n : In(e) /\ Breaks(e)
    BY <1>6, <1>7
  <2>2. RunEnd(q, p) = CHOOSE e \in p .. n : In(e) /\ Breaks(e)
    BY DEF RunEnd, n
  <2> HIDE DEF In, Breaks
  <2> QED  BY <2>1, <2>2
<1>9. RunEnd(q, p) < n => Rank(q[RunEnd(q, p) + 1]) # Rank(q[RunEnd(q, p)]) + 1
  <2> DEFINE r == RunEnd(q, p)
             k == Rank(q[r])
  <2>1. r \in p .. n /\ Breaks(r)
    BY <1>8
  <2> HIDE DEF r
  <2> SUFFICES ASSUME r < n, Rank(q[r + 1]) = Rank(q[r]) + 1 PROVE FALSE
    BY DEF r
  <2>2. r \in 1 .. n /\ r + 1 \in 1 .. n
    BY <1>1, <1>3a, <2>1
  <2>3. k \in Nat /\ q[r].tsn = Nth(k) /\ q[r + 1].tsn = Nth(k + 1)
    BY <1>2, <2>2
  <2> HIDE DEF k
  <2>4. Tsn!Plus(Nth(k), 1) = Nth(k + 1)
    BY <2>3, NthMore
  <2> QED  BY <2>1, <2>3, <2>4
<1> QED  BY <1>5, <1>8, <1>9 DEF a, n

LEMMA RunIs ==
  ASSUME NoWrap, NEW q \in Seq(Fragment), Sorted(q), NEW p \in 1 .. Len(q)
  PROVE  /\ RunEnd(q, p) \in p .. Len(q)
         /\ \A i \in p .. RunEnd(q, p) : Rank(q[i]) = Rank(q[p]) + (i - p)
BY RunEnds

LEMMA RunHas ==
  ASSUME NoWrap, NEW q \in Seq(Fragment), Sorted(q), NEW p \in 1 .. Len(q),
         NEW i \in p .. RunEnd(q, p), NEW m \in Message, NEW j \in Parts(m),
         Rank(q[p]) <= Before[m] + j, Before[m] + j <= Rank(q[i])
  PROVE  \E k \in p .. i : q[k].msg = m /\ q[k].part = j
<1> DEFINE a == Rank(q[p])
           n == Before[m] + j
           k == p + (n - a)
           e == RunEnd(q, p)
<1>1. e \in p .. Len(q) /\ \A l \in p .. e : Rank(q[l]) = a + (l - p)
  BY RunIs
<1>2. Len(q) \in Nat /\ \A l \in 1 .. Len(q) : q[l] \in Fragment
  OBVIOUS
<1>3. a \in Nat /\ n \in Nat /\ i \in p .. e /\ a <= n /\ n <= a + (i - p)
  <2>1. q[p] \in Fragment
    BY <1>2
  <2>2. a \in Nat
    BY <2>1, FragmentsAre, RankIs
  <2>3. n \in Nat
    BY PartsOrder
  <2> QED  BY <1>1, <2>2, <2>3
<1> HIDE DEF a, n, e
<1>4. k \in p .. i /\ k \in p .. e /\ k \in 1 .. Len(q) /\ a + (k - p) = n
  BY <1>1, <1>2, <1>3
<1>5. q[k] \in Fragment /\ Rank(q[k]) = n
  BY <1>1, <1>2, <1>4
<1> HIDE DEF k
<1>6. q[k].msg \in Message /\ q[k].part \in Parts(q[k].msg) /\ Before[q[k].msg] + q[k].part = n
  BY <1>5, RankIs DEF Rank
<1>7. q[k].msg = m /\ q[k].part = j
  BY <1>6, RankMeansPart DEF n
<1> QED  BY <1>4, <1>7

(* Where pop_messages starts a run.                                        *)
(* Where the search finds a message that may be delivered.                 *)
LEMMA Starts ==
  ASSUME NoWrap, NEW q \in Seq(Fragment), Sorted(q), NEW e
  PROVE  /\ RunStarts(q, e) \in SUBSET (1 .. Len(q))
         /\ \A p \in RunStarts(q, e) : FirstFrag(q[p]) /\ (Ordered(q[p]) => InTurn(q[p], e))
         /\ (\A i \in DOMAIN q : Ordered(q[i])) => \A p \in RunStarts(q, e) : p = 1
         /\ 1 \in 1 .. Len(q) /\ Ordered(q[1]) /\ FirstFrag(q[1]) /\ InTurn(q[1], e)
              => 1 \in RunStarts(q, e)
<1> DEFINE n == Len(q)
           Body(g, p) ==
             IF p > n THEN {}
             ELSE IF Ordered(q[p])
             THEN IF FirstFrag(q[p]) /\ InTurn(q[p], e) THEN {p} ELSE {}
             ELSE IF FirstFrag(q[p]) THEN {p} \cup g[RunEnd(q, p) + 2]
             ELSE g[p + 1]
           Is(g) == g = [p \in 1 .. n + 2 |-> Body(g, p)]
           S == SUBSET (1 .. n)
           D(k) == n + 3 - k .. n + 2
           T == {k \in 0 .. n + 2 : \E g \in [D(k) -> S] : \A p \in D(k) : g[p] = Body(g, p)}
           starts == CHOOSE g : Is(g)
           Good1(p) == FirstFrag(q[p]) /\ (Ordered(q[p]) => InTurn(q[p], e))
<1>1. n \in Nat /\ DOMAIN q = 1 .. n /\ \A p \in 1 .. n : RunEnd(q, p) \in p .. n
  BY RunIs
<1>2. RunStarts(q, e) = starts[1]
  BY DEF RunStarts
<1>3. \A g, h, p : p \in 1 .. n /\ g[RunEnd(q, p) + 2] = h[RunEnd(q, p) + 2] /\ g[p + 1] = h[p + 1]
                   => Body(g, p) = Body(h, p)
  OBVIOUS
<1>4. \A g, h, p : p > n => Body(g, p) = {}
  OBVIOUS
<1>5. \A g, p : p \in 1 .. n /\ g[RunEnd(q, p) + 2] \in S /\ g[p + 1] \in S => Body(g, p) \in S
  OBVIOUS
<1>6. \A g : \A p \in 1 .. n :
         \A i \in Body(g, p) : \/ i = p /\ Good1(p)
                               \/ i \in g[RunEnd(q, p) + 2] \/ i \in g[p + 1]
  OBVIOUS
<1>7. \A g : \A p \in 1 .. n : Ordered(q[p]) => \A i \in Body(g, p) : i = p
  OBVIOUS
<1>7a. \A g : \A p \in 1 .. n : Ordered(q[p]) /\ FirstFrag(q[p]) /\ InTurn(q[p], e) => p \in Body(g, p)
  OBVIOUS
<1> HIDE DEF Body, starts, n, Good1
<1>8. 0 \in T
  <2>1. D(0) = {} /\ 0 \in 0 .. n + 2
    BY <1>1
  <2>2. [p \in {} |-> {}] \in [{} -> S]
    OBVIOUS
  <2> HIDE DEF D, S
  <2>3. \E g \in [D(0) -> S] : \A p \in D(0) : g[p] = Body(g, p)
    BY <2>1, <2>2
  <2> QED  BY <2>1, <2>3
<1>9. ASSUME NEW k \in 0 .. n + 1, k \in T  PROVE k + 1 \in T
  <2> DEFINE a == n + 2 - k
  <2>1. PICK g \in [D(k) -> S] : \A p \in D(k) : g[p] = Body(g, p)
    BY <1>9
  <2> DEFINE h == [p \in D(k + 1) |-> IF p = a THEN Body(g, a) ELSE g[p]]
  <2>2. /\ k + 1 \in 0 .. n + 2 /\ a \in 1 .. n + 2 /\ a \notin D(k) /\ a \in D(k + 1)
        /\ \A p \in D(k) : p \in D(k + 1) /\ p # a
        /\ \A p \in D(k + 1) : p = a \/ p \in D(k)
        /\ \A p \in D(k + 1) : p > n \/ (p \in 1 .. n /\ p + 1 \in D(k) /\ RunEnd(q, p) + 2 \in D(k))
    <3>1. k \in Nat /\ k <= n + 1 /\ D(k + 1) = n + 2 - k .. n + 2 /\ D(k) = n + 3 - k .. n + 2
      BY <1>1
    <3>2. /\ k + 1 \in 0 .. n + 2 /\ a \in 1 .. n + 2 /\ a \notin D(k) /\ a \in D(k + 1)
          /\ \A p \in D(k) : p \in D(k + 1) /\ p # a
          /\ \A p \in D(k + 1) : p = a \/ p \in D(k)
      BY <1>1, <3>1
    <3>3. ASSUME NEW p \in D(k + 1), ~(p > n)
          PROVE  p \in 1 .. n /\ p + 1 \in D(k) /\ RunEnd(q, p) + 2 \in D(k)
      <4>1. p \in 1 .. n
        BY <1>1, <3>1, <3>3
      <4>2. RunEnd(q, p) \in p .. n
        BY <1>1, <4>1
      <4> DEFINE r == RunEnd(q, p)
      <4> HIDE DEF r
      <4>3. r \in p .. n
        BY <4>2 DEF r
      <4>4. p + 1 \in D(k) /\ r + 2 \in D(k)
        BY <1>1, <3>1, <3>3, <4>1, <4>3
      <4> QED  BY <4>1, <4>4 DEF r
    <3> QED  BY <3>2, <3>3
  <2> HIDE DEF D, a
  <2>3. ASSUME NEW p \in D(k + 1)  PROVE (IF p = a THEN Body(g, a) ELSE g[p]) \in S
    <3>1. CASE p = a /\ p > n
      BY <1>4, <3>1
    <3>2. CASE p = a /\ ~(p > n)
      <4>1. p \in 1 .. n /\ p + 1 \in D(k) /\ RunEnd(q, p) + 2 \in D(k)
        BY <2>2, <3>2
      <4> HIDE DEF S
      <4> QED  BY <1>5, <2>1, <3>2, <4>1
    <3>3. CASE p # a
      <4> HIDE DEF S
      <4> QED  BY <2>1, <2>2, <3>3
    <3> QED  BY <3>1, <3>2, <3>3
  <2> HIDE DEF S
  <2>4. h \in [D(k + 1) -> S]
    BY <2>3
  <2>5. h[a] = Body(g, a) /\ \A p \in D(k) : h[p] = g[p]
    BY <2>2
  <2> HIDE DEF h
  <2>6. ASSUME NEW p \in D(k + 1)  PROVE h[p] = Body(h, p)
    <3>1. h[p] = Body(g, p)
      BY <2>1, <2>2, <2>5
    <3>2. CASE p > n
      BY <1>4, <3>1, <3>2
    <3>3. CASE ~(p > n)
      <4>1. p \in 1 .. n /\ p + 1 \in D(k) /\ RunEnd(q, p) + 2 \in D(k)
        BY <2>2, <3>3
      <4> QED  BY <1>3, <2>5, <3>1, <4>1
    <3> QED  BY <3>2, <3>3
  <2> QED  BY <2>2, <2>4, <2>6
<1>10. n + 2 \in T
  <2>1. n + 2 \in Nat /\ \A k \in 0 .. (n + 2) - 1 : k \in 0 .. n + 1
    BY <1>1
  <2> HIDE DEF T
  <2>2. \A k \in 0 .. (n + 2) - 1 : k \in T => k + 1 \in T
    BY <1>9, <2>1
  <2> DEFINE m == n + 2
  <2> HIDE DEF m
  <2>3. \A k \in 0 .. m : k \in T
    BY <1>8, <2>1, <2>2, Interval DEF m
  <2>4. m \in 0 .. m
    BY <2>1 DEF m
  <2> QED  BY <2>3, <2>4 DEF m
<1>11. Is(starts)
  <2>1. D(n + 2) = 1 .. n + 2
    BY <1>1
  <2>2. PICK g \in [D(n + 2) -> S] : \A p \in D(n + 2) : g[p] = Body(g, p)
    BY <1>10
  <2> HIDE DEF D, S
  <2>3. Is(g)
    BY <2>1, <2>2
  <2> HIDE DEF Is
  <2> QED  BY <2>3 DEF starts
<1>12. \A p \in 1 .. n + 2 : starts[p] = Body(starts, p)
  BY <1>11
<1> DEFINE U == {k \in 0 .. n + 2 : \A p \in D(k) : \A i \in starts[p] : i \in 1 .. n /\ Good1(i)}
<1>13. 0 \in U
  BY <1>1
<1>14. ASSUME NEW k \in 0 .. n + 1, k \in U  PROVE k + 1 \in U
  <2>1. k + 1 \in 0 .. n + 2 /\ k \in Nat /\ D(k + 1) = n + 2 - k .. n + 2 /\ D(k) = n + 3 - k .. n + 2
    BY <1>1
  <2>2. ASSUME NEW p \in D(k + 1), NEW i \in starts[p]  PROVE i \in 1 .. n /\ Good1(i)
    <3>1. p \in 1 .. n + 2
      BY <1>1, <2>1
    <3>2. i \in Body(starts, p)
      BY <1>12, <2>2, <3>1
    <3>3. p \in 1 .. n
      <4>1. ~(p > n)
        BY <1>4, <3>2
      <4> QED  BY <1>1, <3>1, <4>1
    <3>4. RunEnd(q, p) \in p .. n
      BY <1>1, <3>3
    <3> DEFINE r == RunEnd(q, p)
    <3>5. r \in p .. n /\ ((i = p /\ Good1(p)) \/ i \in starts[r + 2] \/ i \in starts[p + 1])
      BY <1>6, <3>2, <3>3, <3>4
    <3> HIDE DEF r
    <3>6. p + 1 \in D(k) /\ r + 2 \in D(k)
      BY <1>1, <2>1, <2>2, <3>3, <3>5
    <3> QED  BY <1>14, <3>3, <3>5, <3>6
  <2> QED  BY <2>1, <2>2
<1>15. n + 2 \in U
  <2>1. n + 2 \in Nat /\ \A k \in 0 .. (n + 2) - 1 : k \in 0 .. n + 1
    BY <1>1
  <2> HIDE DEF U
  <2>2. \A k \in 0 .. (n + 2) - 1 : k \in U => k + 1 \in U
    BY <1>14, <2>1
  <2> DEFINE m == n + 2
  <2> HIDE DEF m
  <2>3. \A k \in 0 .. m : k \in U
    BY <1>13, <2>1, <2>2, Interval DEF m
  <2>4. m \in 0 .. m
    BY <2>1 DEF m
  <2> QED  BY <2>3, <2>4 DEF m
<1>16. 1 \in D(n + 2) /\ 1 \in 1 .. n + 2
  BY <1>1
<1>17. \A i \in starts[1] : i \in 1 .. n /\ Good1(i)
  BY <1>15, <1>16
<1>18. (\A i \in DOMAIN q : Ordered(q[i])) => \A p \in starts[1] : p = 1
  <2> SUFFICES ASSUME \A i \in DOMAIN q : Ordered(q[i]), NEW p \in starts[1] PROVE p = 1
    OBVIOUS
  <2>1. p \in Body(starts, 1)
    BY <1>12, <1>16
  <2>2. 1 \in 1 .. n
    <3>1. ~(1 > n)
      BY <1>4, <2>1
    <3> QED  BY <1>1, <3>1
  <2> QED  BY <1>1, <1>7, <2>1, <2>2
<1>19. 1 \in 1 .. n /\ Ordered(q[1]) /\ FirstFrag(q[1]) /\ InTurn(q[1], e) => 1 \in starts[1]
  BY <1>7a, <1>12, <1>16
<1> QED  BY <1>2, <1>17, <1>18, <1>19 DEF n, Good1

LEMMA StartsAre ==
  ASSUME NoWrap, NEW q \in Seq(Fragment), Sorted(q), NEW e
  PROVE  /\ RunStarts(q, e) \in SUBSET (1 .. Len(q))
         /\ \A p \in RunStarts(q, e) : FirstFrag(q[p]) /\ (Ordered(q[p]) => InTurn(q[p], e))
         /\ (\A i \in DOMAIN q : Ordered(q[i])) => \A p \in RunStarts(q, e) : p = 1
BY Starts

-----------------------------------------------------------------------------
(* Sequence numbers are compared within half of their range too, and       *)
(* all the messages of a channel have its settings.                        *)
Turns(x) == Earlier[Len(Messages) + 1][x]
NoSsnWrap == \A x \in Stream : Turns(x) < Ssn!Half
Alike ==
  \A m, k \in Message : Messages[m].stream = Messages[k].stream =>
    Messages[m].ordered = Messages[k].ordered /\ (Unlimited(m) <=> Unlimited(k))

LEMMA EarlierGrows ==
  ASSUME NEW m \in 1 .. Len(Messages) + 1, NEW k \in m .. Len(Messages) + 1, NEW x \in Stream
  PROVE  /\ Earlier[m][x] \in Nat /\ Earlier[k][x] \in Nat /\ Earlier[m][x] <= Earlier[k][x]
         /\ Earlier[1][x] = 0
<1> DEFINE n == Len(Messages)
           d == k - m
           a(j) == Earlier[j][x]
           T == {i \in 0 .. d : a(m) <= a(m + i)}
<1>1. n \in Nat /\ Message = 1 .. n /\ m \in 1 .. n + 1 /\ k \in m .. n + 1 /\ d \in Nat
  BY Numbers
<1>2. \A j \in 1 .. n + 1 : a(j) \in Nat
  BY EarlierIs
<1>3. \A j \in 1 .. n : a(j + 1) = a(j) \/ a(j + 1) = a(j) + 1
  BY <1>1, EarlierIs
<1>4. a(1) = 0
  BY EarlierIs
<1> HIDE DEF n, a, d
<1>5. 0 \in T
  <2>1. m + 0 = m /\ 0 \in 0 .. d
    BY <1>1
  <2> QED  BY <1>1, <1>2, <2>1
<1>6. ASSUME NEW i \in 0 .. d - 1, i \in T  PROVE i + 1 \in T
  <2>1. /\ m + i \in 1 .. n /\ m + (i + 1) = m + i + 1 /\ i + 1 \in 0 .. d
        /\ m + i + 1 \in 1 .. n + 1 /\ m + i \in 1 .. n + 1
    BY <1>1 DEF d
  <2>2. a(m + i) \in Nat /\ a(m + i + 1) \in Nat /\ a(m) \in Nat
    BY <1>1, <1>2, <2>1
  <2>2a. a(m) <= a(m + i)
    BY <1>6
  <2>3. a(m) <= a(m + i + 1)
    BY <1>3, <2>1, <2>2, <2>2a
  <2> QED  BY <2>1, <2>3
<1>7. \A i \in 0 .. d : i \in T
  <2> HIDE DEF T
  <2> QED  BY <1>1, <1>5, <1>6, Interval
<1>8. d \in T /\ m + d = k
  <2>1. d \in 0 .. d /\ m + d = k
    BY <1>1 DEF d
  <2> QED  BY <1>7, <2>1
<1>9. k \in 1 .. n + 1
  BY <1>1
<1> QED  BY <1>2, <1>4, <1>8, <1>9 DEF a, n

LEMMA SsnHalf ==
  SsnModulo \in Nat \ {0} /\ Ssn!Half \in Nat /\ Ssn!Half + Ssn!Half = SsnModulo
<1>1. SsnModulo \in Nat \ {0} /\ SsnModulo % 2 = 0
  BY SctpAssumption
<1> QED  BY <1>1 DEF Ssn!Half

LEMMA TurnIs ==
  ASSUME NoSsnWrap, NEW m \in Message, Messages[m].ordered
  PROVE  LET x == Messages[m].stream
         IN  /\ Turn(m) = Earlier[m][x] /\ Earlier[m + 1][x] = Turn(m) + 1
             /\ Turn(m) \in Nat /\ Turns(x) \in Nat /\ Turn(m) < Turns(x) /\ Turns(x) < Ssn!Half
<1> DEFINE x == Messages[m].stream
           a == Earlier[m][x]
           b == Earlier[m + 1][x]
           n == Len(Messages)
<1>1. x \in Stream
  BY MessageIs
<1>2. n \in Nat /\ m \in 1 .. n
  BY Numbers
<1>3. m \in 1 .. n + 1 /\ m + 1 \in 1 .. n + 1 /\ n + 1 \in m + 1 .. n + 1
  BY <1>2
<1>4. b \in Nat /\ Turns(x) \in Nat /\ b <= Turns(x)
  BY <1>1, <1>3, EarlierGrows DEF Turns
<1>5. a \in Nat
  BY <1>1, <1>3, EarlierIs
<1>6. b = a + 1
  BY <1>1, EarlierIs
<1>7. Turns(x) < Ssn!Half
  BY <1>1 DEF NoSsnWrap
<1>8. Turn(m) = a % SsnModulo
  BY DEF Turn
<1> HIDE DEF a, b, x
<1>9. a \in 0 .. SsnModulo - 1 /\ a < Turns(x)
  BY <1>4, <1>5, <1>6, <1>7, SsnHalf
<1>10. a % SsnModulo = a
  BY <1>9, SsnHalf, ModSmall
<1> QED  BY <1>4, <1>5, <1>6, <1>7, <1>8, <1>9, <1>10 DEF a, b, x

LEMMA TurnOrder ==
  ASSUME NoSsnWrap, NEW m \in Message, NEW k \in Message, Messages[m].ordered, Messages[k].ordered,
         Messages[m].stream = Messages[k].stream
  PROVE  (m < k <=> Turn(m) < Turn(k)) /\ (m = k <=> Turn(m) = Turn(k))
<1>1. Message = 1 .. Len(Messages) /\ Len(Messages) \in Nat
  BY Numbers
<1>2. Turn(m) \in Nat /\ Turn(k) \in Nat
  BY TurnIs
<1>3. ASSUME NEW i \in Message, NEW j \in Message, Messages[i].ordered, Messages[j].ordered,
             Messages[i].stream = Messages[j].stream, i < j
      PROVE  Turn(i) < Turn(j)
  <2> DEFINE x == Messages[i].stream
  <2>1. x \in Stream
    BY MessageIs
  <2>2. i + 1 \in 1 .. Len(Messages) + 1 /\ j \in i + 1 .. Len(Messages) + 1
    BY <1>1, <1>3
  <2>3. Earlier[i + 1][x] <= Earlier[j][x]
    BY <2>1, <2>2, EarlierGrows
  <2>4. Earlier[i + 1][x] = Turn(i) + 1 /\ Turn(i) \in Nat
    BY <1>3, TurnIs
  <2>5. Turn(j) = Earlier[j][x] /\ Turn(j) \in Nat
    BY <1>3, TurnIs
  <2> HIDE DEF x
  <2> QED  BY <2>3, <2>4, <2>5
<1>4. m < k => Turn(m) < Turn(k)
  BY <1>3
<1>5. k < m => Turn(k) < Turn(m)
  BY <1>3
<1>6. m < k \/ m = k \/ k < m
  BY <1>1
<1> QED  BY <1>1, <1>2, <1>4, <1>5, <1>6

LEMMA InTurnIs ==
  ASSUME NoSsnWrap, NEW c \in Fragment, Ordered(c), NEW e \in 0 .. Turns(StreamOf(c))
  PROVE  InTurn(c, e) <=> Turn(c.msg) <= e
<1>1. c.msg \in Message /\ c.seq = Turn(c.msg)
  BY DEF Fragment
<1>2. /\ Turn(c.msg) \in Nat /\ Turns(StreamOf(c)) \in Nat
      /\ Turn(c.msg) < Turns(StreamOf(c)) /\ Turns(StreamOf(c)) < Ssn!Half
  BY <1>1, TurnIs DEF Ordered, StreamOf
<1> DEFINE a == c.seq
           h == Ssn!Half
<1>3. a \in Nat /\ a < h /\ e \in Nat /\ e < h /\ h \in Nat
  BY <1>1, <1>2, SsnHalf
<1>4. InTurn(c, e) <=> ~((a < e /\ e - a > h) \/ (a > e /\ a - e < h))
  BY DEF InTurn, Ssn!Gt
<1> HIDE DEF a, h
<1>5. ~((a < e /\ e - a > h) \/ (a > e /\ a - e < h)) <=> a <= e
  BY <1>3
<1> QED  BY <1>1, <1>4, <1>5 DEF a

(* The expected sequence number passes those of messages delivered.        *)
LEMMA MovedIs ==
  ASSUME NoSsnWrap, NEW x \in Stream, NEW l \in Seq({c \in Fragment : Ordered(c) /\ StreamOf(c) = x}),
         NEW e \in 0 .. Turns(x)
  PROVE  /\ Moved(e, l) \in e .. Turns(x)
         /\ \A i \in e .. Moved(e, l) - 1 : \E j \in 1 .. Len(l) : Turn(l[j].msg) = i
<1> DEFINE s == l
           S == 0 .. Turns(x)
           E == {c \in Fragment : Ordered(c) /\ StreamOf(c) = x}
           Op(t, c) == IF c.seq = t THEN Ssn!Plus(t, 1) ELSE t
           f == [y \in S \X E |-> Op(y[1], y[2])]
           Fold(it) == it = [d \in SUBSET (DOMAIN s) |->
             IF d = {} THEN e ELSE Op(it[d \ {Max(d)}], s[Max(d)])]
           n == Len(s)
           jt == CHOOSE it : Fold(it)
           Passes(k, t) == t \in e .. Turns(x) /\ \A i \in e .. t - 1 : \E j \in 1 .. k : Turn(l[j].msg) = i
           V == [k \in 0 .. n |-> {t \in S : Passes(k, t)}]
<1>0. s \in Seq(E) /\ e \in S /\ n \in Nat /\ DOMAIN s = 1 .. n /\ \A i \in 1 .. n : s[i] \in E
  OBVIOUS
<1>1. Moved(e, l) = jt[DOMAIN s]
  BY DEF Moved, FoldLeft, MapThenFoldSet
<1>2. ASSUME NEW t \in S, NEW c \in E
      PROVE  Op(t, c) = (IF Turn(c.msg) = t THEN t + 1 ELSE t) /\ Op(t, c) \in S
  <2>1. c \in Fragment /\ Ordered(c) /\ StreamOf(c) = x /\ c.msg \in Message /\ c.seq = Turn(c.msg)
    BY <1>2 DEF Fragment
  <2>2. Turn(c.msg) \in Nat /\ Turns(x) \in Nat /\ Turn(c.msg) < Turns(x) /\ Turns(x) < Ssn!Half
    BY <2>1, TurnIs DEF Ordered, StreamOf
  <2>3. CASE c.seq = t
    <3>1. t + 1 \in 0 .. SsnModulo - 1 /\ t + 1 \in S
      BY <2>1, <2>2, <2>3, SsnHalf
    <3>2. (t + 1) % SsnModulo = t + 1
      <4> DEFINE v == t + 1
      <4> HIDE DEF v
      <4> QED  BY <3>1, SsnHalf, ModSmall DEF v
    <3> QED  BY <2>1, <2>3, <3>1, <3>2 DEF Ssn!Plus
  <2>4. CASE c.seq # t
    BY <1>2, <2>1, <2>4
  <2> QED  BY <2>3, <2>4
<1>3. f \in [S \X E -> S] /\ \A t \in S, i \in E : f[<<t, i>>] = Op(t, i)
  BY <1>2
<1> HIDE DEF Op, f, s, S, E
<1>4. PICK it : it \in FoldTables(S, f, e, s)
  <2>1. FoldTables(S, f, e, s) # {}
    BY <1>0, <1>3, FoldExists
  <2> QED  BY <2>1
<1>5. Fold(it)
  <2>1. \A d \in SUBSET (1 .. n) :
          it[d] = IF d = {} THEN e ELSE Op(it[d \ {Max(d)}], s[Max(d)])
    BY <1>0, <1>3, <1>4, FoldIndices DEF FoldTables
  <2>2. it \in [SUBSET (DOMAIN s) -> S]
    BY <1>0, <1>4, FoldIndices DEF FoldTables
  <2> HIDE DEF n
  <2> QED  BY <1>0, <2>1, <2>2
<1>6. Fold(jt)
  BY <1>5
<1> HIDE DEF jt
<1>7. jt[{}] \in V[0]
  <2>1. jt[{}] = e
    BY <1>0, <1>6, FoldIndices
  <2>2. Passes(0, e)
    BY <1>0 DEF S
  <2>3. 0 \in 0 .. n
    BY <1>0
  <2> HIDE DEF n, Passes
  <2> QED  BY <1>0, <2>1, <2>2, <2>3
<1>8. ASSUME NEW k \in 0 .. n - 1, jt[1 .. k] \in V[k]  PROVE jt[1 .. k + 1] \in V[k + 1]
  <2>1. /\ 1 .. k + 1 \in SUBSET (DOMAIN s) /\ 1 .. k + 1 # {} /\ s[k + 1] \in E
        /\ Max(1 .. k + 1) = k + 1 /\ (1 .. k + 1) \ {k + 1} = 1 .. k
    BY <1>0, FoldIndices
  <2>2. jt[1 .. k + 1] = Op(jt[1 .. k], s[k + 1])
    BY <1>6, <2>1
  <2>3. k \in 0 .. n /\ k + 1 \in 0 .. n /\ k \in Nat
    BY <1>0
  <2> DEFINE t == jt[1 .. k]
             u == Op(t, s[k + 1])
             a == Turn(l[k + 1].msg)
  <2>4. t \in S /\ Passes(k, t)
    BY <1>8, <2>3
  <2>5. u \in S /\ u = IF a = t THEN t + 1 ELSE t
    BY <1>2, <2>1, <2>4 DEF s
  <2> HIDE DEF t, u, a
  <2>6. Passes(k + 1, u)
    <3>1. \A i \in e .. t - 1 : \E j \in 1 .. k + 1 : Turn(l[j].msg) = i
      <4>1. \A j \in 1 .. k : j \in 1 .. k + 1
        BY <2>3
      <4> QED  BY <2>4, <4>1
    <3>2. t \in e .. Turns(x)
      BY <2>4
    <3>3. CASE a # t
      BY <2>5, <3>1, <3>2, <3>3
    <3>4. CASE a = t
      <4>1. u = t + 1
        BY <2>5, <3>4
      <4>2. u \in e .. Turns(x) /\ k + 1 \in 1 .. k + 1
        BY <2>3, <2>5, <3>2, <4>1 DEF S
      <4>3. \A i \in e .. u - 1 : i \in e .. t - 1 \/ i = t
        BY <3>2, <4>1
      <4>4. Turn(l[k + 1].msg) = t
        BY <3>4 DEF a
      <4> QED  BY <3>1, <4>2, <4>3, <4>4
    <3> QED  BY <3>3, <3>4
  <2> HIDE DEF n, Passes
  <2> QED  BY <2>2, <2>3, <2>5, <2>6 DEF u, t
<1>9. jt[1 .. n] \in V[n]
  <2> HIDE DEF V, n
  <2> QED  BY <1>0, <1>7, <1>8, FoldStays
<1>10. n \in 0 .. n
  BY <1>0
<1>11. Passes(n, Moved(e, l))
  <2> HIDE DEF n, Passes
  <2> QED  BY <1>0, <1>1, <1>9, <1>10
<1> QED  BY <1>11 DEF s

-----------------------------------------------------------------------------
LEMMA SameChunk ==
  ASSUME NEW c \in Fragment, NEW d \in Fragment, c.msg = d.msg, c.part = d.part
  PROVE  c = d
<1>1. /\ c \in [tsn : Int, msg : Message, part : Nat, seq : Int]
      /\ d \in [tsn : Int, msg : Message, part : Nat, seq : Int]
      /\ c.tsn = d.tsn /\ c.seq = d.seq
  BY DEF Fragment, Rank
<1> QED  BY <1>1

LEMMA Crossed ==
  ASSUME NEW c, NEW d, c.msg \in Message, d.msg \in Message, c.part \in Parts(c.msg), d.part \in Parts(d.msg),
         d.msg < c.msg
  PROVE  Rank(d) <= Before[c.msg] /\ Before[c.msg] < Rank(c) /\ Before[c.msg] \in Nat
<1> DEFINE m == c.msg
           n == d.msg
           i == c.part
           j == d.part
<1>1. m \in 1 .. Len(Messages) + 1 /\ m <= m
  BY Numbers
<1>2. m \in Message /\ n \in Message /\ i \in Parts(m) /\ j \in Parts(n) /\ n < m
  OBVIOUS
<1> HIDE DEF m, n, i, j
<1>3. Before[n] + j <= Before[m]
  BY <1>1, <1>2, PartsOrder
<1>4. Before[m] < Before[m] + i /\ Before[m] \in Nat
  BY <1>1, <1>2, PartsOrder
<1> QED  BY <1>3, <1>4 DEF Rank, m, n, i, j

(* Between the first fragment of a message and a last one nothing is missing. *)
LEMMA BetweenIs ==
  ASSUME NoWrap, NEW q \in Seq(Fragment), Sorted(q), NEW p \in 1 .. Len(q), FirstFrag(q[p]),
         NEW i \in p .. RunEnd(q, p), NEW m \in Message, q[p].msg <= m,
         m < q[i].msg \/ (m = q[i].msg /\ LastFrag(q[i])), NEW j \in Parts(m)
  PROVE  \E k \in p .. i : q[k].msg = m /\ q[k].part = j
<1> DEFINE a == q[p].msg
           b == q[i].msg
           e == RunEnd(q, p)
<1>1. e \in p .. Len(q) /\ Len(q) \in Nat
  BY RunIs
<1>2. i \in 1 .. Len(q)
  <2> HIDE DEF e
  <2>1. i \in p .. e
    BY DEF e
  <2> QED  BY <1>1, <2>1
<1>3. q[p] \in Fragment /\ q[i] \in Fragment
  BY <1>2
<1>4. /\ a \in Message /\ b \in Message /\ 1 \in Parts(a) /\ q[i].part \in Parts(b)
      /\ Rank(q[p]) = Before[a] + 1 /\ Rank(q[i]) = Before[b] + q[i].part
  <2>1. a \in Message /\ q[p].part \in Parts(a) /\ b \in Message /\ q[i].part \in Parts(b)
    BY <1>3, RankIs
  <2>2. q[p].part = 1
    BY DEF FirstFrag
  <2> QED  BY <2>1, <2>2 DEF Rank
<1>5. Message = 1 .. Len(Messages) /\ Len(Messages) \in Nat
  BY Numbers
<1>6. Before[a] + 1 <= Before[m] + j
  <2>1. Before[a] \in Nat /\ Before[m] \in Nat /\ Before[m] + j \in Nat /\ j \in Nat \ {0}
    BY SMTT(30), <1>4, PartsOrder
  <2>2. CASE a = m
    BY <2>1, <2>2
  <2>3. CASE a < m
    <3>1. m \in 1 .. Len(Messages) + 1
      BY <1>5
    <3>2. Before[a] + 1 <= Before[m]
      BY <1>4, <2>3, <3>1, PartsOrder
    <3> QED  BY <2>1, <3>2
  <2> HIDE DEF a
  <2> QED  BY <1>4, <1>5, <2>2, <2>3 DEF a
<1>7. Before[m] + j <= Before[b] + q[i].part
  <2>1. Before[b] \in Nat /\ Before[m] \in Nat /\ Before[m] + j \in Nat /\ j \in Nat \ {0} /\ q[i].part \in Nat \ {0}
    <3>1. Before[b] \in Nat /\ q[i].part \in Nat \ {0}
      BY <1>4, PartsOrder
    <3>2. Before[m] \in Nat /\ j \in Nat \ {0}
      BY PartsOrder
    <3> QED  BY <3>1, <3>2
  <2>2. CASE m = b /\ LastFrag(q[i])
    <3>1. Parts(m) = 1 .. Len(Messages[m].sizes) /\ Len(Messages[m].sizes) \in Nat
      BY MessageIs
    <3>2. q[i].part = Len(Messages[m].sizes)
      BY <2>2 DEF LastFrag
    <3>3. j <= q[i].part
      BY <3>1, <3>2
    <3> QED  BY <2>1, <2>2, <3>3
  <2>3. CASE m < b
    <3>1. b \in 1 .. Len(Messages) + 1
      BY <1>4, <1>5
    <3>2. Before[m] + j <= Before[b]
      BY <2>3, <3>1, PartsOrder
    <3> QED  BY SMTT(30), <2>1, <3>2
  <2> QED  BY <2>2, <2>3
<1> QED  BY <1>4, <1>6, <1>7, RunHas

(* What is taken is taken with the whole message it belongs to.            *)
LEMMA WholeIs ==
  ASSUME NoWrap, NEW q \in Seq(Fragment), Sorted(q), NEW p \in 1 .. Len(q), FirstFrag(q[p]),
         NEW i \in Whole(q, p)
  PROVE  /\ i \in p .. RunEnd(q, p) /\ i \in 1 .. Len(q) /\ q[p].msg <= q[i].msg
         /\ \A c \in Fragment : c.msg = q[i].msg => c \in Range(q)
<1> DEFINE e == RunEnd(q, p)
<1>1. e \in p .. Len(q) /\ Len(q) \in Nat
  BY RunIs
<1>2. PICK l \in i .. e : LastFrag(q[l])
  BY DEF Whole
<1>3. i \in p .. e
  BY DEF Whole
<1> HIDE DEF e
<1>4. i \in 1 .. Len(q) /\ l \in 1 .. Len(q) /\ l \in p .. e
  BY <1>1, <1>2, <1>3
<1>5. q[p] \in Fragment /\ q[i] \in Fragment /\ q[l] \in Fragment
  BY <1>4
<1>6. \A k, n \in 1 .. Len(q) : k <= n => q[k].msg <= q[n].msg
  <2> SUFFICES ASSUME NEW k \in 1 .. Len(q), NEW n \in 1 .. Len(q), k <= n, ~(q[k].msg <= q[n].msg)
               PROVE  FALSE
    OBVIOUS
  <2>1. q[k] \in Fragment /\ q[n] \in Fragment
    OBVIOUS
  <2>2. /\ q[k].msg \in Message /\ q[n].msg \in Message
        /\ q[k].part \in Parts(q[k].msg) /\ q[n].part \in Parts(q[n].msg)
    BY <2>1, RankIs
  <2>3. Message = 1 .. Len(Messages) /\ Len(Messages) \in Nat
    BY Numbers
  <2>4. q[n].msg < q[k].msg /\ q[k].msg \in 1 .. Len(Messages) + 1
    BY <2>2, <2>3
  <2>5. Rank(q[n]) <= Before[q[k].msg] /\ Before[q[k].msg] < Rank(q[k])
    BY <2>2, <2>4, Crossed
  <2>6. Rank(q[n]) \in Nat /\ Rank(q[k]) \in Nat /\ Before[q[k].msg] \in Nat
    <3>1. Rank(q[n]) \in 1 .. Fragments /\ Rank(q[k]) \in 1 .. Fragments
      BY <2>1, RankIs
    <3>2. Before[q[k].msg] \in Nat
      BY <2>2, PartsOrder
    <3> QED  BY <3>1, <3>2, FragmentsAre
  <2>7. k = n \/ Rank(q[k]) < Rank(q[n])
    BY DEF Sorted
  <2>8. k # n
    BY <2>2, <2>3
  <2> QED  BY <2>5, <2>6, <2>7, <2>8
<1>7. p <= i /\ i <= l
  BY <1>1, <1>2, <1>3
<1>8. q[p].msg <= q[i].msg /\ q[i].msg <= q[l].msg
  BY <1>4, <1>6, <1>7
<1>9. ASSUME NEW c \in Fragment, c.msg = q[i].msg PROVE c \in Range(q)
  <2> DEFINE m == q[i].msg
             j == c.part
  <2>1. m \in Message /\ j \in Parts(m) /\ q[l].msg \in Message
    BY <1>5, <1>9, RankIs
  <2>2. m < q[l].msg \/ (m = q[l].msg /\ LastFrag(q[l]))
    <3>1. \A a, b \in Message : a <= b => a < b \/ a = b
      BY Numbers
    <3> QED  BY <1>2, <1>8, <2>1, <3>1
  <2>3. \E k \in p .. l : q[k].msg = m /\ q[k].part = j
    <3>1. l \in p .. RunEnd(q, p)
      BY <1>4 DEF e
    <3> HIDE DEF m, j
    <3>2. q[p].msg <= m
      BY <1>8 DEF m
    <3> QED  BY <2>1, <2>2, <3>1, <3>2, BetweenIs
  <2>4. PICK k \in p .. l : q[k].msg = m /\ q[k].part = j
    BY <2>3
  <2>5. k \in 1 .. Len(q) /\ q[k] \in Fragment
    BY <1>1, <1>4
  <2>6. c = q[k]
    BY <1>9, <2>4, <2>5, SameChunk
  <2> QED  BY <2>5, <2>6 DEF Range
<1> QED  BY <1>3, <1>4, <1>8, <1>9 DEF e

LEMMA TakenIs ==
  ASSUME NoWrap, NEW q \in Seq(Fragment), Sorted(q), NEW e
  PROVE  /\ Taken(q, RunStarts(q, e)) \in SUBSET (DOMAIN q)
         /\ \A i \in Taken(q, RunStarts(q, e)) : \E p \in RunStarts(q, e) : i \in Whole(q, p)
         /\ \A i \in Taken(q, RunStarts(q, e)) : \A c \in Fragment : c.msg = q[i].msg => c \in Range(q)
<1>1. \A p \in RunStarts(q, e) : p \in 1 .. Len(q) /\ FirstFrag(q[p])
  BY StartsAre
<1>2. \A i \in Taken(q, RunStarts(q, e)) : \E p \in RunStarts(q, e) : i \in Whole(q, p)
  BY DEF Taken
<1>3. ASSUME NEW i \in Taken(q, RunStarts(q, e))
      PROVE  i \in 1 .. Len(q) /\ \A c \in Fragment : c.msg = q[i].msg => c \in Range(q)
  <2>1. PICK p \in RunStarts(q, e) : i \in Whole(q, p)
    BY <1>2
  <2> QED  BY <1>1, <2>1, WholeIs
<1>4. DOMAIN q = 1 .. Len(q)
  OBVIOUS
<1> QED  BY <1>2, <1>3, <1>4

(* What is left in the queue.                                              *)
LEMMA LeftIs ==
  ASSUME NoWrap, NEW T \in SUBSET Fragment, NEW q \in Seq(T), Sorted(q), NEW e
  PROVE  /\ Left(q, e) \in Seq(T) /\ Sorted(Left(q, e)) /\ Range(Left(q, e)) \subseteq Range(q)
         /\ \A i \in Taken(q, RunStarts(q, e)) : q[i] \notin Range(Left(q, e))
<1> DEFINE t == Left(q, e)
           K == Taken(q, RunStarts(q, e))
           S == DOMAIN q \ K
<1>0. q \in Seq(Fragment)
  OBVIOUS
<1>1. K \in SUBSET (DOMAIN q)
  BY <1>0, TakenIs
<1>2. t \in Seq(T) /\ Picks(t, q, S)
  BY PickedIs DEF Left
<1> HIDE DEF t, K
<1>3. PICK f \in [1 .. Len(t) -> S] :
        /\ \A i \in 1 .. Len(t) : t[i] = q[f[i]]
        /\ \A i, j \in 1 .. Len(t) : i < j => f[i] < f[j]
  BY <1>2 DEF Picks
<1>4. DOMAIN t = 1 .. Len(t) /\ DOMAIN q = 1 .. Len(q)
  BY <1>2
<1>5. \A i \in 1 .. Len(t) : f[i] \in DOMAIN q /\ f[i] \notin K
  BY <1>3
<1>6. Sorted(t)
  BY <1>3, <1>4, <1>5 DEF Sorted
<1>7. Range(t) \subseteq Range(q)
  BY <1>3, <1>4, <1>5 DEF Range
<1>8. \A i, j \in DOMAIN q : q[i] = q[j] => i = j
  <2> SUFFICES ASSUME NEW i \in DOMAIN q, NEW j \in DOMAIN q, q[i] = q[j], i # j PROVE FALSE
    OBVIOUS
  <2>1. i \in 1 .. Len(q) /\ j \in 1 .. Len(q) /\ Len(q) \in Nat
    OBVIOUS
  <2>2. Rank(q[i]) \in Nat
    <3>1. q[i] \in Fragment
      BY <1>0
    <3> QED  BY <3>1, RankIs, FragmentsAre
  <2>3. i < j \/ j < i
    BY <2>1
  <2>4. Rank(q[i]) < Rank(q[j]) \/ Rank(q[j]) < Rank(q[i])
    BY <2>3 DEF Sorted
  <2> QED  BY <2>2, <2>4
<1>9. \A i \in K : q[i] \notin Range(t)
  BY <1>1, <1>3, <1>4, <1>5, <1>8 DEF Range
<1> QED  BY <1>2, <1>6, <1>7, <1>9 DEF t, K

(* What is delivered: each message with its last fragment.                 *)
LEMMA GivenIs ==
  ASSUME NoWrap, NEW T \in SUBSET Fragment, NEW q \in Seq(T), Sorted(q), NEW e
  PROVE  /\ Given(q, e) \in Seq(T)
         /\ \A a \in 1 .. Len(Given(q, e)) :
              /\ \E i \in Taken(q, RunStarts(q, e)) : Given(q, e)[a] = q[i]
              /\ \A c \in Fragment : c.msg = Given(q, e)[a].msg => c \in Range(q)
         /\ \A a, b \in 1 .. Len(Given(q, e)) : a < b => Given(q, e)[a].msg < Given(q, e)[b].msg
<1> DEFINE t == Given(q, e)
           K == Taken(q, RunStarts(q, e))
           S == {i \in K : LastFrag(q[i])}
<1>0. q \in Seq(Fragment)
  OBVIOUS
<1>1. K \in SUBSET (DOMAIN q) /\ \A i \in K : \A c \in Fragment : c.msg = q[i].msg => c \in Range(q)
  BY <1>0, TakenIs
<1>2. t \in Seq(T) /\ Picks(t, q, S)
  <2>1. S \in SUBSET (DOMAIN q)
    BY <1>1
  <2>2. t = Picked(q, S)
    BY DEF Given, LastOf
  <2> HIDE DEF S, t
  <2> QED  BY <2>1, <2>2, PickedIs
<1> HIDE DEF t, K
<1>3. PICK f \in [1 .. Len(t) -> S] :
        /\ \A i \in 1 .. Len(t) : t[i] = q[f[i]]
        /\ \A i, j \in 1 .. Len(t) : i < j => f[i] < f[j]
  BY <1>2 DEF Picks
<1>4. \A i \in 1 .. Len(t) : f[i] \in K /\ LastFrag(q[f[i]]) /\ t[i] = q[f[i]]
  BY <1>3
<1>5. ASSUME NEW a \in 1 .. Len(t), NEW b \in 1 .. Len(t), a < b PROVE t[a].msg < t[b].msg
  <2> SUFFICES ASSUME ~(t[a].msg < t[b].msg) PROVE FALSE
    OBVIOUS
  <2> DEFINE c == t[a]
             d == t[b]
  <2>1. c = q[f[a]] /\ d = q[f[b]] /\ f[a] < f[b] /\ f[a] \in DOMAIN q /\ f[b] \in DOMAIN q
        /\ LastFrag(c) /\ LastFrag(d)
    BY <1>1, <1>3, <1>4, <1>5
  <2>2. Rank(c) < Rank(d) /\ c \in Fragment /\ d \in Fragment
    BY <1>0, <2>1 DEF Sorted
  <2>2a. ~(c.msg < d.msg)
    OBVIOUS
  <2> HIDE DEF c, d
  <2>3. /\ c.msg \in Message /\ d.msg \in Message /\ c.part \in Parts(c.msg) /\ d.part \in Parts(d.msg)
        /\ Rank(c) \in Nat /\ Rank(d) \in Nat
    <3>1. Rank(c) \in 1 .. Fragments /\ Rank(d) \in 1 .. Fragments
      BY <2>2, RankIs
    <3>2. Rank(c) \in Nat /\ Rank(d) \in Nat
      BY <3>1, FragmentsAre
    <3> QED  BY <2>2, <3>2, RankIs
  <2>4. Message = 1 .. Len(Messages) /\ Len(Messages) \in Nat
    BY Numbers
  <2>5. CASE c.msg = d.msg
    <3>1. c.part = d.part
      BY <2>1, <2>5 DEF LastFrag
    <3>2. Rank(c) = Rank(d)
      BY <2>5, <3>1 DEF Rank
    <3> QED  BY <2>2, <2>3, <3>2
  <2>6. CASE d.msg < c.msg
    <3>1. c.msg \in 1 .. Len(Messages) + 1
      BY <2>3, <2>4
    <3>2. Rank(d) <= Before[c.msg] /\ Before[c.msg] < Rank(c) /\ Before[c.msg] \in Nat
      BY <2>3, <2>6, Crossed
    <3> QED  BY <2>2, <2>3, <3>2
  <2> QED  BY <2>2a, <2>3, <2>4, <2>5, <2>6
<1> QED  BY <1>1, <1>2, <1>4, <1>5 DEF t, K

(* On an ordered stream they are those from the first in the queue on.     *)
LEMMA GivenInTurn ==
  ASSUME NoWrap, NEW q \in Seq(Fragment), Sorted(q), NEW e, \A i \in DOMAIN q : Ordered(q[i]),
         NEW a \in 1 .. Len(Given(q, e))
  PROVE  /\ 1 \in DOMAIN q /\ InTurn(q[1], e) /\ q[1].msg <= Given(q, e)[a].msg
         /\ \A m \in Message : q[1].msg <= m /\ m <= Given(q, e)[a].msg =>
              \E b \in 1 .. a : Given(q, e)[b].msg = m
<1> DEFINE t == Given(q, e)
           R == RunStarts(q, e)
           K == Taken(q, R)
           S == {i \in K : LastFrag(q[i])}
<1>1. K \in SUBSET (DOMAIN q) /\ \A i \in K : \E p \in R : i \in Whole(q, p)
  BY TakenIs
<1>2. t \in Seq(Fragment) /\ Picks(t, q, S)
  <2>1. S \in SUBSET (DOMAIN q)
    BY <1>1
  <2>2. t = Picked(q, S)
    BY DEF Given, LastOf
  <2> HIDE DEF S, t
  <2> QED  BY <2>1, <2>2, PickedIs
<1>2a. /\ R \in SUBSET (1 .. Len(q)) /\ \A p \in R : p = 1 /\ FirstFrag(q[p])
       /\ \A p \in R : Ordered(q[p]) => InTurn(q[p], e)
  BY StartsAre
<1>2b. K = UNION {Whole(q, p) : p \in R}
  BY DEF Taken
<1>2c. a \in 1 .. Len(t) /\ Len(t) \in Nat
  BY <1>2
<1> HIDE DEF t, K, R
<1>3. PICK f \in [1 .. Len(t) -> S] :
        /\ \A i \in 1 .. Len(t) : t[i] = q[f[i]]
        /\ \A i, j \in 1 .. Len(t) : i < j => f[i] < f[j]
        /\ \A p \in S : \E i \in 1 .. Len(t) : f[i] = p
  BY <1>2 DEF Picks
<1> DEFINE i == f[a]
<1>4. i \in K /\ LastFrag(q[i]) /\ t[a] = q[i] /\ i \in DOMAIN q
  BY <1>1, <1>2c, <1>3
<1> HIDE DEF i
<1>5. 1 \in R /\ i \in Whole(q, 1)
  <2>1. PICK p \in R : i \in Whole(q, p)
    BY <1>1, <1>4
  <2> QED  BY <1>2a, <2>1
<1>6. 1 \in 1 .. Len(q) /\ FirstFrag(q[1]) /\ InTurn(q[1], e) /\ DOMAIN q = 1 .. Len(q)
  BY <1>2a, <1>5
<1>7. i \in 1 .. RunEnd(q, 1) /\ q[1].msg <= q[i].msg
  BY <1>5, <1>6, WholeIs
<1>8. ASSUME NEW m \in Message, q[1].msg <= m, m <= t[a].msg PROVE \E b \in 1 .. a : t[b].msg = m
  <2>1. q[i] \in Fragment /\ q[i].msg \in Message /\ Message = 1 .. Len(Messages) /\ Len(Messages) \in Nat
    <3>1. q[i] \in Fragment
      BY <1>4
    <3> QED  BY <3>1, RankIs, Numbers
  <2>2. CASE m = q[i].msg
    <3>1. a \in 1 .. a
      BY <1>2c
    <3> QED  BY <1>4, <2>2, <3>1
  <2>3. CASE m < q[i].msg
    <3> DEFINE j == Len(Messages[m].sizes)
    <3>1. j \in Parts(m)
      BY MessageIs
    <3>2. \E k \in 1 .. i : q[k].msg = m /\ q[k].part = j
      BY <1>6, <1>7, <1>8, <2>3, <3>1, BetweenIs
    <3>3. PICK k \in 1 .. i : q[k].msg = m /\ q[k].part = j
      BY <3>2
    <3>4. LastFrag(q[k])
      BY <3>3 DEF LastFrag
    <3>5. k \in 1 .. RunEnd(q, 1) /\ k \in k .. RunEnd(q, 1)
      <4> DEFINE r == RunEnd(q, 1)
      <4> HIDE DEF r
      <4>1. i \in 1 .. r /\ k \in 1 .. i
        BY <1>7 DEF r
      <4>2. r \in Nat
        <5>1. r \in 1 .. Len(q)
          BY <1>6, RunIs DEF r
        <5> QED  BY <5>1
      <4>3. k \in 1 .. r /\ k \in k .. r
        BY <4>1, <4>2
      <4> QED  BY <4>3 DEF r
    <3>6. k \in Whole(q, 1)
      BY <3>4, <3>5 DEF Whole
    <3>7. k \in S
      BY <1>2b, <1>5, <3>4, <3>6
    <3>8. PICK b \in 1 .. Len(t) : f[b] = k
      BY <1>3, <3>7
    <3>9. t[b].msg = m
      BY <1>3, <3>3, <3>8
    <3>10. b <= a
      <4> SUFFICES ASSUME a < b PROVE FALSE
        BY <1>2c
      <4>1. i < k
        BY <1>2c, <1>3, <3>8 DEF i
      <4> QED  BY <1>4, <3>3, <4>1
    <3>11. b \in 1 .. a
      BY <1>2c, <3>10
    <3> QED  BY <3>9, <3>11
  <2> QED  BY <1>4, <1>8, <2>1, <2>2, <2>3
<1> QED  BY <1>4, <1>6, <1>7, <1>8 DEF t

(* Where the sequence number is moved on.                                  *)
LEMMA InlineIs ==
  ASSUME NoWrap, NEW q \in Seq(Fragment), Sorted(q), NEW e
  PROVE  /\ (\A i \in DOMAIN q : Ordered(q[i])) => LastOf(q, Inline(q, e)) = Given(q, e)
         /\ (\A i \in DOMAIN q : ~Ordered(q[i])) => LastOf(q, Inline(q, e)) = <<>>
<1>1. \A p \in RunStarts(q, e) : p \in DOMAIN q
  BY StartsAre
<1>2. ASSUME \A i \in DOMAIN q : Ordered(q[i]) PROVE LastOf(q, Inline(q, e)) = Given(q, e)
  <2>1. Inline(q, e) = RunStarts(q, e)
    BY <1>1, <1>2 DEF Inline
  <2> QED  BY <2>1 DEF Given
<1>3. ASSUME \A i \in DOMAIN q : ~Ordered(q[i]) PROVE LastOf(q, Inline(q, e)) = <<>>
  <2>1. Inline(q, e) = {}
    BY <1>1, <1>3 DEF Inline
  <2>2. Taken(q, {}) = {}
    BY DEF Taken
  <2>3. LastOf(q, Inline(q, e)) = Picked(q, {})
    BY <2>1, <2>2 DEF LastOf
  <2> DEFINE t == Picked(q, {})
  <2>4. t \in Seq(Fragment) /\ Picks(t, q, {})
    BY PickedIs
  <2> HIDE DEF t
  <2>5. PICK f \in [1 .. Len(t) -> {}] : TRUE
    BY <2>4 DEF Picks
  <2>6. 1 .. Len(t) = {}
    BY <2>5
  <2>7. t = <<>>
    <3>1. Len(t) \in Nat /\ t \in [1 .. Len(t) -> Fragment]
      BY <2>4
    <3>2. Len(t) = 0
      BY <2>6, <3>1
    <3> QED  BY <2>4, <3>2
  <2> QED  BY <2>3, <2>7 DEF t
<1> QED  BY <1>2, <1>3

-----------------------------------------------------------------------------
(* A stream x of which the chunks in R have been received, of the first Q  *)
(* messages: what waits in q, is expected (e) and has been delivered (d).  *)
On(x) == {m \in Message : Messages[m].stream = x}
InLine(x) == {m \in On(x) : Messages[m].ordered}
Queue(x, q, R, Q) == q \in Seq({c \in R : StreamOf(c) = x /\ c.msg <= Q}) /\ Sorted(q)
History(x, d, Q) == d \in Seq(On(x) \cap (1 .. Q)) /\ Service!Proper(x, d)

(* A message some fragment of which has been received, and left the queue: *)
(* it can no longer become whole.                                          *)
Gone(m, q, R) == \E c \in R : c.msg = m /\ c \notin Range(q)

(* That has become of what was delivered and of what has been passed in    *)
(* order, but for those in W; and none that is unlimited has been passed.  *)
Passed(x, q, e, d, R, W) ==
  /\ e \in 0 .. Turns(x)
  /\ \A m \in Range(d) : Gone(m, q, R)
  /\ \A m \in InLine(x) : Turn(m) < e => (Gone(m, q, R) \/ m \in W) /\ (Unlimited(m) => m \in Range(d))
Behind(x, q, d, R, W) ==
  \A m \in InLine(x) : \A k \in DOMAIN d : m <= d[k] => Gone(m, q, R) \/ m \in W

(* t is d with h after it.                                                 *)
Joins(t, d, h, S) ==
  /\ t \in Seq(S) /\ DOMAIN t = 1 .. Len(d) + Len(h)
  /\ \A i \in 1 .. Len(d) : t[i] = d[i] /\ i \in DOMAIN d
  /\ \A a \in 1 .. Len(h) : t[Len(d) + a] = h[a] /\ Len(d) + a \in DOMAIN t
  /\ \A i \in DOMAIN t : i \in 1 .. Len(d) \/ \E a \in 1 .. Len(h) : i = Len(d) + a
  /\ Range(t) = Range(d) \cup Range(h)

LEMMA Joined ==
  ASSUME NEW S, NEW d \in Seq(S), NEW h \in Seq(S)
  PROVE  Joins(d \o h, d, h, S)
<1> DEFINE n == Len(d)
           k == Len(h)
           t == d \o h
<1>1. n \in Nat /\ k \in Nat /\ DOMAIN h = 1 .. k /\ DOMAIN d = 1 .. n
  OBVIOUS
<1>2. /\ t \in Seq(S) /\ Len(t) = n + k
      /\ \A i \in 1 .. n : t[i] = d[i]
      /\ \A a \in 1 .. k : t[n + a] = h[a]
  BY ConcatIs
<1> HIDE DEF t, n, k
<1>3. t \in Seq(S) /\ Len(t) = n + k /\ DOMAIN t = 1 .. n + k
  BY <1>1, <1>2
<1>4. \A i \in 1 .. n : t[i] = d[i] /\ i \in DOMAIN d
  BY <1>1, <1>2
<1>5. \A a \in 1 .. k : t[n + a] = h[a] /\ n + a \in 1 .. n + k
  BY <1>1, <1>2
<1>6. ASSUME NEW i \in 1 .. n + k PROVE i \in 1 .. n \/ \E a \in 1 .. k : i = n + a
  <2>1. CASE i <= n
    BY <1>1, <2>1
  <2>2. CASE i > n
    <3>1. i - n \in 1 .. k /\ i = n + (i - n)
      BY <1>1, <2>2
    <3> QED  BY <3>1
  <2> QED  BY <1>1, <2>1, <2>2
<1>7. Range(t) = Range(d) \cup Range(h)
  <2>1. \A i \in 1 .. n : i \in 1 .. n + k
    BY <1>1
  <2>2. Range(t) \subseteq Range(d) \cup Range(h)
    <3> SUFFICES ASSUME NEW i \in 1 .. n + k PROVE t[i] \in Range(d) \cup Range(h)
      BY <1>3 DEF Range
    <3>1. CASE i \in 1 .. n
      BY <1>4, <3>1 DEF Range
    <3>2. ASSUME NEW a \in 1 .. k, i = n + a PROVE t[i] \in Range(h)
      BY <1>1, <1>5, <3>2 DEF Range
    <3> QED  BY <1>6, <3>1, <3>2
  <2>3. Range(d) \subseteq Range(t)
    BY <1>1, <1>3, <1>4, <2>1 DEF Range
  <2>4. Range(h) \subseteq Range(t)
    <3> SUFFICES ASSUME NEW a \in 1 .. k PROVE h[a] \in Range(t)
      BY <1>1 DEF Range
    <3>1. n + a \in DOMAIN t /\ t[n + a] = h[a]
      BY <1>3, <1>5
    <3> QED  BY <3>1 DEF Range
  <2> QED  BY <2>2, <2>3, <2>4
<1> QED  BY <1>1, <1>3, <1>4, <1>5, <1>6, <1>7 DEF Joins, t, k, n

LEMMA PrefixIs ==
  ASSUME NEW S, NEW d \in Seq(S), NEW h \in Seq(S)
  PROVE  Service!IsPrefix(d, d \o h) /\ Service!IsPrefix(d, d)
<1> DEFINE t == d \o h
           n == Len(d)
<1>1. n \in Nat /\ n <= Len(t) /\ Len(t) \in Nat /\ t \in Seq(S) /\ n <= n
  OBVIOUS
<1>2. \A i \in 1 .. n : t[i] = d[i]
  OBVIOUS
<1> HIDE DEF t
<1>3. SubSeq(d, 1, n) = d
  OBVIOUS
<1>4. SubSeq(t, 1, n) = d
  <2>1. SubSeq(t, 1, n) = [i \in 1 .. n |-> t[i]]
    BY <1>1
  <2>2. d = [i \in 1 .. n |-> d[i]]
    OBVIOUS
  <2> QED  BY <1>2, <2>1, <2>2
<1> QED  BY <1>1, <1>3, <1>4 DEF Service!IsPrefix, t

LEMMA OneKind ==
  ASSUME Alike, NEW x, NEW m \in On(x), NEW k \in On(x)
  PROVE  Messages[m].ordered = Messages[k].ordered /\ (Unlimited(m) <=> Unlimited(k))
  BY DEF Alike, On

(* What PopMessages makes of it.                                           *)
LEMMA PopFits ==
  ASSUME NoWrap, NoSsnWrap, Alike, NEW x \in Stream, NEW R \in SUBSET Fragment, NEW Q \in Nat, NEW W,
         NEW q, Queue(x, q, R, Q), NEW d, History(x, d, Q), NEW e,
         Passed(x, q, e, d, R, W), Behind(x, q, d, R, {})
  PROVE  LET p == Left(q, e)
             f == Moved(e, LastOf(q, Inline(q, e)))
             g == d \o Popped(q, e)
         IN  /\ Queue(x, p, R, Q) /\ History(x, g, Q) /\ Service!IsPrefix(d, g)
             /\ Passed(x, p, f, g, R, W) /\ Behind(x, p, g, R, W)
<1> DEFINE T == {c \in R : StreamOf(c) = x /\ c.msg <= Q}
           p == Left(q, e)
           l == Given(q, e)
           f == Moved(e, LastOf(q, Inline(q, e)))
           h == Popped(q, e)
           g == d \o h
           n == Len(d)
           k == Len(l)
           K == Taken(q, RunStarts(q, e))
           S == On(x) \cap (1 .. Q)
<1>1. T \in SUBSET Fragment /\ q \in Seq(T) /\ Sorted(q) /\ q \in Seq(Fragment)
  BY DEF Queue
<1>2. /\ p \in Seq(T) /\ Sorted(p) /\ Range(p) \subseteq Range(q)
      /\ \A i \in K : q[i] \notin Range(p)
  BY <1>1, LeftIs
<1>3. /\ l \in Seq(T)
      /\ \A a \in 1 .. k :
           /\ \E i \in K : l[a] = q[i]
           /\ \A c \in Fragment : c.msg = l[a].msg => c \in Range(q)
      /\ \A a, b \in 1 .. k : a < b => l[a].msg < l[b].msg
  BY <1>1, GivenIs
<1>4. h = [i \in DOMAIN l |-> l[i].msg]
  BY DEF Popped
<1>5. K \in SUBSET (DOMAIN q)
  BY <1>1, TakenIs
<1>6. \A c \in T : c \in R /\ c \in Fragment /\ c.msg \in S /\ StreamOf(c) = x
  <2> SUFFICES ASSUME NEW c \in T PROVE c.msg \in S
    OBVIOUS
  <2>1. c.msg \in Message /\ Messages[c.msg].stream = x /\ c.msg <= Q /\ Message = 1 .. Len(Messages)
    BY RankIs, Numbers DEF StreamOf
  <2> QED  BY <2>1, Numbers DEF On
<1>7. d \in Seq(S) /\ n \in Nat /\ k \in Nat /\ DOMAIN d = 1 .. n /\ DOMAIN l = 1 .. k
  BY <1>3 DEF History
<1>8. \A i \in 1 .. n : d[i] \in S
  BY <1>7
<1>9. \A a \in 1 .. k : l[a] \in T /\ l[a].msg \in S
  BY <1>3, <1>6, <1>7
<1> HIDE DEF p, l, f, h, K, T
<1>10. /\ g \in Seq(S) /\ DOMAIN g = 1 .. n + k
       /\ \A i \in 1 .. n : g[i] = d[i] /\ i \in DOMAIN d
       /\ \A a \in 1 .. k : g[n + a] = l[a].msg /\ n + a \in DOMAIN g
       /\ \A i \in DOMAIN g : i \in 1 .. n \/ \E a \in 1 .. k : i = n + a
       /\ Range(g) = Range(d) \cup {l[a].msg : a \in 1 .. k}
  <2>1. h \in [1 .. k -> S] /\ \A a \in 1 .. k : h[a] = l[a].msg
    BY <1>4, <1>7, <1>9
  <2>2. h \in Seq(S) /\ Len(h) = k
    <3> HIDE DEF S, k
    <3> QED  BY <1>7, <2>1
  <2>3. d \in Seq(S)
    BY <1>7
  <2> HIDE DEF S
  <2>4. Joins(g, d, h, S)
    BY <2>2, <2>3, Joined
  <2>5. Range(h) = {l[a].msg : a \in 1 .. k}
    BY <2>1 DEF Range
  <2> HIDE DEF k, n, g
  <2>6. /\ g \in Seq(S) /\ DOMAIN g = 1 .. n + k
        /\ \A i \in 1 .. n : g[i] = d[i] /\ i \in DOMAIN d
        /\ \A a \in 1 .. k : g[n + a] = h[a] /\ n + a \in DOMAIN g
        /\ \A i \in DOMAIN g : i \in 1 .. n \/ \E a \in 1 .. k : i = n + a
        /\ Range(g) = Range(d) \cup Range(h)
    BY <2>2, <2>4 DEF n, Joins
  <2> QED  BY <2>1, <2>5, <2>6
<1>11. \A m \in S : m \in Message /\ m \in Nat /\ m \in On(x) /\ Messages[m].stream = x
  BY DEF On
<1>11a. \A m \in InLine(x) : m \in Message /\ m \in Nat /\ m \in On(x) /\ Messages[m].ordered /\ Messages[m].stream = x
  BY Numbers DEF On, InLine
<1> HIDE DEF S
<1>12. Service!IsPrefix(d, g)
  <2>1. h \in Seq(S)
    BY <1>3, <1>4, <1>7, <1>9
  <2> QED  BY <1>7, <2>1, PrefixIs
<1> HIDE DEF g, n, k
<1>13. \A m : Gone(m, q, R) => Gone(m, p, R)
  BY <1>2 DEF Gone
<1>14. \A a \in 1 .. k : ~Gone(l[a].msg, q, R) /\ Gone(l[a].msg, p, R)
  <2> SUFFICES ASSUME NEW a \in 1 .. k PROVE ~Gone(l[a].msg, q, R) /\ Gone(l[a].msg, p, R)
    OBVIOUS
  <2>1. ~Gone(l[a].msg, q, R)
    BY <1>3 DEF Gone
  <2>2. PICK i \in K : l[a] = q[i]
    BY <1>3
  <2>3. l[a] \in R /\ l[a] \notin Range(p)
    BY <1>2, <1>6, <1>9, <2>2
  <2> QED  BY <2>1, <2>3 DEF Gone
<1>15. \A m \in Range(d) : Gone(m, q, R)
  BY DEF Passed
<1>16. \A i \in 1 .. n : d[i] \in Range(d)
  BY <1>7 DEF Range
<1>17. e \in 0 .. Turns(x)
  BY DEF Passed
(* In an ordered stream. *)
<1>18. ASSUME NEW a \in 1 .. k, Messages[l[a].msg].ordered, NEW m \in InLine(x), m <= l[a].msg
       PROVE  \/ \E b \in 1 .. a : l[b].msg = m
              \/ m < l[a].msg /\ (Gone(m, q, R) \/ m \in W) /\ (Unlimited(m) => m \in Range(d))
  <2>1. \A i \in DOMAIN q : Ordered(q[i]) /\ q[i] \in T
    <3> SUFFICES ASSUME NEW i \in DOMAIN q PROVE Ordered(q[i]) /\ q[i] \in T
      OBVIOUS
    <3>1. q[i] \in T
      BY <1>1
    <3>2. q[i].msg \in On(x) /\ l[a].msg \in On(x)
      BY <1>6, <1>9, <1>11, <3>1
    <3>3. Messages[q[i].msg].ordered = Messages[l[a].msg].ordered
      BY <3>2, OneKind
    <3> QED  BY <1>18, <3>1, <3>3 DEF Ordered
  <2>2. /\ 1 \in DOMAIN q /\ InTurn(q[1], e) /\ q[1].msg <= l[a].msg
        /\ \A j \in Message : q[1].msg <= j /\ j <= l[a].msg => \E b \in 1 .. a : l[b].msg = j
    BY <1>1, <2>1, GivenInTurn DEF l, k
  <2> DEFINE o == q[1].msg
  <2>3. o \in Message /\ Ordered(q[1]) /\ q[1] \in Fragment /\ StreamOf(q[1]) = x /\ Messages[o].ordered
        /\ Messages[o].stream = x
    BY <1>6, <1>11, <2>1, <2>2 DEF Ordered, StreamOf
  <2>4. Turn(o) <= e
    BY <1>17, <2>2, <2>3, InTurnIs
  <2>5. CASE o <= m
    BY <1>11a, <1>18, <2>2, <2>5
  <2>6. CASE m < o
    <3>1. Turn(m) < Turn(o)
      BY <1>11a, <2>3, <2>6, TurnOrder
    <3>2. Turn(m) \in Nat /\ Turn(o) \in Nat
      BY <1>11a, <2>3, TurnIs
    <3>2a. e \in Nat
      BY <1>17
    <3>3. Turn(m) < e
      BY <2>4, <3>1, <3>2, <3>2a
    <3>4. (Gone(m, q, R) \/ m \in W) /\ (Unlimited(m) => m \in Range(d))
      BY <3>3 DEF Passed
    <3>5. m < l[a].msg
      <4>1. l[a].msg \in Nat /\ o \in Nat /\ m \in Nat
        BY <1>9, <1>11, <1>11a, <2>3, Numbers
      <4>2. o <= l[a].msg
        BY <2>2
      <4> HIDE DEF o
      <4> QED  BY <2>6, <4>1, <4>2
    <3> QED  BY <3>4, <3>5
  <2>7. o \in Nat /\ m \in Nat
    BY <1>11a, <2>3, Numbers
  <2> HIDE DEF o
  <2> QED  BY <2>5, <2>6, <2>7
<1>19. f \in 0 .. Turns(x) /\ \A i \in e .. f - 1 : \E a \in 1 .. k : Turn(l[a].msg) = i /\ Messages[l[a].msg].ordered
  <2> DEFINE U == {c \in Fragment : Ordered(c) /\ StreamOf(c) = x}
             y == LastOf(q, Inline(q, e))
  <2>1. CASE \A i \in DOMAIN q : Ordered(q[i])
    <3>1. y = l
      BY <1>1, <2>1, InlineIs DEF l
    <3>2. \A a \in 1 .. k : l[a] \in U
      <4> SUFFICES ASSUME NEW a \in 1 .. k PROVE Ordered(l[a])
        BY <1>6, <1>9
      <4>1. PICK i \in K : l[a] = q[i]
        BY <1>3
      <4> QED  BY <1>5, <2>1, <4>1
    <3>3. l \in Seq(U)
      BY <1>3, <1>7, <3>2
    <3> HIDE DEF U, y
    <3>4. f \in e .. Turns(x) /\ \A i \in e .. f - 1 : \E a \in 1 .. Len(l) : Turn(l[a].msg) = i
      BY <1>17, <3>1, <3>3, MovedIs DEF U, f, y
    <3>5. f \in 0 .. Turns(x)
      <4>1. e \in Nat
        BY <1>17
      <4> QED  BY <3>4, <4>1
    <3> QED  BY <3>2, <3>4, <3>5 DEF k, U, Ordered
  <2>2. CASE \A i \in DOMAIN q : ~Ordered(q[i])
    <3>1. y = <<>>
      BY <1>1, <2>2, InlineIs
    <3> DEFINE z == <<>>
    <3>2. z \in Seq(U) /\ 1 .. Len(z) = {}
      OBVIOUS
    <3> HIDE DEF U, y, z
    <3>3. f \in e .. Turns(x) /\ \A i \in e .. f - 1 : \E a \in 1 .. Len(z) : Turn(z[a].msg) = i
      <4>1. y = z
        BY <3>1 DEF z
      <4>2. f = Moved(e, z)
        BY <4>1 DEF f, y
      <4> QED  BY <1>17, <3>2, <4>2, MovedIs DEF U
    <3>4. \A i \in e .. f - 1 : FALSE
      BY <3>2, <3>3
    <3>5. f \in 0 .. Turns(x)
      <4>1. e \in Nat
        BY <1>17
      <4> QED  BY <3>3, <4>1
    <3> QED  BY <3>4, <3>5
  <2>3. (\A i \in DOMAIN q : Ordered(q[i])) \/ (\A i \in DOMAIN q : ~Ordered(q[i]))
    <3> SUFFICES ASSUME NEW i \in DOMAIN q, NEW j \in DOMAIN q, ~Ordered(q[i]), Ordered(q[j]) PROVE FALSE
      OBVIOUS
    <3>1. q[i] \in T /\ q[j] \in T
      BY <1>1
    <3>2. q[i].msg \in On(x) /\ q[j].msg \in On(x)
      BY <1>6, <1>11, <3>1
    <3> QED  BY <3>2, OneKind DEF Ordered
  <2> QED  BY <2>1, <2>2, <2>3
<1>20. Queue(x, p, R, Q)
  BY <1>2 DEF Queue, T
<1>21. \A m \in Range(g) : Gone(m, p, R)
  BY <1>10, <1>13, <1>14, <1>15
<1>22. ASSUME NEW m \in InLine(x), Turn(m) < f
       PROVE  (Gone(m, p, R) \/ m \in W) /\ (Unlimited(m) => m \in Range(g))
  <2>1. Turn(m) \in Nat /\ e \in Nat /\ f \in Nat
    BY <1>11a, <1>17, <1>19, TurnIs
  <2>2. CASE Turn(m) < e
    BY <1>10, <1>13, <2>2 DEF Passed
  <2>3. CASE Turn(m) >= e
    <3>1. Turn(m) \in e .. f - 1
      BY <1>22, <2>1, <2>3
    <3>2. PICK a \in 1 .. k : Turn(l[a].msg) = Turn(m) /\ Messages[l[a].msg].ordered
      BY <1>19, <3>1
    <3>3. l[a].msg = m
      BY <1>9, <1>11, <1>11a, <3>2, TurnOrder
    <3> QED  BY <1>10, <1>14, <3>3
  <2> QED  BY <2>1, <2>2, <2>3
<1>23. Passed(x, p, f, g, R, W)
  BY <1>19, <1>21, <1>22 DEF Passed
<1>24. Behind(x, p, g, R, W)
  <2> SUFFICES ASSUME NEW m \in InLine(x), NEW i \in DOMAIN g, m <= g[i]
               PROVE  Gone(m, p, R) \/ m \in W
    BY DEF Behind
  <2>1. CASE i \in 1 .. n
    BY <1>10, <1>13, <2>1 DEF Behind
  <2>2. ASSUME NEW a \in 1 .. k, i = n + a PROVE Gone(m, p, R) \/ m \in W
    <3>1. m <= l[a].msg /\ Messages[l[a].msg].ordered
      <4>1. m \in On(x) /\ l[a].msg \in On(x) /\ Messages[m].ordered
        BY <1>9, <1>11, <1>11a
      <4> QED  BY <1>10, <2>2, <4>1, OneKind
    <3>2. \/ \E b \in 1 .. a : l[b].msg = m
          \/ Gone(m, q, R) \/ m \in W
      BY <1>18, <3>1
    <3>3. \A b \in 1 .. a : b \in 1 .. k
      BY <1>7
    <3> QED  BY <1>13, <1>14, <3>2, <3>3
  <2> QED  BY <1>10, <2>1, <2>2
<1>25. Service!Proper(x, d)
  BY DEF History
<1>26. \A i \in DOMAIN g : Messages[g[i]].stream = x
  <2>1. \A i \in DOMAIN g : g[i] \in S
    <3>1. g \in Seq(S)
      BY <1>10
    <3> QED  BY <3>1
  <2> QED  BY <1>11, <2>1
<1>27. ASSUME NEW i \in DOMAIN g, NEW j \in DOMAIN g, i < j PROVE g[i] # g[j]
  <2>1. i \in 1 .. n + k /\ j \in 1 .. n + k
    BY <1>10
  <2>2. CASE j \in 1 .. n
    <3>1. i \in 1 .. n
      BY <1>7, <1>27, <2>1, <2>2
    <3> QED  BY <1>7, <1>10, <1>25, <1>27, <2>2, <3>1 DEF Service!Proper
  <2>3. ASSUME NEW b \in 1 .. k, j = n + b PROVE g[i] # g[j]
    <3>1. g[j] = l[b].msg
      BY <1>10, <2>3
    <3>2. CASE i \in 1 .. n
      BY <1>10, <1>14, <1>15, <1>16, <3>1, <3>2
    <3>3. ASSUME NEW a \in 1 .. k, i = n + a PROVE g[i] # g[j]
      <4>1. a < b
        BY <1>7, <1>27, <2>3, <3>3
      <4>2. l[a].msg < l[b].msg /\ l[a].msg \in Nat /\ l[b].msg \in Nat
        BY <1>3, <1>9, <1>11, <4>1
      <4>3. g[i] = l[a].msg
        BY <1>10, <3>3
      <4> QED  BY <3>1, <4>2, <4>3
    <3> QED  BY <1>10, <3>2, <3>3
  <2> QED  BY <1>10, <2>2, <2>3
<1>28. \A m : m \in Service!Ordered(x) <=> m \in InLine(x)
  BY DEF Service!Ordered, InLine, On, Message
<1>29. \A m : ~Service!Limited(m) => Unlimited(m)
  BY DEF Service!Limited, Unlimited
<1>30. ASSUME NEW i \in DOMAIN g, g[i] \in InLine(x), NEW m \in InLine(x)
       PROVE  /\ m < g[i] /\ ~Service!Limited(m) => \E j \in 1 .. i - 1 : g[j] = m
              /\ m > g[i] => \A j \in 1 .. i - 1 : g[j] # m
  <2>1. i \in 1 .. n + k /\ i \in Nat
    BY <1>7, <1>10
  <2>2. CASE i \in 1 .. n
    <3>1. g[i] = d[i] /\ \A j \in 1 .. i - 1 : g[j] = d[j]
      <4>1. \A j \in 1 .. i - 1 : j \in 1 .. n
        BY <1>7, <2>2
      <4> QED  BY <1>10, <2>2, <4>1
    <3>2. d[i] \in Service!Ordered(x) /\ m \in Service!Ordered(x) /\ i \in DOMAIN d
      BY <1>7, <1>28, <1>30, <2>2, <3>1
    <3>3. /\ m < d[i] /\ ~Service!Limited(m) => \E j \in 1 .. i - 1 : d[j] = m
          /\ m > d[i] => \A j \in 1 .. i - 1 : d[j] # m
      BY <1>25, <3>2 DEF Service!Proper
    <3> QED  BY <3>1, <3>3
  <2>3. ASSUME NEW a \in 1 .. k, i = n + a
        PROVE  /\ m < g[i] /\ ~Service!Limited(m) => \E j \in 1 .. i - 1 : g[j] = m
               /\ m > g[i] => \A j \in 1 .. i - 1 : g[j] # m
    <3>1. g[i] = l[a].msg /\ l[a].msg \in InLine(x) /\ l[a].msg \in Nat /\ m \in Nat /\ a \in Nat
          /\ Messages[l[a].msg].ordered
      BY <1>10, <1>11a, <1>30, <2>3
    <3>2. ASSUME m < g[i], ~Service!Limited(m) PROVE \E j \in 1 .. i - 1 : g[j] = m
      <4>1. CASE \E b \in 1 .. a : l[b].msg = m
        <5>1. PICK b \in 1 .. a : l[b].msg = m
          BY <4>1
        <5>2. b # a
          BY <3>1, <3>2, <5>1
        <5>3. b \in 1 .. k /\ n + b \in 1 .. i - 1
          BY <1>7, <2>3, <5>2
        <5>4. g[n + b] = m
          BY <1>10, <5>1, <5>3
        <5> QED  BY <5>3, <5>4
      <4>2. CASE m \in Range(d)
        <5>1. PICK j \in 1 .. n : d[j] = m
          BY <1>7, <4>2 DEF Range
        <5>2. j \in 1 .. i - 1
          BY <1>7, <2>3
        <5> QED  BY <1>10, <5>1, <5>2
      <4>3. Unlimited(m) /\ m <= l[a].msg
        BY <1>29, <3>1, <3>2
      <4> QED  BY <1>18, <3>1, <4>1, <4>2, <4>3
    <3>3. ASSUME m > g[i], NEW j \in 1 .. i - 1, g[j] = m PROVE FALSE
      <4>1. j \in 1 .. n + k
        BY <1>7, <2>1
      <4>2. CASE j \in 1 .. n
        <5>1. d[j] = m /\ j \in DOMAIN d /\ l[a].msg <= d[j]
          BY <1>10, <3>1, <3>3, <4>2
        <5>2. Gone(l[a].msg, q, R)
          BY <3>1, <5>1 DEF Behind
        <5> QED  BY <1>14, <5>2
      <4>3. ASSUME NEW b \in 1 .. k, j = n + b PROVE FALSE
        <5>1. b < a
          BY <1>7, <2>3, <4>3
        <5>2. l[b].msg < l[a].msg /\ g[j] = l[b].msg
          BY <1>3, <1>10, <4>3, <5>1
        <5> QED  BY <3>1, <3>3, <5>2
      <4> QED  BY <1>10, <4>1, <4>2, <4>3
    <3> QED  BY <3>2, <3>3
  <2> QED  BY <1>10, <2>2, <2>3
<1>31. Service!Proper(x, g)
  BY <1>26, <1>27, <1>28, <1>30 DEF Service!Proper
<1>32. History(x, g, Q)
  BY <1>10, <1>31 DEF History, S
<1> QED  BY <1>12, <1>20, <1>23, <1>24, <1>32 DEF p, f, g, h

-----------------------------------------------------------------------------
(* What is put into the queue and dropped from it.  The first n of q are   *)
(* those with ranks up to z.                                               *)
Cut(q, n, z) == n \in 0 .. Len(q) /\ \A i \in DOMAIN q : i <= n <=> Rank(q[i]) <= z

LEMMA LeadingCuts ==
  ASSUME NoWrap, NEW q \in Seq(Fragment), Sorted(q), NEW z \in 0 .. Fragments
  PROVE  /\ Cut(q, Leading(q, LAMBDA d : ~Tsn!Gt(d.tsn, Nth(z))), z)
         /\ Cut(q, Leading(q, LAMBDA d : Tsn!Gte(Nth(z), d.tsn)), z)
<1> DEFINE l == Len(q)
           Is(n) == n \in 0 .. l /\ (\A i \in 1 .. n : Rank(q[i]) <= z) /\ (n < l => ~(Rank(q[n + 1]) <= z))
           A(d) == ~Tsn!Gt(d.tsn, Nth(z))
           B(d) == Tsn!Gte(Nth(z), d.tsn)
           a == CHOOSE n \in 0 .. l : (\A i \in 1 .. n : A(q[i])) /\ (n < l => ~A(q[n + 1]))
           b == CHOOSE n \in 0 .. l : (\A i \in 1 .. n : B(q[i])) /\ (n < l => ~B(q[n + 1]))
<1>1. l \in Nat /\ DOMAIN q = 1 .. l /\ \A i \in 1 .. l : q[i] \in Fragment
  OBVIOUS
<1>2. \A i \in 1 .. l : Rank(q[i]) \in 0 .. Fragments /\ Rank(q[i]) \in Nat /\ q[i].tsn = Nth(Rank(q[i]))
  <2>1. \A i \in 1 .. l : Rank(q[i]) \in 1 .. Fragments /\ q[i].tsn = Nth(Rank(q[i]))
    BY <1>1, RankIs
  <2> QED  BY <2>1, FragmentsAre
<1>3. z \in Nat
  BY FragmentsAre
<1>4. \A i \in 1 .. l : (A(q[i]) <=> Rank(q[i]) <= z) /\ (B(q[i]) <=> Rank(q[i]) <= z)
  <2> SUFFICES ASSUME NEW i \in 1 .. l
               PROVE  (A(q[i]) <=> Rank(q[i]) <= z) /\ (B(q[i]) <=> Rank(q[i]) <= z)
    OBVIOUS
  <2> DEFINE k == Rank(q[i])
  <2>1. k \in 0 .. Fragments /\ k \in Nat /\ q[i].tsn = Nth(k)
    BY <1>2
  <2> HIDE DEF k
  <2>2. Tsn!Gt(Nth(k), Nth(z)) <=> k > z
    BY <2>1, NthOrder
  <2>3. Tsn!Gte(Nth(z), Nth(k)) <=> z >= k
    BY <2>1, NthOrder
  <2>4. (~(k > z) <=> k <= z) /\ (z >= k <=> k <= z)
    BY <1>3, <2>1
  <2> QED  BY <2>1, <2>2, <2>3, <2>4 DEF k
<1>5. Leading(q, LAMBDA d : ~Tsn!Gt(d.tsn, Nth(z))) = a /\ Leading(q, LAMBDA d : Tsn!Gte(Nth(z), d.tsn)) = b
  BY DEF Leading
<1> HIDE DEF A, B, l
<1>6. \A n \in 0 .. l : (\A i \in 1 .. n : i \in 1 .. l) /\ (n < l => n + 1 \in 1 .. l)
  BY <1>1
<1>7. \E n \in 0 .. l : Is(n)
  <2> DEFINE T == {i \in 1 .. l : Rank(q[i]) <= z}
  <2>1. PICK n \in 0 .. l : (\A i \in 1 .. n : i \in T) /\ (n < l => n + 1 \notin T)
    <3> HIDE DEF T
    <3> QED  BY <1>1, LeadingIs
  <2> QED  BY <1>6, <2>1
<1>8. a \in 0 .. l /\ (\A i \in 1 .. a : A(q[i])) /\ (a < l => ~A(q[a + 1]))
  <2>1. \E n \in 0 .. l : (\A i \in 1 .. n : A(q[i])) /\ (n < l => ~A(q[n + 1]))
    BY <1>4, <1>6, <1>7
  <2> QED  BY <2>1
<1>9. b \in 0 .. l /\ (\A i \in 1 .. b : B(q[i])) /\ (b < l => ~B(q[b + 1]))
  <2>1. \E n \in 0 .. l : (\A i \in 1 .. n : B(q[i])) /\ (n < l => ~B(q[n + 1]))
    BY <1>4, <1>6, <1>7
  <2> QED  BY <2>1
<1> HIDE DEF a, b
<1>10. Is(a) /\ Is(b)
  BY <1>4, <1>6, <1>8, <1>9
<1>11. ASSUME NEW n, Is(n) PROVE Cut(q, n, z)
  <2> SUFFICES ASSUME NEW i \in 1 .. l PROVE i <= n <=> Rank(q[i]) <= z
    BY <1>1, <1>11 DEF Cut, l
  <2>1. n \in 0 .. l /\ n \in Nat /\ i \in Nat
    BY <1>1, <1>11
  <2>2. CASE i <= n
    <3>1. i \in 1 .. n
      BY <1>1, <2>1, <2>2
    <3> QED  BY <1>11, <2>2, <3>1
  <2>3. CASE i > n
    <3>1. n < l /\ n + 1 \in 1 .. l /\ (i = n + 1 \/ n + 1 < i)
      BY <1>1, <2>1, <2>3
    <3>2. ~(Rank(q[n + 1]) <= z)
      BY <1>11, <3>1
    <3>3. i = n + 1 \/ Rank(q[n + 1]) < Rank(q[i])
      BY <1>1, <3>1 DEF Sorted
    <3>4. ~(Rank(q[i]) <= z)
      BY <1>2, <1>3, <3>1, <3>2, <3>3
    <3> QED  BY <2>1, <2>3, <3>4
  <2> QED  BY <2>1, <2>2, <2>3
<1> HIDE DEF Is
<1>12. Cut(q, a, z) /\ Cut(q, b, z)
  BY <1>10, <1>11
<1> QED  BY <1>5, <1>12

LEMMA PruneIs ==
  ASSUME NoWrap, NEW T \in SUBSET Fragment, NEW q \in Seq(T), Sorted(q), NEW z \in 0 .. Fragments
  PROVE  LET p == PruneChunks(q, Nth(z))
         IN  /\ p \in Seq(T) /\ Sorted(p) /\ Range(p) \subseteq Range(q)
             /\ \A c \in Range(p) : ~(Rank(c) <= z)
<1> DEFINE n == Leading(q, LAMBDA d : Tsn!Gte(Nth(z), d.tsn))
           l == Len(q)
           p == SubSeq(q, n + 1, l)
<1>1. PruneChunks(q, Nth(z)) = p
  BY DEF PruneChunks, Drop
<1>2. Cut(q, n, z)
  <2>1. q \in Seq(Fragment)
    OBVIOUS
  <2> QED  BY <2>1, LeadingCuts
<1> HIDE DEF n
<1>3. n \in 0 .. l /\ l \in Nat /\ DOMAIN q = 1 .. l
  BY <1>2 DEF Cut
<1>4. p \in Seq(T) /\ DOMAIN p = 1 .. l - n /\ \A i \in 1 .. l - n : p[i] = q[n + i] /\ n + i \in 1 .. l /\ ~(n + i <= n)
  <2>1. p = [i \in 1 .. l - n |-> q[n + i]]
    <3>1. SubSeq(q, n + 1, l) = [i \in 1 .. (l - (n + 1) + 1) |-> q[i + (n + 1) - 1]]
      BY <1>3
    <3>2. l - (n + 1) + 1 = l - n /\ \A i \in 1 .. l - n : i + (n + 1) - 1 = n + i
      BY <1>3
    <3> QED  BY <3>1, <3>2
  <2>2. \A i \in 1 .. l - n : n + i \in 1 .. l /\ ~(n + i <= n) /\ q[n + i] \in T
    BY <1>3
  <2>3. l - n \in Nat
    BY <1>3
  <2> DEFINE k == l - n
  <2> HIDE DEF p, k
  <2>4. p \in Seq(T) /\ DOMAIN p = 1 .. k
    BY <2>1, <2>2, <2>3 DEF k
  <2> QED  BY <2>1, <2>2, <2>4 DEF k
<1> HIDE DEF p, l
<1>5. Sorted(p)
  <2>1. \A i, j \in 1 .. l - n : i < j => n + i < n + j
    BY <1>3
  <2> QED  BY <1>3, <1>4, <2>1 DEF Sorted
<1>6. Range(p) \subseteq Range(q) /\ \A c \in Range(p) : ~(Rank(c) <= z)
  <2> SUFFICES ASSUME NEW i \in 1 .. l - n PROVE p[i] \in Range(q) /\ ~(Rank(p[i]) <= z)
    BY <1>4 DEF Range
  <2> DEFINE j == n + i
  <2>1. p[i] = q[j] /\ j \in 1 .. l /\ ~(j <= n)
    BY <1>4
  <2> HIDE DEF j
  <2> QED  BY <1>2, <1>3, <2>1 DEF Cut, Range
<1> QED  BY <1>1, <1>4, <1>5, <1>6

LEMMA InsertIs ==
  ASSUME NoWrap, NEW T \in SUBSET Fragment, NEW q \in Seq(T), Sorted(q), NEW c \in T, c \notin Range(q)
  PROVE  LET p == InsertAt(q, Leading(q, LAMBDA d : ~Tsn!Gt(d.tsn, c.tsn)) + 1, c)
         IN  p \in Seq(T) /\ Sorted(p) /\ Range(p) \subseteq Range(q) \cup {c}
<1> DEFINE n == Leading(q, LAMBDA d : ~Tsn!Gt(d.tsn, c.tsn))
           l == Len(q)
           z == Rank(c)
           a == SubSeq(q, 1, n)
           b == SubSeq(q, n + 1, l)
           p == a \o <<c>> \o b
<1>1. l \in Nat /\ DOMAIN q = 1 .. l /\ q \in Seq(Fragment) /\ c \in Fragment
  OBVIOUS
<1>2. z \in 0 .. Fragments /\ z \in Nat /\ c.tsn = Nth(z)
  <2>1. z \in 1 .. Fragments /\ c.tsn = Nth(z)
    BY <1>1, RankIs
  <2> HIDE DEF z
  <2> QED  BY <2>1, FragmentsAre
<1>3. Cut(q, n, z)
  <2>1. n = Leading(q, LAMBDA d : ~Tsn!Gt(d.tsn, Nth(z)))
    BY <1>2
  <2> HIDE DEF n, z
  <2> QED  BY <1>1, <1>2, <2>1, LeadingCuts
<1> HIDE DEF n, z
<1>5. n \in 0 .. l /\ n \in Nat /\ n + 1 - 1 = n
  BY <1>1, <1>3 DEF Cut
<1>6. InsertAt(q, n + 1, c) = p
  <2> DEFINE k == n + 1
  <2>1. InsertAt(q, k, c) = SubSeq(q, 1, k - 1) \o <<c>> \o SubSeq(q, k, Len(q))
    BY DEF InsertAt
  <2>2. k - 1 = n
    BY <1>5
  <2> QED  BY <2>1, <2>2
<1> HIDE DEF l
<1>7. a \in Seq(T) /\ Len(a) = n /\ \A i \in 1 .. n : a[i] = q[i]
  <2>1. SubSeq(q, 1, n) = [i \in 1 .. n |-> q[i]]
    <3>1. SubSeq(q, 1, n) = [i \in 1 .. (n - 1 + 1) |-> q[i + 1 - 1]]
      BY <1>1, <1>5
    <3>2. n - 1 + 1 = n /\ \A i \in 1 .. n : i + 1 - 1 = i
      BY <1>5
    <3> QED  BY <3>1, <3>2
  <2>2. \A i \in 1 .. n : q[i] \in T
    BY <1>1, <1>5
  <2> HIDE DEF a
  <2> QED  BY <1>5, <2>1, <2>2 DEF a
<1>8. b \in Seq(T) /\ Len(b) = l - n /\ \A i \in 1 .. l - n : b[i] = q[n + i]
  <2>1. b = [i \in 1 .. l - n |-> q[n + i]]
    <3>1. SubSeq(q, n + 1, l) = [i \in 1 .. (l - (n + 1) + 1) |-> q[i + (n + 1) - 1]]
      BY <1>1, <1>5 DEF l
    <3>2. l - (n + 1) + 1 = l - n /\ \A i \in 1 .. l - n : i + (n + 1) - 1 = n + i
      BY <1>1, <1>5
    <3> QED  BY <3>1, <3>2
  <2>2. \A i \in 1 .. l - n : n + i \in 1 .. l /\ q[n + i] \in T
    BY <1>1, <1>5
  <2>3. l - n \in Nat
    BY <1>1, <1>5
  <2> DEFINE k == l - n
  <2> HIDE DEF b, k
  <2>4. b \in Seq(T) /\ Len(b) = k
    BY <2>1, <2>2, <2>3 DEF k
  <2> QED  BY <2>1, <2>4 DEF k
<1> HIDE DEF a, b
<1>9. /\ p \in Seq(T) /\ DOMAIN p = 1 .. l + 1
      /\ \A i \in 1 .. l + 1 : p[i] = IF i <= n THEN q[i] ELSE IF i = n + 1 THEN c ELSE q[i - 1]
  <2> DEFINE k == l - n
             t == p
  <2>1. k \in Nat /\ n + 1 + k = l + 1 /\ Len(b) = k
    BY <1>1, <1>5, <1>8
  <2> HIDE DEF k
  <2> DEFINE d == <<c>>
  <2>1a. a \in Seq(T) /\ b \in Seq(T) /\ d \in Seq(T)
    BY <1>7, <1>8
  <2>1b. Len(d) = 1 /\ d[1] = c /\ 1 \in 1 .. Len(d)
    OBVIOUS
  <2>2a. p = a \o d \o b
    OBVIOUS
  <2> HIDE DEF d
  <2>2. /\ a \o d \o b \in Seq(T) /\ Len(a \o d \o b) = Len(a) + Len(d) + Len(b)
        /\ \A i \in 1 .. Len(a) : (a \o d \o b)[i] = a[i]
        /\ \A i \in 1 .. Len(d) : (a \o d \o b)[Len(a) + i] = d[i]
        /\ \A i \in 1 .. Len(b) : (a \o d \o b)[Len(a) + Len(d) + i] = b[i]
    BY <2>1a, InsertedIs
  <2> HIDE DEF p
  <2>3. /\ t \in Seq(T) /\ DOMAIN t = 1 .. l + 1 /\ t[n + 1] = c
        /\ \A i \in 1 .. n : t[i] = a[i]
        /\ \A i \in 1 .. k : t[n + 1 + i] = b[i]
    <3>1. p \in Seq(T) /\ Len(p) = n + 1 + Len(b)
      BY <1>7, <2>1b, <2>2, <2>2a
    <3>2. DOMAIN p = 1 .. l + 1
      BY <2>1, <3>1
    <3> QED  BY <1>7, <2>1, <2>1b, <2>2, <2>2a, <3>1, <3>2
  <2> HIDE DEF t
  <2>7. ASSUME NEW i \in 1 .. l + 1 PROVE t[i] = IF i <= n THEN q[i] ELSE IF i = n + 1 THEN c ELSE q[i - 1]
    <3>2. CASE i <= n
      <4>1. i \in 1 .. n
        BY <1>5, <3>2
      <4> QED  BY <1>7, <2>3, <3>2, <4>1
    <3>3. CASE i = n + 1
      <4>1. ~(i <= n)
        BY <1>5, <3>3
      <4> QED  BY <2>3, <3>3, <4>1
    <3>4. CASE i > n + 1
      <4> DEFINE j == i - (n + 1)
      <4>1. ~(i <= n) /\ i # n + 1 /\ j \in 1 .. k /\ j \in 1 .. l - n /\ n + j = i - 1 /\ n + 1 + j = i
        BY <1>1, <1>5, <3>4 DEF k
      <4> HIDE DEF j
      <4>2. t[n + 1 + j] = b[j] /\ b[j] = q[n + j]
        BY <1>8, <2>3, <4>1
      <4> QED  BY <4>1, <4>2
    <3> QED  BY <1>5, <3>2, <3>3, <3>4
  <2> QED  BY <2>3, <2>7 DEF t
<1> HIDE DEF p
<1>10. ASSUME NEW i \in 1 .. l PROVE (i <= n => Rank(q[i]) < z) /\ (i > n => z < Rank(q[i]))
  <2>1. q[i] \in Fragment /\ q[i] # c /\ i \in DOMAIN q
    BY <1>1 DEF Range
  <2>2. Rank(q[i]) \in Nat /\ q[i].msg \in Message /\ q[i].part \in Parts(q[i].msg)
    <3>1. Rank(q[i]) \in 1 .. Fragments
      BY <2>1, RankIs
    <3> QED  BY <2>1, <3>1, RankIs, FragmentsAre
  <2>3. Rank(q[i]) # z
    <3> SUFFICES ASSUME Rank(q[i]) = z PROVE FALSE
      OBVIOUS
    <3>1. c.msg \in Message /\ c.part \in Parts(c.msg)
      BY <1>1, RankIs
    <3>2. Before[q[i].msg] + q[i].part = Before[c.msg] + c.part
      BY DEF Rank, z
    <3>3. q[i].msg = c.msg /\ q[i].part = c.part
      BY <2>2, <3>1, <3>2, RankMeansPart
    <3> QED  BY <1>1, <2>1, <3>3, SameChunk
  <2>4. i <= n <=> Rank(q[i]) <= z
    BY <1>3, <2>1 DEF Cut
  <2> QED  BY <1>2, <1>5, <2>2, <2>3, <2>4
<1>11. Sorted(p)
  <2> SUFFICES ASSUME NEW i \in 1 .. l + 1, NEW j \in 1 .. l + 1, i < j PROVE Rank(p[i]) < Rank(p[j])
    BY <1>9 DEF Sorted
  <2>1. \A k, m \in 1 .. l : k < m => Rank(q[k]) < Rank(q[m])
    BY <1>1 DEF Sorted
  <2>2. CASE j <= n
    <3>1. i <= n /\ i \in 1 .. l /\ j \in 1 .. l
      BY <1>1, <1>5, <2>2
    <3> QED  BY <1>9, <2>1, <2>2, <3>1
  <2>3. CASE j = n + 1
    <3>1. i <= n /\ i \in 1 .. l /\ ~(j <= n)
      BY <1>1, <1>5, <2>3
    <3> QED  BY <1>9, <1>10, <2>3, <3>1 DEF z
  <2>4. CASE j > n + 1
    <3>1. ~(j <= n) /\ j # n + 1 /\ j - 1 \in 1 .. l /\ j - 1 > n
      BY <1>1, <1>5, <2>4
    <3>2. p[j] = q[j - 1]
      BY <1>9, <3>1
    <3>3. CASE i <= n
      <4>1. i \in 1 .. l /\ i < j - 1
        BY <1>1, <1>5, <2>4, <3>3
      <4> QED  BY <1>9, <2>1, <3>1, <3>2, <3>3, <4>1
    <3>4. CASE i = n + 1
      <4>1. ~(i <= n)
        BY <1>5, <3>4
      <4> QED  BY <1>9, <1>10, <3>1, <3>2, <3>4, <4>1 DEF z
    <3>5. CASE i > n + 1
      <4>1. ~(i <= n) /\ i # n + 1 /\ i - 1 \in 1 .. l /\ i - 1 < j - 1
        BY <1>1, <1>5, <3>5
      <4> QED  BY <1>9, <2>1, <3>1, <3>2, <4>1
    <3> QED  BY <1>5, <3>3, <3>4, <3>5
  <2> QED  BY <1>5, <2>2, <2>3, <2>4
<1>12. Range(p) \subseteq Range(q) \cup {c}
  <2> SUFFICES ASSUME NEW i \in 1 .. l + 1 PROVE p[i] \in Range(q) \cup {c}
    BY <1>9 DEF Range
  <2>1. CASE i <= n
    <3>1. i \in 1 .. l
      BY <1>1, <1>5, <2>1
    <3> QED  BY <1>1, <1>9, <2>1, <3>1 DEF Range
  <2>2. CASE i = n + 1
    <3>1. ~(i <= n)
      BY <1>5, <2>2
    <3> QED  BY <1>9, <2>2, <3>1
  <2>3. CASE i > n + 1
    <3>1. ~(i <= n) /\ i # n + 1 /\ i - 1 \in 1 .. l
      BY <1>1, <1>5, <2>3
    <3> QED  BY <1>1, <1>9, <3>1 DEF Range
  <2> QED  BY <1>5, <2>1, <2>2, <2>3
<1> QED  BY <1>6, <1>9, <1>11, <1>12 DEF n

-----------------------------------------------------------------------------
(* The receiver: what has arrived of each stream, and what became of it.   *)
Arrived(r) == {c \in Fragment : Received(r, c.tsn)}

Tables(r) ==
  /\ r.reassembly = [x \in Stream |-> r.reassembly[x]]
  /\ r.expected = [x \in Stream |-> r.expected[x]]
  /\ r.delivered = [x \in Stream |-> r.delivered[x]]
StreamFits(x, q, e, d, R, Q, W) ==
  Queue(x, q, R, Q) /\ History(x, d, Q) /\ Passed(x, q, e, d, R, W) /\ Behind(x, q, d, R, W)
StreamsFit(r, R, Q) ==
  Tables(r) /\ \A x \in Stream : StreamFits(x, r.reassembly[x], r.expected[x], r.delivered[x], R, Q, {})

LEMMA ArrivedIs ==
  ASSUME NoWrap, NEW r, NEW k \in 0 .. Fragments, r.last = Nth(k), NEW c \in Fragment
  PROVE  c \in Arrived(r) <=> Rank(c) <= k \/ c.tsn \in r.misordered
<1> DEFINE z == Rank(c)
<1>1. z \in 0 .. Fragments /\ c.tsn = Nth(z) /\ z \in Nat /\ k \in Nat
  <2>1. z \in 1 .. Fragments /\ c.tsn = Nth(z)
    BY RankIs
  <2> HIDE DEF z
  <2> QED  BY <2>1, FragmentsAre
<1> HIDE DEF z
<1>2. Tsn!Gte(Nth(k), Nth(z)) <=> k >= z
  BY <1>1, NthOrder
<1>3. k >= z <=> z <= k
  BY <1>1
<1> QED  BY <1>1, <1>2, <1>3 DEF Arrived, Received, z

LEMMA ArrivedStays ==
  ASSUME NoWrap, NEW G \in SUBSET Fragment, NEW r, Fits(G, r)
  PROVE  Arrived(r) \subseteq Arrived(Consolidate(r))
<1> DEFINE s == Consolidate(r)
<1>1. /\ s.misordered = {t \in r.misordered : Tsn!Gt(t, s.last)}
      /\ \E k \in 0 .. Fragments : \E j \in k .. Fragments : r.last = Nth(k) /\ s.last = Nth(j)
  BY ConsolidateFits
<1> HIDE DEF s
<1>2. PICK k \in 0 .. Fragments : \E j \in k .. Fragments : r.last = Nth(k) /\ s.last = Nth(j)
  BY <1>1
<1>3. PICK j \in k .. Fragments : r.last = Nth(k) /\ s.last = Nth(j)
  BY <1>2
<1>4. j \in 0 .. Fragments /\ k \in Nat /\ j \in Nat /\ k <= j
  BY FragmentsAre
<1>5. ASSUME NEW c \in Arrived(r) PROVE c \in Arrived(s)
  <2>1. c \in Fragment
    BY DEF Arrived
  <2> DEFINE z == Rank(c)
  <2>2. z \in 0 .. Fragments /\ c.tsn = Nth(z) /\ z \in Nat
    <3>1. z \in 1 .. Fragments /\ c.tsn = Nth(z)
      BY <2>1, RankIs
    <3> HIDE DEF z
    <3> QED  BY <3>1, FragmentsAre
  <2> HIDE DEF z
  <2>3. z <= k \/ c.tsn \in r.misordered
    BY <1>3, <1>5, <2>1, ArrivedIs DEF z
  <2>4. Tsn!Gt(Nth(z), Nth(j)) <=> z > j
    BY <1>4, <2>2, NthOrder
  <2>5. z <= j \/ c.tsn \in s.misordered
    <3>1. CASE z <= j
      BY <3>1
    <3>2. CASE z > j
      <4>1. c.tsn \in r.misordered
        BY <1>4, <2>2, <2>3, <3>2
      <4> QED  BY <1>1, <1>3, <2>2, <2>4, <3>2, <4>1
    <3> QED  BY <1>4, <2>2, <3>1, <3>2
  <2> QED  BY <1>3, <1>4, <2>1, <2>5, ArrivedIs DEF z
<1> QED  BY <1>5 DEF s

(* More received, or more sent, is no loss.                                *)
LEMMA StreamGrows ==
  ASSUME NEW x, NEW q, NEW e, NEW d, NEW W, NEW R, NEW H \in SUBSET Fragment, R \subseteq H,
         NEW Q \in Nat, NEW P \in Nat, Q <= P, StreamFits(x, q, e, d, R, Q, W)
  PROVE  StreamFits(x, q, e, d, H, P, W)
<1>1. Queue(x, q, H, P)
  <2> DEFINE A == {c \in R : StreamOf(c) = x /\ c.msg <= Q}
             B == {c \in H : StreamOf(c) = x /\ c.msg <= P}
  <2>1. A \subseteq B
    <3> SUFFICES ASSUME NEW c \in A PROVE c.msg <= P
      OBVIOUS
    <3>1. c.msg \in Nat
      BY RankIs, Numbers
    <3> QED  BY <3>1
  <2>2. q \in Seq(A) /\ Sorted(q)
    BY DEF StreamFits, Queue
  <2> HIDE DEF A, B
  <2>3. q \in Seq(B)
    BY <2>1, <2>2
  <2> QED  BY <2>2, <2>3 DEF Queue, B
<1>2. History(x, d, P)
  <2> DEFINE A == On(x) \cap (1 .. Q)
             B == On(x) \cap (1 .. P)
  <2>1. A \subseteq B
    OBVIOUS
  <2>2. d \in Seq(A) /\ Service!Proper(x, d)
    BY DEF StreamFits, History
  <2> HIDE DEF A, B
  <2>3. d \in Seq(B)
    BY <2>1, <2>2
  <2> QED  BY <2>2, <2>3 DEF History, B
<1>3. \A m : Gone(m, q, R) => Gone(m, q, H)
  BY DEF Gone
<1>4. Passed(x, q, e, d, H, W) /\ Behind(x, q, d, H, W)
  BY <1>3 DEF StreamFits, Passed, Behind
<1> QED  BY <1>1, <1>2, <1>4 DEF StreamFits

(* A chunk that is new is put in its place.                                *)
LEMMA AddFits ==
  ASSUME NoWrap, NEW x, NEW q, NEW e, NEW d, NEW R, NEW H \in SUBSET Fragment, R \subseteq H, NEW Q \in Nat,
         StreamFits(x, q, e, d, R, Q, {}), NEW c \in H, c \notin R, StreamOf(c) = x, c.msg <= Q
  PROVE  StreamFits(x, InsertAt(q, Leading(q, LAMBDA y : ~Tsn!Gt(y.tsn, c.tsn)) + 1, c), e, d, H, Q, {})
<1> DEFINE p == InsertAt(q, Leading(q, LAMBDA y : ~Tsn!Gt(y.tsn, c.tsn)) + 1, c)
           T == {y \in H : StreamOf(y) = x /\ y.msg <= Q}
           A == {y \in R : StreamOf(y) = x /\ y.msg <= Q}
<1>1. StreamFits(x, q, e, d, H, Q, {}) /\ T \in SUBSET Fragment /\ c \in T
  BY StreamGrows
<1>2. q \in Seq(T) /\ Sorted(q)
  BY <1>1 DEF StreamFits, Queue
<1>3. c \notin Range(q)
  <2>1. q \in Seq(A)
    BY DEF StreamFits, Queue
  <2>2. Range(q) \subseteq A
    <3> HIDE DEF A
    <3> QED  BY <2>1 DEF Range
  <2> QED  BY <2>2
<1> HIDE DEF T, A
<1>4. p \in Seq(T) /\ Sorted(p) /\ Range(p) \subseteq Range(q) \cup {c}
  BY <1>1, <1>2, <1>3, InsertIs
<1> HIDE DEF p
<1>5. \A m : Gone(m, q, R) => Gone(m, p, H)
  BY <1>4 DEF Gone
<1>6. Queue(x, p, H, Q)
  BY <1>4 DEF Queue, T
<1>7. Passed(x, p, e, d, H, {}) /\ Behind(x, p, d, H, {})
  BY <1>5 DEF StreamFits, Passed, Behind
<1>8. History(x, d, Q)
  BY DEF StreamFits
<1> QED  BY <1>6, <1>7, <1>8 DEF StreamFits, p

(* What is dropped from the queue will not be delivered any more.          *)
LEMMA PruneFits ==
  ASSUME NoWrap, NEW x, NEW q, NEW e, NEW d, NEW W, NEW H \in SUBSET Fragment, NEW Q \in Nat,
         StreamFits(x, q, e, d, H, Q, W), NEW j \in 0 .. Fragments,
         \A c \in Fragment : Rank(c) <= j => c \in H,
         \A m \in W : m \in Message /\ Before[m] + 1 <= j
  PROVE  StreamFits(x, PruneChunks(q, Nth(j)), e, d, H, Q, {})
<1> DEFINE p == PruneChunks(q, Nth(j))
           T == {y \in H : StreamOf(y) = x /\ y.msg <= Q}
<1>1. T \in SUBSET Fragment /\ q \in Seq(T) /\ Sorted(q)
  BY DEF StreamFits, Queue
<1> HIDE DEF T
<1>2. p \in Seq(T) /\ Sorted(p) /\ Range(p) \subseteq Range(q) /\ \A c \in Range(p) : ~(Rank(c) <= j)
  BY <1>1, PruneIs
<1> HIDE DEF p
<1>3. \A m : Gone(m, q, H) => Gone(m, p, H)
  BY <1>2 DEF Gone
<1>4. \A m \in W : Gone(m, p, H)
  <2> SUFFICES ASSUME NEW m \in W PROVE Gone(m, p, H)
    OBVIOUS
  <2> DEFINE c == [tsn |-> Nth(Before[m] + 1), msg |-> m, part |-> 1, seq |-> Turn(m)]
  <2>1. m \in Message /\ Before[m] + 1 <= j
    OBVIOUS
  <2>2. 1 \in Parts(m) /\ Before[m] \in Nat
    <3>1. 1 \in Parts(m)
      BY <2>1, MessageIs
    <3> QED  BY <2>1, <3>1, PartsOrder
  <2>3. c \in [tsn : Int, msg : Message, part : Nat, seq : Int]
    <3>1. Nth(Before[m] + 1) \in Int
      <4> DEFINE n == Before[m] + 1
      <4>1. n \in Nat /\ 0 \in Nat
        BY <2>2
      <4> HIDE DEF n
      <4> QED  BY <4>1, NthMore DEF n
    <3>2. Turn(m) \in Int
      <4>1. \A y \in Stream : Earlier[m][y] \in Nat
        <5>1. m \in 1 .. Len(Messages) + 1
          BY <2>1, Numbers
        <5> QED  BY <5>1, EarlierIs
      <4>2. Messages[m].stream \in Stream
        BY <2>1, MessageIs
      <4> DEFINE y == Earlier[m][Messages[m].stream]
      <4>3. y \in Nat
        BY <4>1, <4>2
      <4> HIDE DEF y
      <4>4. y % SsnModulo \in Int
        BY <4>3, Numbers
      <4> QED  BY <4>4 DEF Turn, y
    <3> QED  BY <2>1, <3>1, <3>2
  <2>4. c.tsn = Nth(Before[m] + 1) /\ c.msg = m /\ c.part = 1 /\ c.seq = Turn(m)
    OBVIOUS
  <2> HIDE DEF c
  <2>5. c \in Fragment /\ Rank(c) = Before[m] + 1
    BY <2>2, <2>3, <2>4 DEF Fragment, Rank
  <2>6. Rank(c) <= j
    BY <2>1, <2>5
  <2>7. c \in H /\ c \notin Range(p)
    BY <1>2, <2>5, <2>6
  <2> QED  BY <2>4, <2>7 DEF Gone
<1>5. Queue(x, p, H, Q)
  BY <1>2 DEF Queue, T
<1>6. Passed(x, p, e, d, H, {}) /\ Behind(x, p, d, H, {})
  BY <1>3, <1>4 DEF StreamFits, Passed, Behind
<1>7. History(x, d, Q)
  BY DEF StreamFits
<1> QED  BY <1>5, <1>6, <1>7 DEF StreamFits, p

(* What PopMessages does to stream x, and that it leaves the others alone. *)
LEMMA PopIs ==
  ASSUME NEW r, Fields(r), Tables(r), NEW x \in Stream
  PROVE  LET t == PopMessages(r, x)
             q == r.reassembly[x]
             e == r.expected[x]
         IN  /\ Tables(t)
             /\ t.reassembly[x] = Left(q, e)
             /\ t.expected[x] = Moved(e, LastOf(q, Inline(q, e)))
             /\ t.delivered[x] = r.delivered[x] \o Popped(q, e)
             /\ \A y \in Stream \ {x} : /\ t.reassembly[y] = r.reassembly[y]
                                        /\ t.expected[y] = r.expected[y]
                                        /\ t.delivered[y] = r.delivered[y]
<1> DEFINE q == r.reassembly[x]
           e == r.expected[x]
           a == Left(q, e)
           b == Moved(e, LastOf(q, Inline(q, e)))
           d == r.delivered[x] \o Popped(q, e)
           t == [r EXCEPT !.reassembly[x] = a, !.expected[x] = b, !.delivered[x] = d]
<1>1. PopMessages(r, x) = t
  BY DEF PopMessages, Left, Moved, LastOf, Inline, Popped, Given, Picked, Taken
<1> HIDE DEF a, b, d
<1>2. /\ t.reassembly = [r.reassembly EXCEPT ![x] = a] /\ t.expected = [r.expected EXCEPT ![x] = b]
      /\ t.delivered = [r.delivered EXCEPT ![x] = d]
  BY DEF Fields
<1> HIDE DEF t
<1>3. /\ \A y \in Stream : t.reassembly[y] = IF y = x THEN a ELSE r.reassembly[y]
      /\ \A y \in Stream : t.expected[y] = IF y = x THEN b ELSE r.expected[y]
      /\ \A y \in Stream : t.delivered[y] = IF y = x THEN d ELSE r.delivered[y]
  BY <1>2 DEF Tables
<1>4. Tables(t)
  BY <1>2 DEF Tables
<1> QED  BY <1>1, <1>3, <1>4 DEF a, b, d

(* What has become of a stream when the receiver went from r to t: a chunk *)
(* c was put in its place and the messages now whole were taken out, or the*)
(* TSN moved on and chunks were dropped.                                   *)
TakesIn(r, t, c) ==
  LET x == StreamOf(c)
      a == InsertAt(r.reassembly[x], Leading(r.reassembly[x], LAMBDA y : ~Tsn!Gt(y.tsn, c.tsn)) + 1, c)
      e == r.expected[x]
  IN  /\ c \in Arrived(t) /\ c \notin Arrived(r) /\ Arrived(r) \subseteq Arrived(t)
      /\ t.reassembly[x] = Left(a, e)
      /\ t.expected[x] = Moved(e, LastOf(a, Inline(a, e)))
      /\ t.delivered[x] = r.delivered[x] \o Popped(a, e)
MovesOn(r, t, x) ==
  /\ Arrived(r) \subseteq Arrived(t)
  /\ t.expected[x] = r.expected[x] /\ t.delivered[x] = r.delivered[x]
  /\ \E j \in 0 .. Fragments : t.reassembly[x] = PruneChunks(r.reassembly[x], Nth(j))

LEMMA ReceiveDataFits ==
  ASSUME NoWrap, NoSsnWrap, Alike, NEW Q \in Nat, NEW r, r.got \in SUBSET Fragment, Fits(r.got, r),
         StreamsFit(r, Arrived(r), Q), NEW c \in Fragment, c.msg <= Q
  PROVE  LET t == ReceiveData(r, c)
         IN  /\ StreamsFit(t, Arrived(t), Q)
             /\ \A x \in Stream : Service!IsPrefix(r.delivered[x], t.delivered[x])
             /\ t = r \/ TakesIn(r, t, c)
<1> DEFINE x == StreamOf(c)
           G == r.got \cup {c}
           u == [r EXCEPT !.misordered = @ \cup {c.tsn}]
           v == Consolidate(u)
           n == Leading(v.reassembly[x], LAMBDA d : ~Tsn!Gt(d.tsn, c.tsn))
           a == InsertAt(v.reassembly[x], n + 1, c)
           w == [v EXCEPT !.reassembly[x] = a]
           y == [w EXCEPT !.got = @ \cup {c}]
           z == PopMessages(y, x)
           R == Arrived(r)
           H == Arrived(v)
<1>0. x \in Stream
  BY RankIs, MessageIs DEF StreamOf
<1>1. ReceiveData(r, c) = IF Received(r, c.tsn) THEN r ELSE z
  BY DEF ReceiveData, MarkReceived, AddChunk
<1>2. CASE Received(r, c.tsn)
  <2>1. \A s \in Stream : Service!IsPrefix(r.delivered[s], r.delivered[s])
    <3>1. \A s \in Stream : r.delivered[s] \in Seq(On(s) \cap (1 .. Q))
      BY DEF StreamsFit, StreamFits, History
    <3> QED  BY <3>1, PrefixIs
  <2> QED  BY <1>1, <1>2, <2>1
<1>3. CASE ~Received(r, c.tsn)
  <2>1. ReceiveData(r, c) = z
    BY <1>1, <1>3
  <2>2. G \in SUBSET Fragment /\ r.got \subseteq G /\ c \in G
    OBVIOUS
  <2> HIDE DEF G
  <2>3. Safe(r.got) \subseteq Safe(G) /\ Tsns(r.got) \subseteq Tsns(G) /\ c.tsn \in Tsns(G)
    BY <2>2, SafeGrows DEF Tsns
  <2>4. /\ Fields(u) /\ u.last = r.last /\ u.misordered = r.misordered \cup {c.tsn} /\ u.got = r.got
        /\ u.reassembly = r.reassembly /\ u.expected = r.expected /\ u.delivered = r.delivered
    BY DEF Fits, Fields
  <2> HIDE DEF u
  <2>5. Fits(G, u)
    BY <2>3, <2>4 DEF Fits
  <2>6. /\ Fits(G, v) /\ v.reassembly = r.reassembly /\ v.expected = r.expected /\ v.delivered = r.delivered
        /\ Arrived(u) \subseteq H
    <3>1. v.reassembly = u.reassembly /\ v.expected = u.expected /\ v.delivered = u.delivered
      BY <2>2, <2>5, ConsolidateFits
    <3> QED  BY <2>2, <2>4, <2>5, <3>1, ConsolidateFits, ArrivedStays
  <2>7. R \subseteq H /\ c \in H /\ c \notin R /\ H \in SUBSET Fragment
    <3>1. R \subseteq Arrived(u) /\ c \in Arrived(u) /\ c \notin R /\ H \in SUBSET Fragment
      BY <1>3, <2>4 DEF Arrived, Received
    <3> QED  BY <2>6, <3>1
  <2> HIDE DEF R
  <2>8. v.last = v.last /\ Fields(v) /\ Tables(v)
    BY <2>6 DEF Fits, StreamsFit, Tables
  <2>9. a = InsertAt(r.reassembly[x], Leading(r.reassembly[x], LAMBDA d : ~Tsn!Gt(d.tsn, c.tsn)) + 1, c)
    BY <2>6
  <2> HIDE DEF a, v
  <2>10. \A s \in Stream : StreamFits(s, r.reassembly[s], r.expected[s], r.delivered[s], R, Q, {})
    BY DEF StreamsFit, R
  <2>11. StreamFits(x, a, r.expected[x], r.delivered[x], H, Q, {})
    <3>1. StreamFits(x, r.reassembly[x], r.expected[x], r.delivered[x], R, Q, {})
      BY <1>0, <2>10
    <3> DEFINE q == r.reassembly[x]
               e == r.expected[x]
               d == r.delivered[x]
    <3> HIDE DEF q, e, d, H
    <3>2. StreamFits(x, q, e, d, R, Q, {})
      BY <3>1 DEF q, e, d
    <3>3. StreamFits(x, InsertAt(q, Leading(q, LAMBDA d1 : ~Tsn!Gt(d1.tsn, c.tsn)) + 1, c), e, d, H, Q, {})
      BY <2>7, <3>2, AddFits
    <3>4. a = InsertAt(q, Leading(q, LAMBDA d1 : ~Tsn!Gt(d1.tsn, c.tsn)) + 1, c)
      BY <2>9 DEF q
    <3> QED  BY <3>3, <3>4 DEF e, d
  <2>12. \A s \in Stream : StreamFits(s, r.reassembly[s], r.expected[s], r.delivered[s], H, Q, {})
    <3> HIDE DEF H
    <3> QED  BY <2>7, <2>10, StreamGrows
  <2>13. /\ Fields(w) /\ w.last = v.last /\ w.misordered = v.misordered
         /\ w.reassembly = [v.reassembly EXCEPT ![x] = a] /\ w.expected = v.expected /\ w.delivered = v.delivered
    BY <2>8 DEF Fields
  <2> HIDE DEF w
  <2>14. /\ Fields(y) /\ y.last = v.last /\ y.misordered = v.misordered
         /\ y.reassembly = [v.reassembly EXCEPT ![x] = a] /\ y.expected = v.expected /\ y.delivered = v.delivered
    BY <2>13 DEF Fields
  <2> HIDE DEF y
  <2>15. /\ Tables(y) /\ y.reassembly[x] = a /\ y.expected = r.expected /\ y.delivered = r.delivered
         /\ \A s \in Stream \ {x} : y.reassembly[s] = r.reassembly[s]
    BY <1>0, <2>6, <2>8, <2>14 DEF Tables
  <2> DEFINE e == r.expected[x]
             d == r.delivered[x]
             f == Moved(e, LastOf(a, Inline(a, e)))
             g == d \o Popped(a, e)
             b == Left(a, e)
  <2>16. /\ Tables(z) /\ z.reassembly[x] = b /\ z.expected[x] = f /\ z.delivered[x] = g
         /\ \A s \in Stream \ {x} : /\ z.reassembly[s] = r.reassembly[s]
                                    /\ z.expected[s] = r.expected[s]
                                    /\ z.delivered[s] = r.delivered[s]
    <3> HIDE DEF x, z
    <3> DEFINE o == PopMessages(y, x)
    <3>1. /\ Tables(o)
          /\ o.reassembly[x] = Left(y.reassembly[x], y.expected[x])
          /\ o.expected[x] = Moved(y.expected[x], LastOf(y.reassembly[x], Inline(y.reassembly[x], y.expected[x])))
          /\ o.delivered[x] = y.delivered[x] \o Popped(y.reassembly[x], y.expected[x])
          /\ \A s \in Stream \ {x} : /\ o.reassembly[s] = y.reassembly[s]
                                     /\ o.expected[s] = y.expected[s]
                                     /\ o.delivered[s] = y.delivered[s]
      <4>1. x \in Stream /\ Fields(y) /\ Tables(y)
        BY <1>0, <2>14, <2>15
      <4> HIDE DEF a, d, e, f, g, b
      <4> QED  BY ONLY <4>1, PopIs
    <3> HIDE DEF o
    <3>2. y.reassembly[x] = a /\ y.expected[x] = e /\ y.delivered[x] = d
      BY <2>15
    <3>3. o.reassembly[x] = b /\ o.expected[x] = f /\ o.delivered[x] = g
      <4> HIDE DEF a, d, e
      <4> QED  BY <3>1, <3>2
    <3>4. z = o
      BY DEF z, o
    <3> HIDE DEF a, d, e, f, g, b
    <3> QED  BY <2>15, <3>1, <3>3, <3>4
  <2>17. z.last = v.last /\ z.misordered = v.misordered
    BY <2>14, PopKeeps
  <2> HIDE DEF z
  <2>18. Arrived(z) = H
    BY <2>17 DEF Arrived, Received
  <2>19. StreamFits(x, b, f, g, H, Q, {}) /\ Service!IsPrefix(d, g)
    <3> HIDE DEF H, e, d, x
    <3>1. StreamFits(x, a, e, d, H, Q, {})
      BY <2>11 DEF e, d
    <3>2. /\ Queue(x, b, H, Q) /\ History(x, g, Q) /\ Service!IsPrefix(d, g)
          /\ Passed(x, b, f, g, H, {}) /\ Behind(x, b, g, H, {})
      BY <1>0, <2>7, <3>1, PopFits DEF StreamFits
    <3> QED  BY <3>2 DEF StreamFits
  <2> HIDE DEF b, f, g, H
  <2>20. \A s \in Stream : StreamFits(s, z.reassembly[s], z.expected[s], z.delivered[s], H, Q, {})
    BY <2>12, <2>16, <2>19
  <2>21. \A s \in Stream : Service!IsPrefix(r.delivered[s], z.delivered[s])
    <3> SUFFICES ASSUME NEW s \in Stream PROVE Service!IsPrefix(r.delivered[s], z.delivered[s])
      OBVIOUS
    <3>1. CASE s = x
      BY <2>16, <2>19, <3>1 DEF d
    <3>2. CASE s # x
      <4>1. r.delivered[s] \in Seq(On(s) \cap (1 .. Q)) /\ z.delivered[s] = r.delivered[s]
        BY <2>10, <2>16, <3>2 DEF StreamFits, History
      <4> QED  BY <4>1, PrefixIs
    <3> QED  BY <3>1, <3>2
  <2>22. c \in Arrived(z) /\ c \notin Arrived(r) /\ Arrived(r) \subseteq Arrived(z)
    BY <2>7, <2>18 DEF R
  <2>23. TakesIn(r, z, c)
    BY <2>9, <2>16, <2>22 DEF TakesIn, b, f, g
  <2> QED  BY <2>1, <2>16, <2>18, <2>20, <2>21, <2>23 DEF StreamsFit
<1> QED  BY <1>2, <1>3

(* The messages that a FORWARD-TSN gives up on a stream are those up to the*)
(* one it names: there is no way but forward.                              *)
LEMMA SkipFits ==
  ASSUME NoWrap, NoSsnWrap, Alike, NEW Q \in Nat, NEW x \in Stream, NEW k \in 0 .. Fragments, NEW n, GivesUp(x, n, k),
         NEW H \in SUBSET Fragment, NEW q, NEW e, NEW d, StreamFits(x, q, e, d, H, Q, {})
  PROVE  \E W : /\ StreamFits(x, Left(q, Ssn!Plus(n, 1)),
                              Moved(Ssn!Plus(n, 1), LastOf(q, Inline(q, Ssn!Plus(n, 1)))),
                              d \o Popped(q, Ssn!Plus(n, 1)), H, Q, W)
                /\ Service!IsPrefix(d, d \o Popped(q, Ssn!Plus(n, 1)))
                /\ \A m \in W : m \in Message /\ Before[m] + 1 <= k
<1>1. PICK c \in Fragment : StreamOf(c) = x /\ Ordered(c) /\ ~Unlimited(c.msg) /\ c.seq = n /\ Rank(c) <= k
  BY DEF GivesUp
<1> DEFINE i == c.msg
           h == Ssn!Plus(n, 1)
           W == {m \in InLine(x) : Turn(m) <= n}
<1>2. /\ i \in Message /\ Messages[i].ordered /\ Messages[i].stream = x /\ ~Unlimited(i) /\ Turn(i) = n
      /\ c.part \in Parts(i) /\ Before[i] + c.part <= k /\ i \in On(x)
  <2>1. i \in Message /\ c.part \in Parts(i) /\ c.seq = Turn(i)
    BY DEF Fragment
  <2> QED  BY <1>1, <2>1 DEF Ordered, StreamOf, Rank, On
<1> HIDE DEF i
<1>3. n \in Nat /\ Turns(x) \in Nat /\ n < Turns(x) /\ Turns(x) < Ssn!Half
  BY <1>2, TurnIs
<1>4. h = n + 1 /\ h \in 0 .. Turns(x)
  <2> DEFINE j == n + 1
  <2>1. j \in 0 .. SsnModulo - 1 /\ j \in 0 .. Turns(x)
    BY <1>3, SsnHalf
  <2> HIDE DEF j
  <2>2. j % SsnModulo = j
    BY <2>1, SsnHalf, ModSmall
  <2> QED  BY <2>1, <2>2 DEF Ssn!Plus, j
<1> HIDE DEF h
<1>5. \A m \in InLine(x) : m \in On(x) /\ m \in Message /\ Messages[m].ordered /\ Messages[m].stream = x /\ Turn(m) \in Nat
  BY TurnIs DEF InLine, On
<1>6. \A m \in InLine(x) : Turn(m) < h => m \in W
  BY <1>3, <1>4, <1>5
<1>7. \A m \in InLine(x) : ~Unlimited(m)
  BY <1>2, <1>5, OneKind
<1>8. ASSUME NEW m \in W PROVE m \in Message /\ Before[m] + 1 <= k
  <2>1. m \in InLine(x) /\ Turn(m) <= n /\ Turn(m) \in Nat /\ m \in Message /\ Messages[m].ordered /\ Messages[m].stream = x
    BY <1>5
  <2>2. 1 \in Parts(m) /\ Before[m] \in Nat /\ Before[m] + 1 \in Nat
    <3>1. 1 \in Parts(m)
      BY <2>1, MessageIs
    <3>2. Before[m] \in Nat
      BY <2>1, <3>1, PartsOrder
    <3> QED  BY <3>1, <3>2
  <2>3. Before[i] \in Nat /\ c.part \in Nat \ {0} /\ k \in Nat
    <3>1. Before[i] \in Nat /\ c.part \in Nat \ {0}
      BY <1>2, PartsOrder
    <3> QED  BY <3>1, FragmentsAre
  <2>4. CASE Turn(m) = n
    <3>1. m = i
      BY <1>2, <2>1, <2>4, TurnOrder
    <3>2. Before[m] + c.part <= k
      BY <1>2, <3>1
    <3> QED  BY <2>1, <2>2, <2>3, <3>2
  <2>5. CASE Turn(m) < n
    <3>1. m < i
      BY <1>2, <2>1, <2>5, TurnOrder
    <3>2. i \in 1 .. Len(Messages) + 1
      BY <1>2, Numbers
    <3>3. Before[m] + 1 <= Before[i]
      BY <2>1, <2>2, <3>1, <3>2, PartsOrder
    <3> DEFINE b == Before[i]
               f == Before[m]
    <3>4. f \in Nat /\ b \in Nat /\ b + c.part <= k /\ f + 1 <= b
      BY <1>2, <2>2, <2>3, <3>3
    <3> HIDE DEF b, f
    <3>5. f + 1 <= k
      BY <2>3, <3>4
    <3> QED  BY <2>1, <3>5 DEF f
  <2> QED  BY <1>3, <2>1, <2>4, <2>5
<1> HIDE DEF W
<1>9. /\ Queue(x, q, H, Q) /\ History(x, d, Q) /\ Behind(x, q, d, H, {})
      /\ \A m \in Range(d) : Gone(m, q, H)
  BY DEF StreamFits, Passed
<1>10. Passed(x, q, h, d, H, W)
  BY <1>4, <1>6, <1>7, <1>9 DEF Passed
<1>11. /\ Queue(x, Left(q, h), H, Q) /\ History(x, d \o Popped(q, h), Q)
       /\ Service!IsPrefix(d, d \o Popped(q, h))
       /\ Passed(x, Left(q, h), Moved(h, LastOf(q, Inline(q, h))), d \o Popped(q, h), H, W)
       /\ Behind(x, Left(q, h), d \o Popped(q, h), H, W)
  BY <1>9, <1>10, PopFits
<1>12. StreamFits(x, Left(q, h), Moved(h, LastOf(q, Inline(q, h))), d \o Popped(q, h), H, Q, W)
  BY <1>11 DEF StreamFits
<1> QED  BY <1>8, <1>11, <1>12 DEF h

LEMMA ReceiveForwardFits ==
  ASSUME NoWrap, NoSsnWrap, Alike, NEW Q \in Nat, NEW r, r.got \in SUBSET Fragment, Fits(r.got, r),
         StreamsFit(r, Arrived(r), Q), NEW f \in ForwardPacket(r.got)
  PROVE  LET t == ReceiveForward(r, f)
         IN  /\ StreamsFit(t, Arrived(t), Q)
             /\ \A x \in Stream : Service!IsPrefix(r.delivered[x], t.delivered[x])
             /\ t = r \/ \A x \in Stream \ DOMAIN f.streams : MovesOn(r, t, x)
<1> DEFINE G == r.got
           m == {t \in r.misordered : Tsn!Gt(t, f.tsn)}
           u == [r EXCEPT !.last = f.tsn, !.misordered = m]
           v == Consolidate(u)
           New(x) == Ssn!Plus(f.streams[x], 1)
           s(x) == [v EXCEPT !.expected[x] = New(x)]
           Skip(x) == IF x \in DOMAIN f.streams
                      THEN PopMessages([v EXCEPT !.expected[x] = Ssn!Plus(f.streams[x], 1)], x)
                      ELSE v
           a == [x \in Stream |-> Skip(x).expected[x]]
           b == [x \in Stream |-> Skip(x).delivered[x]]
           d == [x \in Stream |-> PruneChunks(Skip(x).reassembly[x], v.last)]
           w == [v EXCEPT !.expected = a, !.delivered = b, !.reassembly = d]
           R == Arrived(r)
           H == Arrived(v)
<1>1. ReceiveForward(r, f) = IF Tsn!Gte(r.last, f.tsn) THEN r ELSE w
  BY DEF ReceiveForward
<1>2. \A x \in Stream : StreamFits(x, r.reassembly[x], r.expected[x], r.delivered[x], R, Q, {})
  BY DEF StreamsFit
<1>2a. \A x \in Stream : r.delivered[x] \in Seq(On(x) \cap (1 .. Q))
  BY <1>2 DEF StreamFits, History
<1>3. CASE Tsn!Gte(r.last, f.tsn)
  <2>1. \A x \in Stream : Service!IsPrefix(r.delivered[x], r.delivered[x])
    BY <1>2a, PrefixIs
  <2> QED  BY <1>1, <1>3, <2>1
<1>4. CASE ~Tsn!Gte(r.last, f.tsn)
  <2>1. ReceiveForward(r, f) = w
    BY <1>1, <1>4
  <2>2. PICK k \in 0 .. Fragments : Covered(G, k) /\ f.tsn = Nth(k) /\ \A x \in DOMAIN f.streams : GivesUp(x, f.streams[x], k)
    BY DEF ForwardPacket
  <2>3. PICK l \in 0 .. Fragments : r.last = Nth(l)
    BY DEF Fits, Safe
  <2>4. l <= k /\ k \in Nat /\ l \in Nat
    <3>1. k \in Nat /\ l \in Nat
      BY FragmentsAre
    <3>2. ~(l >= k)
      BY <1>4, <2>2, <2>3, NthOrder
    <3> QED  BY <3>1, <3>2
  <2>5. m \subseteq Tsns(G)
    BY DEF Fits
  <2> HIDE DEF m
  <2>6. /\ Fields(u) /\ u.last = f.tsn /\ u.misordered = m /\ u.got = G
        /\ u.reassembly = r.reassembly /\ u.expected = r.expected /\ u.delivered = r.delivered
    BY DEF Fits, Fields
  <2> HIDE DEF u
  <2>7. Fits(G, u)
    BY <2>2, <2>5, <2>6 DEF Fits, Safe
  <2>8. /\ Fits(G, v) /\ v.reassembly = r.reassembly /\ v.expected = r.expected /\ v.delivered = r.delivered
        /\ Arrived(u) \subseteq H
        /\ \E i \in 0 .. Fragments : \E j \in i .. Fragments : u.last = Nth(i) /\ v.last = Nth(j)
    <3>1. v.reassembly = u.reassembly /\ v.expected = u.expected /\ v.delivered = u.delivered
      BY <2>7, ConsolidateFits
    <3> QED  BY <2>6, <2>7, <3>1, ConsolidateFits, ArrivedStays
  <2> HIDE DEF v
  <2>9. PICK j \in 0 .. Fragments : k <= j /\ v.last = Nth(j)
    <3>1. PICK i \in 0 .. Fragments : \E o \in i .. Fragments : u.last = Nth(i) /\ v.last = Nth(o)
      BY <2>8
    <3>2. PICK o \in i .. Fragments : u.last = Nth(i) /\ v.last = Nth(o)
      BY <3>1
    <3>3. i = k
      BY <2>2, <2>6, <3>2, NthOrder
    <3>4. o \in 0 .. Fragments /\ k <= o
      BY <2>4, <3>3, FragmentsAre
    <3> QED  BY <3>2, <3>4
  <2>10. R \subseteq H /\ H \in SUBSET Fragment /\ \A c \in Fragment : Rank(c) <= j => c \in H
    <3>1. H \in SUBSET Fragment
      BY DEF Arrived
    <3>2. \A c \in Fragment : Rank(c) <= j => c \in H
      BY <2>9, ArrivedIs
    <3>3. ASSUME NEW c \in R PROVE c \in H
      <4>1. c \in Fragment
        BY DEF Arrived
      <4> DEFINE z == Rank(c)
      <4>2. z \in 0 .. Fragments /\ c.tsn = Nth(z) /\ z \in Nat
        <5>1. z \in 1 .. Fragments /\ c.tsn = Nth(z)
          BY <4>1, RankIs
        <5> HIDE DEF z
        <5> QED  BY <5>1, FragmentsAre
      <4>3. z <= l \/ c.tsn \in r.misordered
        BY <2>3, <3>3, <4>1, ArrivedIs
      <4> HIDE DEF z
      <4>4. Tsn!Gt(c.tsn, f.tsn) <=> z > k
        BY <2>2, <4>2, NthOrder
      <4>5. CASE z <= k
        <5>1. z <= j
          <6>1. j \in Nat
            BY FragmentsAre
          <6> QED  BY <2>4, <2>9, <4>2, <4>5, <6>1
        <5> QED  BY <3>2, <4>1, <5>1 DEF z
      <4>6. CASE z > k
        <5>1. c.tsn \in m
          BY <2>4, <4>2, <4>3, <4>4, <4>6 DEF m
        <5>2. c \in Arrived(u)
          BY <2>6, <4>1, <5>1 DEF Arrived, Received
        <5> QED  BY <2>8, <5>2
      <4> QED  BY <2>4, <4>2, <4>5, <4>6
    <3> QED  BY <3>1, <3>2, <3>3
  <2> HIDE DEF R, H
  <2>11. \A x \in Stream : StreamFits(x, r.reassembly[x], r.expected[x], r.delivered[x], H, Q, {})
    BY <1>2, <2>10, StreamGrows
  <2>12. Fields(v) /\ Tables(v)
    BY <2>8 DEF Fits, StreamsFit, Tables
  <2>13. ASSUME NEW x \in Stream
         PROVE  /\ StreamFits(x, PruneChunks(Skip(x).reassembly[x], v.last), Skip(x).expected[x],
                              Skip(x).delivered[x], H, Q, {})
                /\ Service!IsPrefix(r.delivered[x], Skip(x).delivered[x])
    <3>1. StreamFits(x, r.reassembly[x], r.expected[x], r.delivered[x], H, Q, {})
      BY <2>11
    <3>2. CASE x \notin DOMAIN f.streams
      <4>1. Skip(x) = v
        BY <3>2
      <4>2. StreamFits(x, PruneChunks(r.reassembly[x], Nth(j)), r.expected[x], r.delivered[x], H, Q, {})
        BY <2>10, <3>1, PruneFits
      <4>3. Service!IsPrefix(r.delivered[x], r.delivered[x])
        BY <1>2a, PrefixIs
      <4> HIDE DEF Skip
      <4> QED  BY <2>8, <2>9, <4>1, <4>2, <4>3
    <3>3. CASE x \in DOMAIN f.streams
      <4> DEFINE n == f.streams[x]
                 e == Ssn!Plus(n, 1)
                 q == r.reassembly[x]
                 g == r.delivered[x]
                 y == [v EXCEPT !.expected[x] = e]
      <4>1. Skip(x) = PopMessages(y, x)
        BY <3>3
      <4> HIDE DEF Skip, e
      <4>2. Fields(y) /\ Tables(y) /\ y.reassembly = v.reassembly /\ y.delivered = v.delivered /\ y.expected[x] = e
        BY <2>12 DEF Fields, Tables
      <4> HIDE DEF y
      <4>3. /\ Skip(x).reassembly[x] = Left(q, e)
            /\ Skip(x).expected[x] = Moved(e, LastOf(q, Inline(q, e)))
            /\ Skip(x).delivered[x] = g \o Popped(q, e)
        <5> DEFINE o == PopMessages(y, x)
        <5>1. /\ o.reassembly[x] = Left(y.reassembly[x], y.expected[x])
              /\ o.expected[x] = Moved(y.expected[x], LastOf(y.reassembly[x], Inline(y.reassembly[x], y.expected[x])))
              /\ o.delivered[x] = y.delivered[x] \o Popped(y.reassembly[x], y.expected[x])
          <6>1. x \in Stream /\ Fields(y) /\ Tables(y)
            BY <4>2
          <6> QED  BY ONLY <6>1, PopIs
        <5> HIDE DEF o
        <5>2. y.reassembly[x] = q /\ y.expected[x] = e /\ y.delivered[x] = g
          BY <2>8, <4>2
        <5> HIDE DEF q, g
        <5>3. Skip(x) = o
          BY <4>1 DEF o
        <5> QED  BY <5>1, <5>2, <5>3
      <4>4. GivesUp(x, n, k)
        BY <2>2, <3>3
      <4> HIDE DEF n, q, g
      <4>5. \E W : /\ StreamFits(x, Left(q, e), Moved(e, LastOf(q, Inline(q, e))), g \o Popped(q, e), H, Q, W)
                   /\ Service!IsPrefix(g, g \o Popped(q, e))
                   /\ \A i \in W : i \in Message /\ Before[i] + 1 <= k
        <5>1. StreamFits(x, q, r.expected[x], g, H, Q, {})
          BY <3>1 DEF q, g
        <5> QED  BY <2>10, <4>4, <5>1, SkipFits DEF e
      <4>6. PICK W : /\ StreamFits(x, Left(q, e), Moved(e, LastOf(q, Inline(q, e))), g \o Popped(q, e), H, Q, W)
                     /\ Service!IsPrefix(g, g \o Popped(q, e))
                     /\ \A i \in W : i \in Message /\ Before[i] + 1 <= k
        BY <4>5
      <4>7. \A i \in W : i \in Message /\ Before[i] + 1 <= j
        <5>1. \A i \in Message : Before[i] \in Nat
          <6>1. \A i \in Message : i \in 1 .. Len(Messages) + 1
            BY Numbers
          <6> QED  BY <6>1, BeforeIs
        <5>2. j \in Nat
          BY FragmentsAre
        <5>3. ASSUME NEW i \in W PROVE i \in Message /\ Before[i] + 1 <= j
          <6> DEFINE z == Before[i]
          <6>1. i \in Message /\ z \in Nat /\ z + 1 <= k
            BY <4>6, <5>1
          <6> HIDE DEF z
          <6>2. z + 1 <= j
            BY <2>4, <2>9, <5>2, <6>1
          <6> QED  BY <6>1, <6>2 DEF z
        <5> QED  BY <5>3
      <4>8. StreamFits(x, PruneChunks(Left(q, e), Nth(j)), Moved(e, LastOf(q, Inline(q, e))), g \o Popped(q, e), H, Q, {})
        BY <2>10, <4>6, <4>7, PruneFits
      <4> QED  BY <2>9, <4>3, <4>6, <4>8 DEF g
    <3> QED  BY <3>2, <3>3
  <2> HIDE DEF Skip
  <2>14. /\ \A x \in Stream : a[x] = Skip(x).expected[x]
         /\ \A x \in Stream : b[x] = Skip(x).delivered[x]
         /\ \A x \in Stream : d[x] = PruneChunks(Skip(x).reassembly[x], v.last)
         /\ a = [x \in Stream |-> a[x]] /\ b = [x \in Stream |-> b[x]] /\ d = [x \in Stream |-> d[x]]
    OBVIOUS
  <2> HIDE DEF a, b, d
  <2>15. /\ w.last = v.last /\ w.misordered = v.misordered /\ w.expected = a /\ w.delivered = b /\ w.reassembly = d
    BY <2>12 DEF Fields
  <2> HIDE DEF w
  <2>16. Tables(w)
    BY <2>14, <2>15 DEF Tables
  <2>17. Arrived(w) = H
    BY <2>15 DEF Arrived, Received, H
  <2>18. \A x \in Stream : /\ StreamFits(x, w.reassembly[x], w.expected[x], w.delivered[x], H, Q, {})
                           /\ Service!IsPrefix(r.delivered[x], w.delivered[x])
    BY <2>13, <2>14, <2>15
  <2>19. ASSUME NEW x \in Stream \ DOMAIN f.streams PROVE MovesOn(r, w, x)
    <3>1. Skip(x) = v
      BY DEF Skip
    <3>2. /\ w.expected[x] = r.expected[x] /\ w.delivered[x] = r.delivered[x]
          /\ w.reassembly[x] = PruneChunks(r.reassembly[x], Nth(j))
      BY <2>8, <2>9, <2>14, <2>15, <3>1
    <3>3. Arrived(r) \subseteq Arrived(w)
      BY <2>10, <2>17 DEF R
    <3> QED  BY <3>2, <3>3 DEF MovesOn
  <2> QED  BY <2>1, <2>16, <2>17, <2>18, <2>19 DEF StreamsFit
<1> QED  BY <1>3, <1>4

-----------------------------------------------------------------------------
(* The refinement: what is sent is queued, what a packet brings is         *)
(* delivered, and nothing else is seen of the protocol.                    *)
ReceiverKnows == StreamsFit(receiver, Arrived(receiver), queued)
Implementing == NothingLost /\ ReceiverKnows

LEMMA InitImplements ==
  ASSUME NoSsnWrap
  PROVE  Init => ReceiverKnows /\ Service!Init
<1> SUFFICES ASSUME Init PROVE ReceiverKnows /\ Service!Init
  OBVIOUS
<1>1. /\ receiver.reassembly = [x \in Stream |-> <<>>] /\ receiver.expected = [x \in Stream |-> 0]
      /\ receiver.delivered = [x \in Stream |-> <<>>] /\ queued = 0
  BY DEF Init, ReceiverInit
<1>2. Tables(receiver)
  BY <1>1 DEF Tables
<1>3. ASSUME NEW x \in Stream, NEW R PROVE StreamFits(x, <<>>, 0, <<>>, R, 0, {})
  <2>1. Queue(x, <<>>, R, 0)
    <3>1. \A S : <<>> \in Seq(S)
      OBVIOUS
    <3> QED  BY <3>1 DEF Queue, Sorted
  <2>2. History(x, <<>>, 0)
    <3>1. \A S : <<>> \in Seq(S)
      OBVIOUS
    <3> QED  BY <3>1 DEF History, Service!Proper
  <2>3. 0 \in 0 .. Turns(x)
    <3>1. Len(Messages) + 1 \in 1 .. Len(Messages) + 1 /\ 1 \in 1 .. Len(Messages) + 1
      BY Numbers
    <3>2. Len(Messages) + 1 \in (Len(Messages) + 1) .. (Len(Messages) + 1)
      BY Numbers
    <3>3. Turns(x) \in Nat
      BY <3>1, <3>2, EarlierGrows DEF Turns
    <3> QED  BY <3>3
  <2>4. \A m \in InLine(x) : ~(Turn(m) < 0)
    <3>1. \A m \in InLine(x) : Turn(m) \in Nat
      BY TurnIs DEF InLine, On
    <3> QED  BY <3>1
  <2>5. Range(<<>>) = {} /\ DOMAIN <<>> = {}
    BY DEF Range
  <2> QED  BY <2>1, <2>2, <2>3, <2>4, <2>5 DEF StreamFits, Passed, Behind
<1>4. ReceiverKnows
  BY <1>1, <1>2, <1>3 DEF ReceiverKnows, StreamsFit
<1>5. Service!Init
  BY <1>1 DEF Service!Init
<1> QED  BY <1>4, <1>5

(* The receiver's new state is one the service may deliver into.           *)
LEMMA DeliverImplements ==
  ASSUME NEW r, StreamsFit(r, Arrived(r), queued), NEW p, ReceiverGoesOn(r, p), queued \in 0 .. Len(Messages),
         Tables(receiver), \A x \in Stream : Service!IsPrefix(receiver.delivered[x], r.delivered[x])
  PROVE  ReceiverKnows' /\ Service!Deliver
<1>1. receiver' = r /\ queued' = queued
  BY DEF ReceiverGoesOn
<1>2. ReceiverKnows'
  BY <1>1 DEF ReceiverKnows
<1>3. \A x \in Stream : r.delivered[x] \in Seq(1 .. queued) /\ Service!Proper(x, r.delivered[x])
  <2> SUFFICES ASSUME NEW x \in Stream
               PROVE  r.delivered[x] \in Seq(1 .. queued) /\ Service!Proper(x, r.delivered[x])
    OBVIOUS
  <2> DEFINE S == On(x) \cap (1 .. queued)
             T == 1 .. queued
             d == r.delivered[x]
  <2>1. S \subseteq T
    OBVIOUS
  <2>2. d \in Seq(S) /\ Service!Proper(x, d)
    BY DEF StreamsFit, StreamFits, History
  <2> HIDE DEF S, T, d
  <2>3. d \in Seq(T)
    BY <2>1, <2>2
  <2> QED  BY <2>2, <2>3 DEF d, T
<1>4. r.delivered \in [Stream -> Seq(1 .. queued)]
  <2> DEFINE T == Seq(1 .. queued)
  <2>1. \A x \in Stream : r.delivered[x] \in T
    BY <1>3
  <2> HIDE DEF T
  <2>2. r.delivered = [x \in Stream |-> r.delivered[x]]
    BY DEF StreamsFit, Tables
  <2>3. r.delivered \in [Stream -> T]
    BY <2>1, <2>2
  <2> QED  BY <2>3 DEF T
<1> QED  BY <1>1, <1>2, <1>3, <1>4 DEF Service!Deliver

LEMMA StepImplements ==
  ASSUME NoWrap, NoSsnWrap, Alike
  PROVE  Implementing /\ [Next]_vars => ReceiverKnows' /\ [Service!Next]_Service!vars
<1> SUFFICES ASSUME Implementing, [Next]_vars PROVE ReceiverKnows' /\ [Service!Next]_Service!vars
  OBVIOUS
<1>0. /\ receiver.got \in SUBSET Fragment /\ Fits(receiver.got, receiver)
      /\ queued \in 0 .. Len(Messages) /\ queued \in Nat
      /\ StreamsFit(receiver, Arrived(receiver), queued) /\ Tables(receiver)
      /\ \A p \in net : /\ p.type = "data" => p.chunk \in Fragment /\ p.chunk.msg <= queued
                        /\ p.type = "forward" => p \in ForwardPacket(receiver.got)
  BY Numbers DEF Implementing, NothingLost, ReceiverFits, NetFits, OthersFit, ReceiverKnows, StreamsFit
<1>1. CASE DataChannelSend
  <2>1. /\ queued' = queued + 1 /\ receiver' = receiver /\ queued < Len(Messages)
        /\ queued' \in Nat /\ queued <= queued'
    BY <1>0, <1>1 DEF DataChannelSend
  <2>2. Arrived(receiver) \in SUBSET Fragment
    BY DEF Arrived
  <2>3. \A x \in Stream : StreamFits(x, receiver.reassembly[x], receiver.expected[x], receiver.delivered[x],
                                     Arrived(receiver), queued', {})
    <3> SUFFICES ASSUME NEW x \in Stream
                 PROVE  StreamFits(x, receiver.reassembly[x], receiver.expected[x], receiver.delivered[x],
                                   Arrived(receiver), queued', {})
      OBVIOUS
    <3>1. StreamFits(x, receiver.reassembly[x], receiver.expected[x], receiver.delivered[x],
                     Arrived(receiver), queued, {})
      BY <1>0 DEF StreamsFit
    <3> DEFINE R == Arrived(receiver)
    <3>2. R \in SUBSET Fragment /\ R \subseteq R
      BY <2>2
    <3> HIDE DEF R
    <3> QED  BY <1>0, <2>1, <3>1, <3>2, StreamGrows DEF R
  <2>4. StreamsFit(receiver, Arrived(receiver), queued')
    BY <1>0, <2>3 DEF StreamsFit
  <2>5. ReceiverKnows'
    BY <2>1, <2>4 DEF ReceiverKnows
  <2>6. Service!Next
    BY <2>1 DEF Service!Next, Service!Send
  <2> QED  BY <2>5, <2>6
<1>2. ASSUME NEW p \in net, Data(p) PROVE ReceiverKnows' /\ [Service!Next]_Service!vars
  <2> DEFINE r == ReceiveData(receiver, p.chunk)
  <2>1. p.chunk \in Fragment /\ p.chunk.msg <= queued
    BY <1>0, <1>2 DEF Data
  <2>2. /\ StreamsFit(r, Arrived(r), queued)
        /\ \A x \in Stream : Service!IsPrefix(receiver.delivered[x], r.delivered[x])
    BY <1>0, <2>1, ReceiveDataFits
  <2>3. ReceiverGoesOn(r, p)
    BY <1>2 DEF Data
  <2> HIDE DEF r
  <2>4. ReceiverKnows' /\ Service!Deliver
    BY <1>0, <2>2, <2>3, DeliverImplements
  <2> QED  BY <2>4 DEF Service!Next
<1>3. ASSUME NEW p \in net, ForwardTsn(p) PROVE ReceiverKnows' /\ [Service!Next]_Service!vars
  <2> DEFINE r == ReceiveForward(receiver, p)
  <2>1. p \in ForwardPacket(receiver.got)
    BY <1>0, <1>3 DEF ForwardTsn
  <2>2. /\ StreamsFit(r, Arrived(r), queued)
        /\ \A x \in Stream : Service!IsPrefix(receiver.delivered[x], r.delivered[x])
    BY <1>0, <2>1, ReceiveForwardFits
  <2>3. ReceiverGoesOn(r, p)
    BY <1>3 DEF ForwardTsn
  <2> HIDE DEF r
  <2>4. ReceiverKnows' /\ Service!Deliver
    BY <1>0, <2>2, <2>3, DeliverImplements
  <2> QED  BY <2>4 DEF Service!Next
<1>4. ASSUME receiver' = receiver, queued' = queued PROVE ReceiverKnows' /\ [Service!Next]_Service!vars
  BY <1>0, <1>4 DEF ReceiverKnows, Service!vars
<1>5. CASE RunFlush \/ T3Expires \/ RunTransmit \/ (\E p \in net : SackArrives(p))
  BY <1>4, <1>5 DEF RunFlush, T3Expires, RunTransmit, SackArrives, SenderGoesOn
<1>6. CASE (\E m \in Message : LifetimeEnds(m)) \/ (\E p \in net : Lose(p)) \/ UNCHANGED vars
  BY <1>4, <1>6 DEF LifetimeEnds, Lose, vars
<1> QED  BY <1>1, <1>2, <1>3, <1>5, <1>6 DEF Next

(* Whatever is lost, reordered, retransmitted, abandoned or given up with  *)
(* a FORWARD TSN, a channel delivers only messages sent on it, each once,  *)
(* in order if it is ordered, and leaves out none that is not limited.     *)
THEOREM Refines ==
  ASSUME NoWrap, NoSsnWrap, Alike
  PROVE  Spec => ImplementsService
<1>1. Init => Implementing /\ Service!Init
  BY InitFits, InitImplements DEF Implementing
<1>2. Implementing /\ [Next]_vars => Implementing'
  BY StepFits, StepImplements DEF Implementing
<1>3. Implementing /\ [Next]_vars => [Service!Next]_Service!vars
  BY StepImplements
<1> QED  BY <1>1, <1>2, <1>3, PTL DEF Spec, ImplementsService, Service!Spec

-----------------------------------------------------------------------------
(* Nothing waits for nothing: one channel, reliable and in order.          *)
OneReliable(x) == \A m \in Message : Messages[m].stream = x /\ Messages[m].ordered /\ Unlimited(m)

LEMMA FragmentOf ==
  ASSUME NEW m \in Message, NEW i \in Parts(m)
  PROVE  \E c \in Fragment : c.msg = m /\ c.part = i /\ Rank(c) = Before[m] + i
<1> DEFINE z == Before[m] + i
           t == Nth(z)
           n == Turn(m)
           c == [tsn |-> t, msg |-> m, part |-> i, seq |-> n]
<1>1. z \in Nat /\ i \in Nat
  BY PartsOrder
<1>2. t \in Int
  <2> HIDE DEF z
  <2> QED  BY <1>1, NthMore
<1>3. n \in Int
  <2>1. \A y \in Stream : Earlier[m][y] \in Int
    <3>1. m \in 1 .. Len(Messages) + 1
      BY Numbers
    <3> QED  BY <3>1, EarlierIs
  <2>2. Messages[m].stream \in Stream
    BY MessageIs
  <2> DEFINE e == Earlier[m][Messages[m].stream]
  <2>3. e \in Int /\ SsnModulo \in Nat \ {0}
    BY <2>1, <2>2, Numbers
  <2> HIDE DEF e
  <2>4. e % SsnModulo \in Int
    BY <2>3
  <2> QED  BY <2>4 DEF Turn, e
<1> HIDE DEF t, n, z
<1>4. c \in [tsn : Int, msg : Message, part : Nat, seq : Int] /\ c.msg = m /\ c.part = i /\ c.tsn = t /\ c.seq = n
  BY <1>1, <1>2, <1>3
<1> HIDE DEF c
<1>5. Rank(c) = z
  BY <1>4 DEF Rank, z
<1>6. c \in Fragment
  BY <1>4, <1>5 DEF Fragment, t, n
<1> QED  BY <1>4, <1>5, <1>6 DEF z

(* Messages on the only channel have their turns one after the other.      *)
LEMMA OneByOne ==
  ASSUME NoSsnWrap, NEW x \in Stream, OneReliable(x), NEW m \in Message, NEW k \in Message
  PROVE  /\ Turn(m) \in Nat /\ Turn(m) < Turns(x) /\ Turns(x) \in Nat
         /\ m < k <=> Turn(m) < Turn(k)
         /\ m = k <=> Turn(m) = Turn(k)
<1>1. /\ Messages[m].stream = x /\ Messages[k].stream = x /\ Messages[m].ordered /\ Messages[k].ordered
  BY DEF OneReliable
<1>2. Turn(m) \in Nat /\ Turn(m) < Turns(x) /\ Turns(x) \in Nat
  BY <1>1, TurnIs
<1> QED  BY <1>1, <1>2, TurnOrder

(* The fragments that pop_messages gives: the last one of each message.    *)
LEMMA LastGiven ==
  ASSUME NoWrap, NEW q \in Seq(Fragment), Sorted(q), NEW e, NEW a \in 1 .. Len(Given(q, e))
  PROVE  \E i \in Taken(q, RunStarts(q, e)) : i \in DOMAIN q /\ Given(q, e)[a] = q[i] /\ LastFrag(q[i])
<1> DEFINE K == Taken(q, RunStarts(q, e))
           S == {i \in K : LastFrag(q[i])}
           t == Given(q, e)
<1>1. K \in SUBSET (DOMAIN q)
  BY TakenIs
<1>2. t \in Seq(Fragment) /\ Picks(t, q, S)
  <2>1. S \in SUBSET (DOMAIN q)
    BY <1>1
  <2>2. t = Picked(q, S)
    BY DEF Given, LastOf
  <2> HIDE DEF S, t
  <2> QED  BY <2>1, <2>2, PickedIs
<1>3. PICK f \in [1 .. Len(t) -> S] : \A i \in 1 .. Len(t) : t[i] = q[f[i]]
  BY <1>2 DEF Picks
<1> QED  BY <1>1, <1>3

(* What is there of the only channel, fragment after fragment.             *)
LEMMA NextIs ==
  ASSUME NoSsnWrap, NEW x \in Stream, OneReliable(x), NEW c \in Fragment, NEW d \in Fragment,
         LastFrag(d), Rank(c) < Rank(d)
  PROVE  \E n \in Fragment : Rank(n) = Rank(c) + 1 /\ c.msg <= n.msg /\ n.msg <= d.msg
<1> DEFINE k == c.msg
           m == d.msg
           i == c.part
           l == Len(Messages[k].sizes)
<1>1. /\ k \in Message /\ m \in Message /\ i \in Parts(k) /\ d.part \in Parts(m)
      /\ Rank(c) = Before[k] + i /\ Rank(d) = Before[m] + Len(Messages[m].sizes)
  BY RankIs DEF Rank, LastFrag
<1>2. /\ Parts(k) = 1 .. l /\ l \in Nat \ {0} /\ Before[k] \in Nat /\ Before[k + 1] = Before[k] + l /\ i \in 1 .. l
  BY <1>1, MessageIs, PartsOrder, BeforeIs
<1>3. Message = 1 .. Len(Messages) /\ Len(Messages) \in Nat /\ k \in Nat /\ m \in Nat
  BY <1>1, Numbers
<1>4. k <= m
  <2> SUFFICES ASSUME m < k PROVE FALSE
    BY <1>3
  <2>1. Rank(d) <= Before[k] /\ Before[k] < Rank(c)
    BY <1>1, Crossed
  <2>2. Rank(d) \in Nat /\ Rank(c) \in Nat
    BY RankIs, FragmentsAre
  <2> QED  BY <1>2, <2>1, <2>2
<1>5. CASE i < l
  <2>1. i + 1 \in Parts(k)
    BY <1>2, <1>5
  <2>2. PICK n \in Fragment : n.msg = k /\ n.part = i + 1 /\ Rank(n) = Before[k] + (i + 1)
    BY <1>1, <2>1, FragmentOf
  <2>3. Rank(n) = Rank(c) + 1
    <3> DEFINE b == Before[k]
    <3>1. b \in Nat /\ i \in Nat /\ Rank(n) = b + (i + 1) /\ Rank(c) = b + i
      BY <1>1, <1>2, <2>2
    <3> HIDE DEF b, i
    <3> QED  BY <3>1
  <2> QED  BY <1>3, <1>4, <2>2, <2>3
<1>6. CASE i = l
  <2>1. k < m
    <3> SUFFICES ASSUME k = m PROVE FALSE
      BY <1>3, <1>4
    <3>1. Rank(d) = Rank(c)
      BY <1>1, <1>6
    <3>2. Rank(c) \in Nat
      BY RankIs, FragmentsAre
    <3> QED  BY <3>1, <3>2
  <2>2. k + 1 \in Message /\ k <= k + 1 /\ k + 1 <= m
    BY <1>1, <1>3, <2>1
  <2>3. 1 \in Parts(k + 1)
    BY <2>2, MessageIs
  <2>4. PICK n \in Fragment : n.msg = k + 1 /\ n.part = 1 /\ Rank(n) = Before[k + 1] + 1
    BY <2>2, <2>3, FragmentOf
  <2>5. Rank(n) = Rank(c) + 1
    BY <1>1, <1>2, <1>6, <2>4
  <2> QED  BY <2>2, <2>4, <2>5
<1> QED  BY <1>2, <1>5, <1>6

LEMMA EarlierTurns ==
  ASSUME NEW x \in Stream
  PROVE  Turns(x) \in Nat
<1>1. 1 \in 1 .. Len(Messages) + 1 /\ Len(Messages) + 1 \in 1 .. Len(Messages) + 1
  BY Numbers
<1> QED  BY <1>1, EarlierGrows DEF Turns

(* Along a queue in order the ranks grow.                                  *)
LEMMA RanksGrow ==
  ASSUME NEW q \in Seq(Fragment), Sorted(q), NEW i \in 1 .. Len(q), NEW j \in 1 .. Len(q), i <= j
  PROVE  Rank(q[i]) <= Rank(q[j])
<1>1. q[i] \in Fragment /\ q[j] \in Fragment /\ Len(q) \in Nat /\ DOMAIN q = 1 .. Len(q)
  OBVIOUS
<1>2. Rank(q[i]) \in Nat /\ Rank(q[j]) \in Nat
  BY <1>1, RankIs, FragmentsAre
<1>3. i < j \/ i = j
  OBVIOUS
<1>4. CASE i < j
  <2>1. Rank(q[i]) < Rank(q[j])
    BY <1>1, <1>4 DEF Sorted
  <2> QED  BY <1>2, <2>1
<1> QED  BY <1>2, <1>3, <1>4

(* What pop_messages leaves in the queue is either still to be expected or *)
(* not whole, if nothing that was there had been passed.                   *)
LEMMA PopsAll ==
  ASSUME NoWrap, NoSsnWrap, NEW x \in Stream, OneReliable(x), NEW T \in SUBSET Fragment,
         NEW q \in Seq(T), Sorted(q), NEW e \in 0 .. Turns(x), \A c \in Range(q) : e <= Turn(c.msg)
  PROVE  LET b == Left(q, e)
             f == Moved(e, LastOf(q, Inline(q, e)))
         IN  /\ \A c \in Range(b) : f <= Turn(c.msg)
             /\ \A m \in Message : Turn(m) = f => \E c \in Fragment : c.msg = m /\ c \notin Range(b)
             /\ \A a \in DOMAIN Popped(q, e) : \A c \in Fragment : c.msg = Popped(q, e)[a] => c \in T
<1> DEFINE b == Left(q, e)
           l == Given(q, e)
           f == Moved(e, LastOf(q, Inline(q, e)))
           K == Taken(q, RunStarts(q, e))
           n == Len(q)
           O == {c \in Fragment : Ordered(c) /\ StreamOf(c) = x}
<1>1. /\ q \in Seq(Fragment) /\ n \in Nat /\ DOMAIN q = 1 .. n
      /\ \A i \in 1 .. n : q[i] \in Fragment /\ q[i] \in T /\ q[i] \in Range(q)
      /\ \A c \in Range(q) : \E i \in 1 .. n : c = q[i]
  BY DEF Range
<1>2. \A c \in Fragment : c.msg \in Message /\ Ordered(c) /\ StreamOf(c) = x /\ c \in O
  BY RankIs DEF OneReliable, Ordered, StreamOf
<1>3. \A i \in 1 .. n : Rank(q[i]) \in Nat
  BY <1>1, RankIs, FragmentsAre
<1>4. /\ Range(b) \subseteq Range(q) /\ \A i \in K : q[i] \notin Range(b)
  BY LeftIs
<1>5. l \in Seq(T) /\ \A a \in 1 .. Len(l) : \A c \in Fragment : c.msg = l[a].msg => c \in Range(q)
  BY GivenIs
<1>6. f = Moved(e, l) /\ \A a \in 1 .. Len(l) : InTurn(q[1], e)
  BY <1>1, <1>2, InlineIs, GivenInTurn
<1>7. /\ f \in e .. Turns(x) /\ e \in Nat /\ f \in Nat /\ e <= f
      /\ \A i \in e .. f - 1 : \E j \in 1 .. Len(l) : Turn(l[j].msg) = i
  <2>1. T \subseteq O
    BY <1>2
  <2> HIDE DEF O, l, f
  <2>2. l \in Seq(O)
    BY <1>5, <2>1
  <2>3. Turns(x) \in Nat
    BY EarlierTurns
  <2>4. f \in e .. Turns(x) /\ \A i \in e .. f - 1 : \E j \in 1 .. Len(l) : Turn(l[j].msg) = i
    BY <1>6, <2>2, MovedIs DEF O
  <2> QED  BY <2>3, <2>4
<1> HIDE DEF O, b, l, f, K, n
<1>8. ASSUME NEW m \in Message, e <= Turn(m), Turn(m) < f
      PROVE  \E j \in 1 .. Len(l) : l[j].msg = m
  <2>1. Turn(m) \in Nat
    BY OneByOne
  <2>2. Turn(m) \in e .. f - 1
    BY <1>7, <1>8, <2>1
  <2>3. PICK j \in 1 .. Len(l) : Turn(l[j].msg) = Turn(m)
    BY <1>7, <2>2
  <2>4. l[j] \in Fragment
    BY <1>5, <2>3
  <2>5. l[j].msg \in Message
    BY <1>2, <2>4
  <2> QED  BY <2>3, <2>5, OneByOne
<1>9. ASSUME NEW c \in Range(b), Turn(c.msg) < f PROVE FALSE
  <2>1. PICK i \in 1 .. n : c = q[i]
    BY <1>1, <1>4, <1>9
  <2>2. c \in Fragment /\ c.msg \in Message /\ e <= Turn(c.msg)
    BY <1>1, <1>2, <2>1
  <2>3. PICK j \in 1 .. Len(l) : l[j].msg = c.msg
    BY <1>8, <1>9, <2>2
  <2>4. PICK k \in K : k \in 1 .. n /\ l[j] = q[k] /\ LastFrag(q[k])
    BY <1>1, <2>3, LastGiven DEF K, l
  <2>5. Rank(q[i]) <= Rank(q[k])
    <3>1. q[i].msg = q[k].msg
      BY <2>1, <2>3, <2>4
    <3>2. /\ q[i].part \in Parts(q[i].msg) /\ Before[q[i].msg] \in Nat
          /\ Parts(q[i].msg) = 1 .. Len(Messages[q[i].msg].sizes) /\ Len(Messages[q[i].msg].sizes) \in Nat
      BY <2>1, <2>2, RankIs, PartsOrder, MessageIs
    <3> QED  BY <2>4, <3>1, <3>2 DEF Rank, LastFrag
  <2>6. i <= k
    <3> SUFFICES ASSUME k < i PROVE FALSE
      BY <1>1, <2>1, <2>4
    <3>1. Rank(q[k]) < Rank(q[i])
      BY <1>1, <2>1, <2>4 DEF Sorted
    <3>2. Rank(q[k]) \in Nat /\ Rank(q[i]) \in Nat
      BY <1>3, <2>1, <2>4
    <3> QED  BY <2>5, <3>1, <3>2
  <2>7. i \in K
    <3>1. PICK p \in RunStarts(q, e) : k \in Whole(q, p)
      BY <2>4 DEF K, Taken
    <3>2. p = 1
      BY <1>1, <1>2, <3>1, StartsAre
    <3>3. k \in 1 .. RunEnd(q, 1) /\ RunEnd(q, 1) \in 1 .. n
      <4>1. 1 \in 1 .. Len(q)
        BY <1>1, <2>1 DEF n
      <4> QED  BY <1>1, <3>1, <3>2, <4>1, RunIs DEF Whole, n
    <3>4. i \in 1 .. RunEnd(q, 1) /\ k \in i .. RunEnd(q, 1)
      BY <1>1, <2>6, <3>3
    <3>5. i \in Whole(q, 1)
      BY <2>4, <3>4 DEF Whole
    <3> QED  BY <3>1, <3>2, <3>5 DEF K, Taken
  <2> QED  BY <1>4, <1>9, <2>1, <2>7
<1>10. ASSUME NEW m \in Message, Turn(m) = f, \A c \in Fragment : c.msg = m => c \in Range(b)
       PROVE  FALSE
  <2>1. ASSUME NEW c \in Fragment, e <= Turn(c.msg), Turn(c.msg) <= f PROVE c \in Range(q)
    <3>1. c.msg \in Message /\ Turn(c.msg) \in Nat
      BY <1>2, OneByOne
    <3>2. CASE Turn(c.msg) = f
      <4>1. c.msg = m
        BY <1>10, <3>1, <3>2, OneByOne
      <4> QED  BY <1>4, <1>10, <4>1
    <3>3. CASE Turn(c.msg) < f
      BY <1>5, <1>8, <2>1, <3>1, <3>3
    <3> QED  BY <1>7, <2>1, <3>1, <3>2, <3>3
  <2>2. PICK d \in Fragment : d.msg = m /\ LastFrag(d)
    <3>1. Len(Messages[m].sizes) \in Parts(m)
      BY MessageIs
    <3> QED  BY <3>1, FragmentOf DEF LastFrag
  <2>3. PICK i \in 1 .. n : d = q[i]
    BY <1>1, <1>4, <1>10, <2>2
  <2>4. 1 \in 1 .. n /\ q[1] \in Fragment /\ q[1].msg \in Message /\ e <= Turn(q[1].msg)
    <3>1. 1 \in 1 .. n
      BY <1>1
    <3> QED  BY <1>1, <1>2, <3>1
  <2>5. FirstFrag(q[1]) /\ Turn(q[1].msg) <= f
    <3> DEFINE k == q[1].msg
               p == q[1].part
    <3>1. Rank(q[1]) <= Rank(d) /\ Rank(d) \in Nat /\ Rank(q[1]) \in Nat
      <4>1. 1 <= i /\ i \in 1 .. Len(q) /\ 1 \in 1 .. Len(q)
        BY <1>1, <2>3, <2>4 DEF n
      <4>2. Rank(q[1]) <= Rank(q[i])
        BY <1>1, <4>1, RanksGrow
      <4> QED  BY <1>3, <2>3, <2>4, <4>2
    <3>2. k <= m
      <4> SUFFICES ASSUME m < k PROVE FALSE
        BY <2>4, Numbers
      <4>1. /\ Rank(d) <= Before[k] /\ Before[k] < Rank(q[1]) /\ Before[k] \in Nat
        BY <2>2, <2>4, RankIs, Crossed
      <4> QED  BY <3>1, <4>1
    <3>3. Turn(k) <= f
      <4>1. Turn(k) \in Nat /\ (k < m => Turn(k) < Turn(m)) /\ (k = m => Turn(k) = Turn(m))
        BY <2>4, OneByOne
      <4>2. k < m \/ k = m
        BY <2>4, <3>2, Numbers
      <4> QED  BY <1>7, <1>10, <4>1, <4>2
    <3>4. 1 \in Parts(k) /\ p \in Parts(k) /\ p \in Nat \ {0} /\ Before[k] \in Nat
      <4>1. 1 \in Parts(k)
        BY <2>4, MessageIs
      <4>2. p \in Parts(k)
        BY <2>4, RankIs
      <4> QED  BY <2>4, <4>1, <4>2, PartsOrder
    <3>5. PICK c \in Fragment : c.msg = k /\ c.part = 1 /\ Rank(c) = Before[k] + 1
      BY <2>4, <3>4, FragmentOf
    <3>6. PICK j \in 1 .. n : c = q[j]
      BY <1>1, <2>1, <2>4, <3>3, <3>5
    <3>7. Rank(q[1]) <= Rank(c)
      <4>1. 1 <= j /\ j \in 1 .. Len(q) /\ 1 \in 1 .. Len(q)
        BY <1>1, <2>4, <3>6 DEF n
      <4>2. Rank(q[1]) <= Rank(q[j])
        BY <1>1, <4>1, RanksGrow
      <4> QED  BY <3>6, <4>2
    <3>8. p = 1
      <4>1. Rank(q[1]) = Before[k] + p
        BY DEF Rank
      <4> HIDE DEF p
      <4> QED  BY <3>4, <3>5, <3>7, <4>1
    <3> QED  BY <3>3, <3>8 DEF FirstFrag
  <2>6. InTurn(q[1], e)
    <3>1. CASE e = f
      <4>1. Turn(q[1].msg) \in Nat
        BY <2>4, OneByOne
      <4>2. Turn(q[1].msg) <= e
        BY <2>5, <3>1
      <4> QED  BY <1>2, <2>4, <4>2, InTurnIs
    <3>2. CASE e < f
      <4>1. e \in e .. f - 1
        BY <1>7, <3>2
      <4> QED  BY <1>6, <1>7, <4>1
    <3> QED  BY <1>7, <3>1, <3>2
  <2>7. 1 \in RunStarts(q, e)
    BY <1>1, <1>2, <2>4, <2>5, <2>6, Starts DEF n
  <2> DEFINE r == RunEnd(q, 1)
  <2>8. r \in 1 .. n /\ (r < n => Rank(q[r + 1]) # Rank(q[r]) + 1)
    BY <1>1, <2>4, RunEnds DEF n
  <2> HIDE DEF r
  <2>9. i <= r
    <3> SUFFICES ASSUME r < i PROVE FALSE
      BY <2>8
    <3>1. r < n /\ r + 1 \in 1 .. n /\ q[r] \in Fragment /\ Rank(q[r]) < Rank(d)
      BY <1>1, <2>3, <2>8 DEF Sorted
    <3>2. PICK c \in Fragment : Rank(c) = Rank(q[r]) + 1 /\ q[r].msg <= c.msg /\ c.msg <= m
      BY <2>2, <3>1, NextIs
    <3>3. /\ e <= Turn(q[r].msg) /\ q[r].msg \in Message /\ c.msg \in Message
      BY <1>1, <1>2, <2>8
    <3>4. Turn(q[r].msg) <= Turn(c.msg) /\ Turn(c.msg) <= Turn(m)
      <4>1. ASSUME NEW j \in Message, NEW k \in Message, j <= k PROVE Turn(j) <= Turn(k)
        <5>1. /\ Turn(j) \in Nat /\ Turn(k) \in Nat
              /\ (j < k => Turn(j) < Turn(k)) /\ (j = k => Turn(j) = Turn(k))
          BY OneByOne
        <5>2. j < k \/ j = k
          BY <4>1, Numbers
        <5> QED  BY <5>1, <5>2
      <4> QED  BY <3>2, <3>3, <4>1
    <3>5. e <= Turn(c.msg)
      <4>1. Turn(q[r].msg) \in Nat /\ Turn(c.msg) \in Nat
        BY <3>3, OneByOne
      <4> QED  BY <1>7, <3>3, <3>4, <4>1
    <3>6. PICK j \in 1 .. n : c = q[j]
      BY <1>1, <1>10, <2>1, <3>4, <3>5
    <3>7. r < j
      <4> SUFFICES ASSUME j <= r PROVE FALSE
        BY <1>1, <2>8, <3>6
      <4>0. j \in 1 .. Len(q) /\ r \in 1 .. Len(q)
        BY <2>8, <3>6 DEF n
      <4>1. Rank(q[j]) <= Rank(q[r])
        BY <1>1, <4>0, RanksGrow
      <4>2. Rank(q[r]) \in Nat /\ Rank(q[j]) = Rank(q[r]) + 1
        BY <1>3, <2>8, <3>2, <3>6
      <4> DEFINE a == Rank(q[r])
                 h == Rank(q[j])
      <4>3. a \in Nat /\ h = a + 1 /\ h <= a
        BY <4>1, <4>2
      <4> HIDE DEF a, h
      <4> QED  BY <4>3
    <3>8. Rank(q[r + 1]) <= Rank(q[j])
      <4>1. r + 1 <= j /\ j \in 1 .. Len(q) /\ r + 1 \in 1 .. Len(q)
        BY <1>1, <2>8, <3>1, <3>6, <3>7 DEF n
      <4> QED  BY <1>1, <4>1, RanksGrow
    <3>9. Rank(q[r]) < Rank(q[r + 1])
      BY <1>1, <2>8, <3>1 DEF Sorted
    <3> DEFINE a == Rank(q[r])
               h == Rank(q[r + 1])
    <3>10. a \in Nat /\ h \in Nat /\ a < h /\ h <= a + 1 /\ h # a + 1
      BY <1>3, <2>8, <3>1, <3>2, <3>6, <3>8, <3>9
    <3> HIDE DEF a, h
    <3> QED  BY <3>10
  <2>10. i \in K
    <3>1. i \in 1 .. r /\ i \in i .. r
      BY <2>3, <2>8, <2>9
    <3>2. i \in Whole(q, 1)
      BY <2>2, <2>3, <3>1 DEF Whole, r
    <3> QED  BY <2>7, <3>2 DEF K, Taken
  <2> QED  BY <1>4, <1>10, <2>2, <2>3, <2>10
<1>11. \A c \in Range(b) : f <= Turn(c.msg)
  <2> SUFFICES ASSUME NEW c \in Range(b) PROVE f <= Turn(c.msg)
    OBVIOUS
  <2>1. c \in Fragment
    BY <1>1, <1>4
  <2>2. Turn(c.msg) \in Nat
    BY <1>2, <2>1, OneByOne
  <2> QED  BY <1>7, <1>9, <2>2
<1>12. ASSUME NEW a \in DOMAIN Popped(q, e), NEW c \in Fragment, c.msg = Popped(q, e)[a] PROVE c \in T
  <2>1. a \in 1 .. Len(l) /\ Popped(q, e)[a] = l[a].msg
    BY <1>5, <1>12 DEF Popped, l
  <2>2. c \in Range(q)
    BY <1>5, <1>12, <2>1
  <2> QED  BY <1>1, <2>2
<1> QED  BY <1>10, <1>11, <1>12 DEF b, f

(* Nothing is passed over: a message delivered was there, no chunk waits   *)
(* that is behind what is expected, and something of that is missing.      *)
Prompt(q, e, d, R) ==
  /\ \A m \in Range(d) : \A c \in Fragment : c.msg = m => c \in R
  /\ \A c \in Range(q) : e <= Turn(c.msg)
  /\ \A m \in Message : Turn(m) = e => \E c \in Fragment : c.msg = m /\ c \notin Range(q)
ReceiverPrompt(x) ==
  Prompt(receiver.reassembly[x], receiver.expected[x], receiver.delivered[x], Arrived(receiver))

LEMMA PromptPrunes ==
  ASSUME NoWrap, NEW x, NEW q, NEW e, NEW d, NEW R, NEW H \in SUBSET Fragment, R \subseteq H, NEW Q \in Nat,
         Queue(x, q, R, Q), Prompt(q, e, d, R), NEW j \in 0 .. Fragments
  PROVE  Prompt(PruneChunks(q, Nth(j)), e, d, H)
<1> DEFINE T == {c \in R : StreamOf(c) = x /\ c.msg <= Q}
           p == PruneChunks(q, Nth(j))
<1>1. T \in SUBSET Fragment /\ q \in Seq(T) /\ Sorted(q)
  BY DEF Queue
<1> HIDE DEF T
<1>2. Range(p) \subseteq Range(q)
  BY <1>1, PruneIs
<1> HIDE DEF p
<1> QED  BY <1>2 DEF Prompt, p

LEMMA PromptAdds ==
  ASSUME NoWrap, NoSsnWrap, NEW x \in Stream, OneReliable(x), NEW q, NEW e, NEW d, NEW Q \in Nat,
         NEW R, NEW H \in SUBSET Fragment, R \subseteq H, StreamFits(x, q, e, d, R, Q, {}), Prompt(q, e, d, R),
         NEW c \in H, c \notin R, c.msg <= Q
  PROVE  LET a == InsertAt(q, Leading(q, LAMBDA y : ~Tsn!Gt(y.tsn, c.tsn)) + 1, c)
         IN  Prompt(Left(a, e), Moved(e, LastOf(a, Inline(a, e))), d \o Popped(a, e), H)
<1> DEFINE a == InsertAt(q, Leading(q, LAMBDA y : ~Tsn!Gt(y.tsn, c.tsn)) + 1, c)
           T == {y \in H : StreamOf(y) = x /\ y.msg <= Q}
           A == {y \in R : StreamOf(y) = x /\ y.msg <= Q}
           S == On(x) \cap (1 .. Q)
           b == Left(a, e)
           f == Moved(e, LastOf(a, Inline(a, e)))
           h == Popped(a, e)
<1>1. /\ c \in Fragment /\ c.msg \in Message /\ StreamOf(c) = x /\ c.msg \in InLine(x) /\ Unlimited(c.msg)
      /\ T \in SUBSET Fragment /\ c \in T
  BY RankIs DEF OneReliable, StreamOf, InLine, On
<1>2. q \in Seq(A) /\ q \in Seq(T) /\ Sorted(q)
  <2>1. q \in Seq(A) /\ Sorted(q)
    BY DEF StreamFits, Queue
  <2>2. A \subseteq T
    OBVIOUS
  <2> HIDE DEF A, T
  <2>3. q \in Seq(T)
    BY <2>1, <2>2
  <2> QED  BY <2>1, <2>3
<1>3. c \notin Range(q)
  <2>1. A \subseteq R
    OBVIOUS
  <2> HIDE DEF A
  <2>2. Range(q) \subseteq A
    BY <1>2 DEF Range
  <2> QED  BY <2>1, <2>2
<1>3a. T \subseteq H
  OBVIOUS
<1> HIDE DEF T, A
<1>4. a \in Seq(T) /\ Sorted(a) /\ Range(a) \subseteq Range(q) \cup {c}
  BY <1>1, <1>2, <1>3, InsertIs
<1>4a. StreamFits(x, a, e, d, H, Q, {})
  BY <1>1, AddFits
<1> HIDE DEF a
<1>5. e \in 0 .. Turns(x) /\ (Turn(c.msg) < e => c.msg \in Range(d))
  BY <1>1 DEF StreamFits, Passed
<1>6. e <= Turn(c.msg)
  <2>1. Turn(c.msg) \in Nat /\ Turns(x) \in Nat
    BY <1>1, OneByOne
  <2>2. ~(Turn(c.msg) < e)
    BY <1>1, <1>5 DEF Prompt
  <2> QED  BY <1>5, <2>1, <2>2
<1>7. \A y \in Range(a) : e <= Turn(y.msg)
  BY <1>4, <1>6 DEF Prompt
<1>8. /\ \A y \in Range(b) : f <= Turn(y.msg)
      /\ \A m \in Message : Turn(m) = f => \E y \in Fragment : y.msg = m /\ y \notin Range(b)
      /\ \A i \in DOMAIN h : \A y \in Fragment : y.msg = h[i] => y \in T
  BY <1>1, <1>4, <1>5, <1>7, PopsAll
<1>9. d \in Seq(S) /\ h \in Seq(S)
  <2>1. d \in Seq(S)
    BY DEF StreamFits, History
  <2>2. /\ Given(a, e) \in Seq(T)
    BY <1>1, <1>4, GivenIs
  <2>3. \A y \in T : y.msg \in S
    <3> SUFFICES ASSUME NEW y \in T PROVE y.msg \in S
      OBVIOUS
    <3>1. y.msg \in Message /\ y.msg <= Q /\ y.msg \in On(x)
      BY <1>1, RankIs DEF T, OneReliable, On
    <3>2. y.msg \in Nat \ {0}
      BY <3>1, Numbers
    <3> QED  BY <3>1, <3>2
  <2> DEFINE l == Given(a, e)
  <2> HIDE DEF S, l
  <2>4. h = [i \in 1 .. Len(l) |-> l[i].msg] /\ Len(l) \in Nat /\ \A i \in 1 .. Len(l) : l[i].msg \in S
    BY <2>2, <2>3 DEF Popped, l
  <2> HIDE DEF h
  <2>5. h \in Seq(S)
    BY <2>4
  <2> QED  BY <2>1, <2>5
<1> HIDE DEF S, b, f, h
<1>10. \A m \in Range(d \o h) : \A y \in Fragment : y.msg = m => y \in H
  <2> SUFFICES ASSUME NEW m \in Range(d \o h), NEW y \in Fragment, y.msg = m PROVE y \in H
    OBVIOUS
  <2>1. m \in Range(d) \/ m \in Range(h)
    BY <1>9, Joined DEF Joins
  <2>2. CASE m \in Range(d)
    BY <2>2 DEF Prompt
  <2>3. CASE m \in Range(h)
    <3>1. PICK i \in DOMAIN h : m = h[i]
      BY <2>3 DEF Range
    <3> QED  BY <1>3a, <1>8, <3>1
  <2> QED  BY <2>1, <2>2, <2>3
<1>11. Prompt(b, f, d \o h, H)
  BY <1>8, <1>10 DEF Prompt
<1> QED  BY <1>11 DEF a, b, f, h

LEMMA InitPrompt ==
  ASSUME NEW x \in Stream
  PROVE  Init => ReceiverPrompt(x)
<1> SUFFICES ASSUME Init PROVE ReceiverPrompt(x)
  OBVIOUS
<1>1. receiver.reassembly[x] = <<>> /\ receiver.expected[x] = 0 /\ receiver.delivered[x] = <<>>
  BY DEF Init, ReceiverInit
<1>2. Range(<<>>) = {}
  BY DEF Range
<1>3. \A m \in Message : \E c \in Fragment : c.msg = m
  <2> SUFFICES ASSUME NEW m \in Message PROVE \E c \in Fragment : c.msg = m
    OBVIOUS
  <2>1. 1 \in Parts(m)
    BY MessageIs
  <2> QED  BY <2>1, FragmentOf
<1> QED  BY <1>1, <1>2, <1>3 DEF ReceiverPrompt, Prompt

LEMMA StepPrompt ==
  ASSUME NoWrap, NoSsnWrap, Alike, NEW x \in Stream, OneReliable(x)
  PROVE  Implementing /\ ReceiverPrompt(x) /\ [Next]_vars => ReceiverPrompt(x)'
<1> SUFFICES ASSUME Implementing, ReceiverPrompt(x), [Next]_vars PROVE ReceiverPrompt(x)'
  OBVIOUS
<1>0. /\ receiver.got \in SUBSET Fragment /\ Fits(receiver.got, receiver) /\ queued \in Nat
      /\ StreamsFit(receiver, Arrived(receiver), queued)
      /\ StreamFits(x, receiver.reassembly[x], receiver.expected[x], receiver.delivered[x],
                    Arrived(receiver), queued, {})
      /\ \A p \in net : /\ p.type = "data" => p.chunk \in Fragment /\ p.chunk.msg <= queued
                        /\ p.type = "forward" => p \in ForwardPacket(receiver.got)
  BY Numbers DEF Implementing, NothingLost, ReceiverFits, NetFits, OthersFit, ReceiverKnows, StreamsFit
<1>1. ASSUME receiver' = receiver PROVE ReceiverPrompt(x)'
  BY <1>1 DEF ReceiverPrompt
<1>2. \A r : Arrived(r) \in SUBSET Fragment
  BY DEF Arrived
<1>3. ASSUME NEW p \in net, Data(p) PROVE ReceiverPrompt(x)'
  <2> DEFINE c == p.chunk
             r == ReceiveData(receiver, c)
  <2>1. c \in Fragment /\ c.msg <= queued
    BY <1>0, <1>3 DEF Data
  <2>2. StreamOf(c) = x
    BY <2>1, RankIs DEF OneReliable, StreamOf
  <2>3. receiver' = r
    BY <1>3 DEF Data, ReceiverGoesOn
  <2>4. r = receiver \/ TakesIn(receiver, r, c)
    BY <1>0, <2>1, ReceiveDataFits
  <2> HIDE DEF r, c
  <2>5. CASE TakesIn(receiver, r, c)
    <3> DEFINE q == receiver.reassembly[x]
               e == receiver.expected[x]
               d == receiver.delivered[x]
               a == InsertAt(q, Leading(q, LAMBDA y : ~Tsn!Gt(y.tsn, c.tsn)) + 1, c)
               R == Arrived(receiver)
               H == Arrived(r)
    <3>1. /\ c \in H /\ c \notin R /\ R \subseteq H /\ H \in SUBSET Fragment
          /\ r.reassembly[x] = Left(a, e) /\ r.delivered[x] = d \o Popped(a, e)
          /\ r.expected[x] = Moved(e, LastOf(a, Inline(a, e)))
      BY <1>2, <2>2, <2>5 DEF TakesIn
    <3>2. StreamFits(x, q, e, d, R, queued, {}) /\ Prompt(q, e, d, R)
      BY <1>0 DEF ReceiverPrompt
    <3> HIDE DEF q, e, d, R, H
    <3>3. Prompt(Left(a, e), Moved(e, LastOf(a, Inline(a, e))), d \o Popped(a, e), H)
      BY <1>0, <2>1, <3>1, <3>2, PromptAdds
    <3> HIDE DEF a
    <3>4. Prompt(r.reassembly[x], r.expected[x], r.delivered[x], H)
      BY <3>1, <3>3
    <3> QED  BY <2>3, <3>4 DEF ReceiverPrompt, H
  <2> QED  BY <1>1, <2>3, <2>4, <2>5
<1>4. ASSUME NEW p \in net, ForwardTsn(p) PROVE ReceiverPrompt(x)'
  <2> DEFINE r == ReceiveForward(receiver, p)
  <2>1. p \in ForwardPacket(receiver.got)
    BY <1>0, <1>4 DEF ForwardTsn
  <2>2. x \notin DOMAIN p.streams
    <3> SUFFICES ASSUME x \in DOMAIN p.streams PROVE FALSE
      OBVIOUS
    <3>1. \E k \in 0 .. Fragments : GivesUp(x, p.streams[x], k)
      BY <2>1 DEF ForwardPacket
    <3>2. PICK c \in Fragment : ~Unlimited(c.msg)
      BY <3>1 DEF GivesUp
    <3> QED  BY <3>2, RankIs DEF OneReliable
  <2>3. receiver' = r
    BY <1>4 DEF ForwardTsn, ReceiverGoesOn
  <2>4. r = receiver \/ MovesOn(receiver, r, x)
    BY <1>0, <2>1, <2>2, ReceiveForwardFits
  <2> HIDE DEF r
  <2>5. CASE MovesOn(receiver, r, x)
    <3> DEFINE q == receiver.reassembly[x]
               e == receiver.expected[x]
               d == receiver.delivered[x]
               R == Arrived(receiver)
               H == Arrived(r)
    <3>1. PICK j \in 0 .. Fragments : r.reassembly[x] = PruneChunks(q, Nth(j))
      BY <2>5 DEF MovesOn
    <3>2. R \subseteq H /\ H \in SUBSET Fragment /\ r.expected[x] = e /\ r.delivered[x] = d
      BY <1>2, <2>5 DEF MovesOn
    <3>3. Queue(x, q, R, queued) /\ Prompt(q, e, d, R)
      BY <1>0 DEF ReceiverPrompt, StreamFits
    <3> HIDE DEF q, e, d, R, H
    <3>4. Prompt(PruneChunks(q, Nth(j)), e, d, H)
      BY <1>0, <3>2, <3>3, PromptPrunes
    <3> QED  BY <2>3, <3>1, <3>2, <3>4 DEF ReceiverPrompt, H
  <2> QED  BY <1>1, <2>3, <2>4, <2>5
<1>5. CASE DataChannelSend \/ RunFlush \/ T3Expires \/ RunTransmit \/ (\E p \in net : SackArrives(p))
  BY <1>1, <1>5 DEF DataChannelSend, RunFlush, T3Expires, RunTransmit, SackArrives, SenderGoesOn
<1>6. CASE (\E m \in Message : LifetimeEnds(m)) \/ (\E p \in net : Lose(p)) \/ UNCHANGED vars
  BY <1>1, <1>6 DEF LifetimeEnds, Lose, vars
<1> QED  BY <1>3, <1>4, <1>5, <1>6 DEF Next

(* What is whole and expected is not in the queue of the only channel; in  *)
(* those of other streams nothing ever is.                                 *)
LEMMA PromptIs ==
  ASSUME NEW x \in Stream, OneReliable(x), Implementing, ReceiverPrompt(x)
  PROVE  DeliveredInTurn
<1> SUFFICES ASSUME NEW y \in Stream, NEW c \in Range(receiver.reassembly[y]), c.seq = receiver.expected[y],
                    Here(c.msg, y)
             PROVE  FALSE
  BY DEF DeliveredInTurn
<1>1. \A z \in Stream : \A b \in Range(receiver.reassembly[z]) : b \in Fragment /\ StreamOf(b) = z
  <2> SUFFICES ASSUME NEW z \in Stream, NEW b \in Range(receiver.reassembly[z])
               PROVE  b \in Fragment /\ StreamOf(b) = z
    OBVIOUS
  <2> DEFINE q == receiver.reassembly[z]
             T == {a \in Arrived(receiver) : StreamOf(a) = z /\ a.msg <= queued}
  <2>1. q \in Seq(T)
    BY DEF Implementing, ReceiverKnows, StreamsFit, StreamFits, Queue
  <2>2. \A a \in T : a \in Fragment /\ StreamOf(a) = z
    BY DEF Arrived
  <2> HIDE DEF T, q
  <2>3. Range(q) \subseteq T
    BY <2>1 DEF Range
  <2>4. b \in Range(q)
    BY DEF q
  <2> QED  BY <2>2, <2>3, <2>4
<1>2. c \in Fragment /\ c.msg \in Message /\ StreamOf(c) = y /\ c.seq = Turn(c.msg)
  <2>1. c \in Fragment /\ StreamOf(c) = y
    BY <1>1
  <2> QED  BY <2>1, RankIs DEF Fragment
<1>3. y = x
  BY <1>2 DEF OneReliable, StreamOf
<1>4. Turn(c.msg) = receiver.expected[x]
  BY <1>2, <1>3
<1>5. PICK d \in Fragment : d.msg = c.msg /\ d \notin Range(receiver.reassembly[x])
  BY <1>2, <1>4 DEF ReceiverPrompt, Prompt
<1>6. d.part \in DOMAIN Messages[c.msg].sizes
  <2>1. d.part \in Parts(c.msg)
    BY <1>5, RankIs
  <2> QED  BY <1>2, <2>1, MessageIs DEF Parts
<1>7. PICK b \in Range(receiver.reassembly[x]) : b.msg = c.msg /\ b.part = d.part
  BY <1>3, <1>6 DEF Here
<1>8. b \in Fragment
  BY <1>1, <1>7
<1> QED  BY <1>5, <1>7, <1>8, SameChunk

(* With one channel, reliable and in order, pop_messages leaves no message *)
(* in the queue that is whole and next in turn: what is lost, and comes    *)
(* late or again, never makes one wait for more than its own chunks and    *)
(* those before it.                                                        *)
THEOREM NothingWaits ==
  ASSUME NoWrap, NoSsnWrap, NEW x \in Stream, OneReliable(x)
  PROVE  Spec => []DeliveredInTurn
<1> DEFINE Inv == Implementing /\ ReceiverPrompt(x)
<1>0. Alike
  BY DEF Alike, OneReliable
<1>1. Init => Inv
  BY InitFits, InitImplements, InitPrompt DEF Implementing
<1>2. Inv /\ [Next]_vars => Inv'
  BY <1>0, StepFits, StepImplements, StepPrompt DEF Implementing
<1>3. Inv => DeliveredInTurn
  BY PromptIs
<1> HIDE DEF Inv
<1> QED  BY <1>1, <1>2, <1>3, PTL DEF Spec
=============================================================================
