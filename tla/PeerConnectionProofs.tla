------------------------ MODULE PeerConnectionProofs ------------------------
(***************************************************************************)
(* Theorems about PeerConnection for any media sections, whatever is       *)
(* bundled, and any number of descriptions.                                *)
(***************************************************************************)
EXTENDS PeerConnection, DataLemmas

Gathers == {"new", "gathering", "completed"}
Ices == {"new", "checking", "completed", "failed", "closed"}
Starts == {"no", "running", "done"}
Links == {"idle", "connecting", "up", "failed", "closing", "down", "shut"}
Dtlses == {"new", "connecting", "connected", "failed", "closed"}
Lives == {"none", "born", "runs", "killed", "cancelled", "exited"}
States == Gathers \cup Ices \cup Dtlses \cup {"complete"}

Transport ==
  [listed : BOOLEAN, heard : BOOLEAN, gather : Gathers, ice : Ices, start : Starts,
   link : Links, dtls : Dtlses, pump : Lives]

Signalings == {"stable", "have-local-offer", "have-remote-offer", "closed"}
Steps == {"receiver", "sender", "transport"} \X Sections
Seen == [connection : States, ice : States, gathering : States]
Transports == [Sections -> Transport]
Vias == [Sections -> Sections]
Groups == SUBSET Sections
Works == [Sections -> [Tasks -> Lives]]
Call == [what : {"none", "local", "remote"}, type : {"none", "offer", "answer"}, old : Seq(Sections)]
Connects == [Calls -> [at : {"over", "goes", "start", "ice", "dtls"}, todo : Seq(Sections)]]

Peer ==
  [signaling : Signalings, closed : BOOLEAN, closing : Seq(Steps), seen : Seen,
   transport : Transports, via : Vias, known : Groups, described : Groups, agreed : Groups,
   remote : Groups, late : Groups, work : Works, call : Call, calls : Nat, connect : Connects]

(* A section that was described shares the transport of one of them, and   *)
(* only that one is ever started; a transport is listed for a section.     *)
Routes(p) ==
  /\ \A t \in Sections : p.transport[t].listed => t \in p.known
  /\ p.remote \subseteq p.described /\ p.described \subseteq p.known
  /\ p.signaling = "have-local-offer" => p.described # {}
  /\ \A m \in Sections \ p.remote : p.via[m] = m
  /\ \A m \in Sections : p.via[p.via[m]] = p.via[m]
  /\ IF bundles THEN \A m, k \in p.remote : p.via[m] = p.via[k] ELSE \A m \in Sections : p.via[m] = m
  /\ \A t \in Sections : p.transport[t].start # "no" => \E m \in p.remote : p.via[m] = t
  /\ p.call.what # "remote" => p.call.old = <<>>
  /\ \A i \in DOMAIN p.call.old : \A m \in p.remote : p.via[m] # p.call.old[i]

(* The decoder's thread and the association are stopped at once.           *)
Stoppable == {"none", "runs", "exited"}
AtRest == {"none", "exited"}

Sound(p) ==
  /\ p \in Peer
  /\ \A m \in Sections \ p.known : p.transport[m].gather = "new"
  /\ \A m \in Sections, k \in {"decoder", "association"} : p.work[m][k] \in Stoppable

(* As long as the connection is open, a transport of it is listened to,    *)
(* or has been stopped because it was replaced, which it can only be       *)
(* before it is started; and candidates are gathered within a call.        *)
Listening(p) ==
  \A t \in Sections : LET r == p.transport[t] IN
    /\ r.ice = "closed" => r.start = "no"
    /\ r.listed => IF r.ice = "closed" THEN t \in Range(p.call.old) ELSE r.heard
    /\ r.listed /\ r.gather = "gathering" => p.call.what = "local"

SeesClosed(p) == p.seen.connection = "closed" /\ p.seen.ice = "closed"

SeesAll(p) ==
  /\ p.seen.connection = ConnectionState(p) /\ p.seen.ice = IceConnectionState(p)
  /\ p.seen.gathering = GatheringState(p)

SeenFits(p) ==
  IF p.closed THEN p.closing = <<>> => SeesClosed(p) ELSE SeesAll(p) /\ Listening(p)

(* A task of __connect() that waits does so for a transport described.     *)
Waits(p) ==
  \A c \in Calls : LET k == p.connect[c] IN
    /\ k.at # "over" /\ Media # <<>> => k.todo # <<>>
    /\ k.at \in {"start", "ice", "dtls"} => k.todo # <<>> /\ Head(k.todo) \in p.remote

(* What m runs of the tasks K, it has ended, unless it began too late.     *)
Rests(p, m, K) == m \in p.known \ p.late => \A k \in K : p.work[m][k] \in AtRest

(* What a step of close() has brought about when it is over.               *)
Stopped(p, step) ==
  LET m == step[2]
  IN /\ step[1] = "receiver" => Rests(p, m, {"reports", "decoder", "association"})
     /\ step[1] = "sender" => Rests(p, m, {"rtp", "rtcp"})
     /\ step[1] = "transport" /\ p.via[m] = m =>
          p.transport[m].link = "shut" \/ p.transport[m].gather = "new"

(* And what it has when it is still waited for.                            *)
Stopping(p, step) ==
  step[1] = "receiver" => Rests(p, step[2], {"decoder", "association"})

StepsFit(p) ==
  /\ ~p.closed => p.closing = <<>>
  /\ p.closed => \A s \in Steps : s \in Range(p.closing) \/ Stopped(p, s)
  /\ p.closing # <<>> => Stopping(p, Head(p.closing))

Good(p) == Sound(p) /\ Routes(p) /\ SeenFits(p) /\ Waits(p) /\ StepsFit(p)

PeerInv == bundles \in BOOLEAN /\ Good(pc)

(* What the steps that nobody calls for leave as it is.                    *)
Core(p) ==
  <<p.signaling, p.closed, p.via, p.known, p.described, p.agreed, p.remote, p.call, p.calls>>

Keeps(p, q) ==
  /\ Sound(q) /\ Core(q) = Core(p) /\ p.late \subseteq q.late
  /\ \A t \in Sections : LET r == p.transport[t]
                             s == q.transport[t]
                         IN /\ s.listed = r.listed
                            /\ s.start = "no" \/ r.start # "no" \/ \E m \in p.remote : p.via[m] = t
                            /\ r.gather = "new" => s.gather = "new"
                            /\ r.link = "shut" => s.link = "shut"
  /\ \A m \in Sections, k \in Tasks :
       p.closed /\ m \notin q.late /\ p.work[m][k] \in AtRest => q.work[m][k] \in AtRest

-----------------------------------------------------------------------------
LEMMA KeepsSelf ==
  ASSUME NEW p, Sound(p)
  PROVE  Keeps(p, p)
  BY DEF Keeps, Core

LEMMA CoreIs ==
  ASSUME NEW p, NEW q, Core(q) = Core(p)
  PROVE  /\ q.signaling = p.signaling /\ q.closed = p.closed /\ q.via = p.via
         /\ q.known = p.known /\ q.described = p.described /\ q.agreed = p.agreed
         /\ q.remote = p.remote /\ q.call = p.call /\ q.calls = p.calls
  BY DEF Core

LEMMA KeepsTrans ==
  ASSUME NEW p, NEW q, NEW r, Keeps(p, q), Keeps(q, r)
  PROVE  Keeps(p, r)
<1>1. Sound(r) /\ Core(r) = Core(p) /\ p.late \subseteq r.late
  BY DEF Keeps
<1>2. q.closed = p.closed /\ q.via = p.via /\ q.remote = p.remote
  BY CoreIs DEF Keeps
<1>3. ASSUME NEW t \in Sections
      PROVE  /\ r.transport[t].listed = p.transport[t].listed
             /\ \/ r.transport[t].start = "no" \/ p.transport[t].start # "no"
                \/ \E m \in p.remote : p.via[m] = t
             /\ p.transport[t].gather = "new" => r.transport[t].gather = "new"
             /\ p.transport[t].link = "shut" => r.transport[t].link = "shut"
  BY <1>2 DEF Keeps
<1>4. ASSUME NEW m \in Sections, NEW k \in Tasks, p.closed, m \notin r.late, p.work[m][k] \in AtRest
      PROVE  r.work[m][k] \in AtRest
  BY <1>2, <1>4 DEF Keeps
<1> QED  BY <1>1, <1>3, <1>4 DEF Keeps

(* The routes are as they were, and steps of close() that are over stay so. *)
LEMMA KeepsRoutes ==
  ASSUME NEW p, NEW q, Keeps(p, q), Routes(p)
  PROVE  Routes(q)
<1>1. /\ q.signaling = p.signaling /\ q.closed = p.closed /\ q.via = p.via
      /\ q.known = p.known /\ q.described = p.described
      /\ q.remote = p.remote /\ q.call = p.call
  BY CoreIs DEF Keeps
<1>2. \A t \in Sections : q.transport[t].start # "no" => \E m \in q.remote : q.via[m] = t
  BY <1>1 DEF Keeps, Routes
<1>3. \A t \in Sections : q.transport[t].listed => t \in q.known
  BY <1>1 DEF Keeps, Routes
<1> QED  BY <1>1, <1>2, <1>3 DEF Routes

LEMMA KeepsStopped ==
  ASSUME NEW p, NEW q, Keeps(p, q), p.closed, NEW s \in Steps
  PROVE  /\ Stopped(p, s) => Stopped(q, s)
         /\ Stopping(p, s) => Stopping(q, s)
<1>1. q.via = p.via /\ q.known = p.known
  BY CoreIs DEF Keeps
<1>2. s[2] \in Sections
  BY DEF Steps
<1>3. ASSUME NEW K \in SUBSET Tasks, Rests(p, s[2], K)
      PROVE  Rests(q, s[2], K)
  BY <1>1, <1>2, <1>3 DEF Keeps, Rests
<1>4. Stopping(p, s) => Stopping(q, s)
  <2>1. {"decoder", "association"} \in SUBSET Tasks
    BY DEF Tasks
  <2> QED  BY <1>3, <2>1 DEF Stopping
<1>5. Stopped(p, s) => Stopped(q, s)
  <2>1. {"reports", "decoder", "association"} \in SUBSET Tasks /\ {"rtp", "rtcp"} \in SUBSET Tasks
    BY DEF Tasks
  <2>2. p.via[s[2]] = q.via[s[2]]
    BY <1>1
  <2>3. \A r \in {"shut"} : p.transport[s[2]].link = r => q.transport[s[2]].link = r
    BY <1>2 DEF Keeps
  <2>4. p.transport[s[2]].gather = "new" => q.transport[s[2]].gather = "new"
    BY <1>2 DEF Keeps
  <2> QED  BY <1>3, <2>1, <2>2, <2>3, <2>4 DEF Stopped
<1> QED  BY <1>4, <1>5

LEMMA KeepsSteps ==
  ASSUME NEW p \in Peer, NEW q, Keeps(p, q), q.closing = p.closing, StepsFit(p)
  PROVE  StepsFit(q)
<1>1. q.closed = p.closed
  BY CoreIs DEF Keeps
<1>2. p.closing \in Seq(Steps)
  BY DEF Peer
<1>3. p.closing # <<>> => Head(p.closing) \in Steps
  BY <1>2
<1> QED  BY <1>1, <1>3, KeepsStopped DEF StepsFit

-----------------------------------------------------------------------------
(* What the application sees.                                              *)

(* A state is told when a listed transport has changed what it is computed *)
(* from.                                                                   *)
Tells(p, q) ==
  LET Same(t, f) == p.transport[t].listed => q.transport[t][f] = p.transport[t][f]
  IN /\ \/ q.seen.connection = ConnectionState(q)
        \/ /\ q.seen.connection = p.seen.connection
           /\ p.closed \/ \A t \in Sections : Same(t, "ice") /\ Same(t, "dtls")
     /\ \/ q.seen.ice = IceConnectionState(q)
        \/ /\ q.seen.ice = p.seen.ice
           /\ p.closed \/ \A t \in Sections : Same(t, "ice")
     /\ \/ q.seen.gathering = GatheringState(q)
        \/ /\ q.seen.gathering = p.seen.gathering
           /\ p.closed \/ \A t \in Sections : Same(t, "gather")

LEMMA StatesSame ==
  ASSUME NEW p, NEW q, q.closed = p.closed,
         \A t \in Sections : q.transport[t].listed = p.transport[t].listed
  PROVE  /\ (\A t \in Listed(p) : q.transport[t].ice = p.transport[t].ice)
              => IceConnectionState(q) = IceConnectionState(p)
         /\ (\A t \in Listed(p) : /\ q.transport[t].ice = p.transport[t].ice
                                  /\ q.transport[t].dtls = p.transport[t].dtls)
              => ConnectionState(q) = ConnectionState(p)
         /\ (\A t \in Listed(p) : q.transport[t].gather = p.transport[t].gather)
              => GatheringState(q) = GatheringState(p)
<1>1. Listed(q) = Listed(p)
  BY DEF Listed
<1>2. ASSUME \A t \in Listed(p) : q.transport[t].ice = p.transport[t].ice
      PROVE  IceStates(q) = IceStates(p)
  BY <1>1, <1>2 DEF IceStates
<1>3. ASSUME \A t \in Listed(p) : q.transport[t].dtls = p.transport[t].dtls
      PROVE  DtlsStates(q) = DtlsStates(p)
  BY <1>1, <1>3 DEF DtlsStates
<1>4. ASSUME \A t \in Listed(p) : q.transport[t].gather = p.transport[t].gather
      PROVE  GatheringState(q) = GatheringState(p)
  <2>1. {q.transport[t].gather : t \in Listed(q)} = {p.transport[t].gather : t \in Listed(p)}
    BY <1>1, <1>4
  <2> QED  BY <2>1 DEF GatheringState
<1> QED  BY <1>2, <1>3, <1>4 DEF IceConnectionState, ConnectionState

LEMMA StatesAre ==
  ASSUME NEW p
  PROVE  /\ ConnectionState(p) \in States /\ IceConnectionState(p) \in States
         /\ GatheringState(p) \in States
         /\ p.closed => ConnectionState(p) = "closed" /\ IceConnectionState(p) = "closed"
  BY DEF ConnectionState, IceConnectionState, GatheringState, States, Gathers, Ices, Dtlses

LEMMA TellsFits ==
  ASSUME NEW p, NEW q, Keeps(p, q), q.closing = p.closing, SeenFits(p), Tells(p, q),
         ~p.closed => Listening(q)
  PROVE  SeenFits(q)
<1>1. q.closed = p.closed /\ \A t \in Sections : q.transport[t].listed = p.transport[t].listed
  BY CoreIs DEF Keeps
<1>2. CASE p.closed
  BY <1>1, <1>2, StatesAre DEF SeenFits, SeesClosed, Tells
<1>3. CASE ~p.closed
  <2>1. SeesAll(p)
    BY <1>3 DEF SeenFits
  <2>2. q.seen.connection = ConnectionState(q)
    BY <1>1, <1>3, <2>1, StatesSame DEF Tells, SeesAll, Listed
  <2>3. q.seen.ice = IceConnectionState(q)
    BY <1>1, <1>3, <2>1, StatesSame DEF Tells, SeesAll, Listed
  <2>4. q.seen.gathering = GatheringState(q)
    BY <1>1, <1>3, <2>1, StatesSame DEF Tells, SeesAll, Listed
  <2> QED  BY <1>1, <1>3, <2>2, <2>3, <2>4 DEF SeenFits, SeesAll
<1> QED  BY <1>2, <1>3

(* Everything but transports and what is seen.                             *)
Rest(p) == <<p.closing, p.late, p.work, p.connect>>

LEMMA RestIs ==
  ASSUME NEW p, NEW q, Rest(q) = Rest(p)
  PROVE  q.closing = p.closing /\ q.late = p.late /\ q.work = p.work /\ q.connect = p.connect
  BY DEF Rest

LEMMA SeenIs ==
  ASSUME NEW p, Sound(p)
  PROVE  /\ p \in Peer /\ p.seen \in Seen /\ p.transport \in [Sections -> Transport]
         /\ \A t \in Sections : p.transport[t] \in Transport
  BY DEF Sound, Peer, Transports

LEMMA TellsSelf ==
  ASSUME NEW p
  PROVE  Tells(p, p)
  BY DEF Tells

(* The states that are computed do not depend on what is seen.             *)
LEMMA SeenApart ==
  ASSUME NEW p, NEW q, q.closed = p.closed, q.transport = p.transport
  PROVE  /\ ConnectionState(q) = ConnectionState(p)
         /\ IceConnectionState(q) = IceConnectionState(p)
         /\ GatheringState(q) = GatheringState(p)
  BY StatesSame

LEMMA UpdatesAre ==
  ASSUME NEW p, Sound(p)
  PROVE  /\ LET q == UpdateConnection(p)
            IN /\ Keeps(p, q) /\ Rest(q) = Rest(p) /\ q.transport = p.transport
               /\ q.seen.connection = ConnectionState(q)
               /\ q.seen.ice = p.seen.ice /\ q.seen.gathering = p.seen.gathering
         /\ LET q == UpdateIce(p)
            IN /\ Keeps(p, q) /\ Rest(q) = Rest(p) /\ q.transport = p.transport
               /\ q.seen.connection = p.seen.connection
               /\ q.seen.ice = IceConnectionState(q) /\ q.seen.gathering = p.seen.gathering
         /\ LET q == UpdateGathering(p)
            IN /\ Keeps(p, q) /\ Rest(q) = Rest(p) /\ q.transport = p.transport
               /\ q.seen.connection = p.seen.connection
               /\ q.seen.ice = p.seen.ice /\ q.seen.gathering = GatheringState(q)
<1>1. ASSUME NEW s \in Seen, NEW q, q = [p EXCEPT !.seen = s]
      PROVE  Keeps(p, q) /\ Rest(q) = Rest(p) /\ q.transport = p.transport /\ q.seen = s
  <2>1. q \in Peer
    BY <1>1, SeenIs DEF Peer
  <2>2. /\ Core(q) = Core(p) /\ Rest(q) = Rest(p) /\ q.seen = s /\ q.transport = p.transport
        /\ q.late = p.late /\ q.work = p.work /\ q.known = p.known
    BY <1>1, SeenIs DEF Peer, Core, Rest
  <2>3. Sound(q)
    BY <2>1, <2>2 DEF Sound
  <2> QED  BY <2>2, <2>3 DEF Keeps
<1>2. ASSUME NEW q, Keeps(p, q), q.transport = p.transport
      PROVE  /\ ConnectionState(q) = ConnectionState(p)
             /\ IceConnectionState(q) = IceConnectionState(p)
             /\ GatheringState(q) = GatheringState(p)
  BY <1>2, SeenApart, CoreIs DEF Keeps
<1>3. ASSUME NEW q, q = UpdateConnection(p)
      PROVE  /\ Keeps(p, q) /\ Rest(q) = Rest(p) /\ q.transport = p.transport
             /\ q.seen.connection = ConnectionState(q)
             /\ q.seen.ice = p.seen.ice /\ q.seen.gathering = p.seen.gathering
  <2> DEFINE s == [p.seen EXCEPT !.connection = ConnectionState(p)]
  <2>1. s \in Seen
    BY SeenIs, StatesAre DEF Seen
  <2>2. /\ s.connection = ConnectionState(p) /\ s.ice = p.seen.ice
        /\ s.gathering = p.seen.gathering
    BY SeenIs DEF Seen
  <2>3. q = [p EXCEPT !.seen = s]
    BY <1>3 DEF UpdateConnection
  <2> HIDE DEF s
  <2> QED  BY <1>1, <1>2, <2>1, <2>2, <2>3
<1>4. ASSUME NEW q, q = UpdateIce(p)
      PROVE  /\ Keeps(p, q) /\ Rest(q) = Rest(p) /\ q.transport = p.transport
             /\ q.seen.connection = p.seen.connection
             /\ q.seen.ice = IceConnectionState(q) /\ q.seen.gathering = p.seen.gathering
  <2> DEFINE s == [p.seen EXCEPT !.ice = IceConnectionState(p)]
  <2>1. s \in Seen
    BY SeenIs, StatesAre DEF Seen
  <2>2. /\ s.ice = IceConnectionState(p) /\ s.connection = p.seen.connection
        /\ s.gathering = p.seen.gathering
    BY SeenIs DEF Seen
  <2>3. q = [p EXCEPT !.seen = s]
    BY <1>4 DEF UpdateIce
  <2> HIDE DEF s
  <2> QED  BY <1>1, <1>2, <2>1, <2>2, <2>3
<1>5. ASSUME NEW q, q = UpdateGathering(p)
      PROVE  /\ Keeps(p, q) /\ Rest(q) = Rest(p) /\ q.transport = p.transport
             /\ q.seen.connection = p.seen.connection
             /\ q.seen.ice = p.seen.ice /\ q.seen.gathering = GatheringState(q)
  <2> DEFINE s == [p.seen EXCEPT !.gathering = GatheringState(p)]
  <2>1. s \in Seen
    BY SeenIs, StatesAre DEF Seen
  <2>2. /\ s.gathering = GatheringState(p) /\ s.connection = p.seen.connection
        /\ s.ice = p.seen.ice
    BY SeenIs DEF Seen
  <2>3. q = [p EXCEPT !.seen = s]
    BY <1>5 DEF UpdateGathering
  <2> HIDE DEF s
  <2> QED  BY <1>1, <1>2, <2>1, <2>2, <2>3
<1> QED  BY <1>3, <1>4, <1>5

LEMMA UpdateAllIs ==
  ASSUME NEW p, Sound(p)
  PROVE  LET q == UpdateAll(p)
         IN /\ Keeps(p, q) /\ Rest(q) = Rest(p) /\ q.transport = p.transport /\ SeesAll(q)
            /\ q.closed => SeesClosed(q)
<1> DEFINE q1 == UpdateGathering(p)
           q2 == UpdateIce(q1)
           q3 == UpdateConnection(q2)
<1>1. UpdateAll(p) = q3
  BY DEF UpdateAll
<1>2. /\ Keeps(p, q1) /\ Rest(q1) = Rest(p) /\ q1.transport = p.transport
      /\ q1.seen.gathering = GatheringState(q1)
  BY UpdatesAre
<1>3. Sound(q1)
  BY <1>2 DEF Keeps
<1> HIDE DEF q1
<1>4. /\ Keeps(q1, q2) /\ Rest(q2) = Rest(q1) /\ q2.transport = q1.transport
      /\ q2.seen.ice = IceConnectionState(q2) /\ q2.seen.gathering = q1.seen.gathering
  BY <1>3, UpdatesAre
<1>5. Sound(q2)
  BY <1>4 DEF Keeps
<1> HIDE DEF q2
<1>6. /\ Keeps(q2, q3) /\ Rest(q3) = Rest(q2) /\ q3.transport = q2.transport
      /\ q3.seen.connection = ConnectionState(q3)
      /\ q3.seen.ice = q2.seen.ice /\ q3.seen.gathering = q2.seen.gathering
  BY <1>5, UpdatesAre
<1> HIDE DEF q3
<1>7. Keeps(p, q3)
  BY <1>2, <1>4, <1>6, KeepsTrans
<1>8. q2.closed = q1.closed /\ q3.closed = q2.closed
  BY <1>4, <1>6, CoreIs DEF Keeps
<1>9. SeesAll(q3)
  BY <1>2, <1>4, <1>6, <1>8, SeenApart DEF SeesAll
<1>10. q3.closed => SeesClosed(q3)
  BY <1>9, StatesAre DEF SeesAll, SeesClosed
<1> QED  BY <1>1, <1>2, <1>4, <1>6, <1>7, <1>9, <1>10

(* Only transport t changes, into what fits it.                            *)
LEMMA TransportKeeps ==
  ASSUME NEW p, Sound(p), NEW t \in Sections, NEW q \in Peer, Core(q) = Core(p), Rest(q) = Rest(p),
         \A u \in Sections : u # t => q.transport[u] = p.transport[u],
         LET old == p.transport[t]
             new == q.transport[t]
         IN /\ new.listed = old.listed
            /\ new.start = "no" \/ old.start # "no" \/ \E m \in p.remote : p.via[m] = t
            /\ old.gather = "new" => new.gather = "new"
            /\ old.link = "shut" => new.link = "shut"
  PROVE  Keeps(p, q)
<1>1. q.late = p.late /\ q.work = p.work /\ q.known = p.known
  BY CoreIs, RestIs
<1>2. Sound(q)
  BY <1>1 DEF Sound
<1> QED  BY <1>1, <1>2 DEF Keeps

(* The connection p with r for its transport t.                            *)
With(p, t, r) == [p EXCEPT !.transport = [p.transport EXCEPT ![t] = r]]

LEMMA WithIs ==
  ASSUME NEW p \in Peer, NEW t \in Sections, NEW r \in Transport
  PROVE  LET q == With(p, t, r)
         IN /\ q \in Peer /\ Core(q) = Core(p) /\ Rest(q) = Rest(p) /\ q.seen = p.seen
            /\ q.transport[t] = r
            /\ \A u \in Sections : u # t => q.transport[u] = p.transport[u]
<1> DEFINE f == [p.transport EXCEPT ![t] = r]
           q == [p EXCEPT !.transport = f]
<1>1. p.transport \in Transports
  BY DEF Peer
<1>2. f \in Transports /\ f[t] = r /\ \A u \in Sections : u # t => f[u] = p.transport[u]
  BY <1>1 DEF Transports
<1> HIDE DEF f
<1>4. q \in Peer
  BY <1>1, <1>2 DEF Peer
<1>5. Core(q) = Core(p) /\ Rest(q) = Rest(p) /\ q.seen = p.seen /\ q.transport = f
  BY <1>1 DEF Peer, Core, Rest
<1>6. q = With(p, t, r)
  BY DEF With, f
<1> HIDE DEF q
<1> QED  BY <1>2, <1>4, <1>5, <1>6

(* The state of ICE changes, and those who listen are told.                *)
LEMMA SetIceIs ==
  ASSUME NEW p, Sound(p), NEW t \in Sections, NEW x \in Ices
  PROVE  LET q == SetIce(p, t, x)
             r == p.transport[t]
             s == q.transport[t]
         IN /\ Keeps(p, q) /\ Rest(q) = Rest(p)
            /\ \A u \in Sections : u # t => q.transport[u] = p.transport[u]
            /\ s.ice = x /\ (x # "closed" \/ r.ice = x => s.heard = r.heard)
            /\ s.gather = r.gather /\ s.start = r.start /\ s.link = r.link
            /\ s.dtls = r.dtls /\ s.pump = r.pump
            /\ (r.listed => r.heard \/ r.ice = x \/ p.closed) => Tells(p, q)
<1> DEFINE q == SetIce(p, t, x)
           r == p.transport[t]
           r1 == [r EXCEPT !.ice = x]
           r2 == [r1 EXCEPT !.heard = @ /\ x # "closed"]
           q1 == [p EXCEPT !.transport[t].ice = x]
           q2 == IF q1.transport[t].heard THEN UpdateConnection(UpdateIce(q1)) ELSE q1
           q3 == [q2 EXCEPT !.transport[t].heard = @ /\ x # "closed"]
<1>1. CASE r.ice = x
  <2>1. q = p
    BY <1>1 DEF SetIce
  <2> QED  BY <1>1, <2>1, KeepsSelf, TellsSelf
<1>2. CASE r.ice # x
  <2>1. r \in Transport /\ r1 \in Transport
    BY SeenIs DEF Transport
  <2>2. /\ r1.ice = x /\ r1.heard = r.heard /\ r1.listed = r.listed /\ r1.gather = r.gather
        /\ r1.start = r.start /\ r1.link = r.link /\ r1.dtls = r.dtls /\ r1.pump = r.pump
    BY <2>1 DEF Transport
  <2>3. q1 = With(p, t, r1)
    BY DEF With
  <2>4. q = q3
    BY <1>2 DEF SetIce
  <2>5. /\ r2 \in Transport /\ r2.heard = (r.heard /\ x # "closed")
        /\ r2.ice = x /\ r2.listed = r.listed /\ r2.gather = r.gather
        /\ r2.start = r.start /\ r2.link = r.link /\ r2.dtls = r.dtls /\ r2.pump = r.pump
    BY <2>1 DEF Transport
  <2> HIDE DEF r1
  <2>0. /\ q1 \in Peer /\ Core(q1) = Core(p) /\ Rest(q1) = Rest(p) /\ q1.seen = p.seen
        /\ q1.transport[t] = r1 /\ \A u \in Sections : u # t => q1.transport[u] = p.transport[u]
    <3>1. p \in Peer
      BY SeenIs
    <3> HIDE DEF q1
    <3> QED  BY <2>1, <2>3, <3>1, WithIs
  <2> HIDE DEF q1
  <2>6. Keeps(p, q1)
    BY <2>0, <2>2, TransportKeeps
  <2>7. /\ Keeps(p, q2) /\ Rest(q2) = Rest(p) /\ q2.transport = q1.transport
        /\ IF r.heard THEN /\ q2.seen.connection = ConnectionState(q2)
                           /\ q2.seen.ice = IceConnectionState(q2)
                           /\ q2.seen.gathering = p.seen.gathering
                      ELSE q2.seen = p.seen
    <3>1. CASE r.heard
      <4> DEFINE a == UpdateIce(q1)
      <4>1. q2 = UpdateConnection(a)
        BY <2>2, <2>0, <2>6, <3>1
      <4>2. /\ Sound(q1) /\ Keeps(q1, a) /\ Rest(a) = Rest(q1) /\ a.transport = q1.transport
            /\ a.seen.ice = IceConnectionState(a) /\ a.seen.gathering = q1.seen.gathering
        <5>1. Sound(q1)
          BY <2>6 DEF Keeps
        <5> HIDE DEF q2
        <5> QED  BY <5>1, UpdatesAre
      <4> HIDE DEF a, q2
      <4>3. /\ Sound(a) /\ Keeps(a, q2) /\ Rest(q2) = Rest(a) /\ q2.transport = a.transport
            /\ q2.seen.connection = ConnectionState(q2)
            /\ q2.seen.ice = a.seen.ice /\ q2.seen.gathering = a.seen.gathering
        <5>1. Sound(a)
          BY <4>2 DEF Keeps
        <5> QED  BY <4>1, <5>1, UpdatesAre
      <4>4. Keeps(p, q2)
        BY <2>0, <2>6, <4>2, <4>3, KeepsTrans
      <4>5. IceConnectionState(q2) = IceConnectionState(a)
        BY <4>3, SeenApart, CoreIs DEF Keeps
      <4> QED  BY <2>0, <2>6, <3>1, <4>2, <4>3, <4>4, <4>5
    <3>2. CASE ~r.heard
      BY <2>2, <2>0, <2>6, <3>2
    <3> QED  BY <3>1, <3>2
  <2> HIDE DEF q2
  <2>8. q3 = With(q2, t, r2)
    BY <2>0, <2>7 DEF With
  <2> HIDE DEF r2, q3
  <2>17. /\ q3 \in Peer /\ Core(q3) = Core(q2) /\ Rest(q3) = Rest(q2) /\ q3.seen = q2.seen
         /\ q3.transport[t] = r2
         /\ \A u \in Sections : u # t => q3.transport[u] = q2.transport[u]
    <3>1. q2 \in Peer
      BY <2>7 DEF Keeps, Sound
    <3> QED  BY <2>5, <2>8, <3>1, WithIs
  <2>9. Keeps(q2, q3)
    <3>1. Sound(q2) /\ q2.transport[t] = r1
      BY <2>0, <2>7 DEF Keeps
    <3> HIDE DEF r
    <3> QED  BY <2>2, <2>5, <2>17, <3>1, TransportKeeps
  <2>10. Keeps(p, q3) /\ Rest(q3) = Rest(p)
    BY <2>7, <2>9, <2>17, KeepsTrans
  <2>11. /\ ConnectionState(q3) = ConnectionState(q2)
         /\ IceConnectionState(q3) = IceConnectionState(q2)
    <3>1. \A u \in Sections : /\ q3.transport[u].listed = q2.transport[u].listed
                              /\ q3.transport[u].ice = q2.transport[u].ice
                              /\ q3.transport[u].dtls = q2.transport[u].dtls
      BY <2>2, <2>5, <2>0, <2>6, <2>7, <2>9, <2>17
    <3>2. q3.closed = q2.closed
      BY <2>9, <2>17, CoreIs DEF Keeps
    <3> QED  BY <3>1, <3>2, StatesSame DEF Listed
  <2>12. ASSUME r.listed => r.heard \/ p.closed
         PROVE  Tells(p, q3)
    <3>1. q3.seen.gathering = p.seen.gathering
      BY <2>7, <2>9, <2>17
    <3>2. \A u \in Sections : q3.transport[u].gather = p.transport[u].gather
      BY <2>5, <2>0, <2>6, <2>7, <2>9, <2>17
    <3>3. CASE r.heard
      BY <2>7, <2>9, <2>17, <2>11, <3>1, <3>2, <3>3 DEF Tells
    <3>4. CASE ~r.heard
      <4>1. q3.seen = p.seen
        BY <2>7, <2>9, <2>17, <3>4
      <4>2. p.closed \/ \A u \in Sections : p.transport[u].listed =>
              q3.transport[u].ice = p.transport[u].ice /\ q3.transport[u].dtls = p.transport[u].dtls
        BY <2>0, <2>6, <2>7, <2>9, <2>17, <2>12, <3>4
      <4> QED  BY <3>1, <3>2, <4>1, <4>2 DEF Tells
    <3> QED  BY <3>3, <3>4
  <2>13. \A u \in Sections : u # t => q3.transport[u] = p.transport[u]
    BY <2>0, <2>6, <2>7, <2>9, <2>17
  <2>14. (r.listed => r.heard \/ r.ice = x \/ p.closed) => Tells(p, q3)
    BY <1>2, <2>12
  <2>15. x # "closed" \/ r.ice = x => r2.heard = r.heard
    BY <1>2, <2>1, <2>5 DEF Transport
  <2> HIDE DEF q, r
  <2>16. /\ q3.transport[t].ice = x /\ q3.transport[t].gather = r.gather
         /\ q3.transport[t].start = r.start /\ q3.transport[t].link = r.link
         /\ q3.transport[t].dtls = r.dtls /\ q3.transport[t].pump = r.pump
         /\ (x # "closed" \/ r.ice = x => q3.transport[t].heard = r.heard)
    BY <2>5, <2>9, <2>17, <2>15
  <2> QED  BY <2>4, <2>10, <2>13, <2>14, <2>16 DEF q, r
<1> QED  BY <1>1, <1>2

(* The state of DTLS changes, which is told in any case.                   *)
LEMMA SetDtlsIs ==
  ASSUME NEW p, Sound(p), NEW t \in Sections, NEW x \in Dtlses
  PROVE  LET q == SetDtls(p, t, x)
             r == p.transport[t]
             s == q.transport[t]
         IN /\ Keeps(p, q) /\ Rest(q) = Rest(p)
            /\ \A u \in Sections : u # t => q.transport[u] = p.transport[u]
            /\ s.dtls = x /\ s.heard = r.heard /\ s.gather = r.gather /\ s.ice = r.ice
            /\ s.start = r.start /\ s.link = r.link /\ s.pump = r.pump
            /\ Tells(p, q)
<1> DEFINE q == SetDtls(p, t, x)
           r == p.transport[t]
           r1 == [r EXCEPT !.dtls = x]
           q1 == [p EXCEPT !.transport[t].dtls = x]
<1>1. CASE r.dtls = x
  <2>1. q = p
    BY <1>1 DEF SetDtls
  <2> QED  BY <1>1, <2>1, KeepsSelf, TellsSelf
<1>2. CASE r.dtls # x
  <2>1. r \in Transport /\ r1 \in Transport
    BY SeenIs DEF Transport
  <2>2. /\ r1.ice = r.ice /\ r1.heard = r.heard /\ r1.listed = r.listed /\ r1.gather = r.gather
        /\ r1.start = r.start /\ r1.link = r.link /\ r1.dtls = x /\ r1.pump = r.pump
    BY <2>1 DEF Transport
  <2>3. q1 = With(p, t, r1)
    BY DEF With
  <2>4. q = UpdateConnection(q1)
    BY <1>2 DEF SetDtls
  <2> HIDE DEF r1, q1, q
  <2>5. /\ q1 \in Peer /\ Core(q1) = Core(p) /\ Rest(q1) = Rest(p) /\ q1.seen = p.seen
        /\ q1.transport[t] = r1 /\ \A u \in Sections : u # t => q1.transport[u] = p.transport[u]
    <3>1. p \in Peer
      BY SeenIs
    <3> QED  BY <2>1, <2>3, <3>1, WithIs
  <2>6. Keeps(p, q1)
    BY <2>2, <2>5, TransportKeeps
  <2>7. Sound(q1)
    BY <2>6 DEF Keeps
  <2>8. /\ Keeps(q1, q) /\ Rest(q) = Rest(q1) /\ q.transport = q1.transport
        /\ q.seen.connection = ConnectionState(q)
        /\ q.seen.ice = q1.seen.ice /\ q.seen.gathering = q1.seen.gathering
    BY <2>4, <2>7, UpdatesAre
  <2>9. Keeps(p, q)
    BY <2>6, <2>8, KeepsTrans
  <2>10. Tells(p, q)
    <3>1. \A u \in Sections : /\ q.transport[u].ice = p.transport[u].ice
                              /\ q.transport[u].gather = p.transport[u].gather
      BY <2>2, <2>5, <2>8
    <3> QED  BY <2>5, <2>8, <3>1 DEF Tells
  <2> QED  BY <2>2, <2>5, <2>8, <2>9, <2>10 DEF q
<1> QED  BY <1>1, <1>2

(* Candidates have been gathered.                                          *)
LEMMA SetGatherIs ==
  ASSUME NEW p, Sound(p), NEW t \in Sections, NEW x \in Gathers, p.transport[t].gather # "new"
  PROVE  LET q == SetGather(p, t, x)
             r == p.transport[t]
             s == q.transport[t]
         IN /\ Keeps(p, q) /\ Rest(q) = Rest(p)
            /\ \A u \in Sections : u # t => q.transport[u] = p.transport[u]
            /\ s.dtls = r.dtls /\ s.heard = r.heard /\ s.gather = x /\ s.ice = r.ice
            /\ s.start = r.start /\ s.link = r.link /\ s.pump = r.pump
            /\ (r.listed => r.heard \/ p.closed) => Tells(p, q)
<1> DEFINE q == SetGather(p, t, x)
           r == p.transport[t]
           r1 == [r EXCEPT !.gather = x]
           q1 == [p EXCEPT !.transport[t].gather = x]
<1>1. r \in Transport /\ r1 \in Transport
  BY SeenIs DEF Transport
<1>2. /\ r1.ice = r.ice /\ r1.heard = r.heard /\ r1.listed = r.listed /\ r1.gather = x
      /\ r1.start = r.start /\ r1.link = r.link /\ r1.dtls = r.dtls /\ r1.pump = r.pump
  BY <1>1 DEF Transport
<1>3. q1 = With(p, t, r1)
  BY DEF With
<1>4. q = IF q1.transport[t].heard THEN UpdateGathering(q1) ELSE q1
  BY DEF SetGather
<1> HIDE DEF r1, q1, q
<1>5. /\ q1 \in Peer /\ Core(q1) = Core(p) /\ Rest(q1) = Rest(p) /\ q1.seen = p.seen
      /\ q1.transport[t] = r1 /\ \A u \in Sections : u # t => q1.transport[u] = p.transport[u]
  <2>1. p \in Peer
    BY SeenIs
  <2> QED  BY <1>1, <1>3, <2>1, WithIs
<1>6. Keeps(p, q1)
  BY <1>2, <1>5, TransportKeeps
<1>7. Sound(q1)
  BY <1>6 DEF Keeps
<1>8. /\ Keeps(q1, q) /\ Rest(q) = Rest(q1) /\ q.transport = q1.transport
      /\ q.seen.connection = q1.seen.connection /\ q.seen.ice = q1.seen.ice
      /\ q.seen.gathering = IF r.heard THEN GatheringState(q) ELSE p.seen.gathering
  <2>1. CASE r.heard
    BY <1>2, <1>4, <1>5, <1>7, <2>1, UpdatesAre
  <2>2. CASE ~r.heard
    BY <1>2, <1>4, <1>5, <1>7, <2>2, KeepsSelf
  <2> QED  BY <2>1, <2>2
<1>9. Keeps(p, q)
  BY <1>6, <1>8, KeepsTrans
<1>10. (r.listed => r.heard \/ p.closed) => Tells(p, q)
  <2>1. \A u \in Sections : /\ q.transport[u].ice = p.transport[u].ice
                            /\ q.transport[u].dtls = p.transport[u].dtls
    BY <1>2, <1>5, <1>8
  <2>2. \A u \in Sections : u # t => q.transport[u] = p.transport[u]
    BY <1>5, <1>8
  <2>3. q.seen.connection = p.seen.connection /\ q.seen.ice = p.seen.ice
    BY <1>5, <1>8
  <2> QED  BY <1>8, <2>1, <2>2, <2>3 DEF Tells
<1> QED  BY <1>2, <1>5, <1>8, <1>9, <1>10 DEF q

(* The transport t is told to stop.                                        *)
LEMMA ShutIs ==
  ASSUME NEW p, Sound(p), NEW t \in Sections
  PROVE  LET q == Shut(p, t)
             r == p.transport[t]
             s == q.transport[t]
         IN /\ Keeps(p, q) /\ Rest(q) = Rest(p)
            /\ \A u \in Sections : u # t => q.transport[u] = p.transport[u]
            /\ s.ice = "closed" /\ s.start = r.start /\ s.gather = r.gather /\ s.dtls = r.dtls
            /\ (r.listed => r.heard \/ r.ice = "closed" \/ p.closed) => Tells(p, q)
<1> DEFINE q == Shut(p, t)
           r == p.transport[t]
           q1 == [p EXCEPT !.transport[t].pump = Cancelled(@)]
           link == IF r.link = "up" THEN "closing"
                   ELSE IF r.link \in {"closing", "down", "shut"} THEN r.link
                   ELSE IF r.gather = "completed" THEN "down" ELSE "shut"
           r1 == [r EXCEPT !.pump = Cancelled(@)]
           q2 == SetIce(q1, t, "closed")
           r2 == q2.transport[t]
           r3 == [r2 EXCEPT !.link = link]
           q3 == [q2 EXCEPT !.transport[t].link = link]
<1>1. r \in Transport /\ r1 \in Transport
  BY SeenIs DEF Transport, Cancelled, Lives
<1>2. /\ r1.ice = r.ice /\ r1.heard = r.heard /\ r1.listed = r.listed /\ r1.gather = r.gather
      /\ r1.start = r.start /\ r1.link = r.link /\ r1.dtls = r.dtls
  BY <1>1 DEF Transport
<1>3. q1 = With(p, t, r1)
  BY DEF With
<1>4. q = IF r.ice = "closed" THEN q1 ELSE q3
  BY DEF Shut
<1>5. link \in Links /\ (r.link = "shut" => link = "shut")
  BY <1>1 DEF Transport, Links
<1> HIDE DEF r1, q1, q, link
<1>6. /\ q1 \in Peer /\ Core(q1) = Core(p) /\ Rest(q1) = Rest(p) /\ q1.seen = p.seen
      /\ q1.transport[t] = r1 /\ \A u \in Sections : u # t => q1.transport[u] = p.transport[u]
  <2>1. p \in Peer
    BY SeenIs
  <2> QED  BY <1>1, <1>3, <2>1, WithIs
<1>7. Keeps(p, q1)
  BY <1>2, <1>6, TransportKeeps
<1>8. Sound(q1)
  BY <1>7 DEF Keeps
<1>9. CASE r.ice = "closed"
  <2>1. Tells(p, q1)
    BY <1>2, <1>6 DEF Tells
  <2> QED  BY <1>2, <1>4, <1>6, <1>7, <1>9, <2>1 DEF q
<1>10. CASE r.ice # "closed"
  <2> HIDE DEF q2
  <2>1. /\ Keeps(q1, q2) /\ Rest(q2) = Rest(q1)
        /\ \A u \in Sections : u # t => q2.transport[u] = q1.transport[u]
        /\ r2.ice = "closed"
        /\ r2.gather = r1.gather /\ r2.start = r1.start /\ r2.link = r1.link
        /\ r2.dtls = r1.dtls
        /\ (r1.listed => r1.heard \/ r1.ice = "closed" \/ q1.closed) => Tells(q1, q2)
    BY <1>6, <1>8, SetIceIs DEF Ices, q2
  <2>2. Sound(q2) /\ r2 \in Transport /\ r2.listed = r1.listed
    <3>1. Sound(q2) /\ r2.listed = r1.listed
      BY <1>6, <2>1 DEF Keeps
    <3> QED  BY <3>1, SeenIs
  <2> HIDE DEF r2
  <2>3. /\ r3 \in Transport
        /\ r3.ice = r2.ice /\ r3.heard = r2.heard /\ r3.listed = r2.listed /\ r3.gather = r2.gather
        /\ r3.start = r2.start /\ r3.link = link /\ r3.dtls = r2.dtls
    BY <1>5, <2>2 DEF Transport
  <2>4. q3 = With(q2, t, r3)
    BY DEF With, r2
  <2> HIDE DEF r3, q3
  <2>5. /\ q3 \in Peer /\ Core(q3) = Core(q2) /\ Rest(q3) = Rest(q2) /\ q3.seen = q2.seen
        /\ q3.transport[t] = r3 /\ \A u \in Sections : u # t => q3.transport[u] = q2.transport[u]
    <3>1. q2 \in Peer /\ r3 \in Transport
      BY <2>2, <2>3, SeenIs
    <3> QED  BY <2>4, <3>1, WithIs
  <2>6. Keeps(q2, q3)
    <3>1. r2.link = "shut" => link = "shut"
      BY <1>2, <1>5, <2>1
    <3>2. r2 = q2.transport[t]
      BY DEF r2
    <3> HIDE DEF r
    <3> QED  BY <2>2, <2>3, <2>5, <3>1, <3>2, TransportKeeps
  <2>7. Keeps(p, q3) /\ Rest(q3) = Rest(p)
    BY <1>6, <1>7, <2>1, <2>5, <2>6, KeepsTrans
  <2>8. ASSUME r.listed => r.heard \/ p.closed
        PROVE  Tells(p, q3)
    <3>1. q1.closed = p.closed /\ q3.closed = q2.closed
      BY <1>6, <2>5, CoreIs
    <3>2. Tells(q1, q2)
      BY <1>2, <2>1, <2>8, <3>1
    <3>3. \A u \in Sections : /\ q3.transport[u].listed = q2.transport[u].listed
                              /\ q3.transport[u].ice = q2.transport[u].ice
                              /\ q3.transport[u].dtls = q2.transport[u].dtls
                              /\ q3.transport[u].gather = q2.transport[u].gather
      BY <2>3, <2>5 DEF r2
    <3>4. \A u \in Sections : /\ q1.transport[u].listed = p.transport[u].listed
                              /\ q1.transport[u].ice = p.transport[u].ice
                              /\ q1.transport[u].dtls = p.transport[u].dtls
                              /\ q1.transport[u].gather = p.transport[u].gather
      BY <1>2, <1>6
    <3>5. /\ ConnectionState(q3) = ConnectionState(q2)
          /\ IceConnectionState(q3) = IceConnectionState(q2)
          /\ GatheringState(q3) = GatheringState(q2)
      BY <3>1, <3>3, StatesSame DEF Listed
    <3>6. /\ q3.seen = q2.seen /\ q1.seen = p.seen /\ (q1.closed <=> p.closed)
      BY <1>6, <2>5, <3>1
    <3>7. \A u \in Sections :
            /\ p.transport[u].listed => q1.transport[u].listed
            /\ q2.transport[u].ice = q1.transport[u].ice =>
                 q3.transport[u].ice = p.transport[u].ice
            /\ q2.transport[u].dtls = q1.transport[u].dtls =>
                 q3.transport[u].dtls = p.transport[u].dtls
            /\ q2.transport[u].gather = q1.transport[u].gather =>
                 q3.transport[u].gather = p.transport[u].gather
      BY <3>3, <3>4
    <3> HIDE DEF r
    <3> QED  BY <3>2, <3>5, <3>6, <3>7 DEF Tells
  <2>9. (r.listed => r.heard \/ r.ice = "closed" \/ p.closed) => Tells(p, q3)
    BY <1>10, <2>8
  <2>10. \A u \in Sections : u # t => q3.transport[u] = p.transport[u]
    BY <1>6, <2>1, <2>5
  <2>11. /\ r3.ice = "closed" /\ r3.start = r.start /\ r3.gather = r.gather /\ r3.dtls = r.dtls
    BY <1>2, <2>1, <2>3
  <2> HIDE DEF r
  <2> QED  BY <1>4, <1>10, <2>5, <2>7, <2>9, <2>10, <2>11 DEF q, r
<1> QED  BY <1>9, <1>10

-----------------------------------------------------------------------------
(* Tasks.                                                                  *)

(* Other tasks run, at the same transports.                                *)
LEMMA WorkKeeps ==
  ASSUME NEW p, Sound(p), NEW q \in Peer, Core(q) = Core(p), q.transport = p.transport,
         q.seen = p.seen, p.late \subseteq q.late,
         \A m \in Sections, k \in {"decoder", "association"} : q.work[m][k] \in Stoppable,
         \A m \in Sections, k \in Tasks :
           p.closed /\ m \notin q.late /\ p.work[m][k] \in AtRest => q.work[m][k] \in AtRest
  PROVE  Keeps(p, q) /\ Tells(p, q)
<1>1. q.known = p.known
  BY CoreIs
<1>2. Sound(q)
  BY <1>1 DEF Sound
<1> QED  BY <1>2 DEF Keeps, Tells

LEMMA WorkIs ==
  ASSUME NEW p, Sound(p)
  PROVE  /\ p.work \in [Sections -> [Tasks -> Lives]]
         /\ \A m \in Sections : p.work[m] \in [Tasks -> Lives]
         /\ \A m \in Sections, k \in Tasks : p.work[m][k] \in Lives
         /\ p.late \subseteq Sections
  BY DEF Sound, Peer, Works, Groups

(* The connection p with w as its tasks, and l as those that began late.   *)
Working(p, w, l) == [p EXCEPT !.work = w, !.late = l]

LEMMA WorkingIs ==
  ASSUME NEW p \in Peer, NEW w \in Works, NEW l \in Groups
  PROVE  LET q == Working(p, w, l)
         IN /\ q \in Peer /\ Core(q) = Core(p) /\ q.transport = p.transport /\ q.seen = p.seen
            /\ q.closing = p.closing /\ q.connect = p.connect /\ q.work = w /\ q.late = l
<1> DEFINE q == Working(p, w, l)
<1>1. q \in Peer
  BY DEF Peer, Working
<1>2. Core(q) = Core(p)
  BY DEF Peer, Working, Core
<1>3. /\ q.transport = p.transport /\ q.seen = p.seen
      /\ q.closing = p.closing /\ q.connect = p.connect /\ q.work = w /\ q.late = l
  BY DEF Peer, Working
<1> QED  BY <1>1, <1>2, <1>3

LEMMA StartsMediaIs ==
  ASSUME NEW p, Sound(p), NEW m \in Sections
  PROVE  LET q == StartsMedia(p, m)
         IN /\ Keeps(p, q) /\ Tells(p, q) /\ q.transport = p.transport
            /\ q.closing = p.closing /\ q.connect = p.connect
<1> DEFINE q == StartsMedia(p, m)
           F == Fresh(p, m)
           l == IF p.closed THEN p.late \cup {m} ELSE p.late
           v == [k \in Tasks |-> IF k \notin F THEN p.work[m][k]
                                 ELSE IF k \in {"decoder", "association"} THEN "runs" ELSE "born"]
           w == [p.work EXCEPT ![m] = v]
<1>1. CASE F = {}
  <2>1. q = p
    BY <1>1 DEF StartsMedia
  <2> QED  BY <2>1, KeepsSelf, TellsSelf
<1>2. CASE F # {}
  <2>1. q = Working(p, w, l)
    BY <1>2, WorkIs DEF StartsMedia, Working
  <2>2. v \in [Tasks -> Lives]
    <3> HIDE DEF F
    <3> QED  BY WorkIs DEF Lives
  <2>3. w \in Works /\ w[m] = v /\ \A n \in Sections : n # m => w[n] = p.work[n]
    <3> HIDE DEF v
    <3> QED  BY <2>2, WorkIs DEF Works
  <2>4. l \in Groups /\ p.late \subseteq l /\ (p.closed => m \in l)
    BY WorkIs DEF Groups
  <2>5. \A k \in {"decoder", "association"} : v[k] \in Stoppable
    <3>1. \A k \in {"decoder", "association"} : k \in Tasks /\ p.work[m][k] \in Stoppable
      BY DEF Sound, Tasks
    <3> HIDE DEF F
    <3> QED  BY <3>1 DEF Stoppable
  <2> HIDE DEF w, l, v, q
  <2>6. /\ q \in Peer /\ Core(q) = Core(p) /\ q.transport = p.transport /\ q.seen = p.seen
        /\ q.closing = p.closing /\ q.connect = p.connect /\ q.work = w /\ q.late = l
    BY <2>1, <2>3, <2>4, SeenIs, WorkingIs
  <2>7. \A n \in Sections, k \in {"decoder", "association"} : w[n][k] \in Stoppable
    <3>1. \A n \in Sections, k \in {"decoder", "association"} : p.work[n][k] \in Stoppable
      BY DEF Sound
    <3> QED  BY <2>3, <2>5, <3>1
  <2>8. Keeps(p, q) /\ Tells(p, q)
    BY <2>3, <2>4, <2>6, <2>7, WorkKeeps
  <2> QED  BY <2>6, <2>8 DEF q
<1> QED  BY <1>1, <1>2

(* The decoders at t stop, and what remains is the end of its transport.   *)
LEMMA StopsDecoderIs ==
  ASSUME NEW p, Sound(p), NEW m \in Sections
  PROVE  LET q == StopsDecoder(p, m)
         IN /\ Keeps(p, q) /\ Tells(p, q) /\ q.transport = p.transport
            /\ q.closing = p.closing /\ q.connect = p.connect /\ q.late = p.late
            /\ \A n \in Sections : n # m => q.work[n] = p.work[n]
            /\ q.work[m]["decoder"] \in AtRest
            /\ \A k \in Tasks : k # "decoder" => q.work[m][k] = p.work[m][k]
<1> DEFINE q == StopsDecoder(p, m)
           d == IF p.work[m]["decoder"] = "runs" THEN "exited" ELSE p.work[m]["decoder"]
           v == [p.work[m] EXCEPT !["decoder"] = d]
           w == [p.work EXCEPT ![m] = v]
<1>1. q = Working(p, w, p.late)
  <2>1. p = [p EXCEPT !.late = p.late] /\ p \in Peer
    BY SeenIs DEF Peer
  <2> QED  BY <2>1 DEF StopsDecoder, Working, Peer
<1>2. d \in AtRest /\ d \in Lives
  BY DEF Sound, Stoppable, AtRest, Lives
<1> HIDE DEF d
<1>3. /\ v \in [Tasks -> Lives] /\ v["decoder"] = d
      /\ \A k \in Tasks : k # "decoder" => v[k] = p.work[m][k]
  BY <1>2, WorkIs DEF Tasks
<1> HIDE DEF v
<1>4. w \in Works /\ w[m] = v /\ \A n \in Sections : n # m => w[n] = p.work[n]
  BY <1>3, WorkIs DEF Works
<1> HIDE DEF w, q
<1>5. /\ q \in Peer /\ Core(q) = Core(p) /\ q.transport = p.transport /\ q.seen = p.seen
      /\ q.closing = p.closing /\ q.connect = p.connect /\ q.work = w /\ q.late = p.late
  BY <1>1, <1>4, SeenIs, WorkIs, WorkingIs DEF Groups
<1>6. \A n \in Sections, k \in {"decoder", "association"} : w[n][k] \in Stoppable
  <2>1. \A n \in Sections, k \in {"decoder", "association"} : k \in Tasks /\ p.work[n][k] \in Stoppable
    BY DEF Sound, Tasks
  <2>2. d \in Stoppable
    BY <1>2 DEF AtRest, Stoppable
  <2>3. \A n \in Sections, k \in {"decoder", "association"} :
          w[n][k] = p.work[n][k] \/ w[n][k] = d
    BY <1>3, <1>4, <2>1
  <2> QED  BY <2>1, <2>2, <2>3
<1>7. \A n \in Sections, k \in Tasks : p.work[n][k] \in AtRest => w[n][k] \in AtRest
  <2>1. \A n \in Sections, k \in Tasks : w[n][k] = p.work[n][k] \/ w[n][k] = d
    BY <1>3, <1>4
  <2> QED  BY <1>2, <2>1
<1>8. Keeps(p, q) /\ Tells(p, q)
  BY <1>5, <1>6, <1>7, WorkKeeps
<1> QED  BY <1>2, <1>3, <1>4, <1>5, <1>8 DEF q

-----------------------------------------------------------------------------
(* __connect().                                                            *)

(* The task c of the connection p is at k.                                 *)
Connecting(p, c, k) == [p EXCEPT !.connect = [p.connect EXCEPT ![c] = k]]

LEMMA ConnectingIs ==
  ASSUME NEW p, Sound(p), NEW c \in Calls,
         NEW k \in [at : {"over", "goes", "start", "ice", "dtls"}, todo : Seq(Sections)]
  PROVE  LET q == Connecting(p, c, k)
         IN /\ Keeps(p, q) /\ Tells(p, q) /\ q.transport = p.transport /\ q.closing = p.closing
            /\ q.late = p.late /\ q.work = p.work /\ q.connect[c] = k
            /\ \A d \in Calls : d # c => q.connect[d] = p.connect[d]
<1> DEFINE q == Connecting(p, c, k)
           f == [p.connect EXCEPT ![c] = k]
<1>1. p \in Peer /\ p.connect \in Connects
  BY SeenIs DEF Peer
<1>2. f \in Connects /\ f[c] = k /\ \A d \in Calls : d # c => f[d] = p.connect[d]
  BY <1>1 DEF Connects
<1>3. q = [p EXCEPT !.connect = f]
  BY DEF Connecting
<1> HIDE DEF f, q
<1>4. q \in Peer
  BY <1>1, <1>2, <1>3 DEF Peer
<1>5. /\ Core(q) = Core(p) /\ q.transport = p.transport /\ q.closing = p.closing
      /\ q.late = p.late /\ q.work = p.work /\ q.connect = f /\ q.seen = p.seen
  BY <1>1, <1>3 DEF Peer, Core
<1>6. Keeps(p, q) /\ Tells(p, q)
  BY <1>4, <1>5, WorkKeeps DEF Sound
<1> QED  BY <1>2, <1>5, <1>6 DEF q

-----------------------------------------------------------------------------
(* What preserves the invariant.                                           *)

LEMMA GoodIs ==
  ASSUME NEW p, Good(p)
  PROVE  /\ Sound(p) /\ Routes(p) /\ SeenFits(p) /\ Waits(p) /\ StepsFit(p) /\ p \in Peer
         /\ ~p.closed => Listening(p)
  BY DEF Good, Sound, SeenFits

LEMMA KeepsGood ==
  ASSUME NEW p, Good(p), NEW q, Keeps(p, q), q.closing = p.closing, Tells(p, q), Waits(q),
         ~p.closed => Listening(q)
  PROVE  Good(q)
<1>1. Sound(q)
  BY DEF Keeps
<1>2. Routes(q)
  BY GoodIs, KeepsRoutes
<1>3. SeenFits(q)
  BY GoodIs, TellsFits
<1>4. StepsFit(q)
  BY GoodIs, KeepsSteps
<1> QED  BY <1>1, <1>2, <1>3, <1>4 DEF Good

LEMMA ListensStill ==
  ASSUME NEW p, Listening(p), NEW q, q.call = p.call,
         \A t \in Sections : LET r == p.transport[t]
                                 s == q.transport[t]
                             IN /\ s.listed = r.listed /\ s.heard = r.heard
                                /\ s.ice = r.ice \/ "closed" \notin {s.ice, r.ice}
                                /\ s.start = r.start \/ s.ice # "closed"
                                /\ s.gather = r.gather \/ s.gather = "completed"
  PROVE  Listening(q)
<1>1. ASSUME NEW t \in Sections
      PROVE  LET r == q.transport[t]
             IN /\ r.ice = "closed" => r.start = "no"
                /\ r.listed => IF r.ice = "closed" THEN t \in Range(q.call.old) ELSE r.heard
                /\ r.listed /\ r.gather = "gathering" => q.call.what = "local"
  <2>1. LET r == p.transport[t]
        IN /\ r.ice = "closed" => r.start = "no"
           /\ r.listed => IF r.ice = "closed" THEN t \in Range(p.call.old) ELSE r.heard
           /\ r.listed /\ r.gather = "gathering" => p.call.what = "local"
    BY DEF Listening
  <2> QED  BY <2>1
<1> QED  BY <1>1 DEF Listening

LEMMA WaitsStill ==
  ASSUME NEW p, Waits(p), NEW q, q.connect = p.connect, q.remote = p.remote
  PROVE  Waits(q)
  BY DEF Waits

(* Nothing but tasks, and transports that are at the same point of ICE.    *)
LEMMA TasksGood ==
  ASSUME NEW p, Good(p), NEW q, Keeps(p, q), q.closing = p.closing, Tells(p, q),
         q.connect = p.connect, q.transport = p.transport
  PROVE  Good(q)
<1>1. q.call = p.call /\ q.remote = p.remote
  BY CoreIs DEF Keeps
<1>2. Waits(q)
  BY <1>1, GoodIs, WaitsStill
<1>3. ~p.closed => Listening(q)
  BY <1>1, GoodIs, ListensStill
<1> QED  BY <1>2, <1>3, KeepsGood

(* The transport t alone.                                                  *)
LEMMA TransportGood ==
  ASSUME NEW p, Good(p), NEW q, Keeps(p, q), Rest(q) = Rest(p), Tells(p, q), NEW t \in Sections,
         \A u \in Sections : u # t => q.transport[u] = p.transport[u],
         ~p.closed => LET r == p.transport[t]
                          s == q.transport[t]
                      IN /\ s.heard = r.heard
                         /\ s.ice = r.ice \/ "closed" \notin {s.ice, r.ice}
                         /\ s.start = r.start \/ s.ice # "closed"
                         /\ s.gather = r.gather \/ s.gather = "completed"
  PROVE  Good(q)
<1>1. q.call = p.call /\ q.remote = p.remote /\ q.connect = p.connect /\ q.closing = p.closing
  BY CoreIs, RestIs DEF Keeps
<1>2. Waits(q)
  BY <1>1, GoodIs, WaitsStill
<1>3. ASSUME ~p.closed PROVE Listening(q)
  <2>1. Listening(p)
    BY <1>3, GoodIs
  <2>2. \A u \in Sections : q.transport[u].listed = p.transport[u].listed
    BY DEF Keeps
  <2> QED  BY <1>1, <1>3, <2>1, <2>2, ListensStill
<1> QED  BY <1>1, <1>2, <1>3, KeepsGood

(* The task c of __connect() alone.                                        *)
LEMMA ConnectGood ==
  ASSUME NEW p, Good(p), NEW c \in Calls,
         NEW k \in [at : {"over", "goes", "start", "ice", "dtls"}, todo : Seq(Sections)],
         k.at # "over" /\ Media # <<>> => k.todo # <<>>,
         k.at \in {"start", "ice", "dtls"} => k.todo # <<>> /\ Head(k.todo) \in p.remote
  PROVE  Good(Connecting(p, c, k))
<1> DEFINE q == Connecting(p, c, k)
<1> HIDE DEF q
<1>1. /\ Keeps(p, q) /\ Tells(p, q) /\ q.transport = p.transport /\ q.closing = p.closing
      /\ q.connect[c] = k
      /\ \A d \in Calls : d # c => q.connect[d] = p.connect[d]
  BY GoodIs, ConnectingIs DEF q
<1>2. q.call = p.call /\ q.remote = p.remote
  BY <1>1, CoreIs DEF Keeps
<1>3. Waits(q)
  <2>1. Waits(p)
    BY GoodIs
  <2> QED  BY <1>1, <1>2, <2>1 DEF Waits
<1>4. ~p.closed => Listening(q)
  BY <1>1, <1>2, GoodIs, ListensStill
<1>5. Good(q)
  BY <1>1, <1>3, <1>4, KeepsGood
<1> QED  BY <1>5 DEF q

-----------------------------------------------------------------------------
(* The steps of __connect() and of the transports preserve it.             *)

LEMMA HeardIs ==
  ASSUME NEW p, Good(p), NEW t \in Sections
  PROVE  /\ p.transport[t].listed => p.transport[t].heard \/ p.transport[t].ice = "closed" \/ p.closed
         /\ ~p.closed /\ p.transport[t].start # "no" => p.transport[t].ice # "closed"
         /\ ~p.closed /\ p.transport[t].listed /\ p.transport[t].gather = "gathering" =>
              p.transport[t].heard
<1>1. CASE p.closed
  BY <1>1
<1>2. CASE ~p.closed
  <2>1. Listening(p) /\ Routes(p)
    BY <1>2, GoodIs
  <2>2. ASSUME p.transport[t].listed, p.transport[t].gather = "gathering"
        PROVE  p.transport[t].heard
    <3>1. p.call.what = "local"
      BY <2>1, <2>2 DEF Listening
    <3>2. p.call.old = <<>>
      BY <2>1, <3>1 DEF Routes
    <3>3. t \notin Range(p.call.old)
      BY <3>2 DEF Range
    <3> QED  BY <2>1, <2>2, <3>3 DEF Listening
  <2> QED  BY <2>1, <2>2 DEF Listening
<1> QED  BY <1>1, <1>2

LEMMA SetIceGood ==
  ASSUME NEW p, Good(p), NEW t \in Sections, NEW x \in Ices, x # "closed",
         ~p.closed => p.transport[t].ice # "closed"
  PROVE  Good(SetIce(p, t, x)) /\ Rest(SetIce(p, t, x)) = Rest(p) /\ Core(SetIce(p, t, x)) = Core(p)
<1> DEFINE q == SetIce(p, t, x)
<1>1. /\ Keeps(p, q) /\ Rest(q) = Rest(p)
      /\ \A u \in Sections : u # t => q.transport[u] = p.transport[u]
      /\ q.transport[t].ice = x /\ q.transport[t].heard = p.transport[t].heard
      /\ q.transport[t].gather = p.transport[t].gather /\ q.transport[t].start = p.transport[t].start
      /\ Tells(p, q)
  BY GoodIs, SetIceIs, HeardIs
<1> HIDE DEF q
<1>2. Good(q)
  BY <1>1, TransportGood
<1> QED  BY <1>1, <1>2 DEF q, Keeps

LEMMA SetDtlsGood ==
  ASSUME NEW p, Good(p), NEW t \in Sections, NEW x \in Dtlses
  PROVE  Good(SetDtls(p, t, x)) /\ Rest(SetDtls(p, t, x)) = Rest(p) /\ Core(SetDtls(p, t, x)) = Core(p)
<1> DEFINE q == SetDtls(p, t, x)
<1>1. /\ Keeps(p, q) /\ Rest(q) = Rest(p)
      /\ \A u \in Sections : u # t => q.transport[u] = p.transport[u]
      /\ q.transport[t].ice = p.transport[t].ice /\ q.transport[t].heard = p.transport[t].heard
      /\ q.transport[t].gather = p.transport[t].gather /\ q.transport[t].start = p.transport[t].start
      /\ Tells(p, q)
  BY GoodIs, SetDtlsIs
<1> HIDE DEF q
<1>2. Good(q)
  BY <1>1, TransportGood
<1> QED  BY <1>1, <1>2 DEF q, Keeps

(* The transport t, as far as nobody is told of it.                        *)
LEMMA WithGood ==
  ASSUME NEW p, Good(p), NEW t \in Sections, NEW r \in Transport,
         LET old == p.transport[t]
         IN /\ r.listed = old.listed /\ r.heard = old.heard /\ r.ice = old.ice
            /\ r.dtls = old.dtls /\ r.gather = old.gather
            /\ \/ r.start = old.start
               \/ /\ p.closed \/ old.ice # "closed"
                  /\ old.start # "no" \/ \E m \in p.remote : p.via[m] = t
            /\ old.link = "shut" => r.link = "shut"
  PROVE  LET q == With(p, t, r)
         IN /\ Good(q) /\ Rest(q) = Rest(p) /\ Core(q) = Core(p)
            /\ q.transport[t] = r /\ \A u \in Sections : u # t => q.transport[u] = p.transport[u]
<1> DEFINE q == With(p, t, r)
<1> HIDE DEF q
<1>1. /\ q \in Peer /\ Core(q) = Core(p) /\ Rest(q) = Rest(p) /\ q.seen = p.seen
      /\ q.transport[t] = r
      /\ \A u \in Sections : u # t => q.transport[u] = p.transport[u]
  BY GoodIs, WithIs DEF q
<1>2. Keeps(p, q)
  BY <1>1, GoodIs, TransportKeeps
<1>3. Tells(p, q)
  BY <1>1 DEF Tells
<1>4. Good(q)
  BY <1>1, <1>2, <1>3, TransportGood
<1> QED  BY <1>1, <1>4 DEF q

LEMMA ConnectIs ==
  ASSUME NEW p, Good(p), NEW c \in Calls
  PROVE  /\ p.connect[c] \in [at : {"over", "goes", "start", "ice", "dtls"}, todo : Seq(Sections)]
         /\ p.connect[c].at # "over" /\ Media # <<>> => p.connect[c].todo # <<>>
         /\ p.connect[c].at \in {"start", "ice", "dtls"} =>
              p.connect[c].todo # <<>> /\ Current(p, c) \in p.remote
         /\ p.connect[c].todo # <<>> =>
              Current(p, c) \in Sections /\ Through(p, c) \in Sections
<1>1. p \in Peer /\ Waits(p)
  BY GoodIs
<1>2. p.connect[c] \in [at : {"over", "goes", "start", "ice", "dtls"}, todo : Seq(Sections)]
  BY <1>1 DEF Peer, Connects
<1>3. p.connect[c].todo # <<>> => Current(p, c) \in Sections
  BY <1>2 DEF Current
<1>4. \A m \in Sections : p.via[m] \in Sections
  BY <1>1 DEF Peer, Vias
<1> QED  BY <1>1, <1>2, <1>3, <1>4 DEF Waits, Current, Through

LEMMA NextSectionGood ==
  ASSUME NEW p, Good(p), NEW c \in Calls, p.connect[c].todo # <<>>
  PROVE  Good(NextSection(p, c))
<1> DEFINE s == p.connect[c].todo
           k == IF Tail(s) = <<>> THEN NoConnect ELSE [at |-> "goes", todo |-> Tail(s)]
<1>1. s \in Seq(Sections)
  BY ConnectIs
<1>2. Tail(s) \in Seq(Sections)
  BY <1>1
<1>3. /\ k \in [at : {"over", "goes", "start", "ice", "dtls"}, todo : Seq(Sections)]
      /\ k.at # "over" => k.todo # <<>>
      /\ k.at \notin {"start", "ice", "dtls"}
  <2> HIDE DEF s
  <2> QED  BY <1>2 DEF NoConnect
<1>4. NextSection(p, c) = Connecting(p, c, k)
  BY DEF NextSection, Connecting
<1> HIDE DEF k
<1> QED  BY <1>3, <1>4, ConnectGood

LEMMA StaysAtGood ==
  ASSUME NEW p, Good(p), NEW c \in Calls, p.connect[c].todo # <<>>, Current(p, c) \in p.remote,
         NEW x \in {"start", "ice", "dtls"}
  PROVE  Good(StaysAt(p, c, x))
<1> DEFINE k == [p.connect[c] EXCEPT !.at = x]
<1>1. p.connect[c] \in [at : {"over", "goes", "start", "ice", "dtls"}, todo : Seq(Sections)]
  BY ConnectIs
<1>2. /\ k \in [at : {"over", "goes", "start", "ice", "dtls"}, todo : Seq(Sections)]
      /\ k.todo = p.connect[c].todo
  BY <1>1
<1>3. StaysAt(p, c, x) = Connecting(p, c, k)
  BY DEF StaysAt, Connecting
<1> HIDE DEF k
<1> QED  BY <1>2, <1>3, ConnectGood DEF Current

LEMMA StartsMediaGood ==
  ASSUME NEW p, Good(p), NEW m \in Sections
  PROVE  Good(StartsMedia(p, m)) /\ StartsMedia(p, m).connect = p.connect
<1> DEFINE q == StartsMedia(p, m)
<1>1. /\ Keeps(p, q) /\ Tells(p, q) /\ q.transport = p.transport
      /\ q.closing = p.closing /\ q.connect = p.connect
  BY GoodIs, StartsMediaIs
<1> HIDE DEF q
<1>2. Good(q)
  BY <1>1, TasksGood
<1> QED  BY <1>1, <1>2 DEF q

LEMMA AfterDtlsGood ==
  ASSUME NEW p, Good(p), NEW c \in Calls, p.connect[c].todo # <<>>
  PROVE  Good(AfterDtls(p, c))
<1> DEFINE q == IF p.transport[Through(p, c)].dtls = "connected" THEN StartsMedia(p, Current(p, c)) ELSE p
<1>1. Good(q) /\ q.connect = p.connect
  <2>1. Current(p, c) \in Sections
    BY ConnectIs
  <2>2. Good(StartsMedia(p, Current(p, c))) /\ StartsMedia(p, Current(p, c)).connect = p.connect
    BY <2>1, StartsMediaGood
  <2> QED  BY <2>2
<1>2. AfterDtls(p, c) = NextSection(q, c)
  BY DEF AfterDtls
<1> HIDE DEF q
<1> QED  BY <1>1, <1>2, NextSectionGood

LEMMA AfterIceGood ==
  ASSUME NEW p, Good(p), NEW c \in Calls, p.connect[c].todo # <<>>, Current(p, c) \in p.remote
  PROVE  Good(AfterIce(p, c))
<1> DEFINE t == Through(p, c)
           q == SetDtls(p, t, "connecting")
           r == SetDtls(q, t, "failed")
<1>1. t \in Sections
  BY ConnectIs
<1>2. AfterIce(p, c) \in {AfterDtls(p, c), StaysAt(q, c, "dtls"), AfterDtls(r, c)}
  BY DEF AfterIce
<1> HIDE DEF t, q, r
<1>3. "connecting" \in Dtlses /\ "failed" \in Dtlses
  BY DEF Dtlses
<1>4. Good(q) /\ Rest(q) = Rest(p) /\ Core(q) = Core(p)
  BY <1>1, <1>3, SetDtlsGood DEF q
<1>5. Good(r) /\ Rest(r) = Rest(q)
  BY <1>1, <1>3, <1>4, SetDtlsGood DEF r
<1>6. q.connect = p.connect /\ r.connect = p.connect /\ q.remote = p.remote
  BY <1>4, <1>5, RestIs, CoreIs
<1>7. Current(q, c) = Current(p, c)
  BY <1>6 DEF Current
<1>8. Good(AfterDtls(p, c))
  BY AfterDtlsGood
<1>9. Good(AfterDtls(r, c))
  BY <1>5, <1>6, AfterDtlsGood
<1>10. Good(StaysAt(q, c, "dtls"))
  BY <1>4, <1>6, <1>7, StaysAtGood
<1> QED  BY <1>2, <1>8, <1>9, <1>10

LEMMA VisitGood ==
  ASSUME NEW p, Good(p), NEW c \in Calls, p.connect[c].todo # <<>>
  PROVE  Good(Visit(p, c))
<1> DEFINE t == Through(p, c)
           r == p.transport[t]
           r1 == [r EXCEPT !.start = "running", !.link = "connecting"]
           q == [p EXCEPT !.transport[t].start = "running", !.transport[t].link = "connecting"]
           s == SetIce(q, t, "checking")
<1>0. t \in Sections /\ Current(p, c) \in Sections /\ t = p.via[Current(p, c)]
  BY ConnectIs DEF Through
<1>1. CASE ~HasCandidates(p, t) \/ Current(p, c) \notin p.remote
  BY <1>1, NextSectionGood DEF Visit
<1>2. CASE Current(p, c) \in p.remote /\ HasCandidates(p, t)
  <2>1. CASE r.ice = "closed"
    <3>1. Visit(p, c) = Connecting(p, c, NoConnect)
      BY <1>2, <2>1 DEF Visit, Connecting
    <3>2. NoConnect \in [at : {"over", "goes", "start", "ice", "dtls"}, todo : Seq(Sections)] /\ NoConnect.at = "over"
      BY DEF NoConnect
    <3> QED  BY <3>1, <3>2, ConnectGood
  <2>2. CASE r.ice # "closed" /\ r.start = "done"
    <3>1. Visit(p, c) = AfterIce(p, c)
      BY <1>2, <2>2 DEF Visit
    <3> QED  BY <1>2, <3>1, AfterIceGood
  <2>3. CASE r.ice # "closed" /\ r.start = "running"
    <3>1. Visit(p, c) = StaysAt(p, c, "start")
      BY <1>2, <2>3 DEF Visit
    <3> QED  BY <1>2, <3>1, StaysAtGood
  <2>4. CASE r.ice # "closed" /\ r.start \notin {"done", "running"}
    <3>1. Visit(p, c) = StaysAt(s, c, "ice")
      BY <1>2, <2>4 DEF Visit
    <3>2. r \in Transport
      BY <1>0, GoodIs, SeenIs
    <3>3. /\ r1 \in Transport
          /\ r1.ice = r.ice /\ r1.heard = r.heard /\ r1.listed = r.listed /\ r1.gather = r.gather
          /\ r1.dtls = r.dtls
      BY <3>2 DEF Transport, Starts, Links
    <3>4. q = With(p, t, r1)
      BY DEF With
    <3>5. r.link # "shut"
      BY <1>2 DEF HasCandidates
    <3> HIDE DEF r1, q, s, t
    <3>6. Good(q) /\ Rest(q) = Rest(p) /\ Core(q) = Core(p) /\ q.transport[t] = r1
      <4>1. (p.closed \/ r.ice # "closed") /\ \E m \in p.remote : p.via[m] = t
        BY <1>0, <1>2, <2>4
      <4> HIDE DEF r
      <4> QED  BY <1>0, <3>3, <3>4, <3>5, <4>1, WithGood DEF r
    <3>7. Good(s) /\ Rest(s) = Rest(q) /\ Core(s) = Core(q)
      <4>1. q.transport[t].ice # "closed" /\ "checking" \in Ices
        BY <2>4, <3>3, <3>6 DEF Ices
      <4> QED  BY <1>0, <3>6, <4>1, SetIceGood, SMTT(30) DEF s
    <3>8. s.connect = p.connect /\ s.remote = p.remote
      BY <3>6, <3>7, RestIs, CoreIs
    <3> QED  BY <1>2, <3>1, <3>7, <3>8, StaysAtGood DEF Current
  <2> QED  BY <2>1, <2>2, <2>3, <2>4
<1> QED  BY <1>0, <1>1, <1>2

LEMMA GoesGood ==
  ASSUME NEW p, Good(p), NEW c \in Calls
  PROVE  Good(Goes(p, c))
<1> DEFINE s == p.connect[c].todo
           S == {q \in Peer : Good(q)}
           Op(q, m) == IF q.connect[c].at = "goes" THEN Visit(q, c) ELSE q
           f == [y \in S \X Sections |-> Op(y[1], y[2])]
           Fold(it) == it = [d \in SUBSET (DOMAIN s) |->
             IF d = {} THEN p ELSE Op(it[d \ {Max(d)}], s[Max(d)])]
           n == Len(s)
           jt == CHOOSE it : Fold(it)
           W == [k \in 0 .. n |-> S]
<1>0. s \in Seq(Sections) /\ p \in S
  BY ConnectIs, GoodIs
<1>1. Goes(p, c) = jt[DOMAIN s]
  BY DEF Goes, FoldLeft, MapThenFoldSet
<1>2. ASSUME NEW q \in S, NEW m \in Sections PROVE Op(q, m) \in S
  <2>1. Media # <<>>
    BY DEF Sections, Range
  <2>2. q.connect[c].at = "goes" => q.connect[c].todo # <<>>
    BY <2>1, ConnectIs
  <2>3. q.connect[c].at = "goes" => Good(Visit(q, c)) /\ Visit(q, c) \in Peer
    BY <2>2, VisitGood, GoodIs
  <2> QED  BY <2>3
<1>3. f \in [S \X Sections -> S] /\ \A q \in S, m \in Sections : f[<<q, m>>] = Op(q, m)
  BY <1>2
<1> HIDE DEF Op, f, s, S
<1>4. PICK it : it \in FoldTables(S, f, p, s)
  <2>1. FoldTables(S, f, p, s) # {}
    BY <1>0, <1>3, FoldExists
  <2> QED  BY <2>1
<1>5. Fold(it)
  <2>1. \A d \in SUBSET (1 .. n) :
          it[d] = IF d = {} THEN p ELSE Op(it[d \ {Max(d)}], s[Max(d)])
    BY <1>0, <1>3, <1>4, FoldIndices DEF FoldTables
  <2>2. it \in [SUBSET (DOMAIN s) -> S]
    BY <1>0, <1>4, FoldIndices DEF FoldTables
  <2>3. DOMAIN s = 1 .. n
    BY <1>0, FoldIndices
  <2> HIDE DEF n
  <2> QED  BY <2>1, <2>2, <2>3
<1>6. Fold(jt)
  BY <1>5
<1> HIDE DEF jt
<1>7. jt[{}] \in W[0]
  BY <1>0, <1>6, FoldIndices
<1>8. ASSUME NEW k \in 0 .. n - 1, jt[1 .. k] \in W[k]
      PROVE  jt[1 .. k + 1] \in W[k + 1]
  <2>1. /\ 1 .. k + 1 \in SUBSET (DOMAIN s) /\ 1 .. k + 1 # {} /\ s[k + 1] \in Sections
        /\ Max(1 .. k + 1) = k + 1 /\ (1 .. k + 1) \ {k + 1} = 1 .. k
    BY <1>0, FoldIndices
  <2>2. jt[1 .. k + 1] = Op(jt[1 .. k], s[k + 1])
    BY <1>6, <2>1
  <2>3. jt[1 .. k] \in S /\ k + 1 \in 0 .. n
    BY <1>0, <1>8, FoldIndices
  <2> HIDE DEF n
  <2>4. Op(jt[1 .. k], s[k + 1]) \in S
    BY <1>2, <2>1, <2>3
  <2> QED  BY <2>2, <2>3, <2>4
<1>9. jt[DOMAIN s] \in W[n]
  <2>1. n \in Nat /\ DOMAIN s = 1 .. n
    BY <1>0, FoldIndices
  <2> HIDE DEF W, n
  <2> QED  BY <1>7, <1>8, <2>1, FoldStays
<1>10. W[n] = S
  BY <1>0, FoldIndices
<1> QED  BY <1>1, <1>9, <1>10 DEF S

-----------------------------------------------------------------------------
(* close().                                                                *)

(* A step that is over has stopped what it stops.                          *)
LEMMA OverIs ==
  ASSUME NEW p, Sound(p), NEW s \in Steps, Stopping(p, s), Over(p, s)
  PROVE  Stopped(p, s)
<1>1. s[1] \in {"receiver", "sender", "transport"} /\ s[2] \in Sections
  BY DEF Steps
<1>2. CASE s[2] \notin p.known
  BY <1>1, <1>2 DEF Stopped, Rests, Sound
<1>3. CASE s[2] \in p.known /\ s[1] = "transport"
  BY <1>3 DEF Stopped, Over
<1>4. CASE s[2] \in p.known /\ s[1] = "receiver"
  <2>1. p.work[s[2]]["reports"] \in AtRest
    BY <1>4 DEF Over, TasksAt, AtRest
  <2>2. Rests(p, s[2], {"decoder", "association"})
    BY <1>4 DEF Stopping
  <2>3. Rests(p, s[2], {"reports", "decoder", "association"})
    BY <2>1, <2>2 DEF Rests
  <2> QED  BY <1>4, <2>3 DEF Stopped
<1>5. CASE s[2] \in p.known /\ s[1] = "sender"
  <2>1. \A k \in {"rtp", "rtcp"} : p.work[s[2]][k] \in AtRest
    BY <1>5 DEF Over, TasksAt, AtRest
  <2>2. Rests(p, s[2], {"rtp", "rtcp"})
    BY <2>1 DEF Rests
  <2> QED  BY <1>5, <2>2 DEF Stopped
<1> QED  BY <1>1, <1>2, <1>3, <1>4, <1>5

LEMMA PerformIs ==
  ASSUME NEW p, Sound(p), NEW s \in Steps
  PROVE  LET q == Perform(p, s)
         IN Keeps(p, q) /\ q.closing = p.closing /\ q.connect = p.connect /\ Stopping(q, s)
<1> DEFINE m == s[2]
<1>1. s[1] \in {"receiver", "sender", "transport"} /\ m \in Sections
  BY DEF Steps
<1>2. CASE m \notin p.known
  <2>1. Perform(p, s) = p
    BY <1>2 DEF Perform
  <2> QED  BY <1>2, <2>1, KeepsSelf DEF Stopping, Rests
<1>3. CASE m \in p.known /\ s[1] = "transport"
  <2>1. Perform(p, s) = Shut(p, p.via[m])
    BY <1>3 DEF Perform
  <2>2. p.via[m] \in Sections
    BY <1>1, SeenIs DEF Peer, Vias
  <2> HIDE DEF m
  <2>3. LET q == Shut(p, p.via[m]) IN Keeps(p, q) /\ Rest(q) = Rest(p)
    BY <2>2, ShutIs
  <2>4. LET q == Shut(p, p.via[m]) IN q.closing = p.closing /\ q.connect = p.connect
    BY <2>3, RestIs
  <2> QED  BY <1>3, <2>1, <2>3, <2>4 DEF Stopping
<1>4. CASE m \in p.known /\ s[1] # "transport"
  <2> DEFINE q == IF s[1] = "receiver" THEN StopsDecoder(p, m) ELSE p
             v == [k \in Tasks |->
                    IF k = "association" /\ q.work[m][k] = "runs" THEN "exited"
                    ELSE IF k \in TasksAt(s) THEN Cancelled(q.work[m][k]) ELSE q.work[m][k]]
             w == [q.work EXCEPT ![m] = v]
             r == [q EXCEPT !.work[m] = v]
  <2>1. Perform(p, s) = r
    BY <1>4 DEF Perform
  <2>2. /\ Keeps(p, q) /\ q.closing = p.closing /\ q.connect = p.connect
        /\ s[1] = "receiver" => q.work[m]["decoder"] \in AtRest
    <3>1. CASE s[1] = "receiver"
      <4> HIDE DEF m
      <4> QED  BY <1>1, <3>1, StopsDecoderIs
    <3>2. CASE s[1] # "receiver"
      BY <3>2, KeepsSelf
    <3> QED  BY <3>1, <3>2
  <2> HIDE DEF q, m
  <2>3. Sound(q)
    BY <2>2 DEF Keeps
  <2>4. r = Working(q, w, q.late)
    <3>1. q = [q EXCEPT !.late = q.late] /\ q \in Peer
      BY <2>3, SeenIs DEF Peer
    <3> QED  BY <3>1 DEF Working, Peer
  <2>5. \A k \in {"decoder", "association"} :
          k \in Tasks /\ k \notin TasksAt(s) /\ q.work[m][k] \in Stoppable
    BY <1>1, <2>3 DEF Sound, Tasks, TasksAt
  <2>6. /\ v \in [Tasks -> Lives]
        /\ v["decoder"] = q.work[m]["decoder"] /\ v["association"] \in AtRest
        /\ \A k \in Tasks : q.work[m][k] \in AtRest => v[k] \in AtRest
    <3>1. q.work[m] \in [Tasks -> Lives]
      BY <1>1, <2>3, WorkIs
    <3>2. v \in [Tasks -> Lives]
      BY <3>1 DEF Lives, Cancelled
    <3>3. v["decoder"] = q.work[m]["decoder"] /\ v["association"] \in AtRest
      BY <2>5 DEF Stoppable, AtRest
    <3>4. \A k \in Tasks : q.work[m][k] \in AtRest => v[k] \in AtRest
      BY DEF AtRest, Cancelled
    <3> QED  BY <3>2, <3>3, <3>4
  <2> HIDE DEF v
  <2>7. w \in Works /\ w[m] = v /\ \A n \in Sections : n # m => w[n] = q.work[n]
    <3>1. q.work \in [Sections -> [Tasks -> Lives]]
      BY <2>3, WorkIs
    <3> QED  BY <1>1, <2>6, <3>1 DEF Works
  <2> HIDE DEF w, r
  <2>8. /\ r \in Peer /\ Core(r) = Core(q) /\ r.transport = q.transport /\ r.seen = q.seen
        /\ r.closing = q.closing /\ r.connect = q.connect /\ r.work = w /\ r.late = q.late
    <3>1. q.late \in Groups /\ q \in Peer
      BY <2>3, SeenIs, WorkIs DEF Groups
    <3> QED  BY <2>4, <2>7, <3>1, WorkingIs
  <2>9. Keeps(q, r)
    <3>1. \A n \in Sections, k \in {"decoder", "association"} : q.work[n][k] \in Stoppable
      BY <2>3 DEF Sound
    <3>2. v["association"] \in Stoppable
      BY <2>6 DEF AtRest, Stoppable
    <3>3. \A n \in Sections, k \in {"decoder", "association"} : r.work[n][k] \in Stoppable
      BY <2>6, <2>7, <2>8, <3>1, <3>2
    <3>4. \A n \in Sections, k \in Tasks : q.work[n][k] \in AtRest => r.work[n][k] \in AtRest
      BY <2>6, <2>7, <2>8
    <3> QED  BY <2>3, <2>8, <3>3, <3>4, WorkKeeps
  <2>10. Keeps(p, r)
    BY <2>2, <2>9, KeepsTrans
  <2>11. Stopping(r, s)
    <3>1. s[1] = "receiver" => \A k \in {"decoder", "association"} : r.work[m][k] \in AtRest
      BY <2>2, <2>6, <2>7, <2>8
    <3> QED  BY <3>1 DEF Stopping, Rests, m
  <2> QED  BY <2>1, <2>2, <2>8, <2>10, <2>11
<1> QED  BY <1>1, <1>2, <1>3, <1>4

(* The steps cl are left.                                                  *)
Closes(p, cl) == [p EXCEPT !.closing = cl]

LEMMA ClosesIs ==
  ASSUME NEW p, Sound(p), NEW cl \in Seq(Steps)
  PROVE  LET q == Closes(p, cl)
         IN /\ Keeps(p, q) /\ q.closing = cl /\ q.connect = p.connect
            /\ \A s \in Steps : /\ Stopped(p, s) => Stopped(q, s)
                                /\ Stopping(p, s) => Stopping(q, s)
<1> DEFINE q == Closes(p, cl)
<1>0. p \in Peer
  BY SeenIs
<1>1. q \in Peer
  BY <1>0 DEF Peer, Closes
<1>2. /\ Core(q) = Core(p) /\ q.transport = p.transport /\ q.closing = cl
      /\ q.late = p.late /\ q.work = p.work /\ q.connect = p.connect /\ q.seen = p.seen
  BY <1>0 DEF Peer, Core, Closes
<1> HIDE DEF q
<1>3. Keeps(p, q)
  BY <1>1, <1>2, WorkKeeps DEF Sound
<1>4. q.via = p.via /\ q.known = p.known
  BY <1>2, CoreIs
<1>5. \A s \in Steps : /\ Stopped(p, s) => Stopped(q, s)
                       /\ Stopping(p, s) => Stopping(q, s)
  BY <1>2, <1>4 DEF Stopped, Stopping, Rests
<1> QED  BY <1>2, <1>3, <1>5 DEF q

LEMMA AppendRange ==
  ASSUME NEW T, NEW s \in Seq(T), NEW x \in T
  PROVE  /\ Append(s, x) \in Seq(T) /\ Append(s, x) # <<>>
         /\ Range(s) \subseteq Range(Append(s, x)) /\ x \in Range(Append(s, x))
         /\ s # <<>> => Head(Append(s, x)) = Head(s)
<1>1. \A i \in DOMAIN s : i \in DOMAIN Append(s, x) /\ Append(s, x)[i] = s[i]
  OBVIOUS
<1>2. Len(s) + 1 \in DOMAIN Append(s, x) /\ Append(s, x)[Len(s) + 1] = x
  OBVIOUS
<1>3. /\ Append(s, x) \in Seq(T) /\ Append(s, x) # <<>>
      /\ s # <<>> => Head(Append(s, x)) = Head(s)
  <2>1. Append(s, x) \in Seq(T) /\ Len(Append(s, x)) = Len(s) + 1 /\ Len(s) \in Nat
    OBVIOUS
  <2>2. Append(s, x) # <<>>
    BY <2>1
  <2>3. ASSUME s # <<>> PROVE Head(Append(s, x)) = Head(s)
    <3>1. 1 \in DOMAIN s
      BY <2>3
    <3>2. Append(s, x)[1] = s[1]
      BY <1>1, <3>1
    <3> QED  BY <2>1, <2>2, <2>3, <3>2
  <2> QED  BY <2>1, <2>2, <2>3
<1> DEFINE a == Append(s, x)
<1> HIDE DEF a
<1>4. Range(s) \subseteq Range(a)
  BY <1>1 DEF Range, a
<1>5. x \in Range(a)
  <2>1. \E i \in DOMAIN a : a[i] = x
    BY <1>2 DEF a
  <2> QED  BY <2>1 DEF Range
<1> QED  BY <1>3, <1>4, <1>5 DEF a

LEMMA ClosesOnIs ==
  ASSUME NEW p, Sound(p), p.closed, NEW s \in Seq(Steps)
  PROVE  LET q == ClosesOn(p, s)
         IN /\ Keeps(p, q) /\ q.connect = p.connect
            /\ \A i \in DOMAIN s : s[i] \in Range(q.closing) \/ Stopped(q, s[i])
            /\ q.closing # <<>> => Stopping(q, Head(q.closing))
            /\ q.closing = <<>> => SeesClosed(q)
<1> DEFINE b == [p EXCEPT !.closing = <<>>]
           S == {q \in Peer : Keeps(p, q) /\ q.connect = p.connect}
           Op(q, x) == IF q.closing # <<>> THEN [q EXCEPT !.closing = Append(@, x)]
                       ELSE LET done == Perform(q, x)
                            IN IF Over(done, x) THEN done ELSE [done EXCEPT !.closing = <<x>>]
           f == [y \in S \X Steps |-> Op(y[1], y[2])]
           Fold(it) == it = [d \in SUBSET (DOMAIN s) |->
             IF d = {} THEN b ELSE Op(it[d \ {Max(d)}], s[Max(d)])]
           n == Len(s)
           jt == CHOOSE it : Fold(it)
           V(k, q) == /\ \A i \in 1 .. k : s[i] \in Range(q.closing) \/ Stopped(q, s[i])
                      /\ q.closing # <<>> => Stopping(q, Head(q.closing))
           W == [k \in 0 .. n |-> {q \in S : V(k, q)}]
           r == jt[DOMAIN s]
<1>1. ClosesOn(p, s) = IF r.closing = <<>> THEN UpdateAll(r) ELSE r
  BY DEF ClosesOn, FoldLeft, MapThenFoldSet
<1>a. b = Closes(p, <<>>)
  BY DEF Closes
<1> HIDE DEF b
<1>b. <<>> \in Seq(Steps)
  OBVIOUS
<1>c. Keeps(p, b) /\ b.closing = <<>> /\ b.connect = p.connect
  BY <1>a, <1>b, ClosesIs
<1>d. b \in S
  BY <1>c DEF Keeps, Sound
<1>e. ASSUME NEW q \in S
      PROVE  Keeps(p, q) /\ q.connect = p.connect /\ Sound(q) /\ q.closed /\ q.closing \in Seq(Steps)
  <2>1. Keeps(p, q) /\ q.connect = p.connect
    OBVIOUS
  <2>2. Sound(q)
    BY <2>1 DEF Keeps
  <2>3. q.closed = p.closed
    <3>1. Core(q) = Core(p)
      BY <2>1 DEF Keeps
    <3> QED  BY <3>1, CoreIs
  <2>4. q.closing \in Seq(Steps)
    BY <2>2, SeenIs DEF Peer
  <2> QED  BY <2>1, <2>2, <2>3, <2>4
<1>2. ASSUME NEW q \in S, NEW x \in Steps
      PROVE  /\ Op(q, x) \in S /\ Keeps(q, Op(q, x))
             /\ x \in Range(Op(q, x).closing) \/ Stopped(Op(q, x), x)
             /\ Range(q.closing) \subseteq Range(Op(q, x).closing)
             /\ (q.closing # <<>> => Stopping(q, Head(q.closing))) =>
                  (Op(q, x).closing # <<>> => Stopping(Op(q, x), Head(Op(q, x).closing)))
  <2> DEFINE cl == Append(q.closing, x)
             o == Op(q, x)
  <2>0. Keeps(p, q) /\ q.connect = p.connect /\ Sound(q) /\ q.closed /\ q.closing \in Seq(Steps)
    BY <1>e
  <2>1. CASE q.closing # <<>>
    <3>1. o = Closes(q, cl)
      BY <2>1 DEF Closes
    <3>2. /\ cl \in Seq(Steps) /\ cl # <<>> /\ Range(q.closing) \subseteq Range(cl)
          /\ x \in Range(cl) /\ Head(cl) = Head(q.closing)
      BY <2>0, <2>1, AppendRange
    <3> HIDE DEF o, cl
    <3>3. /\ Keeps(q, o) /\ o.closing = cl /\ o.connect = q.connect
          /\ \A y \in Steps : Stopping(q, y) => Stopping(o, y)
      BY <2>0, <3>1, <3>2, ClosesIs
    <3>4. Head(q.closing) \in Steps
      BY <2>0, <2>1
    <3>5. Keeps(p, o)
      BY <2>0, <3>3, KeepsTrans
    <3>6. o \in S
      BY <2>0, <3>3, <3>5 DEF Keeps, Sound
    <3> HIDE DEF S
    <3> QED  BY <2>1, <3>2, <3>3, <3>4, <3>6 DEF o
  <2>2. CASE q.closing = <<>>
    <3> DEFINE done == Perform(q, x)
    <3>1. o = IF Over(done, x) THEN done ELSE Closes(done, <<x>>)
      BY <2>2 DEF Closes
    <3> HIDE DEF o
    <3>2. Keeps(q, done) /\ done.closing = <<>> /\ done.connect = q.connect /\ Stopping(done, x)
      BY <2>0, <2>2, PerformIs
    <3> HIDE DEF done
    <3>3. Sound(done)
      BY <3>2 DEF Keeps
    <3>4. Range(q.closing) = {}
      BY <2>2 DEF Range
    <3>5. CASE Over(done, x)
      <4>1. Keeps(p, done)
        BY <2>0, <3>2, KeepsTrans
      <4>2. Stopped(done, x)
        BY <3>2, <3>3, <3>5, OverIs
      <4>3. done \in S
        BY <2>0, <3>2, <3>3, <4>1 DEF Sound
      <4> HIDE DEF S
      <4> QED  BY <3>1, <3>2, <3>4, <3>5, <4>2, <4>3 DEF o
    <3>6. CASE ~Over(done, x)
      <4>1. <<x>> \in Seq(Steps) /\ x \in Range(<<x>>) /\ Head(<<x>>) = x
        BY DEF Range
      <4>2. /\ Keeps(done, o) /\ o.closing = <<x>> /\ o.connect = done.connect
            /\ Stopping(done, x) => Stopping(o, x)
        BY <3>1, <3>3, <3>6, <4>1, ClosesIs
      <4>3. Keeps(q, o)
        BY <3>2, <4>2, KeepsTrans
      <4>4. Keeps(p, o)
        BY <2>0, <4>3, KeepsTrans
      <4>5. o \in S
        BY <2>0, <3>2, <4>2, <4>4 DEF Keeps, Sound
      <4> HIDE DEF S
      <4> QED  BY <3>2, <3>4, <4>1, <4>2, <4>3, <4>5 DEF o
    <3> QED  BY <3>5, <3>6
  <2> QED  BY <2>1, <2>2
<1>3. f \in [S \X Steps -> S] /\ \A q \in S, x \in Steps : f[<<q, x>>] = Op(q, x)
  BY <1>2
<1> HIDE DEF Op, f, S
<1>4. PICK it : it \in FoldTables(S, f, b, s)
  <2>1. FoldTables(S, f, b, s) # {}
    BY <1>d, <1>3, FoldExists
  <2> QED  BY <2>1
<1>5. Fold(it)
  <2>1. \A d \in SUBSET (1 .. n) :
          it[d] = IF d = {} THEN b ELSE Op(it[d \ {Max(d)}], s[Max(d)])
    <3>1. /\ it \in [SUBSET (1 .. n) -> S]
          /\ \A d \in SUBSET (1 .. n) :
               it[d] = IF d = {} THEN b ELSE f[<<it[d \ {Max(d)}], s[Max(d)]>>]
      BY <1>4 DEF FoldTables
    <3>2. \A d \in SUBSET (1 .. n) :
            d # {} => it[d \ {Max(d)}] \in S /\ s[Max(d)] \in Steps
      <4>1. \A d \in SUBSET (1 .. n) :
              d # {} => d \ {Max(d)} \in SUBSET (1 .. n) /\ s[Max(d)] \in Steps
        BY FoldIndices
      <4> HIDE DEF n
      <4> QED  BY <3>1, <4>1
    <3> HIDE DEF n
    <3> QED  BY <1>3, <3>1, <3>2
  <2>2. it \in [SUBSET (DOMAIN s) -> S]
    BY <1>4, FoldIndices DEF FoldTables
  <2>3. DOMAIN s = 1 .. n
    BY FoldIndices
  <2> HIDE DEF n
  <2> QED  BY <2>1, <2>2, <2>3
<1>6. Fold(jt)
  BY <1>5
<1> HIDE DEF jt
<1>7. jt[{}] \in W[0]
  <2>1. jt[{}] = b
    BY <1>6, FoldIndices
  <2>2. V(0, b)
    BY <1>c
  <2>3. 0 \in 0 .. n
    BY FoldIndices
  <2> HIDE DEF V
  <2> QED  BY <1>d, <2>1, <2>2, <2>3
<1>8. ASSUME NEW k \in 0 .. n - 1, jt[1 .. k] \in W[k]
      PROVE  jt[1 .. k + 1] \in W[k + 1]
  <2> DEFINE q == jt[1 .. k]
             x == s[k + 1]
             o == Op(q, x)
  <2>1. /\ 1 .. k + 1 \in SUBSET (DOMAIN s) /\ 1 .. k + 1 # {} /\ x \in Steps
        /\ Max(1 .. k + 1) = k + 1 /\ (1 .. k + 1) \ {k + 1} = 1 .. k
    BY FoldIndices
  <2>2. jt[1 .. k + 1] = o
    BY <1>6, <2>1
  <2>3. q \in S /\ V(k, q) /\ k + 1 \in 0 .. n /\ k \in Nat /\ n \in Nat /\ k + 1 <= n
    <3>1. n \in Nat
      BY FoldIndices
    <3> HIDE DEF n, V
    <3> QED  BY <1>8, <3>1
  <2> HIDE DEF q, o
  <2>4. /\ o \in S /\ Keeps(q, o)
        /\ x \in Range(o.closing) \/ Stopped(o, x)
        /\ Range(q.closing) \subseteq Range(o.closing)
        /\ (q.closing # <<>> => Stopping(q, Head(q.closing))) =>
             (o.closing # <<>> => Stopping(o, Head(o.closing)))
    <3> HIDE DEF x
    <3> QED  BY <1>2, <2>1, <2>3 DEF o
  <2>5. q.closed
    BY <1>e, <2>3
  <2>6. ASSUME NEW i \in 1 .. k + 1
        PROVE  s[i] \in Range(o.closing) \/ Stopped(o, s[i])
    <3>1. CASE i = k + 1
      BY <2>4, <3>1
    <3>2. CASE i # k + 1
      <4>1. i \in 1 .. k
        BY <2>3, <3>2
      <4>2. s[i] \in Steps
        BY <2>3, <4>1
      <4>3. s[i] \in Range(q.closing) \/ Stopped(q, s[i])
        BY <2>3, <4>1
      <4> QED  BY <2>4, <2>5, <4>2, <4>3, KeepsStopped
    <3> QED  BY <3>1, <3>2
  <2>7. o.closing # <<>> => Stopping(o, Head(o.closing))
    BY <2>3, <2>4
  <2>8. V(k + 1, o)
    BY <2>6, <2>7
  <2> HIDE DEF V, n
  <2> QED  BY <2>2, <2>3, <2>4, <2>8
<1>9. jt[DOMAIN s] \in W[n]
  <2>1. n \in Nat /\ DOMAIN s = 1 .. n
    BY FoldIndices
  <2> HIDE DEF W, n
  <2> QED  BY <1>7, <1>8, <2>1, FoldStays
<1>10. r \in S /\ V(n, r)
  <2>1. n \in 0 .. n
    BY FoldIndices
  <2> HIDE DEF n, V, jt
  <2> QED  BY <1>9, <2>1
<1>11. Keeps(p, r) /\ r.connect = p.connect /\ Sound(r) /\ r.closed
  BY <1>e, <1>10
<1>12. \A i \in DOMAIN s : s[i] \in Range(r.closing) \/ Stopped(r, s[i])
  <2>1. DOMAIN s = 1 .. n
    BY FoldIndices
  <2> QED  BY <1>10, <2>1
<1>13. r.closing # <<>> => Stopping(r, Head(r.closing))
  BY <1>10
<1> HIDE DEF r
<1>14. CASE r.closing # <<>>
  BY <1>1, <1>11, <1>12, <1>13, <1>14
<1>15. CASE r.closing = <<>>
  <2> DEFINE q3 == UpdateAll(r)
  <2>1. ClosesOn(p, s) = q3
    BY <1>1, <1>15
  <2>2. Keeps(r, q3) /\ Rest(q3) = Rest(r) /\ (q3.closed => SeesClosed(q3))
    BY <1>11, UpdateAllIs
  <2> HIDE DEF q3
  <2>7. Keeps(p, q3)
    BY <1>11, <2>2, KeepsTrans
  <2>9. q3.closing = <<>> /\ q3.connect = p.connect
    BY <1>11, <1>15, <2>2, RestIs
  <2>11. SeesClosed(q3)
    BY <2>2, <2>7, CoreIs DEF Keeps
  <2>12. \A i \in DOMAIN s : Stopped(q3, s[i])
    <3>1. ASSUME NEW i \in DOMAIN s PROVE Stopped(q3, s[i])
      <4>1. Range(r.closing) = {}
        BY <1>15 DEF Range
      <4>2. Stopped(r, s[i]) /\ s[i] \in Steps
        BY <1>12, <4>1
      <4> QED  BY <1>11, <2>2, <4>2, KeepsStopped
    <3> QED  BY <3>1
  <2> QED  BY <2>1, <2>7, <2>9, <2>11, <2>12
<1> QED  BY <1>14, <1>15

-----------------------------------------------------------------------------
(* The actions of the transports and of __connect().                       *)

LEMMA WorkGood ==
  ASSUME NEW p, Good(p), NEW w \in Works,
         \A m \in Sections, k \in {"decoder", "association"} : w[m][k] \in Stoppable,
         \A m \in Sections, k \in Tasks : p.work[m][k] \in AtRest => w[m][k] \in AtRest
  PROVE  LET q == Working(p, w, p.late)
         IN Good(q) /\ q.transport = p.transport /\ Core(q) = Core(p)
<1> DEFINE q == Working(p, w, p.late)
<1>1. p \in Peer /\ p.late \in Groups /\ Sound(p)
  BY GoodIs, WorkIs DEF Groups
<1> HIDE DEF q
<1>2. /\ q \in Peer /\ Core(q) = Core(p) /\ q.transport = p.transport /\ q.seen = p.seen
      /\ q.closing = p.closing /\ q.connect = p.connect /\ q.work = w /\ q.late = p.late
  BY <1>1, WorkingIs DEF q
<1>3. Keeps(p, q) /\ Tells(p, q)
  BY <1>1, <1>2, WorkKeeps
<1>4. Good(q)
  BY <1>2, <1>3, TasksGood
<1> QED  BY <1>2, <1>4 DEF q

(* A task has ended.                                                       *)
Ended(p, m, k) == [p EXCEPT !.work[m][k] = "exited"]

LEMMA EndedGood ==
  ASSUME NEW p, Good(p), NEW m \in Sections, NEW k \in Tasks
  PROVE  Good(Ended(p, m, k))
<1> DEFINE v == [p.work[m] EXCEPT ![k] = "exited"]
           w == [p.work EXCEPT ![m] = v]
<1>1. Ended(p, m, k) = Working(p, w, p.late)
  <2>1. p = [p EXCEPT !.late = p.late] /\ p \in Peer
    BY GoodIs DEF Peer
  <2> QED  BY <2>1 DEF Ended, Working, Peer
<1>2. Sound(p) /\ p.work \in [Sections -> [Tasks -> Lives]] /\ p.work[m] \in [Tasks -> Lives]
  BY GoodIs, WorkIs
<1>3. v \in [Tasks -> Lives] /\ \A j \in Tasks : v[j] = p.work[m][j] \/ v[j] = "exited"
  BY <1>2 DEF Lives
<1> HIDE DEF v
<1>4. w \in Works /\ w[m] = v /\ \A n \in Sections : n # m => w[n] = p.work[n]
  BY <1>2, <1>3 DEF Works
<1> HIDE DEF w
<1>5. \A n \in Sections, j \in Tasks : w[n][j] = p.work[n][j] \/ w[n][j] = "exited"
  BY <1>3, <1>4
<1>6. \A n \in Sections, j \in {"decoder", "association"} : w[n][j] \in Stoppable
  <2>1. \A n \in Sections, j \in {"decoder", "association"} : j \in Tasks /\ p.work[n][j] \in Stoppable
    BY <1>2 DEF Sound, Tasks
  <2> QED  BY <1>5, <2>1 DEF Stoppable
<1>7. \A n \in Sections, j \in Tasks : p.work[n][j] \in AtRest => w[n][j] \in AtRest
  BY <1>5 DEF AtRest
<1> QED  BY <1>1, <1>4, <1>6, <1>7, WorkGood

LEMMA DisconnectGood ==
  ASSUME NEW p, Good(p), NEW t \in Sections
  PROVE  Good(Disconnect(p, t))
<1> DEFINE r1 == [p.transport[t] EXCEPT !.pump = "exited"]
           w == [m \in Sections |-> IF m \in Shares(p, t) THEN StopsDecoder(p, m).work[m] ELSE p.work[m]]
           q == With(p, t, r1)
           o == Working(q, w, q.late)
           e == [p EXCEPT !.transport[t].pump = "exited",
                    !.work = [m \in Sections |->
                       IF m \in Shares(p, t) THEN StopsDecoder(p, m).work[m] ELSE @[m]]]
<1>1. Disconnect(p, t) = SetDtls(e, t, "closed")
  BY DEF Disconnect
<1>2. p \in Peer /\ Sound(p) /\ p.transport[t] \in Transport
  BY GoodIs, SeenIs
<1>3. e = o
  <2>1. p = [p EXCEPT !.late = p.late]
    BY <1>2 DEF Peer
  <2> HIDE DEF w
  <2>2. e = [p EXCEPT !.transport = [p.transport EXCEPT ![t] = r1], !.work = w]
    BY DEF w
  <2> HIDE DEF e, r1
  <2> QED  BY <1>2, <2>1, <2>2 DEF With, Working, Peer
<1>4. /\ r1 \in Transport
      /\ r1.ice = p.transport[t].ice /\ r1.heard = p.transport[t].heard
      /\ r1.listed = p.transport[t].listed /\ r1.gather = p.transport[t].gather
      /\ r1.dtls = p.transport[t].dtls /\ r1.start = p.transport[t].start
      /\ r1.link = p.transport[t].link
  BY <1>2 DEF Transport, Lives
<1> HIDE DEF r1, q
<1>5. Good(q) /\ Rest(q) = Rest(p)
  BY <1>4, WithGood DEF q
<1>6. q.work = p.work
  BY <1>5, RestIs
<1>7. ASSUME NEW m \in Sections
      PROVE  /\ w[m] \in [Tasks -> Lives]
             /\ \A k \in {"decoder", "association"} : w[m][k] \in Stoppable
             /\ \A k \in Tasks : p.work[m][k] \in AtRest => w[m][k] \in AtRest
  <2>1. CASE m \notin Shares(p, t)
    <3>1. w[m] = p.work[m]
      BY <2>1
    <3> QED  BY <1>2, <3>1, WorkIs DEF Sound
  <2>2. CASE m \in Shares(p, t)
    <3> DEFINE d == StopsDecoder(p, m)
    <3>1. w[m] = d.work[m]
      BY <2>2
    <3> HIDE DEF w
    <3>2. /\ Keeps(p, d) /\ d.work[m]["decoder"] \in AtRest
          /\ \A k \in Tasks : k # "decoder" => d.work[m][k] = p.work[m][k]
      BY <1>2, StopsDecoderIs
    <3> HIDE DEF d
    <3>3. Sound(d)
      BY <3>2 DEF Keeps
    <3>4. d.work[m] \in [Tasks -> Lives] /\ \A k \in {"decoder", "association"} : d.work[m][k] \in Stoppable
      BY <3>3, WorkIs DEF Sound
    <3>5. \A k \in Tasks : p.work[m][k] \in AtRest => d.work[m][k] \in AtRest
      BY <3>2
    <3> QED  BY <3>1, <3>4, <3>5
  <2> QED  BY <2>1, <2>2
<1>8. w \in Works
  BY <1>7 DEF Works
<1> HIDE DEF w
<1>9. Good(o)
  BY <1>5, <1>6, <1>7, <1>8, WorkGood
<1> HIDE DEF o, e
<1>10. "closed" \in Dtlses
  BY DEF Dtlses
<1> QED  BY <1>1, <1>3, <1>9, <1>10, SetDtlsGood

LEMMA WaitingIs ==
  ASSUME NEW p, Good(p), NEW c \in Calls, p.connect[c].at \in {"start", "ice", "dtls"}
  PROVE  p.connect[c].todo # <<>> /\ Current(p, c) \in p.remote /\ Through(p, c) \in Sections
  BY ConnectIs

LEMMA ConnectBeginsGood ==
  ASSUME Good(pc), NEW c \in Calls, ConnectBegins(c)
  PROVE  Good(pc')
  BY GoesGood DEF ConnectBegins

LEMMA WakesGood ==
  ASSUME Good(pc), NEW c \in Calls, Wakes(c)
  PROVE  Good(pc')
<1>1. Good(AfterIce(pc, c))
  BY WaitingIs, AfterIceGood DEF Wakes
<1> QED  BY <1>1, GoesGood DEF Wakes

LEMMA IceEndsGood ==
  ASSUME Good(pc), NEW t \in Sections, NEW won \in BOOLEAN, IceEnds(t, won)
  PROVE  Good(pc')
<1> DEFINE r == pc.transport[t]
           r1 == [r EXCEPT !.start = "done",
                           !.link = IF @ # "connecting" THEN @ ELSE IF won THEN "up" ELSE "failed"]
           p == [pc EXCEPT !.transport[t].start = "done",
                      !.transport[t].link = IF @ # "connecting" THEN @ ELSE IF won THEN "up" ELSE "failed"]
           x == IF won THEN "completed" ELSE "failed"
           q == SetIce(p, t, x)
<1>1. PICK c \in Calls : /\ pc.connect[c].at = "ice" /\ pc' = Goes(AfterIce(q, c), c)
                         /\ r.start = "running"
  BY SMTT(30) DEF IceEnds, Waiting
<1>2. r \in Transport
  BY GoodIs, SeenIs
<1>3. p = With(pc, t, r1)
  BY <1>2 DEF With, Transport
<1>4. /\ r1 \in Transport
      /\ r1.ice = r.ice /\ r1.heard = r.heard /\ r1.listed = r.listed /\ r1.gather = r.gather
      /\ r1.dtls = r.dtls /\ (r.link = "shut" => r1.link = "shut")
  BY <1>2 DEF Transport, Links, Starts
<1> HIDE DEF r1, p
<1>5. pc.closed \/ r.ice # "closed"
  BY <1>1, HeardIs
<1>6. Good(p) /\ Rest(p) = Rest(pc) /\ Core(p) = Core(pc) /\ p.transport[t] = r1
  BY <1>1, <1>3, <1>4, <1>5, WithGood
<1>7. x \in Ices /\ x # "closed"
  BY DEF Ices
<1> HIDE DEF x
<1>8. p.closed = pc.closed
  BY <1>6, CoreIs
<1>9. Good(q) /\ Rest(q) = Rest(p) /\ Core(q) = Core(p)
  BY <1>4, <1>5, <1>6, <1>7, <1>8, SetIceGood
<1> HIDE DEF q
<1>10. q.connect = pc.connect
  BY <1>6, <1>9, RestIs
<1>11. Good(AfterIce(q, c))
  <2>1. q.connect[c].at = "ice"
    BY <1>1, <1>10
  <2> QED  BY <1>9, <2>1, WaitingIs, AfterIceGood
<1> QED  BY <1>1, <1>11, GoesGood

LEMMA HandshakeEndsGood ==
  ASSUME Good(pc), NEW t \in Sections, NEW good \in BOOLEAN, HandshakeEnds(t, good)
  PROVE  Good(pc')
<1> DEFINE r1 == [pc.transport[t] EXCEPT !.pump = "born"]
           o == [pc EXCEPT !.transport[t].pump = "born"]
           p == IF good THEN SetDtls(o, t, "connected") ELSE SetDtls(pc, t, "failed")
<1>1. PICK c \in Calls : pc.connect[c].at = "dtls" /\ pc' = Goes(AfterDtls(p, c), c)
  BY DEF HandshakeEnds, Waiting
<1>2. pc.transport[t] \in Transport
  BY GoodIs, SeenIs
<1>3. /\ r1 \in Transport
      /\ r1.ice = pc.transport[t].ice /\ r1.heard = pc.transport[t].heard
      /\ r1.listed = pc.transport[t].listed /\ r1.gather = pc.transport[t].gather
      /\ r1.dtls = pc.transport[t].dtls /\ r1.start = pc.transport[t].start
      /\ r1.link = pc.transport[t].link
  BY <1>2 DEF Transport, Lives
<1>4. o = With(pc, t, r1)
  BY DEF With
<1> HIDE DEF r1, o
<1>5. Good(o) /\ Rest(o) = Rest(pc)
  BY <1>3, <1>4, WithGood
<1>6. "connected" \in Dtlses /\ "failed" \in Dtlses
  BY DEF Dtlses
<1>7. /\ Good(SetDtls(o, t, "connected")) /\ Rest(SetDtls(o, t, "connected")) = Rest(o)
      /\ Good(SetDtls(pc, t, "failed")) /\ Rest(SetDtls(pc, t, "failed")) = Rest(pc)
  BY <1>5, <1>6, SetDtlsGood
<1>8. Good(p) /\ Rest(p) = Rest(pc)
  BY <1>5, <1>7
<1> HIDE DEF p
<1>9. p.connect = pc.connect
  BY <1>8, RestIs
<1>10. Good(AfterDtls(p, c))
  <2>1. p.connect[c].at = "dtls"
    BY <1>1, <1>9
  <2> QED  BY <1>8, <2>1, WaitingIs, AfterDtlsGood
<1> QED  BY <1>1, <1>10, GoesGood

LEMMA ConsentGood ==
  ASSUME Good(pc), NEW t \in Sections, ConsentExpires(t) \/ ConsentTestEnds(t)
  PROVE  Good(pc')
<1> DEFINE r1 == [pc.transport[t] EXCEPT !.link = "down"]
<1>1. pc.transport[t] \in Transport
  BY GoodIs, SeenIs
<1>2. /\ r1 \in Transport
      /\ r1.ice = pc.transport[t].ice /\ r1.heard = pc.transport[t].heard
      /\ r1.listed = pc.transport[t].listed /\ r1.gather = pc.transport[t].gather
      /\ r1.dtls = pc.transport[t].dtls /\ r1.start = pc.transport[t].start
      /\ pc.transport[t].link # "shut"
  BY <1>1 DEF Transport, Links, ConsentExpires, ConsentTestEnds
<1>3. pc' = With(pc, t, r1)
  BY DEF With, ConsentExpires, ConsentTestEnds
<1> HIDE DEF r1
<1> QED  BY <1>2, <1>3, WithGood

LEMMA LinkShutsGood ==
  ASSUME Good(pc), NEW t \in Sections, LinkShuts(t)
  PROVE  Good(pc')
<1> DEFINE r1 == [pc.transport[t] EXCEPT !.link = "shut"]
           q == [pc EXCEPT !.transport[t].link = "shut"]
<1>1. pc' = IF q.transport[t].ice = "completed" /\ q.transport[t].heard THEN SetIce(q, t, "failed") ELSE q
  BY DEF LinkShuts, SocketsClosed
<1>2. pc.transport[t] \in Transport
  BY GoodIs, SeenIs
<1>3. /\ r1 \in Transport
      /\ r1.ice = pc.transport[t].ice /\ r1.heard = pc.transport[t].heard
      /\ r1.listed = pc.transport[t].listed /\ r1.gather = pc.transport[t].gather
      /\ r1.dtls = pc.transport[t].dtls /\ r1.start = pc.transport[t].start
      /\ r1.link = "shut"
  BY <1>2 DEF Transport, Links
<1>4. q = With(pc, t, r1)
  BY DEF With
<1> HIDE DEF r1, q
<1>5. Good(q)
  BY <1>3, <1>4, WithGood
<1>6. ASSUME q.transport[t].ice = "completed"
      PROVE  Good(SetIce(q, t, "failed"))
  BY <1>5, <1>6, SetIceGood DEF Ices
<1> QED  BY <1>1, <1>5, <1>6

LEMMA PumpCancelledGood ==
  ASSUME Good(pc), NEW t \in Sections, PumpCancelled(t)
  PROVE  Good(pc')
<1> DEFINE r1 == [pc.transport[t] EXCEPT !.pump = "exited"]
           q == [pc EXCEPT !.transport[t].pump = "exited"]
<1>1. pc' = SetDtls(q, t, "closed")
  BY DEF PumpCancelled
<1>2. pc.transport[t] \in Transport
  BY GoodIs, SeenIs
<1>3. /\ r1 \in Transport
      /\ r1.ice = pc.transport[t].ice /\ r1.heard = pc.transport[t].heard
      /\ r1.listed = pc.transport[t].listed /\ r1.gather = pc.transport[t].gather
      /\ r1.dtls = pc.transport[t].dtls /\ r1.start = pc.transport[t].start
      /\ r1.link = pc.transport[t].link
  BY <1>2 DEF Transport, Lives
<1>4. q = With(pc, t, r1)
  BY DEF With
<1> HIDE DEF r1, q
<1>5. Good(q)
  BY <1>3, <1>4, WithGood
<1>6. "closed" \in Dtlses
  BY DEF Dtlses
<1> QED  BY <1>1, <1>5, <1>6, SetDtlsGood

LEMMA FirstStepsGood ==
  ASSUME Good(pc), NEW t \in Sections, FirstSteps(t)
  PROVE  Good(pc')
<1> DEFINE r1 == [pc.transport[t] EXCEPT !.pump = Begins(@)]
           w == [m \in Sections |-> IF m \in Shares(pc, t) THEN [k \in Tasks |-> Begins(pc.work[m][k])]
                                    ELSE pc.work[m]]
           q == With(pc, t, r1)
           o == Working(q, w, q.late)
<1>1. pc \in Peer /\ Sound(pc) /\ pc.transport[t] \in Transport
  BY GoodIs, SeenIs
<1>2. pc' = o
  <2>1. pc = [pc EXCEPT !.late = pc.late]
    BY <1>1 DEF Peer
  <2> HIDE DEF w
  <2>2. pc' = [pc EXCEPT !.transport = [pc.transport EXCEPT ![t] = r1], !.work = w]
    BY DEF w, FirstSteps
  <2> HIDE DEF r1
  <2> QED  BY <1>1, <2>1, <2>2 DEF With, Working, Peer
<1>3. /\ r1 \in Transport
      /\ r1.ice = pc.transport[t].ice /\ r1.heard = pc.transport[t].heard
      /\ r1.listed = pc.transport[t].listed /\ r1.gather = pc.transport[t].gather
      /\ r1.dtls = pc.transport[t].dtls /\ r1.start = pc.transport[t].start
      /\ r1.link = pc.transport[t].link
  BY <1>1 DEF Transport, Lives, Begins
<1> HIDE DEF r1, q
<1>4. Good(q) /\ Rest(q) = Rest(pc)
  BY <1>3, WithGood DEF q
<1>5. q.work = pc.work
  BY <1>4, RestIs
<1>6. ASSUME NEW m \in Sections, NEW k \in Tasks
      PROVE  /\ w[m][k] \in Lives
             /\ pc.work[m][k] \in Stoppable => w[m][k] \in Stoppable
             /\ pc.work[m][k] \in AtRest => w[m][k] \in AtRest
  <2>1. pc.work[m][k] \in Lives
    BY <1>1, WorkIs
  <2>2. w[m][k] \in {pc.work[m][k], Begins(pc.work[m][k])}
    OBVIOUS
  <2> QED  BY <2>1, <2>2 DEF Begins, Lives, Stoppable, AtRest
<1>7. w \in Works
  <2>1. \A m \in Sections : w[m] \in [Tasks -> Lives]
    <3>1. \A m \in Sections : pc.work[m] \in [Tasks -> Lives]
      BY <1>1, WorkIs
    <3>2. \A m \in Sections : w[m] = [k \in Tasks |-> w[m][k]]
      BY <3>1
    <3> HIDE DEF w
    <3> QED  BY <1>6, <3>2
  <2> QED  BY <2>1 DEF Works
<1> HIDE DEF w
<1>8. \A m \in Sections, k \in {"decoder", "association"} : w[m][k] \in Stoppable
  <2>1. \A m \in Sections, k \in {"decoder", "association"} : k \in Tasks /\ pc.work[m][k] \in Stoppable
    BY <1>1 DEF Sound, Tasks
  <2> QED  BY <1>6, <2>1
<1>9. Good(o)
  BY <1>4, <1>5, <1>6, <1>7, <1>8, WorkGood
<1> QED  BY <1>2, <1>9

LEMMA MediaGood ==
  ASSUME Good(pc), NEW m \in Sections,
         (\E k \in Tasks : TaskEnds(m, k)) \/ RtpEnds(m) \/ ReceiveBye(m)
  PROVE  Good(pc')
<1>1. ASSUME NEW k \in Tasks, pc' = Ended(pc, m, k)
      PROVE  Good(pc')
  BY <1>1, EndedGood
<1>2. CASE \E k \in Tasks : TaskEnds(m, k)
  BY <1>1, <1>2 DEF TaskEnds, Ended
<1>3. CASE RtpEnds(m)
  <2>1. "rtp" \in Tasks
    BY DEF Tasks
  <2> QED  BY <1>1, <1>3, <2>1 DEF RtpEnds, Ended
<1>4. CASE ReceiveBye(m)
  <2> DEFINE q == StopsDecoder(pc, m)
  <2>1. pc' = q
    BY <1>4 DEF ReceiveBye
  <2>2. /\ Keeps(pc, q) /\ Tells(pc, q) /\ q.transport = pc.transport
        /\ q.closing = pc.closing /\ q.connect = pc.connect
    BY GoodIs, StopsDecoderIs
  <2> HIDE DEF q
  <2> QED  BY <2>1, <2>2, TasksGood
<1> QED  BY <1>2, <1>3, <1>4

-----------------------------------------------------------------------------
(* The actions that change who is described, or how far a call has come.   *)

LEMMA GatherEndsGood ==
  ASSUME Good(pc), NEW t \in Sections, GatherEnds(t)
  PROVE  Good(pc')
<1> DEFINE q == SetGather(pc, t, "completed")
<1>1. pc' = q /\ pc.transport[t].gather = "gathering"
  BY DEF GatherEnds
<1>2. pc.transport[t].listed => pc.transport[t].heard \/ pc.closed
  BY <1>1, HeardIs
<1>3. /\ Keeps(pc, q) /\ Rest(q) = Rest(pc)
      /\ \A u \in Sections : u # t => q.transport[u] = pc.transport[u]
      /\ q.transport[t].ice = pc.transport[t].ice /\ q.transport[t].heard = pc.transport[t].heard
      /\ q.transport[t].gather = "completed" /\ q.transport[t].start = pc.transport[t].start
      /\ Tells(pc, q)
  BY <1>1, <1>2, GoodIs, SetGatherIs DEF Gathers
<1> HIDE DEF q
<1> QED  BY <1>1, <1>3, TransportGood

LEMMA StopOldGood ==
  ASSUME Good(pc), StopOld
  PROVE  Good(pc')
<1> DEFINE t == Head(pc.call.old)
           q == Shut(pc, t)
<1>1. pc' = q /\ pc.call.old # <<>>
  BY DEF StopOld
<1>2. t \in Sections /\ t \in Range(pc.call.old) /\ pc.transport[t].start = "no"
      /\ (pc.transport[t].gather = "gathering" => ~pc.transport[t].listed \/ pc.closed)
  <2>1. pc.call \in Call /\ pc.call.old \in Seq(Sections) /\ Routes(pc)
    BY GoodIs DEF Peer, Call
  <2>2. 1 \in DOMAIN pc.call.old /\ t = pc.call.old[1]
    BY <1>1, <2>1
  <2> HIDE DEF t
  <2>3. t \in Sections
    BY <2>1, <2>2
  <2>4. t \in Range(pc.call.old)
    BY <2>2 DEF Range
  <2>5. \A m \in pc.remote : pc.via[m] # t
    BY <2>1, <2>2 DEF Routes
  <2>6. pc.transport[t].start = "no"
    BY <2>1, <2>3, <2>5 DEF Routes
  <2>7. pc.call.what # "local"
    BY <1>1, <2>1 DEF Routes
  <2>8. ~pc.closed => Listening(pc)
    BY GoodIs
  <2> QED  BY <2>3, <2>4, <2>6, <2>7, <2>8 DEF Listening
<1> HIDE DEF t
<1>3. /\ Keeps(pc, q) /\ Rest(q) = Rest(pc)
      /\ \A u \in Sections : u # t => q.transport[u] = pc.transport[u]
      /\ q.transport[t].ice = "closed" /\ q.transport[t].gather = pc.transport[t].gather
      /\ q.transport[t].start = pc.transport[t].start
      /\ Tells(pc, q)
  BY <1>2, GoodIs, HeardIs, ShutIs
<1> HIDE DEF q
<1>4. q.call = pc.call /\ q.remote = pc.remote /\ q.connect = pc.connect /\ q.closing = pc.closing
  BY <1>3, CoreIs, RestIs DEF Keeps
<1>5. Waits(q)
  BY <1>4, GoodIs, WaitsStill
<1>6. ASSUME ~pc.closed PROVE Listening(q)
  <2>1. Listening(pc)
    BY <1>6, GoodIs
  <2>2. \A u \in Sections : q.transport[u].listed = pc.transport[u].listed
    BY <1>3 DEF Keeps
  <2> QED  BY <1>2, <1>3, <1>4, <1>6, <2>1, <2>2 DEF Listening
<1> QED  BY <1>1, <1>3, <1>4, <1>5, <1>6, KeepsGood

(* What neither moves a transport nor a task.                              *)
Frame(p) ==
  <<p.closed, p.closing, p.seen, p.transport, p.known, p.late, p.work>>

LEMMA FrameIs ==
  ASSUME NEW p, NEW q, Frame(q) = Frame(p)
  PROVE  /\ q.closed = p.closed /\ q.closing = p.closing /\ q.seen = p.seen
         /\ q.transport = p.transport /\ q.known = p.known /\ q.late = p.late /\ q.work = p.work
  BY DEF Frame

LEMMA FrameGood ==
  ASSUME NEW p, Good(p), NEW q \in Peer, Frame(q) = Frame(p), Routes(q), Waits(q),
         ~p.closed => Listening(q), \A m \in Sections : q.via[m] = m => p.via[m] = m
  PROVE  Good(q)
<1>1. /\ q.closed = p.closed /\ q.closing = p.closing /\ q.seen = p.seen
      /\ q.transport = p.transport /\ q.known = p.known /\ q.late = p.late /\ q.work = p.work
  BY FrameIs
<1>2. Sound(p) /\ SeenFits(p) /\ StepsFit(p)
  BY GoodIs
<1>3. Sound(q)
  BY <1>1, <1>2 DEF Sound
<1>4. SeenFits(q)
  BY <1>1, <1>2, SeenApart DEF SeenFits, SeesAll, SeesClosed
<1>5. StepsFit(q)
  <2>1. \A s \in Steps : s[2] \in Sections
    BY DEF Steps
  <2>2. \A s \in Steps : Stopped(p, s) => Stopped(q, s)
    BY <1>1, <2>1 DEF Stopped, Rests
  <2>3. \A s : Stopping(p, s) => Stopping(q, s)
    BY <1>1 DEF Stopping, Rests
  <2> QED  BY <1>1, <1>2, <2>2, <2>3 DEF StepsFit
<1> QED  BY <1>3, <1>4, <1>5 DEF Good

(* The call has come to k.                                                 *)
Recalls(p, k) == [p EXCEPT !.call = k]

LEMMA RecallsGood ==
  ASSUME NEW p, Good(p),
         p.call.old = <<>>, \A t \in Listed(p) : ~p.closed => p.transport[t].gather # "gathering"
  PROVE  Good(Recalls(p, NoCall))
<1> DEFINE q == Recalls(p, NoCall)
<1>1. p \in Peer /\ Routes(p) /\ Waits(p)
  BY GoodIs
<1>2. q \in Peer
  BY <1>1 DEF Peer, Call, NoCall, Recalls
<1>3. /\ Frame(q) = Frame(p) /\ q.call = NoCall /\ q.via = p.via /\ q.remote = p.remote
      /\ q.described = p.described /\ q.signaling = p.signaling /\ q.connect = p.connect
      /\ q.transport = p.transport /\ q.known = p.known
  BY <1>1 DEF Peer, Recalls, Frame
<1> HIDE DEF q
<1>4. q.call.what = "none" /\ q.call.old = <<>>
  BY <1>3 DEF NoCall
<1>5. Routes(q)
  <2>1. DOMAIN q.call.old = {}
    BY <1>4
  <2> QED  BY <1>1, <1>3, <1>4, <2>1 DEF Routes
<1>6. Waits(q)
  BY <1>1, <1>3, WaitsStill
<1>7. ASSUME ~p.closed PROVE Listening(q)
  <2>1. Listening(p)
    BY <1>7, GoodIs
  <2>2. \A t \in Sections : p.transport[t].listed => p.transport[t].gather # "gathering"
    BY <1>7 DEF Listed
  <2>3. Range(p.call.old) = Range(q.call.old)
    BY <1>4
  <2> QED  BY <1>3, <2>1, <2>2, <2>3 DEF Listening
<1>8. Good(q)
  BY <1>2, <1>3, <1>5, <1>6, <1>7, FrameGood
<1> QED  BY <1>8 DEF q

(* A task of __connect() is created.                                       *)
LEMMA SpawnsGood ==
  ASSUME NEW p, Good(p)
  PROVE  Good(SpawnsConnect(p))
<1> DEFINE k == [at |-> "goes", todo |-> Media]
<1>1. SpawnsConnect(p) = Connecting(p, p.calls, k)
  BY DEF SpawnsConnect, Connecting
<1>2. k \in [at : {"over", "goes", "start", "ice", "dtls"}, todo : Seq(Sections)]
  BY PeerAssumption
<1>3. CASE p.calls \in Calls
  BY <1>1, <1>2, <1>3, ConnectGood
<1>4. CASE p.calls \notin Calls
  <2>1. p \in Peer /\ p.connect \in Connects
    BY GoodIs DEF Peer
  <2>2. [p.connect EXCEPT ![p.calls] = k] = p.connect
    BY <1>4, <2>1 DEF Connects
  <2>3. Connecting(p, p.calls, k) = p
    BY <2>1, <2>2 DEF Connecting, Peer
  <2> QED  BY <1>1, <2>3
<1> QED  BY <1>3, <1>4

LEMMA LocalDescriptionSetGood ==
  ASSUME Good(pc), LocalDescriptionSet
  PROVE  Good(pc')
<1>1. pc' = SpawnsConnect(Recalls(pc, NoCall))
  BY DEF LocalDescriptionSet, Recalls
<1>2. pc.call.old = <<>> /\ \A t \in Listed(pc) : pc.transport[t].gather # "gathering"
  BY GoodIs DEF LocalDescriptionSet, Routes
<1>3. Good(Recalls(pc, NoCall))
  BY <1>2, RecallsGood
<1> QED  BY <1>1, <1>3, SpawnsGood

LEMMA RemoteDescriptionSetGood ==
  ASSUME Good(pc), RemoteDescriptionSet
  PROVE  Good(pc')
<1> DEFINE p == Recalls(pc, NoCall)
           q == Signaled(p, pc.call.type, "have-remote-offer")
<1>1. pc' = SpawnsConnect(q)
  BY DEF RemoteDescriptionSet, Recalls
<1>2. pc.call.old = <<>>
  BY DEF RemoteDescriptionSet
<1>3. \A t \in Listed(pc) : ~pc.closed => pc.transport[t].gather # "gathering"
  <2>1. pc.call.what # "local" /\ (~pc.closed => Listening(pc))
    BY GoodIs DEF RemoteDescriptionSet
  <2> QED  BY <2>1 DEF Listening, Listed
<1>4. Good(p)
  BY <1>2, <1>3, RecallsGood
<1> HIDE DEF p
<1>5. p \in Peer /\ Routes(p) /\ Waits(p)
  BY <1>4, GoodIs
<1>6. /\ q \in Peer /\ Frame(q) = Frame(p) /\ q.signaling \in {"stable", "have-remote-offer"}
      /\ q.call = p.call /\ q.via = p.via /\ q.remote = p.remote /\ q.described = p.described
      /\ q.connect = p.connect /\ q.transport = p.transport /\ q.known = p.known
  BY <1>5 DEF Peer, Signalings, Signaled, Frame
<1> HIDE DEF q
<1>7. Routes(q)
  BY <1>5, <1>6 DEF Routes
<1>8. Waits(q)
  BY <1>5, <1>6, WaitsStill
<1>9. ~p.closed => Listening(q)
  BY <1>4, <1>6, GoodIs, ListensStill
<1>10. Good(q)
  BY <1>4, <1>6, <1>7, <1>8, <1>9, FrameGood
<1> QED  BY <1>1, <1>10, SpawnsGood

(* All states are computed again.                                          *)
LEMMA SeesGood ==
  ASSUME NEW p, Sound(p), Routes(p), Waits(p), StepsFit(p), ~p.closed => Listening(p)
  PROVE  Good(UpdateAll(p)) /\ Core(UpdateAll(p)) = Core(p) /\ UpdateAll(p).connect = p.connect
<1> DEFINE q == UpdateAll(p)
<1>1. /\ Keeps(p, q) /\ Rest(q) = Rest(p) /\ q.transport = p.transport /\ SeesAll(q)
      /\ q.closed => SeesClosed(q)
  BY UpdateAllIs
<1> HIDE DEF q
<1>2. q.closed = p.closed /\ q.closing = p.closing /\ q.connect = p.connect
      /\ q.remote = p.remote /\ q.call = p.call /\ Sound(q) /\ p \in Peer
  BY <1>1, CoreIs, RestIs DEF Keeps, Sound
<1>3. Routes(q)
  BY <1>1, KeepsRoutes
<1>4. Waits(q)
  BY <1>2, WaitsStill
<1>5. StepsFit(q)
  BY <1>1, <1>2, KeepsSteps
<1>6. ~p.closed => Listening(q)
  BY <1>1, <1>2, ListensStill
<1>7. SeenFits(q)
  BY <1>1, <1>2, <1>6 DEF SeenFits
<1> QED  BY <1>1, <1>2, <1>3, <1>4, <1>5, <1>7 DEF q, Good, Keeps

LEMMA DiscardOldGood ==
  ASSUME Good(pc), DiscardOld
  PROVE  Good(pc')
<1> DEFINE old == pc.call.old
           t == Head(old)
           r1 == [pc.transport[t] EXCEPT !.listed = FALSE]
           f == [pc.transport EXCEPT ![t] = r1]
           k == [pc.call EXCEPT !.old = Tail(old)]
           o == [pc EXCEPT !.transport[t].listed = FALSE, !.call.old = Tail(@)]
           q == UpdateAll(o)
<1>1. pc' = q /\ old # <<>>
  BY DEF DiscardOld, Discards
<1>2. pc \in Peer /\ Sound(pc) /\ Routes(pc) /\ Waits(pc) /\ StepsFit(pc) /\ pc.call \in Call /\ old \in Seq(Sections)
  BY GoodIs DEF Peer, Call
<1>3. /\ Tail(old) \in Seq(Sections) /\ t \in Sections
      /\ \A i \in DOMAIN Tail(old) : i + 1 \in DOMAIN old /\ Tail(old)[i] = old[i + 1]
      /\ \A i \in DOMAIN old : i = 1 \/ (i - 1 \in DOMAIN Tail(old) /\ Tail(old)[i - 1] = old[i])
      /\ old[1] = t
  <2> HIDE DEF old
  <2> QED  BY <1>1, <1>2
<1>4. Range(old) \subseteq {t} \cup Range(Tail(old))
  <2> DEFINE rest == Tail(old)
  <2> HIDE DEF rest
  <2>1. \A i \in DOMAIN old : old[i] = t \/ \E j \in DOMAIN rest : old[i] = rest[j]
    BY <1>3 DEF rest
  <2> HIDE DEF old, t
  <2>2. Range(old) \subseteq {t} \cup Range(rest)
    BY <2>1 DEF Range
  <2> QED  BY <2>2 DEF rest
<1>5. /\ k \in Call /\ k.old = Tail(old) /\ k.what = pc.call.what
  BY <1>2, <1>3 DEF Call
<1>6. o = [pc EXCEPT !.transport = f, !.call = k]
  OBVIOUS
<1>7. pc.transport[t] \in Transport
  BY <1>2, <1>3, SeenIs
<1>8. LET r == pc.transport[t]
      IN /\ r1 \in Transport /\ r1.listed = FALSE /\ r1.ice = r.ice /\ r1.heard = r.heard
         /\ r1.gather = r.gather /\ r1.start = r.start /\ r1.link = r.link
  BY <1>7 DEF Transport
<1> HIDE DEF r1
<1>9. f \in Transports /\ f[t] = r1 /\ \A u \in Sections : u # t => f[u] = pc.transport[u]
  BY <1>2, <1>3, <1>8, SeenIs DEF Transports
<1> HIDE DEF f, k, o, t
<1>10. o \in Peer
  BY <1>2, <1>5, <1>6, <1>9 DEF Peer
<1>11. /\ o.signaling = pc.signaling /\ o.closed = pc.closed /\ o.via = pc.via
       /\ o.known = pc.known /\ o.described = pc.described /\ o.remote = pc.remote
       /\ o.call = k /\ o.transport = f /\ o.closing = pc.closing /\ o.late = pc.late
       /\ o.work = pc.work /\ o.connect = pc.connect
  BY <1>2, <1>6 DEF Peer
<1>12. Sound(o)
  <2>1. \A m \in Sections \ o.known : o.transport[m].gather = "new"
    BY <1>2, <1>8, <1>9, <1>11 DEF Sound
  <2> QED  BY <1>2, <1>10, <1>11, <2>1 DEF Sound
<1>13. Routes(o)
  <2>1. \A i \in DOMAIN k.old : \A m \in o.remote : o.via[m] # k.old[i]
    <3> HIDE DEF old
    <3>1. \A i \in DOMAIN old : \A m \in pc.remote : pc.via[m] # old[i]
      BY <1>2 DEF Routes, old
    <3> QED  BY <1>3, <1>5, <1>11, <3>1
  <2>2. o.call.what # "remote" => o.call.old = <<>>
    BY <1>1, <1>2, <1>5, <1>11 DEF Routes
  <2>3. \A u \in Sections : /\ o.transport[u].listed => pc.transport[u].listed
                            /\ o.transport[u].start = pc.transport[u].start
    BY <1>8, <1>9, <1>11
  <2> HIDE DEF old
  <2> QED  BY <1>2, <1>11, <2>1, <2>2, <2>3 DEF Routes
<1>14. Waits(o)
  BY <1>2, <1>11, WaitsStill
<1>15. ASSUME ~o.closed PROVE Listening(o)
  <2>1. Listening(pc)
    BY <1>11, <1>15, GoodIs
  <2>2. \A u \in Sections : u # t => o.transport[u] = pc.transport[u]
    BY <1>9, <1>11
  <2>3. o.transport[t] = r1
    BY <1>9, <1>11
  <2>4. \A u \in Sections : u \in Range(pc.call.old) => u = t \/ u \in Range(o.call.old)
    BY <1>4, <1>5, <1>11
  <2> HIDE DEF old
  <2>5. o.call.what = pc.call.what
    BY <1>5, <1>11
  <2>6. ASSUME NEW u \in Sections
        PROVE  LET r == o.transport[u]
               IN /\ r.ice = "closed" => r.start = "no"
                  /\ r.listed => IF r.ice = "closed" THEN u \in Range(o.call.old) ELSE r.heard
                  /\ r.listed /\ r.gather = "gathering" => o.call.what = "local"
    <3>1. CASE u = t
      BY <1>8, <2>1, <2>3, <3>1 DEF Listening
    <3>2. CASE u # t
      BY <2>1, <2>2, <2>4, <2>5, <3>2 DEF Listening
    <3> QED  BY <3>1, <3>2
  <2> QED  BY <2>6 DEF Listening
<1>16. StepsFit(o)
  <2>1. \A s \in Steps : s[2] \in Sections
    BY DEF Steps
  <2>2. \A u \in Sections : /\ o.transport[u].link = pc.transport[u].link
                            /\ o.transport[u].gather = pc.transport[u].gather
    BY <1>8, <1>9, <1>11
  <2>3. \A s \in Steps : Stopped(pc, s) => Stopped(o, s)
    BY <1>11, <2>1, <2>2 DEF Stopped, Rests
  <2>4. \A s : Stopping(pc, s) => Stopping(o, s)
    BY <1>11 DEF Stopping, Rests
  <2> QED  BY <1>2, <1>11, <2>3, <2>4 DEF StepsFit
<1> QED  BY <1>1, <1>12, <1>13, <1>14, <1>15, <1>16, SeesGood

LEMMA AddsGood ==
  ASSUME NEW p, Good(p), NEW added \in SUBSET Sections, added \cap p.known = {}
  PROVE  LET q == Adds(p, added)
         IN /\ Good(q) /\ q.signaling = p.signaling /\ q.via = p.via /\ q.remote = p.remote
            /\ q.described = p.described /\ q.call = p.call /\ q.known = p.known \cup added
<1> DEFINE new == [NoTransport EXCEPT !.listed = TRUE, !.heard = TRUE]
           f == [t \in Sections |-> IF t \in added THEN new ELSE p.transport[t]]
           l == IF p.closed THEN p.late \cup added ELSE p.late
           o == [p EXCEPT !.known = @ \cup added,
                      !.late = IF p.closed THEN @ \cup added ELSE @,
                      !.transport = [t \in Sections |->
                         IF t \in added THEN [NoTransport EXCEPT !.listed = TRUE, !.heard = TRUE]
                         ELSE @[t]]]
           q == UpdateAll(o)
<1>1. Adds(p, added) = q
  BY DEF Adds
<1>2. p \in Peer /\ Sound(p) /\ Routes(p) /\ Waits(p) /\ StepsFit(p) /\ p.late \subseteq Sections
  BY GoodIs DEF Peer, Groups
<1>3. o = [p EXCEPT !.known = p.known \cup added, !.late = l, !.transport = f]
  BY <1>2 DEF Peer
<1>4. /\ new \in Transport /\ new.listed /\ new.heard /\ new.gather = "new"
      /\ new.ice = "new" /\ new.start = "no"
  BY DEF NoTransport, Transport, Gathers, Ices, Starts, Links, Dtlses, Lives
<1> HIDE DEF new
<1>5. /\ f \in Transports /\ \A t \in added : f[t] = new
      /\ \A t \in Sections \ added : f[t] = p.transport[t]
  BY <1>2, <1>4, SeenIs DEF Transports
<1>6. l \in Groups /\ p.late \subseteq l /\ (p.closed => added \subseteq l)
  BY <1>2 DEF Groups
<1>7. p.known \cup added \in Groups
  BY <1>2 DEF Peer, Groups
<1> HIDE DEF f, l, o, q
<1>8. o \in Peer
  BY <1>2, <1>3, <1>5, <1>6, <1>7 DEF Peer
<1>9. /\ o.signaling = p.signaling /\ o.closed = p.closed /\ o.via = p.via
      /\ o.known = p.known \cup added /\ o.described = p.described /\ o.remote = p.remote
      /\ o.call = p.call /\ o.transport = f /\ o.closing = p.closing /\ o.late = l
      /\ o.work = p.work /\ o.connect = p.connect
  BY <1>2, <1>3 DEF Peer
<1>10. Sound(o)
  <2>1. \A m \in Sections \ o.known : o.transport[m].gather = "new"
    BY <1>2, <1>5, <1>9 DEF Sound
  <2> QED  BY <1>2, <1>8, <1>9, <2>1 DEF Sound
<1>11. Routes(o)
  <2>1. \A t \in Sections : o.transport[t].start # "no" => p.transport[t].start # "no"
    BY <1>4, <1>5, <1>9
  <2>2. \A t \in Sections : o.transport[t].listed => t \in o.known
    BY <1>2, <1>5, <1>9 DEF Routes
  <2> QED  BY <1>2, <1>9, <2>1, <2>2 DEF Routes
<1>12. Waits(o)
  BY <1>2, <1>9, WaitsStill
<1>13. ASSUME ~o.closed PROVE Listening(o)
  <2>1. Listening(p)
    BY <1>9, <1>13, GoodIs
  <2>2. ASSUME NEW u \in Sections
        PROVE  LET r == o.transport[u]
               IN /\ r.ice = "closed" => r.start = "no"
                  /\ r.listed => IF r.ice = "closed" THEN u \in Range(o.call.old) ELSE r.heard
                  /\ r.listed /\ r.gather = "gathering" => o.call.what = "local"
    <3>1. CASE u \in added
      BY <1>4, <1>5, <1>9, <3>1
    <3>2. CASE u \notin added
      BY <1>5, <1>9, <2>1, <3>2 DEF Listening
    <3> QED  BY <3>1, <3>2
  <2> QED  BY <2>2 DEF Listening
<1>14. StepsFit(o)
  <2>1. \A s \in Steps : s[2] \in Sections
    BY DEF Steps
  <2>2. \A u \in Sections : \/ o.transport[u] = p.transport[u]
                            \/ o.transport[u].gather = "new"
    BY <1>4, <1>5, <1>9
  <2>3. ASSUME p.closed, NEW m \in Sections, NEW K, Rests(p, m, K)
        PROVE  Rests(o, m, K)
    BY <1>6, <1>9, <2>3 DEF Rests
  <2>4. ASSUME p.closed, NEW s \in Steps
        PROVE  (Stopped(p, s) => Stopped(o, s)) /\ (Stopping(p, s) => Stopping(o, s))
    <3>1. s[2] \in Sections
      BY <2>1
    <3>2. \A K : Rests(p, s[2], K) => Rests(o, s[2], K)
      BY <2>3, <2>4, <3>1
    <3> QED  BY <1>9, <2>2, <3>1, <3>2 DEF Stopped, Stopping
  <2>5. p.closing # <<>> => Head(p.closing) \in Steps /\ p.closed
    BY <1>2 DEF Peer, StepsFit
  <2> QED  BY <1>2, <1>9, <2>4, <2>5 DEF StepsFit
<1>15. Good(q) /\ Core(q) = Core(o)
  BY <1>10, <1>11, <1>12, <1>13, <1>14, SeesGood DEF q
<1>16. /\ q.signaling = p.signaling /\ q.via = p.via /\ q.remote = p.remote
       /\ q.described = p.described /\ q.call = p.call /\ q.known = p.known \cup added
  BY <1>9, <1>15, CoreIs
<1> QED  BY <1>1, <1>15, <1>16

LEMMA AddGood ==
  ASSUME Good(pc), NEW m \in Sections, Add(m)
  PROVE  Good(pc')
  BY AddsGood DEF Add

LEMMA SetLocalDescriptionGood ==
  ASSUME Good(pc), NEW type \in {"offer", "answer"}, SetLocalDescription(type)
  PROVE  Good(pc')
<1> DEFINE new == {t \in Listed(pc) : pc.transport[t].gather = "new"}
           f == [t \in Sections |-> IF t \in new THEN [pc.transport[t] EXCEPT !.gather = "gathering"]
                                    ELSE pc.transport[t]]
           p == [pc EXCEPT !.transport = [t \in Sections |->
                   IF t \in new THEN [@[t] EXCEPT !.gather = "gathering"] ELSE @[t]]]
           q == IF \E t \in new : p.transport[t].heard THEN UpdateGathering(p) ELSE p
           r == IF type = "offer" THEN [q EXCEPT !.described = q.known]
                ELSE [q EXCEPT !.agreed = @ \cup q.known]
           o == Calling(Signaled(r, type, "have-local-offer"), "local", type, <<>>)
<1>0. pc.call.old = <<>>
  <2>1. pc.call = NoCall
    BY DEF SetLocalDescription, MayCall
  <2>2. NoCall.old = <<>>
    BY DEF NoCall
  <2> QED  BY <2>1, <2>2
<1>1. ~pc.closed /\ pc.known # {}
  BY DEF SetLocalDescription
<1>a. pc' = o
  BY DEF SetLocalDescription
<1>2. pc \in Peer /\ Sound(pc) /\ Routes(pc) /\ Waits(pc) /\ StepsFit(pc) /\ Listening(pc) /\ SeesAll(pc)
  BY <1>1, GoodIs DEF SeenFits
<1>3. \A t \in Sections : pc.transport[t] \in Transport
  BY <1>2, SeenIs
<1>4. \A t \in Listed(pc) : pc.transport[t].ice # "closed" /\ pc.transport[t].heard
  <2>1. Range(pc.call.old) = {}
    <3>1. pc.call.old = <<>>
      BY <1>0
    <3> QED  BY <3>1 DEF Range
  <2> QED  BY <1>2, <2>1 DEF Listening, Listed
<1>5. new \subseteq Listed(pc) /\ new \subseteq Sections
  BY DEF Listed
<1>6. p = [pc EXCEPT !.transport = f]
  OBVIOUS
<1>7. ASSUME NEW t \in Sections
      PROVE  /\ f[t] \in Transport /\ f[t].ice = pc.transport[t].ice
             /\ f[t].dtls = pc.transport[t].dtls /\ f[t].heard = pc.transport[t].heard
             /\ f[t].listed = pc.transport[t].listed /\ f[t].start = pc.transport[t].start
             /\ (t \notin new => f[t] = pc.transport[t])
  <2> HIDE DEF new
  <2>1. f[t] = IF t \in new THEN [pc.transport[t] EXCEPT !.gather = "gathering"] ELSE pc.transport[t]
    OBVIOUS
  <2> HIDE DEF f
  <2> QED  BY <1>3, <2>1 DEF Transport, Gathers
<1>8. f \in Transports
  <2>1. f = [t \in Sections |-> f[t]]
    OBVIOUS
  <2> HIDE DEF f
  <2> QED  BY <1>7, <2>1 DEF Transports
<1> HIDE DEF f, p
<1>9. /\ p \in Peer /\ p.transport = f /\ Core(p) = Core(pc) /\ p.seen = pc.seen
      /\ Rest(p) = Rest(pc) /\ p.agreed = pc.agreed
  BY <1>2, <1>6, <1>8 DEF Peer, Core, Rest
<1>10. /\ p.signaling = pc.signaling /\ p.closed = pc.closed /\ p.via = pc.via
       /\ p.known = pc.known /\ p.described = pc.described /\ p.remote = pc.remote
       /\ p.call = pc.call /\ p.closing = pc.closing /\ p.late = pc.late
       /\ p.work = pc.work /\ p.connect = pc.connect
  BY <1>9, CoreIs, RestIs
<1>11. Sound(p)
  <2>1. \A m \in Sections \ p.known : p.transport[m].gather = "new"
    <3>1. \A m \in Sections \ p.known : m \notin new
      BY <1>2, <1>10 DEF Routes, Listed
    <3> HIDE DEF new
    <3> QED  BY <1>2, <1>7, <1>9, <1>10, <3>1 DEF Sound
  <2> QED  BY <1>2, <1>9, <1>10, <2>1 DEF Sound
<1>12. /\ Keeps(p, q) /\ Rest(q) = Rest(p) /\ q.transport = p.transport
       /\ q.seen.connection = p.seen.connection /\ q.seen.ice = p.seen.ice
       /\ q.seen.gathering = GatheringState(q)
  <2>1. CASE \E t \in new : p.transport[t].heard
    BY <1>11, <2>1, UpdatesAre
  <2>2. CASE ~\E t \in new : p.transport[t].heard
    <3>1. q = p
      BY <2>2
    <3>2. new = {}
      <4>1. \A t \in new : p.transport[t].heard
        <5> HIDE DEF new
        <5> QED  BY <1>4, <1>5, <1>7, <1>9
      <4> HIDE DEF new
      <4> QED  BY <2>2, <4>1
    <3> HIDE DEF new, q
    <3>3. GatheringState(p) = GatheringState(pc)
      BY <1>5, <1>7, <1>9, <1>10, <3>2, StatesSame DEF Listed
    <3>4. p.seen.gathering = GatheringState(p)
      BY <1>2, <1>9, <3>3 DEF SeesAll
    <3> QED  BY <1>11, <3>1, <3>4, KeepsSelf
  <2> QED  BY <2>1, <2>2
<1> HIDE DEF q, new
<1>13. /\ q \in Peer /\ Sound(q) /\ q.signaling = pc.signaling /\ q.closed = pc.closed /\ q.via = pc.via
       /\ q.known = pc.known /\ q.described = pc.described /\ q.remote = pc.remote
       /\ q.call = pc.call /\ q.closing = pc.closing /\ q.late = pc.late
       /\ q.work = pc.work /\ q.connect = pc.connect /\ q.transport = f
  <2>1. Core(q) = Core(p) /\ Rest(q) = Rest(p) /\ Sound(q)
    BY <1>12 DEF Keeps
  <2>2. q \in Peer
    BY <2>1 DEF Sound
  <2> QED  BY <1>9, <1>10, <1>12, <2>1, <2>2, CoreIs, RestIs
<1>14. SeesAll(q)
  BY <1>2, <1>7, <1>9, <1>10, <1>12, <1>13, StatesSame DEF SeesAll, Listed
<1>15. /\ r \in Peer /\ Frame(r) = Frame(q) /\ r.via = q.via /\ r.remote = q.remote
       /\ r.signaling = q.signaling /\ r.connect = q.connect
       /\ q.described \subseteq r.described /\ r.described \subseteq q.known
       /\ type = "offer" => r.described = q.known
  <2>1. q.known \in Groups /\ q.agreed \in Groups /\ q.agreed \cup q.known \in Groups
    BY <1>13 DEF Peer, Groups
  <2>2. q.described \subseteq q.known
    BY <1>2, <1>13 DEF Routes
  <2> QED  BY <1>13, <2>1, <2>2 DEF Peer, Frame
<1> HIDE DEF r
<1>16. /\ o \in Peer /\ Frame(o) = Frame(r) /\ o.via = r.via /\ o.remote = r.remote
       /\ o.signaling = (IF type = "offer" THEN "have-local-offer" ELSE "stable")
       /\ o.connect = r.connect /\ o.described = r.described
       /\ o.call.what = "local" /\ o.call.old = <<>>
  <2> DEFINE k == [what |-> "local", type |-> type, old |-> <<>>]
             x == IF type = "offer" THEN "have-local-offer" ELSE "stable"
             n == r.calls + 1
  <2>1. o = [r EXCEPT !.signaling = x, !.call = k, !.calls = n]
    BY <1>15 DEF Calling, Signaled, Peer
  <2>0. n \in Nat
    BY <1>15 DEF Peer
  <2>2. k \in Call /\ k.what = "local" /\ k.old = <<>>
    BY DEF Call
  <2>3. x \in Signalings
    BY DEF Signalings
  <2> HIDE DEF k, x, o, n
  <2>4. o \in Peer
    BY <1>15, <2>0, <2>1, <2>2, <2>3 DEF Peer
  <2>5. /\ Frame(o) = Frame(r) /\ o.via = r.via /\ o.remote = r.remote
        /\ o.signaling = x /\ o.connect = r.connect /\ o.described = r.described
        /\ o.call = k
    BY <1>15, <2>1 DEF Peer, Frame
  <2> QED  BY <2>2, <2>4, <2>5 DEF x
<1> HIDE DEF o
<1>17. /\ o.closed = pc.closed /\ o.closing = pc.closing /\ o.seen = q.seen
       /\ o.transport = f /\ o.known = pc.known /\ o.late = pc.late /\ o.work = pc.work
       /\ o.via = pc.via /\ o.remote = pc.remote /\ o.connect = pc.connect
  <2>1. Frame(o) = Frame(q)
    BY <1>15, <1>16
  <2> QED  BY <1>13, <1>15, <1>16, <2>1, FrameIs
<1>18. Sound(o)
  BY <1>13, <1>16, <1>17 DEF Sound
<1>19. Routes(o)
  <2>1. DOMAIN o.call.old = {}
    BY <1>16
  <2>2. pc.described \subseteq o.described /\ o.described \subseteq o.known
        /\ (o.signaling = "have-local-offer" => o.described # {})
    BY <1>1, <1>13, <1>15, <1>16, <1>17
  <2>3. \A t \in Sections : /\ o.transport[t].listed = pc.transport[t].listed
                            /\ o.transport[t].start = pc.transport[t].start
    BY <1>7, <1>17
  <2> QED  BY <1>2, <1>16, <1>17, <2>1, <2>2, <2>3 DEF Routes
<1>20. Waits(o)
  BY <1>2, <1>17, WaitsStill
<1>21. Listening(o)
  <2>1. \A t \in Sections : f[t].listed => f[t].heard /\ f[t].ice # "closed"
    BY <1>4, <1>7 DEF Listed
  <2>2. \A t \in Sections : f[t].ice = "closed" => f[t].start = "no"
    BY <1>2, <1>7 DEF Listening
  <2> QED  BY <1>16, <1>17, <2>1, <2>2 DEF Listening
<1>22. SeesAll(o)
  BY <1>13, <1>14, <1>17, SeenApart DEF SeesAll
<1>23. StepsFit(o)
  BY <1>1, <1>2, <1>17 DEF StepsFit
<1> QED  BY <1>1, <1>a, <1>17, <1>18, <1>19, <1>20, <1>21, <1>22, <1>23 DEF Good, SeenFits

LEMMA MasterIs ==
  ASSUME NEW p \in Peer, Routes(p), bundles, p.described # {}
  PROVE  /\ Master(p) \in Sections /\ p.via[Master(p)] = Master(p)
         /\ \A m \in p.remote : p.via[m] = Master(p)
<1>1. p.remote \subseteq Sections /\ p.described \subseteq Sections /\ p.via \in [Sections -> Sections]
  BY DEF Peer, Groups, Vias
<1>2. CASE p.remote # {}
  <2> DEFINE c == CHOOSE m \in p.remote : TRUE
  <2>1. c \in p.remote
    BY <1>2
  <2>2. Master(p) = p.via[c]
    BY <1>2 DEF Master
  <2> HIDE DEF c
  <2> QED  BY <1>1, <2>1, <2>2 DEF Routes
<1>3. CASE p.remote = {}
  <2> DEFINE T == {i \in DOMAIN Media : Media[i] \in p.described}
             c == FirstDescribed(p)
  <2>1. DOMAIN Media = 1 .. Len(Media) /\ Len(Media) \in Nat /\ Media \in Seq(Sections)
    BY PeerAssumption
  <2>2. T # {}
    <3>1. PICK m \in p.described : TRUE
      OBVIOUS
    <3>2. m \in Range(Media)
      BY <1>1 DEF Sections
    <3> QED  BY <3>2 DEF Range
  <2>3. T \subseteq Nat
    BY <2>1
  <2>4. PICK i \in T : \A j \in T : i <= j
    <3> HIDE DEF T
    <3> QED  BY <2>2, <2>3, LeastNatural
  <2>5. \A j \in 1 .. i - 1 : Media[j] \notin p.described
    <3>1. ASSUME NEW j \in 1 .. i - 1, Media[j] \in p.described
          PROVE  FALSE
      <4>1. j \in DOMAIN Media /\ j < i
        BY <2>1
      <4>2. j \in T
        BY <3>1, <4>1
      <4>3. i <= j /\ i \in Nat /\ j \in Nat
        BY <2>3, <2>4, <4>2
      <4> QED  BY <4>1, <4>3
    <3> QED  BY <3>1
  <2>6. c \in DOMAIN Media /\ Media[c] \in p.described
    <3>1. \E k \in DOMAIN Media : Media[k] \in p.described /\ \A j \in 1 .. k - 1 : Media[j] \notin p.described
      BY <2>5
    <3> QED  BY <3>1 DEF FirstDescribed
  <2>7. Master(p) = Media[c]
    BY <1>3 DEF Master
  <2> HIDE DEF c, T
  <2> QED  BY <1>1, <1>3, <2>6, <2>7 DEF Routes
<1> QED  BY <1>2, <1>3

(* The sections whose transports are given up.                             *)
LEMMA ReplacedIs ==
  ASSUME NEW p, NEW q
  PROVE  Replaced(p, q) \in Seq({m \in Sections : q.via[m] # p.via[m]})
<1> DEFINE U == {m \in Sections : q.via[m] # p.via[m]}
           S == Seq(U)
           s == Media
           b == <<>>
           Op(old, m) == IF q.via[m] # p.via[m] THEN Append(old, m) ELSE old
           f == [y \in S \X Sections |-> Op(y[1], y[2])]
           Fold(it) == it = [d \in SUBSET (DOMAIN s) |->
             IF d = {} THEN b ELSE Op(it[d \ {Max(d)}], s[Max(d)])]
           n == Len(s)
           jt == CHOOSE it : Fold(it)
           W == [k \in 0 .. n |-> S]
<1>0. s \in Seq(Sections)
  BY PeerAssumption
<1>1. Replaced(p, q) = jt[DOMAIN s]
  BY DEF Replaced, FoldLeft, MapThenFoldSet
<1>a. b \in S
  OBVIOUS
<1>2. ASSUME NEW o \in S, NEW m \in Sections PROVE Op(o, m) \in S
  <2>1. q.via[m] # p.via[m] => m \in U
    OBVIOUS
  <2> HIDE DEF U
  <2> QED  BY <2>1
<1>3. f \in [S \X Sections -> S] /\ \A o \in S, m \in Sections : f[<<o, m>>] = Op(o, m)
  BY <1>2
<1> HIDE DEF Op, f, s, S, b
<1>4. PICK it : it \in FoldTables(S, f, b, s)
  <2>1. FoldTables(S, f, b, s) # {}
    BY <1>0, <1>a, <1>3, FoldExists
  <2> QED  BY <2>1
<1>5. Fold(it)
  <2>1. \A d \in SUBSET (1 .. n) :
          it[d] = IF d = {} THEN b ELSE Op(it[d \ {Max(d)}], s[Max(d)])
    BY <1>0, <1>3, <1>4, FoldIndices DEF FoldTables
  <2>2. it \in [SUBSET (DOMAIN s) -> S]
    BY <1>0, <1>4, FoldIndices DEF FoldTables
  <2>3. DOMAIN s = 1 .. n
    BY <1>0, FoldIndices
  <2> HIDE DEF n
  <2> QED  BY <2>1, <2>2, <2>3
<1>6. Fold(jt)
  BY <1>5
<1> HIDE DEF jt
<1>7. jt[{}] \in W[0]
  BY <1>0, <1>a, <1>6, FoldIndices
<1>8. ASSUME NEW k \in 0 .. n - 1, jt[1 .. k] \in W[k]
      PROVE  jt[1 .. k + 1] \in W[k + 1]
  <2>1. /\ 1 .. k + 1 \in SUBSET (DOMAIN s) /\ 1 .. k + 1 # {} /\ s[k + 1] \in Sections
        /\ Max(1 .. k + 1) = k + 1 /\ (1 .. k + 1) \ {k + 1} = 1 .. k
    BY <1>0, FoldIndices
  <2>2. jt[1 .. k + 1] = Op(jt[1 .. k], s[k + 1])
    BY <1>6, <2>1
  <2>3. jt[1 .. k] \in S /\ k + 1 \in 0 .. n
    BY <1>0, <1>8, FoldIndices
  <2> HIDE DEF n
  <2>4. Op(jt[1 .. k], s[k + 1]) \in S
    BY <1>2, <2>1, <2>3
  <2> QED  BY <2>2, <2>3, <2>4
<1>9. jt[DOMAIN s] \in W[n]
  <2>1. n \in Nat /\ DOMAIN s = 1 .. n
    BY <1>0, FoldIndices
  <2> HIDE DEF W, n
  <2> QED  BY <1>7, <1>8, <2>1, FoldStays
<1>10. W[n] = S
  BY <1>0, FoldIndices
<1> QED  BY <1>1, <1>9, <1>10 DEF S

(* An answer agrees on what was described, an offer describes everything.  *)
Describes(p, d, a) == [p EXCEPT !.described = d, !.agreed = a]

LEMMA DescribedGood ==
  ASSUME NEW p, Good(p), NEW d \in {p.described, Sections}, d \subseteq p.known,
         NEW a \in Groups
  PROVE  LET q == Describes(p, d, a)
         IN /\ Good(q) /\ q.call = p.call /\ q.via = p.via /\ q.remote = p.remote
            /\ q.described = d /\ q.known = p.known /\ q.signaling = p.signaling
<1> DEFINE q == Describes(p, d, a)
<1>1. p \in Peer /\ Routes(p) /\ Waits(p)
  BY GoodIs
<1>2. d \in Groups /\ p.described \subseteq d
  BY <1>1 DEF Peer, Groups
<1>3. q \in Peer
  BY <1>1, <1>2 DEF Peer, Describes
<1>4. /\ Frame(q) = Frame(p) /\ q.call = p.call /\ q.via = p.via /\ q.remote = p.remote
      /\ q.described = d /\ q.signaling = p.signaling /\ q.connect = p.connect
      /\ q.transport = p.transport /\ q.known = p.known
  BY <1>1 DEF Peer, Frame, Describes
<1> HIDE DEF q
<1>5. Routes(q)
  BY <1>1, <1>2, <1>4 DEF Routes
<1>6. Waits(q)
  BY <1>1, <1>4, WaitsStill
<1>7. ~p.closed => Listening(q)
  BY <1>4, GoodIs, ListensStill
<1>8. Good(q)
  BY <1>3, <1>4, <1>5, <1>6, <1>7, FrameGood
<1> QED  BY <1>4, <1>8 DEF q

LEMMA SetRemoteDescriptionGood ==
  ASSUME Good(pc), bundles \in BOOLEAN, NEW type \in {"offer", "answer"}, SetRemoteDescription(type)
  PROVE  Good(pc')
<1> DEFINE a == Adds(pc, Sections \ pc.known)
           p == IF type = "answer" THEN [pc EXCEPT !.agreed = @ \cup pc.described]
                ELSE [a EXCEPT !.described = Sections]
           q == IF bundles THEN Bundled(p) ELSE p
           old == Replaced(p, q)
           o == Calling([q EXCEPT !.remote = @ \cup q.described], "remote", type, old)
<1>1. pc' = o
  BY DEF SetRemoteDescription
<1>2. pc.call = NoCall /\ Accepts(type, "have-remote-offer")
  BY DEF SetRemoteDescription, MayCall
<1>3. pc \in Peer /\ Routes(pc)
  BY GoodIs
<1>4. /\ Good(p) /\ p.call = NoCall
      /\ p.described # {} \/ (p.described = Sections)
  <2>1. CASE type = "answer"
    <3> DEFINE d == pc.described
               g == pc.agreed \cup pc.described
    <3>1. d \subseteq pc.known /\ g \in Groups
      BY <1>3 DEF Peer, Groups, Routes
    <3>2. p = Describes(pc, d, g)
      BY <1>3, <2>1 DEF Peer, Describes
    <3> HIDE DEF g, p
    <3>3. Good(p) /\ p.call = pc.call /\ p.described = d
      BY <3>1, <3>2, DescribedGood
    <3>4. pc.described # {}
      <4>1. pc.signaling = "have-local-offer"
        BY <1>2, <1>3, <2>1 DEF Accepts, Peer, Signalings
      <4> QED  BY <1>3, <4>1 DEF Routes
    <3> QED  BY <1>2, <3>3, <3>4
  <2>2. CASE type = "offer"
    <3>1. pc.known \in SUBSET Sections
      BY <1>3 DEF Peer, Groups
    <3>2. Good(a) /\ a.call = pc.call /\ a.known = pc.known \cup (Sections \ pc.known)
      BY <3>1, AddsGood
    <3> HIDE DEF a
    <3>3. a \in Peer /\ Sections \subseteq a.known /\ a.agreed \in Groups
      BY <3>2, GoodIs DEF Peer
    <3>4. p = Describes(a, Sections, a.agreed)
      BY <2>2, <3>3 DEF Peer, Describes
    <3> HIDE DEF p
    <3>5. Good(p) /\ p.call = a.call /\ p.described = Sections
      BY <3>2, <3>3, <3>4, DescribedGood
    <3> QED  BY <1>2, <3>2, <3>5
  <2> QED  BY <2>1, <2>2
<1> HIDE DEF p
<1>5. p \in Peer /\ Routes(p) /\ Waits(p) /\ (~p.closed => Listening(p))
  BY <1>4, GoodIs
<1>6. p.described \subseteq Sections /\ p.via \in [Sections -> Sections]
  BY <1>5 DEF Peer, Groups, Vias
<1> DEFINE v == IF bundles THEN [m \in Sections |-> IF m \in p.described THEN Master(p) ELSE p.via[m]]
                ELSE p.via
           g == p.remote \cup p.described
           k == [what |-> "remote", type |-> type, old |-> old]
           n == p.calls + 1
<1>7. q = [p EXCEPT !.via = v]
  BY <1>5 DEF Bundled, Peer
<1>8. /\ v \in Vias /\ \A m \in Sections : v[m] = m => p.via[m] = m
      /\ \A m \in Sections \ g : v[m] = m
      /\ \A m \in Sections : v[v[m]] = v[m]
      /\ IF bundles THEN \A m, i \in g : v[m] = v[i] ELSE \A m \in Sections : v[m] = m
      /\ \A t \in Sections : (\E m \in p.remote : p.via[m] = t) => \E m \in g : v[m] = t
      /\ \A m \in Sections : v[m] # p.via[m] => \A i \in g : v[i] # m
  <2>1. CASE ~bundles
    <3>1. v = p.via /\ \A m \in Sections : v[m] = m
      BY <1>5, <2>1 DEF Routes
    <3> HIDE DEF v
    <3> QED  BY <1>5, <1>6, <2>1, <3>1 DEF Routes, Vias
  <2>2. CASE bundles
    <3> DEFINE M == Master(p)
    <3>1. p.described # {} => /\ M \in Sections /\ p.via[M] = M
                              /\ \A m \in p.remote : p.via[m] = M
      BY <1>5, <2>2, MasterIs
    <3>2. \A m \in Sections : m \in p.described => p.described # {}
      OBVIOUS
    <3>3. p.remote \subseteq p.described /\ g = p.described
      BY <1>5 DEF Routes
    <3>4. \A m \in Sections : v[m] = IF m \in p.described THEN M ELSE p.via[m]
      BY <2>2
    <3>5. v \in Vias
      BY <1>6, <2>2, <3>1, <3>2 DEF Vias
    <3> HIDE DEF v, g, M
    <3>6. \A m \in Sections \ p.described : p.via[m] = m
      BY <1>5, <3>3 DEF Routes
    <3>7. \A m \in Sections : v[m] = m => p.via[m] = m
      BY <3>1, <3>2, <3>4
    <3>8. \A m \in Sections : v[v[m]] = v[m]
      BY <3>1, <3>2, <3>4, <3>6
    <3>9. \A m, i \in g : v[m] = v[i]
      BY <1>6, <3>3, <3>4
    <3>10. \A t \in Sections : (\E m \in p.remote : p.via[m] = t) => \E m \in g : v[m] = t
      BY <1>6, <3>1, <3>3, <3>4
    <3>11. \A m \in Sections : v[m] # p.via[m] => \A i \in g : v[i] # m
      BY <1>6, <3>1, <3>3, <3>4
    <3>12. \A m \in Sections \ g : v[m] = m
      BY <3>3, <3>4, <3>6
    <3> QED  BY <2>2, <3>5, <3>7, <3>8, <3>9, <3>10, <3>11, <3>12
  <2> QED  BY <2>1, <2>2
<1>9. /\ old \in Seq(Sections)
      /\ \A i \in DOMAIN old : old[i] \in Sections /\ v[old[i]] # p.via[old[i]]
  <2>1. q.via = v
    BY <1>5, <1>7 DEF Peer
  <2> HIDE DEF q, v
  <2> DEFINE U == {m \in Sections : v[m] # p.via[m]}
  <2>2. old \in Seq(U)
    BY <2>1, ReplacedIs
  <2> HIDE DEF old
  <2>3. \A i \in DOMAIN old : old[i] \in U
    BY <2>2
  <2>4. \A i \in DOMAIN old : old[i] \in Sections
    BY <2>3
  <2>5. old \in Seq(Sections)
    <3>1. U \subseteq Sections
      OBVIOUS
    <3> HIDE DEF U
    <3> QED  BY <2>2, <3>1
  <2> QED  BY <2>3, <2>5
<1> HIDE DEF old
<1>10. o = [p EXCEPT !.via = v, !.remote = g, !.call = k, !.calls = n]
  <2> HIDE DEF v
  <2> QED  BY <1>5, <1>7 DEF Calling, Peer
<1>11. k \in Call /\ k.what = "remote" /\ k.old = old
  BY <1>9 DEF Call
<1>12. g \in Groups /\ n \in Nat
  BY <1>5 DEF Peer, Groups
<1>13. p.remote \subseteq g /\ g = p.described
  BY <1>5 DEF Routes
<1> HIDE DEF o, q, v, g, k, n
<1>14. o \in Peer
  BY <1>5, <1>8, <1>10, <1>11, <1>12 DEF Peer
<1>15. /\ Frame(o) = Frame(p) /\ o.call = k /\ o.via = v /\ o.remote = g
       /\ o.described = p.described /\ o.signaling = p.signaling /\ o.connect = p.connect
       /\ o.transport = p.transport /\ o.known = p.known
  BY <1>5, <1>10 DEF Peer, Frame
<1>16. Routes(o)
  <2>1. \A i \in DOMAIN o.call.old : \A m \in o.remote : o.via[m] # o.call.old[i]
    BY <1>8, <1>9, <1>11, <1>15
  <2>2. \A t \in Sections : o.transport[t].start # "no" => \E m \in o.remote : o.via[m] = t
    BY <1>5, <1>8, <1>15 DEF Routes
  <2>3. IF bundles THEN \A m, i \in o.remote : o.via[m] = o.via[i] ELSE \A m \in Sections : o.via[m] = m
    BY <1>8, <1>15
  <2> QED  BY <1>5, <1>8, <1>11, <1>13, <1>15, <2>1, <2>2, <2>3 DEF Routes
<1>17. Waits(o)
  BY <1>5, <1>13, <1>15 DEF Waits
<1>18. ASSUME ~p.closed PROVE Listening(o)
  <2>1. Range(p.call.old) = {} /\ p.call.what # "local"
    <3>1. NoCall.old = <<>> /\ NoCall.what # "local"
      BY DEF NoCall
    <3>2. p.call.old = <<>> /\ p.call.what # "local"
      BY <1>4, <3>1
    <3> QED  BY <3>2 DEF Range
  <2> QED  BY <1>5, <1>15, <1>18, <2>1 DEF Listening
<1>19. Good(o)
  BY <1>4, <1>8, <1>14, <1>15, <1>16, <1>17, <1>18, FrameGood
<1> QED  BY <1>1, <1>19

-----------------------------------------------------------------------------
(* close() takes every step.                                               *)

LEMMA Halves ==
  ASSUME NEW i \in Nat \ {0}
  PROVE  /\ (2 * i - 1) % 2 = 1 /\ (2 * i) % 2 = 0
         /\ ((2 * i - 1) + 1) \div 2 = i /\ (2 * i + 1) \div 2 = i
  OBVIOUS

LEMMA CloseStepsAre ==
  /\ CloseSteps \in Seq(Steps)
  /\ \A s \in Steps : \E i \in DOMAIN CloseSteps : CloseSteps[i] = s
<1> DEFINE n == Len(Media)
           a == [i \in 1 .. 2 * n |->
                  <<IF i % 2 = 1 THEN "receiver" ELSE "sender", Media[(i + 1) \div 2]>>]
           b == [i \in 1 .. n |-> <<"transport", Media[i]>>]
<1>1. Media \in Seq(Sections) /\ n \in Nat /\ 2 * n \in Nat
  BY PeerAssumption
<1>2. \A i \in 1 .. n : Media[i] \in Sections
  BY <1>1
<1>3. CloseSteps = a \o b
  BY DEF CloseSteps
<1>4. a \in Seq(Steps) /\ Len(a) = 2 * n /\ DOMAIN a = 1 .. 2 * n
  <2>1. ASSUME NEW i \in 1 .. 2 * n
        PROVE  a[i] \in Steps
    <3>1. (i + 1) \div 2 \in 1 .. n
      BY <1>1
    <3> QED  BY <1>2, <3>1 DEF Steps
  <2>2. a = [i \in 1 .. 2 * n |-> a[i]]
    OBVIOUS
  <2> HIDE DEF a
  <2> QED  BY <1>1, <2>1, <2>2
<1>5. b \in Seq(Steps) /\ Len(b) = n /\ DOMAIN b = 1 .. n
  <2>1. ASSUME NEW i \in 1 .. n
        PROVE  b[i] \in Steps
    BY <1>2 DEF Steps
  <2>2. b = [i \in 1 .. n |-> b[i]]
    OBVIOUS
  <2> HIDE DEF b
  <2> QED  BY <1>1, <2>1, <2>2
<1>6. /\ a \o b \in Seq(Steps) /\ DOMAIN (a \o b) = 1 .. 3 * n
      /\ \A i \in 1 .. 2 * n : (a \o b)[i] = a[i]
      /\ \A i \in 1 .. n : (a \o b)[2 * n + i] = b[i]
  <2> HIDE DEF a, b, n
  <2>1. a \o b \in Seq(Steps)
    BY <1>4, <1>5
  <2>2. Len(a \o b) = 3 * n
    BY <1>1, <1>4, <1>5
  <2>3. \A i \in 1 .. 2 * n : (a \o b)[i] = a[i]
    BY <1>1, <1>4, <1>5
  <2>4. \A i \in 1 .. n : (a \o b)[2 * n + i] = b[i]
    BY <1>1, <1>4, <1>5
  <2>5. \A m \in {a \o b} : m \in Seq(Steps) /\ Len(m) = 3 * n => DOMAIN m = 1 .. 3 * n
    BY <1>1
  <2> QED  BY <2>1, <2>2, <2>3, <2>4, <2>5
<1>7. ASSUME NEW s \in Steps
      PROVE  \E i \in 1 .. 3 * n : (a \o b)[i] = s
  <2>1. s = <<s[1], s[2]>> /\ s[1] \in {"receiver", "sender", "transport"} /\ s[2] \in Sections
    BY DEF Steps
  <2>2. PICK i \in 1 .. n : Media[i] = s[2]
    BY <1>1, <2>1 DEF Sections, Range
  <2>3. i \in Nat \ {0} /\ 2 * i - 1 \in 1 .. 2 * n /\ 2 * i \in 1 .. 2 * n
    BY <1>1
  <2>4. CASE s[1] = "transport"
    <3>1. b[i] = s
      BY <2>1, <2>2, <2>4
    <3>2. 2 * n + i \in 1 .. 3 * n
      BY <1>1
    <3> HIDE DEF a, b, n
    <3> QED  BY <1>6, <3>1, <3>2
  <2>5. CASE s[1] = "receiver"
    <3>1. a[2 * i - 1] = <<"receiver", Media[i]>>
      BY <2>3, Halves
    <3>2. 2 * i - 1 \in 1 .. 3 * n
      BY <1>1, <2>3
    <3> HIDE DEF a, b, n
    <3> QED  BY <1>6, <2>1, <2>2, <2>3, <2>5, <3>1, <3>2
  <2>6. CASE s[1] = "sender"
    <3>1. a[2 * i] = <<"sender", Media[i]>>
      BY <2>3, Halves
    <3>2. 2 * i \in 1 .. 3 * n
      BY <1>1, <2>3
    <3> HIDE DEF a, b, n
    <3> QED  BY <1>6, <2>1, <2>2, <2>3, <2>6, <3>1, <3>2
  <2> QED  BY <2>1, <2>4, <2>5, <2>6
<1> HIDE DEF a, b
<1> QED  BY <1>3, <1>6, <1>7

(* Whoever has gone through the steps that are left is where it should be. *)
LEMMA ClosesOnGood ==
  ASSUME NEW p, Sound(p), Routes(p), Waits(p), p.closed, NEW s \in Seq(Steps),
         \A x \in Steps : x \in Range(s) \/ Stopped(p, x)
  PROVE  Good(ClosesOn(p, s))
<1> DEFINE q == ClosesOn(p, s)
<1>1. /\ Keeps(p, q) /\ q.connect = p.connect
      /\ \A i \in DOMAIN s : s[i] \in Range(q.closing) \/ Stopped(q, s[i])
      /\ q.closing # <<>> => Stopping(q, Head(q.closing))
      /\ q.closing = <<>> => SeesClosed(q)
  BY ClosesOnIs
<1> HIDE DEF q
<1>2. q.closed /\ q.remote = p.remote /\ Sound(q)
  BY <1>1, CoreIs DEF Keeps
<1>3. Routes(q)
  BY <1>1, KeepsRoutes
<1>4. Waits(q)
  BY <1>1, <1>2, WaitsStill
<1>5. SeenFits(q)
  BY <1>1, <1>2 DEF SeenFits
<1>6. ASSUME NEW x \in Steps PROVE x \in Range(q.closing) \/ Stopped(q, x)
  <2>1. CASE x \in Range(s)
    <3>1. PICK i \in DOMAIN s : s[i] = x
      BY <2>1 DEF Range
    <3> QED  BY <1>1, <3>1
  <2>2. CASE Stopped(p, x)
    BY <1>1, <2>2, KeepsStopped
  <2> QED  BY <2>1, <2>2
<1>7. StepsFit(q)
  BY <1>1, <1>2, <1>6 DEF StepsFit
<1> QED  BY <1>2, <1>3, <1>4, <1>5, <1>7 DEF Good, q

LEMMA CloseGood ==
  ASSUME Good(pc), Close
  PROVE  Good(pc')
<1> DEFINE p == [pc EXCEPT !.closed = TRUE, !.signaling = "closed"]
<1>1. pc' = ClosesOn(p, CloseSteps)
  BY DEF Close
<1>2. pc \in Peer /\ Sound(pc) /\ Routes(pc) /\ Waits(pc)
  BY GoodIs
<1>3. p \in Peer
  BY <1>2 DEF Peer, Signalings
<1>4. /\ p.closed /\ p.signaling = "closed" /\ p.via = pc.via /\ p.known = pc.known
      /\ p.described = pc.described /\ p.remote = pc.remote /\ p.call = pc.call
      /\ p.transport = pc.transport /\ p.work = pc.work /\ p.connect = pc.connect
  BY <1>2 DEF Peer
<1> HIDE DEF p
<1>5. Sound(p)
  BY <1>2, <1>3, <1>4 DEF Sound
<1>6. Routes(p)
  BY <1>2, <1>4 DEF Routes
<1>7. Waits(p)
  BY <1>2, <1>4, WaitsStill
<1>8. \A x \in Steps : x \in Range(CloseSteps)
  <2>1. \A x \in Steps : \E i \in DOMAIN CloseSteps : CloseSteps[i] = x
    BY CloseStepsAre
  <2> QED  BY <2>1 DEF Range
<1> QED  BY <1>1, <1>4, <1>5, <1>6, <1>7, <1>8, CloseStepsAre, ClosesOnGood

LEMMA TailRange ==
  ASSUME NEW T, NEW s \in Seq(T), s # <<>>
  PROVE  /\ Head(s) \in T /\ Tail(s) \in Seq(T)
         /\ \A x \in Range(s) : x = Head(s) \/ x \in Range(Tail(s))
<1>1. Head(s) \in T /\ Tail(s) \in Seq(T) /\ Len(s) \in Nat \ {0} /\ Len(Tail(s)) = Len(s) - 1
  OBVIOUS
<1>2. \A i \in DOMAIN s : i = 1 \/ (i - 1 \in DOMAIN Tail(s) /\ Tail(s)[i - 1] = s[i])
  <2>1. ASSUME NEW i \in DOMAIN s, i # 1
        PROVE  i - 1 \in DOMAIN Tail(s) /\ Tail(s)[i - 1] = s[i]
    <3>1. i \in 1 .. Len(s) /\ i - 1 \in 1 .. Len(s) - 1
      BY <1>1, <2>1
    <3>2. i - 1 \in DOMAIN Tail(s)
      BY <1>1, <3>1
    <3>3. Tail(s)[i - 1] = s[(i - 1) + 1]
      BY <1>1, <3>1
    <3>4. (i - 1) + 1 = i
      BY <3>1
    <3> QED  BY <3>2, <3>3, <3>4
  <2> QED  BY <2>1
<1>3. s[1] = Head(s)
  OBVIOUS
<1> DEFINE rest == Tail(s)
           h == Head(s)
<1> HIDE DEF rest, h
<1>4. \A i \in DOMAIN s : s[i] = h \/ \E j \in DOMAIN rest : s[i] = rest[j]
  BY <1>2, <1>3 DEF rest, h
<1>5. \A x \in Range(s) : x = h \/ x \in Range(rest)
  BY <1>4 DEF Range
<1> QED  BY <1>1, <1>5 DEF rest, h

LEMMA CloseGoesOnGood ==
  ASSUME Good(pc), CloseGoesOn
  PROVE  Good(pc')
<1> DEFINE s == pc.closing
<1>1. pc' = ClosesOn(pc, Tail(s)) /\ s # <<>> /\ Over(pc, Head(s))
  BY DEF CloseGoesOn
<1>2. Sound(pc) /\ Routes(pc) /\ Waits(pc) /\ StepsFit(pc) /\ s \in Seq(Steps)
  BY GoodIs DEF Peer
<1>3. /\ pc.closed /\ Stopping(pc, Head(s))
      /\ \A x \in Steps : x \in Range(s) \/ Stopped(pc, x)
  BY <1>1, <1>2 DEF StepsFit
<1> HIDE DEF s
<1>4. /\ Head(s) \in Steps /\ Tail(s) \in Seq(Steps)
      /\ \A x \in Range(s) : x = Head(s) \/ x \in Range(Tail(s))
  BY <1>1, <1>2, TailRange
<1>5. Stopped(pc, Head(s))
  BY <1>1, <1>2, <1>3, <1>4, OverIs
<1>6. \A x \in Steps : x \in Range(Tail(s)) \/ Stopped(pc, x)
  BY <1>3, <1>4, <1>5
<1> QED  BY <1>1, <1>2, <1>3, <1>4, <1>6, ClosesOnGood

-----------------------------------------------------------------------------
(* The invariant.                                                          *)

LEMMA PeerInitGood ==
  ASSUME PeerInit
  PROVE  PeerInv
<1>1. /\ pc.signaling = "stable" /\ pc.closed = FALSE /\ pc.closing = <<>>
      /\ pc.seen = [connection |-> "new", ice |-> "new", gathering |-> "new"]
      /\ pc.transport = [m \in Sections |-> NoTransport]
      /\ pc.via = [m \in Sections |-> m]
      /\ pc.known = {} /\ pc.described = {} /\ pc.agreed = {} /\ pc.remote = {} /\ pc.late = {}
      /\ pc.work = [m \in Sections |-> NoTask]
      /\ pc.call = NoCall /\ pc.calls = 0
      /\ pc.connect = [c \in Calls |-> NoConnect]
  BY DEF PeerInit
<1>2. bundles \in BOOLEAN
  BY PeerAssumption DEF PeerInit
<1>3. pc \in Peer
  <2>1. pc.seen \in Seen /\ pc.signaling \in Signalings
    BY <1>1 DEF Seen, States, Gathers, Signalings
  <2>2. pc.transport \in Transports
    BY <1>1 DEF Transports, NoTransport, Transport, Gathers, Ices, Starts, Links, Dtlses, Lives
  <2>3. pc.via \in Vias /\ {} \in Groups
    BY <1>1 DEF Vias, Groups
  <2>4. pc.work \in Works
    BY <1>1 DEF Works, NoTask, Lives
  <2>5. pc.call \in Call
    BY <1>1 DEF Call, NoCall
  <2>6. pc.connect \in Connects
    BY <1>1 DEF Connects, NoConnect
  <2>7. pc.closing \in Seq(Steps)
    BY <1>1
  <2> DEFINE n == "new"
             e == <<>>
             s == [connection |-> n, ice |-> n, gathering |-> n]
             t == [m \in Sections |-> NoTransport]
             v == [m \in Sections |-> m]
             w == [m \in Sections |-> NoTask]
             k == [c \in Calls |-> NoConnect]
             g == {}
  <2>8. pc = [signaling |-> "stable", closed |-> FALSE, closing |-> e, seen |-> s, transport |-> t,
              via |-> v, known |-> g, described |-> g, agreed |-> g, remote |-> g, late |-> g,
              work |-> w, call |-> NoCall, calls |-> 0, connect |-> k]
    BY DEF PeerInit
  <2>9. /\ s \in Seen /\ t \in Transports /\ v \in Vias /\ w \in Works /\ k \in Connects
        /\ NoCall \in Call /\ g \in Groups /\ "stable" \in Signalings /\ e \in Seq(Steps)
    BY <1>1, <2>1, <2>2, <2>3, <2>4, <2>5, <2>6, <2>7
  <2> HIDE DEF n, e, s, t, v, w, k, g
  <2> QED  BY <2>8, <2>9 DEF Peer
<1>4. \A t \in Sections : /\ ~pc.transport[t].listed /\ pc.transport[t].gather = "new"
                          /\ pc.transport[t].ice = "new" /\ pc.transport[t].start = "no"
  BY <1>1 DEF NoTransport
<1>5. Sound(pc)
  BY <1>1, <1>3, <1>4 DEF Sound, NoTask, Tasks, Stoppable
<1>6. Routes(pc)
  <2>1. pc.call.old = <<>> /\ DOMAIN pc.call.old = {}
    BY <1>1 DEF NoCall
  <2> QED  BY <1>1, <1>4, <2>1 DEF Routes
<1>7. SeenFits(pc)
  <2>1. Listed(pc) = {}
    BY <1>4 DEF Listed
  <2>2. IceStates(pc) = {} /\ DtlsStates(pc) = {}
    BY <2>1 DEF IceStates, DtlsStates
  <2>3. GatheringState(pc) = "new"
    BY <2>1 DEF GatheringState
  <2>4. ConnectionState(pc) = "new" /\ IceConnectionState(pc) = "new"
    BY <1>1, <2>2 DEF ConnectionState, IceConnectionState
  <2>5. Listening(pc)
    BY <1>4 DEF Listening
  <2> QED  BY <1>1, <2>3, <2>4, <2>5 DEF SeenFits, SeesAll
<1>8. Waits(pc)
  BY <1>1 DEF Waits, NoConnect
<1>9. StepsFit(pc)
  BY <1>1 DEF StepsFit
<1> QED  BY <1>2, <1>5, <1>6, <1>7, <1>8, <1>9 DEF PeerInv, Good

LEMMA PeerStepGood ==
  ASSUME PeerInv, [PeerNext]_peerVars
  PROVE  PeerInv'
<1>0. Good(pc) /\ bundles \in BOOLEAN
  BY DEF PeerInv
<1>1. bundles' = bundles
  BY DEF PeerNext, peerVars
<1>2. Good(pc')
  <2>1. ASSUME NEW m \in Sections, Add(m)
        PROVE  Good(pc')
    BY <1>0, <2>1, AddGood
  <2>2. ASSUME NEW type \in {"offer", "answer"}, SetLocalDescription(type)
        PROVE  Good(pc')
    BY <1>0, <2>2, SetLocalDescriptionGood
  <2>3. ASSUME NEW type \in {"offer", "answer"}, SetRemoteDescription(type)
        PROVE  Good(pc')
    BY <1>0, <2>3, SetRemoteDescriptionGood
  <2>4. ASSUME Close PROVE Good(pc')
    BY <1>0, <2>4, CloseGood
  <2>5. ASSUME Api PROVE Good(pc')
    BY <2>1, <2>2, <2>3, <2>4, <2>5 DEF Api
  <2>6. ASSUME LocalDescriptionSet \/ RemoteDescriptionSet \/ StopOld \/ DiscardOld \/ CloseGoesOn
        PROVE  Good(pc')
    BY <1>0, <2>6, LocalDescriptionSetGood, RemoteDescriptionSetGood, StopOldGood,
       DiscardOldGood, CloseGoesOnGood
  <2>7. ASSUME NEW c \in Calls, ConnectBegins(c) \/ Wakes(c)
        PROVE  Good(pc')
    BY <1>0, <2>7, ConnectBeginsGood, WakesGood
  <2>8. ASSUME NEW t \in Sections, NEW good \in BOOLEAN, HandshakeEnds(t, good)
        PROVE  Good(pc')
    BY <1>0, <2>8, HandshakeEndsGood
  <2>9. ASSUME NEW t \in Sections, RemoteCloses(t) \/ PumpEnds(t)
        PROVE  Good(pc')
    <3>1. Good(Disconnect(pc, t))
      BY <1>0, DisconnectGood
    <3> QED  BY <2>9, <3>1 DEF RemoteCloses, PumpEnds
  <2>10. ASSUME NEW t \in Sections,
                \/ GatherEnds(t) \/ ConsentTestEnds(t) \/ LinkShuts(t) \/ PumpEnds(t)
                \/ PumpCancelled(t) \/ FirstSteps(t) \/ HandshakeBreaks(t)
                \/ \E k \in Tasks : TaskEnds(t, k)
         PROVE  Good(pc')
    <3>1. ASSUME HandshakeBreaks(t) PROVE Good(pc')
      BY <2>8, <3>1 DEF HandshakeBreaks
    <3> QED  BY <1>0, <2>9, <2>10, <3>1, GatherEndsGood, ConsentGood, LinkShutsGood,
                PumpCancelledGood, FirstStepsGood, MediaGood
  <2>11. ASSUME Due PROVE Good(pc')
    BY <2>6, <2>7, <2>10, <2>11 DEF Due
  <2>12. ASSUME NEW t \in Sections, World(t)
         PROVE  Good(pc')
    <3>1. ASSUME NEW good \in BOOLEAN, IceEnds(t, good)
          PROVE  Good(pc')
      BY <1>0, <3>1, IceEndsGood
    <3>2. ASSUME ConsentExpires(t) \/ RtpEnds(t) \/ ReceiveBye(t)
          PROVE  Good(pc')
      BY <1>0, <3>2, ConsentGood, MediaGood
    <3> QED  BY <2>8, <2>9, <2>12, <3>1, <3>2 DEF World
  <2>13. ASSUME UNCHANGED peerVars PROVE Good(pc')
    <3>1. pc' = pc
      BY <2>13 DEF peerVars
    <3> QED  BY <1>0, <3>1
  <2> QED  BY <2>5, <2>11, <2>12, <2>13 DEF PeerNext
<1>3. Good(pc)'
  BY <1>1, <1>2 DEF Good, Routes
<1> QED  BY <1>0, <1>1, <1>3 DEF PeerInv

LEMMA PeerHolds ==
  PeerSpec => []PeerInv
<1>1. PeerInit => PeerInv
  BY PeerInitGood
<1>2. PeerInv /\ [PeerNext]_peerVars => PeerInv'
  BY PeerStepGood
<1> QED  BY <1>1, <1>2, PTL DEF PeerSpec

(* connectionState, iceConnectionState and iceGatheringState are what the  *)
(* transports come to, however many sections there are, bundled or not,    *)
(* and in whatever order the calls, the two protocols and the losses come. *)
THEOREM StatesHold == PeerSpec => []StatesAreTrue
<1>1. PeerInv => StatesAreTrue
  <2> SUFFICES ASSUME PeerInv PROVE StatesAreTrue
    OBVIOUS
  <2>1. SeenFits(pc)
    BY GoodIs DEF PeerInv
  <2> QED  BY <2>1 DEF SeenFits, SeesClosed, SeesAll, StatesAreTrue
<1> QED  BY <1>1, PeerHolds, PTL

(* Nothing that was started before close() was called runs on when it has  *)
(* returned, whatever it was called in the middle of.                      *)
THEOREM QuietHolds == PeerSpec => []ClosedIsQuiet
<1>1. PeerInv => ClosedIsQuiet
  <2> SUFFICES ASSUME PeerInv, pc.closed, pc.closing = <<>>, NEW m \in pc.known \ pc.late
               PROVE  /\ \A k \in Tasks : pc.work[m][k] \in {"none", "exited"}
                      /\ pc.transport[pc.via[m]].gather = "completed" =>
                           pc.transport[pc.via[m]].link = "shut"
    BY DEF ClosedIsQuiet
  <2>1. pc \in Peer /\ Routes(pc) /\ StepsFit(pc)
    BY GoodIs DEF PeerInv
  <2>2. m \in Sections /\ pc.via[m] \in Sections /\ pc.via[pc.via[m]] = pc.via[m]
    BY <2>1 DEF Peer, Groups, Vias, Routes
  <2>3. Range(pc.closing) = {}
    BY DEF Range
  <2>4. \A s \in Steps : Stopped(pc, s)
    BY <2>1, <2>3 DEF StepsFit
  <2>5. /\ <<"receiver", m>> \in Steps /\ <<"sender", m>> \in Steps
        /\ <<"transport", pc.via[m]>> \in Steps
    BY <2>2 DEF Steps
  <2>6. \A k \in {"reports", "decoder", "association"} : pc.work[m][k] \in AtRest
    BY <2>4, <2>5 DEF Stopped, Rests
  <2>7. \A k \in {"rtp", "rtcp"} : pc.work[m][k] \in AtRest
    BY <2>4, <2>5 DEF Stopped, Rests
  <2>8. pc.transport[pc.via[m]].link = "shut" \/ pc.transport[pc.via[m]].gather = "new"
    BY <2>2, <2>4, <2>5 DEF Stopped
  <2> QED  BY <2>6, <2>7, <2>8 DEF Tasks, AtRest
<1> QED  BY <1>1, PeerHolds, PTL
=============================================================================
