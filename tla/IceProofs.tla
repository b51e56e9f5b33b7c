----------------------------- MODULE IceProofs -----------------------------
(***************************************************************************)
(* Theorems about the two protocols of aioice: IceAgent, for any candidate *)
(* pairs and roles to begin with, and TurnClient, for any number of peers, *)
(* calls and retries and every use of nonces by the server.                *)
(***************************************************************************)
EXTENDS IceAgent, TurnClient, FiniteSetTheorems, TLAPS

(* Two ICE agents agree on who nominates.  The idea is that a role changes *)
(* at most once, and only when both agents have the same: the senior one   *)
(* then is controlling for good, the other one controlled.  Whatever still *)
(* travels of the old roles is refused, so no check succeeds before the    *)
(* roles differ.                                                           *)

Right(e) == agent[e].controlling = (e = Senior)
Final == \A e \in Agents : Right(e)
Differ == agent[Alice].controlling # agent[Bob].controlling
Full == \A e \in Agents : ~IsLite(e)

Checks == {"check", "nominate"}
Check == [stage : Checks \cup {"none"}, controlling : BOOLEAN, use : BOOLEAN, tries : Nat]

Phase == {"new", "checking", "awaiting", "connected", "failed", "lite"}
State == {"none", "frozen", "waiting", "in progress", "succeeded", "failed"}
Live == Checks \cup {"consent", "nobody"}

Agent ==
  [phase : Phase, controlling : BOOLEAN, nominating : BOOLEAN,
   list : [Paths -> State], check : [Paths -> Check],
   heard : SUBSET Paths, nominated : SUBSET Paths,
   early : SUBSET [path : Paths, use : BOOLEAN], selected : Paths \cup {NoPath},
   done : BOOLEAN, result : Seq({"completed", "failed"}), closed : BOOLEAN,
   consent : BOOLEAN, asked : Paths \cup {NoPath}, misses : Nat]

Requests ==
  [kind : {"request"}, to : Agents, path : Paths, controlling : BOOLEAN, use : BOOLEAN, live : Live]
Answers == [kind : {"ok", "conflict"}, to : Agents, path : Paths, live : Live]

IceTypes ==
  /\ agent \in [Agents -> Agent]
  /\ air \subseteq Requests \cup Answers
  /\ offered \in [Agents -> SUBSET Paths]

(* An ICE Lite agent asks nothing.                                         *)
AsksNothing(a) ==
  (\A p \in Paths : a.check[p] = NoCheck) /\ ~a.consent /\ a.asked = NoPath

(* Every check is made in the role its agent has, or had when the roles    *)
(* were not yet final.                                                     *)
ChecksFit ==
  \A e \in Agents, p \in Paths :
    LET c == agent[e].check[p]
    IN IF c.stage = "none" THEN c = NoCheck
       ELSE /\ c.controlling = agent[e].controlling \/ (Full /\ Final)
            /\ c.use => c.controlling
            /\ c.stage = "nominate" => c.controlling

(* The check that the message m is a part of; m belongs to e.              *)
Pending(e, m) == agent[e].check[m.path]

RequestFits(e, m) ==
  /\ ~IsLite(e)
  /\ m.controlling = agent[e].controlling \/ (Full /\ Final)
  /\ m.live \in Checks =>
       Pending(e, m).stage = m.live /\ Pending(e, m).controlling = m.controlling
  /\ m.use => m.path \in offered[e]

(* An answer has been given in the other role, a refusal in the right one. *)
AnswerFits(e, m) ==
  /\ ~IsLite(e)
  /\ m.live \in Checks =>
       /\ Pending(e, m).stage = m.live
       /\ m.kind = "ok" => Pending(e, m).controlling = agent[e].controlling /\ (Full => Differ)
       /\ m.kind = "conflict" =>
            Full /\ Right(OtherAgent(e)) /\ Pending(e, m).controlling = (e # Senior)

Fits(m) == IF m.kind = "request" THEN RequestFits(OtherAgent(m.to), m) ELSE AnswerFits(m.to, m)
MessagesFit == \A m \in air : Fits(m)

(* What an agent has come to, of which a controlled one owes all to the    *)
(* other agent's offers.                                                   *)
Progress(a) ==
  a.selected # NoPath \/ a.nominated # {} \/ \E p \in Paths : a.list[p] = "succeeded"

Owed(e, a) ==
  /\ a.heard \subseteq offered[OtherAgent(e)]
  /\ \A x \in a.early : x.use => x.path \in offered[OtherAgent(e)]
  /\ ~a.controlling => a.nominated \subseteq offered[OtherAgent(e)]
  /\ a.selected \in a.nominated \cup {NoPath}
  /\ Full /\ Progress(a) => a.controlling # agent[OtherAgent(e)].controlling

OffersFit ==
  \A e \in Agents : IF IsLite(e) THEN AsksNothing(agent[e]) ELSE Owed(e, agent[e])

IceInv == IceTypes /\ ChecksFit /\ MessagesFit /\ OffersFit

(* What a step keeps: the invariant, and the roles, unless they were equal *)
(* and become the final ones.                                              *)
Kept ==
  /\ IceInv'
  /\ \A e \in Agents :
       agent'[e].controlling # agent[e].controlling => Full /\ ~Differ /\ Final'

-----------------------------------------------------------------------------
(* What a handler may make of the agent at e: a.                           *)

(* The role stays, or becomes the one that is final.                       *)
Turns(e, a) ==
  \/ a.controlling = agent[e].controlling
  \/ Full /\ Right(OtherAgent(e)) /\ a.controlling = (e = Senior)

IsNew(a, c) ==
  /\ c.stage \in Checks /\ c.tries = 1 /\ c.controlling = a.controlling
  /\ c.use => c.controlling
  /\ c.stage = "nominate" => c.controlling

CheckFrom(e, a, p) ==
  LET c == a.check[p]
      old == agent[e].check[p]
  IN \/ c = NoCheck \/ c = old
     \/ old.stage # "none" /\ c = [old EXCEPT !.tries = @ + 1]
     \/ IsNew(a, c)

Sound(e, a) ==
  /\ a \in Agent
  /\ (a.phase = "lite") = IsLite(e)
  /\ Turns(e, a)
  /\ \A p \in Paths : CheckFrom(e, a, p)
  /\ IF IsLite(e) THEN AsksNothing(a) ELSE Owed(e, a)

(* What it may send: requests of its own, and answers to others.           *)
CheckOf(e, a, m) ==
  /\ m \in Requests /\ m.to = OtherAgent(e) /\ ~IsLite(e)
  /\ \/ m.controlling = a.controlling
     \/ Full /\ Right(OtherAgent(e)) /\ a.controlling = (e = Senior)
  /\ m.live \in Checks =>
       a.check[m.path].stage = m.live /\ a.check[m.path].controlling = m.controlling

AnswerOf(e, a, m) ==
  \E r \in air :
    /\ r.kind = "request" /\ r.to = e
    /\ \/ m = Response(r, "ok") /\ a.controlling # r.controlling
       \/ m = Response(r, "ok") /\ IsLite(e)
       \/ /\ m = Response(r, "conflict") /\ ~IsLite(e)
          /\ a.controlling = agent[e].controlling
          /\ r.controlling = (e = Senior) /\ a.controlling = (e = Senior)

Emits(e, a, messages) == \A m \in messages : CheckOf(e, a, m) \/ AnswerOf(e, a, m)

-----------------------------------------------------------------------------
(* The other agent is the other one.                                       *)
LEMMA Other ==
  ASSUME NEW e \in Agents
  PROVE  /\ OtherAgent(e) \in Agents /\ OtherAgent(e) # e
         /\ OtherAgent(OtherAgent(e)) = e
         /\ \A x \in Agents : x = e \/ x = OtherAgent(e)
  <1>1. ASSUME NEW x \in Agents
        PROVE  OtherAgent(x) \in Agents /\ OtherAgent(x) # x
    <2>1. \E y \in Agents : y # x
      BY IceAssumption DEF Agents
    <2> QED BY <2>1, Zenon DEF OtherAgent
  <1> QED BY <1>1 DEF Agents

(* The agents differ, or both are right, or both are wrong.                *)
LEMMA Roles ==
  ASSUME IceTypes, NEW e \in Agents
  PROVE  /\ agent[e] \in Agent /\ agent[e].controlling \in BOOLEAN
         /\ Differ <=> agent[e].controlling # agent[OtherAgent(e)].controlling
         /\ Right(OtherAgent(e)) <=> agent[OtherAgent(e)].controlling = (e # Senior)
         /\ Final <=> Right(e) /\ Right(OtherAgent(e))
         /\ Final => Differ
  <1>1. \A x \in Agents : agent[x] \in Agent /\ agent[x].controlling \in BOOLEAN
    BY DEF IceTypes, Agent
  <1>2. (OtherAgent(e) = Senior) <=> e # Senior
    BY Other, IceAssumption DEF Agents
  <1>3. Differ <=> agent[e].controlling # agent[OtherAgent(e)].controlling
    BY Other, <1>1 DEF Differ, Agents
  <1> QED BY Other, <1>1, <1>2, <1>3 DEF Right, Final

(* An agent in its present state is sound.                                 *)
LEMMA NowSound ==
  ASSUME IceInv, NEW e \in Agents
  PROVE  Sound(e, agent[e])
  BY Roles DEF IceInv, OffersFit, Sound, Turns, CheckFrom, IsLite

(* What a role may become leaves alone what depends on the old one.        *)
LEMMA RolesStep ==
  ASSUME IceTypes, NEW e \in Agents, NEW a, Sound(e, a),
         agent' = [agent EXCEPT ![e] = a]
  PROVE  /\ \A x \in Agents : agent'[x] = IF x = e THEN a ELSE agent[x]
         /\ Full' = Full /\ \A x \in Agents : IsLite(x)' = IsLite(x)
         /\ Full /\ Final => Final'
         /\ \A x \in Agents : Full /\ Right(x) => Right(x)'
         /\ \A x \in Agents :
              \/ agent'[x].controlling = agent[x].controlling
              \/ Full /\ ~Differ /\ Final'
         /\ Full /\ Differ => Differ'
  <1>1. \A x \in Agents : agent'[x] = IF x = e THEN a ELSE agent[x]
    BY DEF IceTypes
  <1>2. Full' = Full /\ \A x \in Agents : IsLite(x)' = IsLite(x)
    BY <1>1 DEF Full, IsLite, Sound
  <1>3. a.controlling \in BOOLEAN
    BY DEF Sound, Agent
  <1>4. CASE a.controlling = agent[e].controlling
    <2>1. \A x \in Agents : agent'[x].controlling = agent[x].controlling
      BY <1>1, <1>4
    <2>2. \A x \in Agents : Right(x)' = Right(x)
      BY <2>1 DEF Right
    <2> QED BY <1>1, <1>2, <2>1, <2>2 DEF Final, Differ, Agents
  <1>5. CASE /\ a.controlling # agent[e].controlling
             /\ Full /\ Right(OtherAgent(e)) /\ a.controlling = (e = Senior)
    <2>1. ~Right(e) /\ ~Final /\ ~Differ
      BY <1>3, <1>5, Roles DEF Right
    <2>2. \A x \in Agents : Right(x)'
      BY <1>1, <1>5, Other DEF Right
    <2> QED BY <1>1, <1>2, <1>5, <2>1, <2>2, Other DEF Final
  <1> QED BY <1>4, <1>5 DEF Sound, Turns

(* What is swept out, or kept, of the messages in the air.                 *)
LEMMA SweptIs ==
  ASSUME IceTypes, NEW e \in Agents, NEW a, NEW m \in Swept(e, a, air)
  PROVE  \E x \in air :
           /\ m.kind = x.kind /\ m.to = x.to /\ m.path = x.path
           /\ m \in Requests \cup Answers
           /\ m.kind = "request" => m.controlling = x.controlling /\ m.use = x.use
           /\ \/ m.live = x.live /\ ((IF x.kind = "request" THEN x.to # e ELSE x.to = e) => IsLive(e, a, x))
              \/ x.kind = "request" /\ x.to # e /\ m.live = "nobody"
  <1>1. PICK x \in air :
          /\ x.kind # "request" /\ x.to = e => IsLive(e, a, x)
          /\ m = IF x.kind = "request" /\ x.to # e /\ ~IsLive(e, a, x)
                 THEN [x EXCEPT !.live = "nobody"] ELSE x
    BY DEF Swept
  <1>2. x \in Requests \cup Answers
    BY DEF IceTypes
  <1>3. CASE x.kind = "request" /\ x.to # e /\ ~IsLive(e, a, x)
    <2>1. x \in Requests /\ m = [x EXCEPT !.live = "nobody"]
      BY <1>1, <1>2, <1>3 DEF Requests, Answers
    <2>2. /\ m.kind = x.kind /\ m.to = x.to /\ m.path = x.path
          /\ m.controlling = x.controlling /\ m.use = x.use /\ m.live = "nobody"
      BY <2>1 DEF Requests
    <2>3. m \in Requests
      BY <2>1 DEF Requests, Live
    <2> QED BY <1>3, <2>2, <2>3
  <1>4. CASE ~(x.kind = "request" /\ x.to # e /\ ~IsLive(e, a, x))
    BY <1>1, <1>2, <1>4
  <1> QED BY <1>3, <1>4

(* A transaction that goes on is the one that was there, in its role.      *)
LEMMA LiveIs ==
  ASSUME IceInv, NEW e \in Agents, NEW a, Sound(e, a), NEW x \in air,
         x.live \in Checks, IsLive(e, a, x), Pending(e, x).stage = x.live
  PROVE  /\ a.check[x.path].stage = x.live
         /\ a.check[x.path].controlling = Pending(e, x).controlling
  <1> DEFINE c == a.check[x.path]
             old == agent[e].check[x.path]
  <1>1. x.path \in Paths /\ x.live # "consent"
    BY DEF IceInv, IceTypes, Requests, Answers, Checks
  <1>2. c.stage = x.live /\ (c.tries = 1 => c = old) /\ CheckFrom(e, a, x.path)
    BY <1>1 DEF IsLive, Sound
  <1>3. old \in Check /\ old.stage = x.live
    BY <1>1 DEF IceInv, IceTypes, Agent, Pending
  <1>4. c = old \/ c = [old EXCEPT !.tries = @ + 1]
    BY <1>2 DEF CheckFrom, IsNew, NoCheck, Checks
  <1>5. c.controlling = old.controlling
    BY <1>3, <1>4 DEF Check
  <1> QED BY <1>2, <1>5 DEF Pending

(* A request keeps fitting when an agent takes a step.                     *)
LEMMA RequestStep ==
  ASSUME IceInv, NEW e \in Agents, NEW a, Sound(e, a), NEW more,
         agent' = [agent EXCEPT ![e] = a],
         offered' = [offered EXCEPT ![e] = @ \cup more],
         NEW m \in Swept(e, a, air), m.kind = "request"
  PROVE  RequestFits(OtherAgent(m.to), m)'
  <1> DEFINE s == OtherAgent(m.to)
  <1>1. PICK x \in air :
           /\ m.kind = x.kind /\ m.to = x.to /\ m.path = x.path
           /\ m \in Requests \cup Answers
           /\ m.kind = "request" => m.controlling = x.controlling /\ m.use = x.use
           /\ \/ m.live = x.live /\ ((IF x.kind = "request" THEN x.to # e ELSE x.to = e) => IsLive(e, a, x))
              \/ x.kind = "request" /\ x.to # e /\ m.live = "nobody"
    BY SweptIs DEF IceInv
  <1>2. RequestFits(s, x) /\ m \in Requests
    BY <1>1 DEF IceInv, MessagesFit, Fits, Requests, Answers
  <1>3. s \in Agents /\ m.to \in Agents /\ (s = e <=> m.to # e) /\ m.path \in Paths
    BY <1>2, Other DEF Requests
  <1>4. IceTypes
    BY DEF IceInv
  <1>5. ~IsLite(s)'
    BY <1>2, <1>3, <1>4, RolesStep DEF RequestFits
  <1>6. m.controlling = agent'[s].controlling \/ (Full /\ Final)'
    BY <1>1, <1>2, <1>3, <1>4, RolesStep DEF RequestFits
  <1>7. m.use => m.path \in offered'[s]
    BY <1>1, <1>2, <1>3, <1>4 DEF RequestFits, IceTypes
  <1>8. ASSUME m.live \in Checks
        PROVE  Pending(s, m)'.stage = m.live /\ Pending(s, m)'.controlling = m.controlling
    <2>1. m.live = x.live /\ (s = e => IsLive(e, a, x))
      BY <1>1, <1>3, <1>8 DEF Checks
    <2>2. Pending(s, x).stage = x.live /\ Pending(s, x).controlling = x.controlling
      BY <1>2, <1>8, <2>1 DEF RequestFits
    <2>3. CASE s = e
      BY <1>1, <1>4, <1>8, <2>1, <2>2, <2>3, LiveIs, RolesStep, SMTT(30) DEF Pending
    <2>4. CASE s # e
      BY <1>1, <1>3, <1>4, <2>1, <2>2, <2>4, RolesStep DEF Pending
    <2> QED BY <2>3, <2>4
  <1> QED BY <1>5, <1>6, <1>7, <1>8 DEF RequestFits

(* So does an answer.                                                      *)
LEMMA AnswerStep ==
  ASSUME IceInv, NEW e \in Agents, NEW a, Sound(e, a),
         agent' = [agent EXCEPT ![e] = a],
         NEW m \in Swept(e, a, air), m.kind # "request"
  PROVE  AnswerFits(m.to, m)'
  <1>1. PICK x \in air :
           /\ m.kind = x.kind /\ m.to = x.to /\ m.path = x.path /\ m.live = x.live
           /\ m \in Requests \cup Answers
           /\ x.to = e => IsLive(e, a, x)
    BY SweptIs DEF IceInv
  <1>2. AnswerFits(m.to, x) /\ m \in Answers
    BY <1>1 DEF IceInv, MessagesFit, Fits, Requests, Answers
  <1> DEFINE s == m.to
  <1>3. s \in Agents /\ OtherAgent(s) \in Agents /\ m.path \in Paths
    BY <1>2, Other DEF Answers
  <1>4. IceTypes
    BY DEF IceInv
  <1>5. ~IsLite(s)'
    BY <1>2, <1>3, <1>4, RolesStep DEF AnswerFits
  <1>6. ASSUME m.live \in Checks
        PROVE  /\ Pending(s, m)'.stage = m.live
               /\ Pending(s, m)'.controlling = Pending(s, m).controlling
    <2>1. Pending(s, x).stage = x.live
      BY <1>1, <1>2, <1>6 DEF AnswerFits
    <2>2. CASE s = e
      BY <1>1, <1>4, <1>6, <2>1, <2>2, LiveIs, RolesStep DEF Pending
    <2>3. CASE s # e
      BY <1>1, <1>3, <1>4, <2>1, <2>3, RolesStep DEF Pending
    <2> QED BY <2>2, <2>3
  <1>7. ASSUME m.live \in Checks, m.kind = "ok"
        PROVE  Pending(s, m)'.controlling = agent'[s].controlling /\ (Full' => Differ')
    <2>1. Pending(s, m).controlling = agent[s].controlling /\ (Full => Differ)
      BY <1>1, <1>2, <1>7 DEF AnswerFits, Pending
    <2> QED BY <1>3, <1>4, <1>6, <1>7, <2>1, RolesStep
  <1>8. ASSUME m.live \in Checks, m.kind = "conflict"
        PROVE  Full' /\ Right(OtherAgent(s))' /\ Pending(s, m)'.controlling = (s # Senior)
    <2>1. Full /\ Right(OtherAgent(s)) /\ Pending(s, m).controlling = (s # Senior)
      BY <1>1, <1>2, <1>8 DEF AnswerFits, Pending
    <2> QED BY <1>3, <1>4, <1>6, <1>8, <2>1, RolesStep
  <1> QED BY <1>5, <1>6, <1>7, <1>8 DEF AnswerFits

(* What an agent sends fits what it has become.                            *)
LEMMA SentFits ==
  ASSUME IceInv, NEW e \in Agents, NEW a, Sound(e, a), NEW messages, Emits(e, a, messages),
         agent' = [agent EXCEPT ![e] = a],
         offered' = [offered EXCEPT ![e] = @ \cup
                       {m.path : m \in {x \in messages : x.kind = "request" /\ x.use}}],
         NEW m \in messages
  PROVE  m \in Requests \cup Answers /\ Fits(m)'
  <1>1. IceTypes /\ OtherAgent(e) \in Agents /\ OtherAgent(e) # e /\ OtherAgent(OtherAgent(e)) = e
    BY Other DEF IceInv
  <1>2. CASE CheckOf(e, a, m)
    <2>1. /\ m \in Requests /\ m.kind = "request" /\ m.to = OtherAgent(e) /\ ~IsLite(e)
          /\ m.path \in Paths
      BY <1>2 DEF CheckOf, Requests
    <2>2. ~IsLite(e)' /\ agent'[e] = a
      <3>1. agent'[e] = a
        BY <1>1 DEF IceTypes
      <3>2. IsLite(e)' <=> IsLite(e)
        BY <3>1 DEF IsLite, Sound
      <3> QED BY <2>1, <3>1, <3>2
    <2>3. m.controlling = a.controlling \/ (Full /\ Final)'
      <3>1. CASE Full /\ Right(OtherAgent(e)) /\ a.controlling = (e = Senior)
        <4>1. Full' /\ Right(OtherAgent(e))' /\ Right(e)'
          BY <1>1, <2>2, <3>1, RolesStep DEF Right
        <4> QED BY <4>1, <1>1, Other DEF Final
      <3> QED BY <1>2, <3>1 DEF CheckOf
    <2>4. m.live \in Checks =>
            Pending(e, m)'.stage = m.live /\ Pending(e, m)'.controlling = m.controlling
      BY <1>2, <2>2 DEF CheckOf, Pending
    <2>5. m.use => m.path \in offered'[e]
      BY <1>1, <2>1 DEF IceTypes
    <2> QED BY <1>1, <2>1, <2>2, <2>3, <2>4, <2>5 DEF Fits, RequestFits
  <1>3. CASE AnswerOf(e, a, m)
    <2>1. PICK r \in air :
            /\ r.kind = "request" /\ r.to = e
            /\ \/ m = Response(r, "ok") /\ a.controlling # r.controlling
               \/ m = Response(r, "ok") /\ IsLite(e)
               \/ /\ m = Response(r, "conflict") /\ ~IsLite(e)
                  /\ a.controlling = agent[e].controlling
                  /\ r.controlling = (e = Senior) /\ a.controlling = (e = Senior)
      BY <1>3 DEF AnswerOf
    <2> DEFINE s == OtherAgent(e)
    <2>2. RequestFits(s, r) /\ r \in Requests
      BY <1>1, <2>1 DEF IceInv, MessagesFit, Fits, IceTypes, Requests, Answers
    <2>3. /\ m.kind \in {"ok", "conflict"} /\ m.to = s /\ m.path = r.path /\ m.live = r.live
          /\ m \in Answers
      BY <1>1, <2>1, <2>2 DEF Response, Requests, Answers
    <2>4. /\ agent'[s] = agent[s] /\ agent'[e] = a /\ ~IsLite(s)' /\ IsLite(e)' = IsLite(e)
          /\ Full' = Full
      <3>1. ~IsLite(s)
        BY <2>2 DEF RequestFits
      <3> QED BY <1>1, <3>1, RolesStep
    <2>5. /\ r.controlling \in BOOLEAN /\ a.controlling \in BOOLEAN
          /\ agent[s].controlling \in BOOLEAN /\ agent[e].controlling \in BOOLEAN
      BY <1>1, <2>2, Roles DEF Requests, Sound, Agent
    <2>6. Differ' <=> a.controlling # agent[s].controlling
      <3>1. Agents = {e, s}
        BY Other
      <3>2. Differ' <=> agent'[e].controlling # agent'[s].controlling
        BY <1>1, <2>4, <2>5, <3>1 DEF Differ, Agents
      <3> QED BY <2>4, <3>2
    <2>7. ASSUME m.live \in Checks
          PROVE  Pending(s, m)'.stage = m.live /\ Pending(s, m)'.controlling = r.controlling
      BY <2>2, <2>3, <2>4, <2>7 DEF RequestFits, Pending
    <2>8. ASSUME m.live \in Checks, m.kind = "ok"
          PROVE  r.controlling = agent'[s].controlling /\ (Full' => Differ')
      <3>1. CASE IsLite(e)
        <4>1. ~Full
          BY <3>1 DEF Full
        <4> QED BY <2>2, <2>4, <4>1 DEF RequestFits
      <3>2. CASE ~IsLite(e)
        <4>1. a.controlling # r.controlling
          BY <2>1, <2>8, <3>2 DEF Response
        <4>2. CASE r.controlling = agent[s].controlling
          BY <2>4, <2>6, <4>1, <4>2
        <4>3. CASE Full /\ Final
          <5>1. Right(e) /\ Right(s) /\ Right(e)'
            BY <1>1, <4>3, RolesStep DEF Final
          <5>2. a.controlling # agent[s].controlling
            <6>1. agent[e].controlling # agent[s].controlling
              BY <1>1, <4>3, Roles
            <6> QED BY <2>4, <5>1, <6>1 DEF Right
          <5> QED BY <2>4, <2>5, <2>6, <4>1, <5>2
        <4> QED BY <2>2, <4>2, <4>3 DEF RequestFits
      <3> QED BY <3>1, <3>2
    <2>9. ASSUME m.live \in Checks, m.kind = "conflict"
          PROVE  Full' /\ Right(e)' /\ r.controlling = (s # Senior)
      <3>1. /\ ~IsLite(e) /\ a.controlling = (e = Senior) /\ r.controlling = (e = Senior)
        BY <2>1, <2>9 DEF Response
      <3>2. (e = Senior) = (s # Senior)
        BY Other, IceAssumption DEF Agents
      <3>3. Full
        BY <2>2, <3>1, Other DEF Full, RequestFits
      <3> QED BY <2>4, <3>1, <3>2, <3>3 DEF Right
    <2> QED BY <1>1, <2>3, <2>4, <2>7, <2>8, <2>9 DEF Fits, AnswerFits
  <1> QED BY <1>2, <1>3 DEF Emits

(* Every step of an agent that is sound keeps the invariant.               *)
LEMMA StepKeeps ==
  ASSUME IceInv, NEW e \in Agents, NEW a, Sound(e, a), NEW messages, Emits(e, a, messages),
         agent' = [agent EXCEPT ![e] = a],
         air' \subseteq messages \cup Swept(e, a, air),
         offered' = [offered EXCEPT ![e] = @ \cup
                       {m.path : m \in {x \in messages : x.kind = "request" /\ x.use}}]
  PROVE  Kept
  <1> DEFINE more == {m.path : m \in {x \in messages : x.kind = "request" /\ x.use}}
             f == OtherAgent(e)
  <1>1. IceTypes /\ f \in Agents /\ f # e /\ OtherAgent(f) = e
    BY Other DEF IceInv
  <1>2. more \subseteq Paths
    BY DEF Emits, CheckOf, AnswerOf, Requests, Response
  <1>3. /\ agent'[e] = a /\ agent'[f] = agent[f]
        /\ offered'[f] = offered[f] /\ offered[e] \subseteq offered'[e]
    BY <1>1 DEF IceTypes
  <1>4. Full' = Full /\ \A x \in Agents : IsLite(x)' = IsLite(x)
    BY <1>1, RolesStep
  <1>5. ASSUME NEW m \in air'
        PROVE  m \in Requests \cup Answers /\ Fits(m)'
    <2>1. CASE m \in messages
      BY <2>1, SentFits
    <2>2. CASE m \in Swept(e, a, air)
      <3>1. m \in Requests \cup Answers
        BY <1>1, <2>2, SweptIs
      <3> QED BY <2>2, <3>1, RequestStep, AnswerStep DEF Fits
    <2> QED BY <2>1, <2>2
  <1>6. IceTypes'
    BY <1>1, <1>2, <1>5 DEF IceTypes, Sound
  <1>7. ChecksFit'
    <2> SUFFICES ASSUME NEW x \in Agents, NEW p \in Paths
                 PROVE  LET c == agent'[x].check[p]
                        IN IF c.stage = "none" THEN c = NoCheck
                           ELSE /\ c.controlling = agent'[x].controlling \/ (Full /\ Final)'
                                /\ c.use => c.controlling
                                /\ c.stage = "nominate" => c.controlling
      BY DEF ChecksFit
    <2> DEFINE old == agent[x].check[p]
    <2>1. /\ old \in Check
          /\ IF old.stage = "none" THEN old = NoCheck
             ELSE /\ old.controlling = agent'[x].controlling \/ (Full /\ Final)'
                  /\ old.use => old.controlling
                  /\ old.stage = "nominate" => old.controlling
      <3>1. old \in Check
        BY <1>1 DEF IceTypes, Agent
      <3>2. IF old.stage = "none" THEN old = NoCheck
            ELSE /\ old.controlling = agent[x].controlling \/ (Full /\ Final)
                 /\ old.use => old.controlling
                 /\ old.stage = "nominate" => old.controlling
        BY DEF IceInv, ChecksFit
      <3>3. \/ agent'[x].controlling = agent[x].controlling
            \/ Full /\ ~Differ /\ Final'
        BY <1>1, RolesStep
      <3>4. Full /\ Final => (Full /\ Final)'
        BY <1>1, RolesStep
      <3> QED BY <1>4, <3>1, <3>2, <3>3, <3>4
    <2>2. CASE x # e
      BY <1>1, <2>1, <2>2, RolesStep
    <2>3. CASE x = e
      <3> DEFINE c == a.check[p]
      <3>1. agent'[x] = a /\ CheckFrom(e, a, p)
        BY <1>3, <2>3 DEF Sound
      <3>2. CASE old.stage # "none" /\ c = [old EXCEPT !.tries = @ + 1]
        <4>1. c.stage = old.stage /\ c.controlling = old.controlling /\ c.use = old.use
          BY <2>1, <3>2 DEF Check
        <4> QED BY <2>1, <3>1, <3>2, <4>1
      <3>3. CASE IsNew(a, c)
        BY <3>1, <3>3 DEF IsNew, Checks
      <3>4. CASE c = NoCheck
        BY <3>1, <3>4 DEF NoCheck
      <3>5. CASE c = old
        BY <2>1, <3>1, <3>5
      <3> QED BY <2>3, <3>1, <3>2, <3>3, <3>4, <3>5 DEF CheckFrom
    <2> QED BY <2>2, <2>3
  <1>8. ASSUME NEW x \in Agents
        PROVE  (IF IsLite(x) THEN AsksNothing(agent[x]) ELSE Owed(x, agent[x]))'
    <2>1. CASE x = e
      <3>1. IF IsLite(e) THEN AsksNothing(a) ELSE Owed(e, a)
        BY DEF Sound
      <3>2. CASE IsLite(e)
        BY <1>3, <1>4, <2>1, <3>1, <3>2 DEF AsksNothing
      <3>3. CASE ~IsLite(e)
        BY <1>1, <1>3, <1>4, <2>1, <3>1, <3>3 DEF Owed, Progress
      <3> QED BY <3>2, <3>3
    <2>2. CASE x = f
      <3>1. IF IsLite(f) THEN AsksNothing(agent[f]) ELSE Owed(f, agent[f])
        BY <1>1 DEF IceInv, OffersFit
      <3>2. ASSUME Owed(f, agent[f]), Full, Progress(agent[f])
            PROVE  agent[f].controlling # a.controlling
        <4>1. Differ
          BY <1>1, <3>2, Roles DEF Owed
        <4>2. agent'[e].controlling = agent[e].controlling
          BY <1>1, <4>1, RolesStep
        <4> QED BY <1>1, <1>3, <3>2, <4>2 DEF Owed
      <3>3. CASE IsLite(f)
        BY <1>1, <1>3, <1>4, <2>2, <3>1, <3>3 DEF AsksNothing
      <3>4. CASE ~IsLite(f)
        BY <1>1, <1>3, <1>4, <2>2, <3>1, <3>2, <3>4 DEF Owed, Progress
      <3> QED BY <3>3, <3>4
    <2> QED BY <2>1, <2>2, Other
  <1>9. IceInv'
    BY <1>5, <1>6, <1>7, <1>8 DEF IceInv, MessagesFit, OffersFit
  <1> QED BY <1>1, <1>9, RolesStep DEF Kept

-----------------------------------------------------------------------------
(* The helpers of the handlers make a sound agent of a sound agent.        *)

(* What the roles and offers do not depend on may change.                  *)
LEMMA Frame ==
  ASSUME NEW e \in Agents, ~IsLite(e), NEW a, Sound(e, a), NEW b, b \in Agent,
         b.phase # "lite", b.controlling = a.controlling,
         \A p \in Paths : b.check[p] = a.check[p] \/ CheckFrom(e, b, p),
         b.heard = a.heard, b.early = a.early, b.nominated = a.nominated, b.selected = a.selected,
         \A p \in Paths : b.list[p] = "succeeded" => a.list[p] = "succeeded"
  PROVE  Sound(e, b)
  <1>1. (b.phase = "lite") = IsLite(e)
    BY DEF IsLite
  <1>2. Turns(e, b)
    BY DEF Sound, Turns
  <1>3. ASSUME NEW p \in Paths
        PROVE  CheckFrom(e, b, p)
    <2>1. CASE b.check[p] = a.check[p]
      <3>1. CheckFrom(e, a, p)
        BY DEF Sound
      <3> QED BY <2>1, <3>1 DEF CheckFrom, IsNew
    <2> QED BY <2>1
  <1>4. Owed(e, b)
    BY DEF Sound, Owed, Progress
  <1> QED BY <1>1, <1>2, <1>3, <1>4 DEF Sound

(* A check that is started is a new one, made in the agent's role.         *)
LEMMA StartsSound ==
  ASSUME IceInv, NEW e \in Agents, ~IsLite(e), NEW a, Sound(e, a), NEW p \in Paths
  PROVE  /\ Sound(e, StartsCheck(a, p))
         /\ StartsCheck(a, p).check[p].stage = "check"
         /\ StartsCheck(a, p).controlling = a.controlling
         /\ \A q \in Paths : StartsCheck(a, p).list[q] = "succeeded" => a.list[q] = "succeeded"
  <1> DEFINE use == a.controlling /\ \A x \in Agents : ~IsLite(x)
             n == [stage |-> "check", controlling |-> a.controlling, tries |-> 1, use |-> use]
             b == [a EXCEPT !.list[p] = "in progress", !.check[p] = n]
  <1>1. StartsCheck(a, p) = b
    BY DEF StartsCheck
  <1>2. a \in Agent /\ a.phase # "lite" /\ a.controlling \in BOOLEAN
    BY DEF Sound, Agent
  <1>3. use \in BOOLEAN
    BY DEF IsLite
  <1>4. n \in Check /\ IsNew(a, n)
    BY <1>2, <1>3 DEF Check, Checks, IsNew
  <1> HIDE DEF n
  <1>5. b \in Agent
    BY <1>2, <1>4 DEF Agent, State
  <1>6. /\ b.phase = a.phase /\ b.controlling = a.controlling /\ b.heard = a.heard
        /\ b.early = a.early /\ b.nominated = a.nominated /\ b.selected = a.selected
        /\ b.check = [a.check EXCEPT ![p] = n] /\ b.list = [a.list EXCEPT ![p] = "in progress"]
    BY <1>2 DEF Agent
  <1>7. \A q \in Paths : b.list[q] = "succeeded" => a.list[q] = "succeeded"
    BY <1>2, <1>6 DEF Agent
  <1>8. b.check[p] = n /\ \A q \in Paths : q # p => b.check[q] = a.check[q]
    BY <1>2, <1>6 DEF Agent
  <1>9. CheckFrom(e, b, p)
    BY <1>4, <1>6, <1>8 DEF CheckFrom, IsNew
  <1>10. \A q \in Paths : b.check[q] = a.check[q] \/ CheckFrom(e, b, q)
    BY <1>8, <1>9
  <1>11. n.stage = "check"
    BY DEF n
  <1> HIDE DEF b
  <1>12. Sound(e, b)
    BY <1>2, <1>5, <1>6, <1>7, <1>10, Frame
  <1> QED BY <1>1, <1>6, <1>7, <1>8, <1>11, <1>12

(* A triggered check is started, or dies, or is not needed.                *)
LEMMA TriggeredSound ==
  ASSUME IceInv, NEW e \in Agents, ~IsLite(e), NEW a, Sound(e, a), NEW p \in Paths
  PROVE  /\ Sound(e, Triggered(a, p))
         /\ Triggered(a, p).controlling = a.controlling
         /\ \A q \in Paths : Triggered(a, p).list[q] = "succeeded" => a.list[q] = "succeeded"
         /\ Triggered(a, p).check[p] = a.check[p] \/ Triggered(a, p).check[p].stage = "check"
  <1> DEFINE b == Dies(a, p)
  <1>1. a \in Agent /\ a.phase # "lite"
    BY DEF Sound
  <1>2. b \in Agent
    BY <1>1 DEF Agent, State, Dies
  <1>3. /\ b.phase = a.phase /\ b.controlling = a.controlling /\ b.heard = a.heard
        /\ b.early = a.early /\ b.nominated = a.nominated /\ b.selected = a.selected
        /\ b.check = a.check /\ b.list = [a.list EXCEPT ![p] = "in progress"]
    BY <1>1 DEF Agent, Dies
  <1>4. \A q \in Paths : b.list[q] = "succeeded" => a.list[q] = "succeeded"
    BY <1>1, <1>3 DEF Agent
  <1> HIDE DEF b
  <1>5. Sound(e, b)
    BY <1>1, <1>2, <1>3, <1>4, Frame
  <1>6. Triggered(a, p) \in {a, b, StartsCheck(a, p)}
    BY DEF Triggered, b
  <1>7. CASE Triggered(a, p) = a
    BY <1>7
  <1>8. CASE Triggered(a, p) = b
    BY <1>3, <1>4, <1>5, <1>8
  <1>9. CASE Triggered(a, p) = StartsCheck(a, p)
    BY <1>9, StartsSound
  <1> QED BY <1>6, <1>7, <1>8, <1>9

(* A report of the result, and thawed pairs, change no role and no offer.  *)
LEMMA ReportsSound ==
  ASSUME NEW e \in Agents, ~IsLite(e), NEW a, Sound(e, a), NEW what \in {"completed", "failed"}
  PROVE  Sound(e, Reports(a, what)) /\ Reports(a, what).controlling = a.controlling
  <1> DEFINE b == [a EXCEPT !.result = Append(@, what), !.done = TRUE]
  <1>1. a \in Agent /\ a.phase # "lite"
    BY DEF Sound
  <1>2. Append(a.result, what) \in Seq({"completed", "failed"})
    BY <1>1 DEF Agent
  <1>3. b \in Agent
    BY <1>1, <1>2 DEF Agent
  <1>4. /\ b.phase = a.phase /\ b.controlling = a.controlling /\ b.heard = a.heard
        /\ b.early = a.early /\ b.nominated = a.nominated /\ b.selected = a.selected
        /\ b.check = a.check /\ b.list = a.list
    BY <1>1 DEF Agent
  <1> HIDE DEF b
  <1>5. Sound(e, b)
    BY <1>1, <1>3, <1>4, Frame
  <1>6. Reports(a, what) \in {a, b}
    BY DEF Reports, b
  <1> QED BY <1>4, <1>5, <1>6

LEMMA ThawSound ==
  ASSUME NEW e \in Agents, ~IsLite(e), NEW a, Sound(e, a), NEW p \in Paths
  PROVE  Sound(e, Thaw(e, a, p)) /\ Thaw(e, a, p).controlling = a.controlling
  <1> DEFINE l == [q \in Paths |->
                     IF a.list[q] = "frozen" /\ Foundation[e][q] = Foundation[e][p]
                     THEN "waiting" ELSE a.list[q]]
             b == [a EXCEPT !.list = l]
  <1>1. a \in Agent /\ a.phase # "lite"
    BY DEF Sound
  <1>2. l \in [Paths -> State]
    BY <1>1 DEF Agent, State
  <1>3. \A q \in Paths : l[q] = "succeeded" => a.list[q] = "succeeded"
    OBVIOUS
  <1> HIDE DEF l
  <1>4. b \in Agent
    BY <1>1, <1>2 DEF Agent
  <1>5. /\ b.phase = a.phase /\ b.controlling = a.controlling /\ b.heard = a.heard
        /\ b.early = a.early /\ b.nominated = a.nominated /\ b.selected = a.selected
        /\ b.check = a.check /\ b.list = l
    BY <1>1 DEF Agent
  <1> HIDE DEF b
  <1>6. Sound(e, b)
    BY <1>1, <1>3, <1>4, <1>5, Frame
  <1> QED BY <1>5, <1>6 DEF Thaw, b, l

(* The end of a check selects only what was nominated.                     *)
LEMMA CompleteSound ==
  ASSUME NEW e \in Agents, ~IsLite(e), NEW x, Sound(e, x), NEW p \in Paths
  PROVE  Sound(e, CheckComplete(e, x, p)) /\ CheckComplete(e, x, p).controlling = x.controlling
  <1> DEFINE a == [x EXCEPT !.check[p] = NoCheck]
             l == [q \in Paths |-> IF a.list[q] \in {"waiting", "frozen"} THEN "failed" ELSE a.list[q]]
             s == [a EXCEPT !.selected = p, !.list = l]
             b == IF a.list[p] = "succeeded" /\ p \in a.nominated THEN s ELSE a
             c == IF a.list[p] = "succeeded" THEN Thaw(e, b, p) ELSE b
  <1>1. x \in Agent /\ x.phase # "lite" /\ NoCheck \in Check
    BY DEF Sound, NoCheck, Check, Checks
  <1>2. a \in Agent
    BY <1>1 DEF Agent
  <1>3. /\ a.phase = x.phase /\ a.controlling = x.controlling /\ a.heard = x.heard
        /\ a.early = x.early /\ a.nominated = x.nominated /\ a.selected = x.selected
        /\ a.list = x.list
    BY <1>1 DEF Agent
  <1>4. \A q \in Paths : a.check[q] = x.check[q] \/ CheckFrom(e, a, q)
    BY <1>1 DEF Agent, CheckFrom
  <1>5. CheckComplete(e, x, p) \in {Reports(b, "completed"), Reports(c, "failed"), c}
    BY DEF CheckComplete
  <1> HIDE DEF a
  <1>6. Sound(e, a)
    BY <1>1, <1>2, <1>3, <1>4, Frame
  <1>7. ASSUME a.list[p] = "succeeded", p \in a.nominated
        PROVE  Sound(e, s) /\ s.controlling = a.controlling
    <2>1. l \in [Paths -> State] /\ \A q \in Paths : l[q] = "succeeded" => a.list[q] = "succeeded"
      BY <1>2 DEF Agent, State
    <2> HIDE DEF l
    <2>2. s \in Agent
      BY <1>2, <2>1 DEF Agent
    <2>3. /\ s.phase = a.phase /\ s.controlling = a.controlling /\ s.heard = a.heard
          /\ s.early = a.early /\ s.nominated = a.nominated /\ s.selected = p
          /\ s.check = a.check /\ s.list = l
      BY <1>2 DEF Agent
    <2> HIDE DEF s
    <2>4. Turns(e, s) /\ (s.phase = "lite") = IsLite(e)
      BY <1>6, <2>3 DEF Sound, Turns
    <2>5. \A q \in Paths : CheckFrom(e, s, q)
      BY <1>6, <2>3 DEF Sound, CheckFrom, IsNew
    <2>6. Owed(e, s)
      <3>1. Owed(e, a)
        BY <1>6 DEF Sound
      <3>2. Progress(a)
        BY <1>7 DEF Progress
      <3> QED BY <1>7, <2>3, <3>1, <3>2 DEF Owed
    <2> QED BY <2>2, <2>3, <2>4, <2>5, <2>6 DEF Sound
  <1>8. Sound(e, b) /\ b.controlling = x.controlling
    BY <1>3, <1>6, <1>7
  <1> HIDE DEF b
  <1>9. Sound(e, c) /\ c.controlling = x.controlling
    BY <1>8, ThawSound
  <1> HIDE DEF c
  <1>10. /\ Sound(e, Reports(b, "completed")) /\ Reports(b, "completed").controlling = x.controlling
         /\ Sound(e, Reports(c, "failed")) /\ Reports(c, "failed").controlling = x.controlling
    BY <1>8, <1>9, ReportsSound
  <1> QED BY <1>5, <1>9, <1>10

(* A check that ends without an answer in the agent's favour.              *)
LEMMA FailsSound ==
  ASSUME NEW e \in Agents, ~IsLite(e), NEW a, Sound(e, a), NEW p \in Paths
  PROVE  Sound(e, CheckFails(e, a, p))
  <1> DEFINE b == [a EXCEPT !.list[p] = "failed"]
  <1>1. a \in Agent /\ a.phase # "lite"
    BY DEF Sound
  <1>2. b \in Agent
    BY <1>1 DEF Agent, State
  <1>3. /\ b.phase = a.phase /\ b.controlling = a.controlling /\ b.heard = a.heard
        /\ b.early = a.early /\ b.nominated = a.nominated /\ b.selected = a.selected
        /\ b.check = a.check /\ b.list = [a.list EXCEPT ![p] = "failed"]
    BY <1>1 DEF Agent
  <1>4. \A q \in Paths : b.list[q] = "succeeded" => a.list[q] = "succeeded"
    BY <1>1, <1>3 DEF Agent
  <1> HIDE DEF b
  <1>5. Sound(e, b)
    BY <1>1, <1>2, <1>3, <1>4, Frame
  <1> QED BY <1>5, CompleteSound DEF CheckFails, b

(* A check succeeds only when the roles differ, and nominates for a        *)
(* controlled agent only what the other one offered.                       *)
LEMMA SucceedsSound ==
  ASSUME NEW e \in Agents, ~IsLite(e), NEW a, Sound(e, a), NEW p \in Paths,
         NEW nominated \in BOOLEAN,
         Full => a.controlling # agent[OtherAgent(e)].controlling,
         nominated => a.controlling \/ p \in offered[OtherAgent(e)]
  PROVE  Sound(e, CheckSucceeds(e, a, p, nominated))
  <1> DEFINE n == IF nominated THEN a.nominated \cup {p} ELSE a.nominated
             b == [a EXCEPT !.list[p] = "succeeded", !.nominated = n]
  <1>1. a \in Agent /\ a.phase # "lite" /\ Owed(e, a) /\ (a.phase = "lite") = IsLite(e)
    BY DEF Sound
  <1>2. n \subseteq Paths /\ a.nominated \subseteq n /\ n \subseteq a.nominated \cup {p}
        /\ (p \in n => p \in a.nominated \/ nominated)
    BY <1>1 DEF Agent
  <1> HIDE DEF n
  <1>3. b \in Agent
    BY <1>1, <1>2 DEF Agent, State
  <1>4. /\ b.phase = a.phase /\ b.controlling = a.controlling /\ b.heard = a.heard
        /\ b.early = a.early /\ b.nominated = n /\ b.selected = a.selected
        /\ b.check = a.check
    BY <1>1 DEF Agent
  <1>5. CheckSucceeds(e, a, p, nominated) = CheckComplete(e, b, p)
    BY DEF CheckSucceeds, n
  <1> HIDE DEF b
  <1>6. Turns(e, b)
    BY <1>4 DEF Sound, Turns
  <1>7. \A q \in Paths : CheckFrom(e, b, q)
    BY <1>4 DEF Sound, CheckFrom, IsNew
  <1>8. Owed(e, b)
    BY <1>1, <1>2, <1>4 DEF Owed
  <1>9. Sound(e, b)
    BY <1>1, <1>3, <1>4, <1>6, <1>7, <1>8 DEF Sound
  <1> QED BY <1>5, <1>9, CompleteSound

(* An incoming check, which may nominate.                                  *)
LEMMA IncomingSound ==
  ASSUME IceInv, NEW e \in Agents, ~IsLite(e), NEW a, Sound(e, a), NEW m, m.path \in Paths,
         m.use => m.path \in offered[OtherAgent(e)]
  PROVE  Sound(e, CheckIncoming(e, a, m)) /\ CheckIncoming(e, a, m).controlling = a.controlling
  <1> DEFINE p == m.path
             l == IF a.list[p] = "none" THEN "waiting" ELSE a.list[p]
             w == [a EXCEPT !.list[p] = l]
             b == Triggered(w, p)
             c == [b EXCEPT !.heard = @ \cup {p}]
             d == [c EXCEPT !.nominated = @ \cup {p}]
  <1>1. a \in Agent /\ a.phase # "lite"
    BY DEF Sound
  <1>2. l \in State /\ (l = "succeeded" => a.list[p] = "succeeded")
    BY <1>1 DEF Agent, State
  <1> HIDE DEF l
  <1>3. w \in Agent
    BY <1>1, <1>2 DEF Agent
  <1>4. /\ w.phase = a.phase /\ w.controlling = a.controlling /\ w.heard = a.heard
        /\ w.early = a.early /\ w.nominated = a.nominated /\ w.selected = a.selected
        /\ w.check = a.check
    BY <1>1 DEF Agent
  <1>5. \A q \in Paths : w.list[q] = "succeeded" => a.list[q] = "succeeded"
    BY <1>1, <1>2 DEF Agent
  <1>6. CheckIncoming(e, a, m) =
          IF ~m.use \/ b.controlling THEN b
          ELSE IF c.list[p] = "succeeded" THEN CheckComplete(e, d, p)
          ELSE c
    BY DEF CheckIncoming, l
  <1> HIDE DEF w
  <1>7. Sound(e, w)
    BY <1>1, <1>3, <1>4, <1>5, Frame
  <1>8. Sound(e, b) /\ b.controlling = a.controlling
    BY <1>4, <1>7, TriggeredSound
  <1> HIDE DEF b
  <1>9. b \in Agent /\ b.phase # "lite" /\ Turns(e, b) /\ Owed(e, b)
        /\ (b.phase = "lite") = IsLite(e) /\ \A q \in Paths : CheckFrom(e, b, q)
    BY <1>8 DEF Sound, IsLite
  <1>10. c \in Agent
    BY <1>9 DEF Agent
  <1>11. /\ c.phase = b.phase /\ c.controlling = b.controlling /\ c.heard = b.heard \cup {p}
         /\ c.early = b.early /\ c.nominated = b.nominated /\ c.selected = b.selected
         /\ c.check = b.check /\ c.list = b.list
    BY <1>9 DEF Agent
  <1> HIDE DEF c
  <1>12. ASSUME m.use, ~b.controlling
         PROVE  Sound(e, c)
    <2>1. Turns(e, c) /\ \A q \in Paths : CheckFrom(e, c, q)
      BY <1>9, <1>11 DEF Turns, CheckFrom, IsNew
    <2>2. Owed(e, c)
      BY <1>9, <1>11, <1>12 DEF Owed, Progress
    <2> QED BY <1>9, <1>10, <1>11, <2>1, <2>2 DEF Sound
  <1>13. d \in Agent
    BY <1>10 DEF Agent
  <1>14. /\ d.phase = c.phase /\ d.controlling = c.controlling /\ d.heard = c.heard
         /\ d.early = c.early /\ d.nominated = c.nominated \cup {p} /\ d.selected = c.selected
         /\ d.check = c.check /\ d.list = c.list
    BY <1>10 DEF Agent
  <1> HIDE DEF d
  <1>15. ASSUME m.use, ~b.controlling, c.list[p] = "succeeded"
         PROVE  Sound(e, CheckComplete(e, d, p)) /\ CheckComplete(e, d, p).controlling = b.controlling
    <2>1. /\ Turns(e, c) /\ (c.phase = "lite") = IsLite(e) /\ Owed(e, c)
          /\ \A q \in Paths : CheckFrom(e, c, q)
      BY <1>12, <1>15 DEF Sound
    <2>2. Turns(e, d) /\ \A q \in Paths : CheckFrom(e, d, q)
      BY <1>14, <2>1 DEF Turns, CheckFrom, IsNew
    <2>3. Progress(c)
      BY <1>15 DEF Progress
    <2>4. Owed(e, d)
      BY <1>14, <1>15, <2>1, <2>3 DEF Owed
    <2>5. Sound(e, d)
      BY <1>13, <1>14, <2>1, <2>2, <2>4 DEF Sound
    <2> QED BY <1>11, <1>14, <2>5, CompleteSound
  <1> QED BY <1>6, <1>8, <1>11, <1>12, <1>15

-----------------------------------------------------------------------------
(* The actions.                                                            *)

LEMMA GoesKeeps ==
  ASSUME IceInv, NEW e \in Agents, NEW a, Sound(e, a), NEW taken, NEW messages,
         Emits(e, a, messages), GoesTo(e, a, taken, messages)
  PROVE  Kept
  <1>1. Carried(e, messages) \subseteq messages
    BY DEF Carried
  <1>2. Swept(e, a, air \ taken) \subseteq Swept(e, a, air)
    BY DEF Swept
  <1> QED BY <1>1, <1>2, StepKeeps DEF GoesTo

LEMMA SilentKeeps ==
  ASSUME IceInv, NEW e \in Agents, NEW a, Sound(e, a), NEW taken, GoesTo(e, a, taken, {})
  PROVE  Kept
  <1>1. Emits(e, a, {})
    BY DEF Emits
  <1> QED BY <1>1, GoesKeeps

LEMMA ShutsKeeps ==
  ASSUME IceInv, NEW e \in Agents, NEW lost, Shuts(e, lost)
  PROVE  Kept
  <1> DEFINE o == agent[e]
             r == IF ~o.done /\ \E p \in Paths : o.list[p] # "none"
                  THEN Append(o.result, "failed") ELSE o.result
             a == [o EXCEPT !.closed = TRUE, !.consent = FALSE, !.asked = NoPath,
                            !.selected = NoPath, !.result = r]
  <1>1. Sound(e, o) /\ o \in Agent
    BY NowSound, Roles DEF IceInv
  <1>2. r \in Seq({"completed", "failed"})
    BY <1>1 DEF Agent
  <1> HIDE DEF r
  <1>3. a \in Agent
    BY <1>1, <1>2 DEF Agent
  <1>4. /\ a.phase = o.phase /\ a.controlling = o.controlling /\ a.heard = o.heard
        /\ a.early = o.early /\ a.nominated = o.nominated /\ a.selected = NoPath
        /\ a.check = o.check /\ a.list = o.list /\ ~a.consent /\ a.asked = NoPath
    BY <1>1 DEF Agent
  <1>5. Closed(o) = a
    BY DEF Closed, r
  <1> HIDE DEF a
  <1>6. Turns(e, a) /\ \A p \in Paths : CheckFrom(e, a, p)
    BY <1>1, <1>4 DEF Sound, Turns, CheckFrom, IsNew
  <1>7. IF IsLite(e) THEN AsksNothing(a) ELSE Owed(e, a)
    BY <1>1, <1>4 DEF Sound, AsksNothing, Owed, Progress
  <1>8. Sound(e, a)
    BY <1>1, <1>3, <1>4, <1>6, <1>7 DEF Sound
  <1>9. agent' = [agent EXCEPT ![e] = a]
    BY <1>5 DEF Shuts
  <1>10. air' \subseteq {} \cup Swept(e, a, air)
    <2>1. Swept(e, a, {m \in air : m.to # e} \ lost) \subseteq Swept(e, a, air)
      BY DEF Swept
    <2> QED BY <1>5, <2>1 DEF Shuts
  <1>11. offered' = [offered EXCEPT ![e] = @ \cup
                       {m.path : m \in {x \in {} : x.kind = "request" /\ x.use}}]
    BY DEF Shuts, IceInv, IceTypes
  <1>12. Emits(e, a, {})
    BY DEF Emits
  <1> QED BY <1>8, <1>9, <1>10, <1>11, <1>12, StepKeeps

(* A check in progress sends a request that fits.                          *)
LEMMA OwnRequest ==
  ASSUME IceInv, NEW e \in Agents, ~IsLite(e), NEW a, Sound(e, a), NEW p \in Paths,
         a.check[p] # NoCheck
  PROVE  CheckOf(e, a, CheckRequest(e, p, a.check[p]))
  <1> DEFINE c == a.check[p]
             old == agent[e].check[p]
             m == CheckRequest(e, p, c)
  <1>1. /\ c \in Check /\ CheckFrom(e, a, p) /\ old \in Check /\ OtherAgent(e) \in Agents
        /\ a.controlling \in BOOLEAN
    BY Other DEF IceInv, IceTypes, Sound, Agent
  <1>2. IF old.stage = "none" THEN old = NoCheck
        ELSE old.controlling = agent[e].controlling \/ (Full /\ Final)
    BY DEF IceInv, ChecksFit
  <1>3. c.stage \in Checks
        /\ (c.controlling = a.controlling \/ (c.controlling = old.controlling /\ old.stage # "none"))
    <2>1. CASE c = old
      BY <1>1, <1>2, <2>1 DEF Check
    <2>2. CASE old.stage # "none" /\ c = [old EXCEPT !.tries = @ + 1]
      <3>1. c.stage = old.stage /\ c.controlling = old.controlling
        BY <1>1, <2>2 DEF Check
      <3> QED BY <1>1, <2>2, <3>1 DEF Check
    <2>3. CASE IsNew(a, c)
      BY <2>3 DEF IsNew
    <2> QED BY <1>1, <2>1, <2>2, <2>3 DEF CheckFrom
  <1>4. /\ m \in Requests /\ m.to = OtherAgent(e) /\ m.path = p
        /\ m.live = c.stage /\ m.controlling = c.controlling
    BY <1>1, <1>3 DEF CheckRequest, Request, Requests, Check, Live
  <1>5. \/ c.controlling = a.controlling
        \/ Full /\ Right(OtherAgent(e)) /\ a.controlling = (e = Senior)
    <2>1. CASE c.controlling = old.controlling /\ old.stage # "none"
      <3>1. CASE a.controlling = agent[e].controlling
        <4>1. CASE Full /\ Final
          <5>1. Right(e) /\ Right(OtherAgent(e))
            BY <1>1, <4>1 DEF Final
          <5> QED BY <3>1, <4>1, <5>1 DEF Right
        <4> QED BY <1>2, <2>1, <3>1, <4>1
      <3> QED BY <3>1 DEF Sound, Turns
    <2> QED BY <1>3, <2>1
  <1> QED BY <1>4, <1>5 DEF CheckOf

LEMMA RetryKeeps ==
  ASSUME IceInv, NEW e \in Agents, NEW p \in Paths, RetryCheck(e, p)
  PROVE  Kept
  <1> DEFINE o == agent[e]
             c == o.check[p]
             a == [o EXCEPT !.check[p].tries = @ + 1]
             n == [c EXCEPT !.tries = @ + 1]
  <1>1. /\ Sound(e, o) /\ o \in Agent /\ c \in Check /\ c.stage # "none"
        /\ GoesTo(e, a, {}, {CheckRequest(e, p, c)})
    BY NowSound, Roles DEF IceInv, RetryCheck, Agent
  <1>2. ~IsLite(e) /\ o.phase # "lite"
    BY <1>1 DEF Sound, AsksNothing, IsLite, NoCheck
  <1>3. n \in Check /\ n.stage = c.stage /\ n.controlling = c.controlling /\ n.use = c.use
    BY <1>1 DEF Check
  <1>4. a = [o EXCEPT !.check = [@ EXCEPT ![p] = n]]
    OBVIOUS
  <1> HIDE DEF n
  <1>5. a \in Agent
    BY <1>1, <1>3, <1>4, ZenonT(30) DEF Agent
  <1>6. /\ a.phase = o.phase /\ a.controlling = o.controlling /\ a.heard = o.heard
        /\ a.early = o.early /\ a.nominated = o.nominated /\ a.selected = o.selected
        /\ a.list = o.list
    BY <1>1, <1>4 DEF Agent
  <1>7. a.check[p] = n /\ \A q \in Paths : q # p => a.check[q] = o.check[q]
    BY <1>1, <1>4 DEF Agent
  <1>8. CheckFrom(e, a, p)
    BY <1>1, <1>7 DEF CheckFrom, n
  <1> HIDE DEF a
  <1>9. \A q \in Paths : a.check[q] = o.check[q] \/ CheckFrom(e, a, q)
    BY <1>7, <1>8
  <1>10. Sound(e, a)
    BY <1>1, <1>2, <1>5, <1>6, <1>9, Frame
  <1>11. CheckRequest(e, p, c) = CheckRequest(e, p, a.check[p])
    BY <1>3, <1>7 DEF CheckRequest
  <1>12. a.check[p] # NoCheck
    BY <1>1, <1>3, <1>7 DEF NoCheck
  <1> QED BY <1>1, <1>2, <1>10, <1>11, <1>12, OwnRequest, GoesKeeps DEF Emits

LEMMA TimesOutKeeps ==
  ASSUME IceInv, NEW e \in Agents, NEW p \in Paths, CheckTimesOut(e, p)
  PROVE  Kept
  <1>1. Sound(e, agent[e]) /\ agent[e].check[p].stage # "none"
    BY NowSound DEF CheckTimesOut
  <1>2. ~IsLite(e)
    BY <1>1 DEF Sound, AsksNothing, NoCheck
  <1>3. Sound(e, CheckFails(e, agent[e], p))
    BY <1>1, <1>2, FailsSound
  <1>4. GoesTo(e, CheckFails(e, agent[e], p), {}, {})
    BY DEF CheckTimesOut, Becomes
  <1> QED BY <1>3, <1>4, GoesKeeps DEF Emits

LEMMA DescribeKeeps ==
  ASSUME IceInv, NEW e \in Agents, Describe(e)
  PROVE  Kept
  <1> DEFINE o == agent[e]
             l == [p \in Paths |-> IF p \in Hidden[e] THEN o.list[p] ELSE "frozen"]
             a == [o EXCEPT !.list = l]
  <1>1. /\ Sound(e, o) /\ o \in Agent /\ o.phase # "lite" /\ ~IsLite(e)
        /\ GoesTo(e, a, {}, {})
    BY NowSound, Roles DEF IceInv, Describe, Becomes, IsLite
  <1>2. l \in [Paths -> State] /\ \A p \in Paths : l[p] = "succeeded" => o.list[p] = "succeeded"
    BY <1>1 DEF Agent, State
  <1> HIDE DEF l
  <1>3. a \in Agent
    BY <1>1, <1>2 DEF Agent
  <1>4. /\ a.phase = o.phase /\ a.controlling = o.controlling /\ a.heard = o.heard
        /\ a.early = o.early /\ a.nominated = o.nominated /\ a.selected = o.selected
        /\ a.check = o.check /\ a.list = l
    BY <1>1 DEF Agent
  <1> HIDE DEF a
  <1>5. Sound(e, a)
    BY <1>1, <1>2, <1>3, <1>4, Frame
  <1> QED BY <1>1, <1>5, GoesKeeps DEF Emits

LEMMA PeriodicKeeps ==
  ASSUME IceInv, NEW e \in Agents, CheckPeriodic(e)
  PROVE  Kept
  <1> DEFINE o == agent[e]
             waiting == {p \in Paths : o.list[p] = "waiting"}
             frozen == {p \in Paths : o.list[p] = "frozen"}
             a == [o EXCEPT !.phase = "awaiting"]
  <1>1. Sound(e, o) /\ o \in Agent /\ o.phase = "checking" /\ ~IsLite(e)
    BY NowSound, Roles DEF IceInv, CheckPeriodic, IsLite
  <1>2. CASE waiting \cup frozen = {} /\ GoesTo(e, a, {}, {})
    <2>1. a \in Agent
      BY <1>1 DEF Agent, Phase
    <2>2. /\ a.phase = "awaiting" /\ a.controlling = o.controlling /\ a.heard = o.heard
          /\ a.early = o.early /\ a.nominated = o.nominated /\ a.selected = o.selected
          /\ a.check = o.check /\ a.list = o.list
      BY <1>1 DEF Agent
    <2> HIDE DEF a
    <2>3. Sound(e, a)
      BY <1>1, <2>1, <2>2, Frame
    <2> QED BY <1>2, <2>3, GoesKeeps DEF Emits
  <1>3. ASSUME NEW p \in Paths, GoesTo(e, StartsCheck(o, p), {}, FirstRequests(e, StartsCheck(o, p), {p}))
        PROVE  Kept
    <2> DEFINE b == StartsCheck(o, p)
    <2>1. Sound(e, b) /\ b.check[p] # NoCheck
      BY <1>1, StartsSound DEF NoCheck
    <2> HIDE DEF b
    <2>2. Emits(e, b, FirstRequests(e, b, {p}))
      BY <1>1, <2>1, OwnRequest DEF Emits, FirstRequests
    <2> QED BY <1>3, <2>1, <2>2, GoesKeeps DEF b
  <1>4. \A S \in SUBSET Paths : Best(S) \subseteq Paths
    BY DEF Best
  <1>5. waiting \subseteq Paths /\ frozen \subseteq Paths
    OBVIOUS
  <1>6. CASE waiting \cup frozen # {}
    <2>1. PICK p \in Best(IF waiting # {} THEN waiting ELSE frozen) :
            GoesTo(e, StartsCheck(o, p), {}, FirstRequests(e, StartsCheck(o, p), {p}))
      BY <1>6 DEF CheckPeriodic, Becomes
    <2>2. p \in Paths
      BY <1>4, <1>5
    <2> QED BY <1>3, <2>1, <2>2
  <1> QED BY <1>2, <1>6 DEF CheckPeriodic, Becomes

LEMMA EndsKeeps ==
  ASSUME IceInv, NEW e \in Agents, ConnectEnds(e)
  PROVE  Kept
  <1> DEFINE o == agent[e]
             won == Head(o.result) = "completed"
             ph == IF won THEN "connected" ELSE "failed"
             r == Tail(o.result)
             none == [p \in Paths |-> NoCheck]
             a == [o EXCEPT !.phase = ph, !.consent = won, !.result = r, !.check = none]
  <1>1. /\ Sound(e, o) /\ o \in Agent /\ o.phase = "awaiting" /\ ~IsLite(e) /\ o.result # <<>>
        /\ GoesTo(e, a, {}, {})
    BY NowSound, Roles DEF IceInv, ConnectEnds, Becomes, IsLite
  <1>2. r \in Seq({"completed", "failed"}) /\ ph \in Phase /\ ph # "lite" /\ won \in BOOLEAN
    BY <1>1 DEF Agent, Phase
  <1>3. none \in [Paths -> Check]
    BY DEF NoCheck, Check
  <1> HIDE DEF r, ph, won, none
  <1>4. a \in Agent
    BY <1>1, <1>2, <1>3 DEF Agent
  <1>5. /\ a.phase = ph /\ a.controlling = o.controlling /\ a.heard = o.heard
        /\ a.early = o.early /\ a.nominated = o.nominated /\ a.selected = o.selected
        /\ a.check = none /\ a.list = o.list
    BY <1>1 DEF Agent
  <1> HIDE DEF a
  <1>6. \A p \in Paths : a.check[p] = o.check[p] \/ CheckFrom(e, a, p)
    BY <1>5 DEF CheckFrom, none
  <1>7. Sound(e, a)
    BY <1>1, <1>2, <1>4, <1>5, <1>6, Frame
  <1> QED BY <1>1, <1>7, GoesKeeps DEF Emits

LEMMA AskKeeps ==
  ASSUME IceInv, NEW e \in Agents, AskConsent(e)
  PROVE  Kept
  <1> DEFINE o == agent[e]
             a == [o EXCEPT !.asked = o.selected]
             m == Request(e, o.selected, o.controlling, FALSE, "consent")
  <1>1. /\ Sound(e, o) /\ o \in Agent /\ o.consent /\ o.selected # NoPath
        /\ GoesTo(e, a, {}, {m})
    BY NowSound, Roles DEF IceInv, AskConsent, Becomes
  <1>2. ~IsLite(e) /\ o.phase # "lite"
    BY <1>1 DEF Sound, AsksNothing, IsLite
  <1>3. a \in Agent
    BY <1>1 DEF Agent
  <1>4. /\ a.phase = o.phase /\ a.controlling = o.controlling /\ a.heard = o.heard
        /\ a.early = o.early /\ a.nominated = o.nominated /\ a.selected = o.selected
        /\ a.check = o.check /\ a.list = o.list
    BY <1>1 DEF Agent
  <1>5. /\ m \in Requests /\ m.to = OtherAgent(e) /\ m.controlling = a.controlling
        /\ m.live \notin Checks
    BY <1>1, <1>4, Other DEF Request, Requests, Live, Checks, Agent
  <1> HIDE DEF a, m
  <1>6. Sound(e, a)
    BY <1>1, <1>2, <1>3, <1>4, Frame
  <1> QED BY <1>1, <1>2, <1>5, <1>6, GoesKeeps DEF Emits, CheckOf

LEMMA ConnectKeeps ==
  ASSUME IceInv, NEW e \in Agents, ConnectIce(e)
  PROVE  Kept
  <1> DEFINE o == agent[e]
             f == OtherAgent(e)
             a0 == [o EXCEPT !.phase = "checking", !.early = {}]
             a == Unfreeze(e, a0)
             paths == {x.path : x \in o.early}
             begun == {p \in paths : a.list[p] \in {"none", "waiting"}}
             used == {x.path : x \in {y \in o.early : y.use}}
             h == IF a.controlling THEN a.heard ELSE a.heard \cup used
             l == [p \in Paths |-> IF p \in begun THEN "in progress" ELSE a.list[p]]
             k == [p \in Paths |-> IF p \in begun THEN StartsCheck(a, p).check[p] ELSE a.check[p]]
             b == [a EXCEPT !.heard = h, !.list = l, !.check = k]
  <1>1. /\ Sound(e, o) /\ o \in Agent /\ o.phase # "lite" /\ ~IsLite(e) /\ Owed(e, o)
        /\ GoesTo(e, b, {}, FirstRequests(e, b, begun))
    BY NowSound, Roles DEF IceInv, ConnectIce, Becomes, IsLite, Sound
  <1>2. a0 \in Agent
    BY <1>1 DEF Agent, Phase
  <1>3. /\ a0.phase = "checking" /\ a0.controlling = o.controlling /\ a0.heard = o.heard
        /\ a0.early = {} /\ a0.nominated = o.nominated /\ a0.selected = o.selected
        /\ a0.check = o.check /\ a0.list = o.list
    BY <1>1 DEF Agent
  <1> HIDE DEF a0
  <1>4. Turns(e, a0) /\ \A p \in Paths : CheckFrom(e, a0, p)
    BY <1>1, <1>3 DEF Sound, Turns, CheckFrom, IsNew
  <1>5. Owed(e, a0)
    BY <1>1, <1>3 DEF Owed, Progress
  <1>6. Sound(e, a0)
    BY <1>1, <1>2, <1>3, <1>4, <1>5 DEF Sound, IsLite
  <1>7. PICK u \in [Paths -> State] :
          /\ a = [a0 EXCEPT !.list = u]
          /\ \A p \in Paths : u[p] = "succeeded" => a0.list[p] = "succeeded"
    <2> DEFINE listed == {p \in Paths : a0.list[p] # "none"}
               rest == {p \in listed \ Best(listed) : a0.list[p] = "frozen"}
               next == UNION {Best({q \in rest : Foundation[e][q] = Foundation[e][p]}) : p \in rest}
               v == [p \in Paths |-> IF a0.list[p] = "frozen" /\ p \in Best(listed) \cup next
                                     THEN "waiting" ELSE a0.list[p]]
    <2>1. a = [a0 EXCEPT !.list = v]
      BY DEF Unfreeze
    <2> HIDE DEF next, listed
    <2>2. v \in [Paths -> State] /\ \A p \in Paths : v[p] = "succeeded" => a0.list[p] = "succeeded"
      BY <1>2 DEF Agent, State
    <2> QED BY <2>1, <2>2
  <1> HIDE DEF a
  <1>8. a \in Agent
    BY <1>2, <1>7 DEF Agent
  <1>9. /\ a.phase = "checking" /\ a.controlling = a0.controlling /\ a.heard = a0.heard
        /\ a.early = a0.early /\ a.nominated = a0.nominated /\ a.selected = a0.selected
        /\ a.check = a0.check /\ a.list = u
    BY <1>2, <1>3, <1>7 DEF Agent
  <1>10. Sound(e, a)
    <2>1. ~IsLite(e) /\ a.phase # "lite"
      BY <1>1, <1>9
    <2>2. \A p \in Paths : a.list[p] = "succeeded" => a0.list[p] = "succeeded"
      BY <1>7, <1>9
    <2> QED BY <1>6, <1>8, <1>9, <2>1, <2>2, Frame
  <1>11. begun \subseteq Paths /\ used \subseteq Paths /\ used \subseteq offered[f]
    BY <1>1 DEF Agent, Owed
  <1>12. l \in [Paths -> State] /\ \A p \in Paths : l[p] = "succeeded" => a.list[p] = "succeeded"
    BY <1>8 DEF Agent, State
  <1>13. \A p \in Paths : /\ Sound(e, StartsCheck(a, p)) /\ StartsCheck(a, p).check[p].stage = "check"
                          /\ StartsCheck(a, p).controlling = a.controlling
    BY <1>1, <1>10, StartsSound
  <1>14. \A p \in Paths : k[p] \in Check /\ (p \in begun => k[p].stage = "check")
    BY <1>8, <1>13 DEF Sound, Agent
  <1>15. ASSUME NEW p \in Paths
         PROVE  a.check[p] = k[p] \/ (k[p] = StartsCheck(a, p).check[p] /\ CheckFrom(e, StartsCheck(a, p), p))
    BY <1>13 DEF Sound
  <1>16. k \in [Paths -> Check]
    BY <1>14
  <1>17. h \subseteq Paths /\ (h \subseteq offered[f])
    <2>1. a.heard \subseteq Paths /\ a.heard \subseteq offered[f]
      BY <1>8, <1>10, <1>1 DEF Agent, Sound, Owed
    <2> QED BY <1>11, <2>1
  <1> HIDE DEF h, l, k, begun
  <1>18. b \in Agent
    BY <1>8, <1>12, <1>16, <1>17 DEF Agent
  <1>19. /\ b.phase = "checking" /\ b.controlling = a.controlling /\ b.heard = h
         /\ b.early = a.early /\ b.nominated = a.nominated /\ b.selected = a.selected
         /\ b.check = k /\ b.list = l
    BY <1>8, <1>9 DEF Agent
  <1> HIDE DEF b
  <1>20. ASSUME NEW p \in Paths
         PROVE  CheckFrom(e, b, p)
    <2>1. CASE a.check[p] = k[p]
      <3>1. CheckFrom(e, a, p)
        BY <1>10 DEF Sound
      <3> QED BY <1>19, <2>1, <3>1 DEF CheckFrom, IsNew
    <2>2. CASE k[p] = StartsCheck(a, p).check[p] /\ CheckFrom(e, StartsCheck(a, p), p)
      BY <1>13, <1>19, <2>2 DEF CheckFrom, IsNew
    <2> QED BY <1>15, <2>1, <2>2
  <1>21. Owed(e, b)
    <2>1. Owed(e, a)
      BY <1>1, <1>10 DEF Sound
    <2> QED BY <1>12, <1>17, <1>19, <2>1 DEF Owed, Progress
  <1>22. Sound(e, b)
    <2>1. Turns(e, b)
      BY <1>10, <1>19 DEF Sound, Turns
    <2> QED BY <1>1, <1>18, <1>19, <1>20, <1>21, <2>1 DEF Sound, IsLite
  <1>23. Emits(e, b, FirstRequests(e, b, begun))
    <2> SUFFICES ASSUME NEW p \in begun
                 PROVE  CheckOf(e, b, CheckRequest(e, p, b.check[p]))
      BY DEF Emits, FirstRequests
    <2>1. p \in Paths /\ b.check[p] # NoCheck
      BY <1>11, <1>14, <1>19 DEF NoCheck
    <2> QED BY <1>1, <1>22, <2>1, OwnRequest
  <1> QED BY <1>1, <1>22, <1>23, GoesKeeps

LEMMA LiteKeeps ==
  ASSUME IceInv, NEW m \in air, LiteAnswers(m.to, m)
  PROVE  Kept
  <1> DEFINE e == m.to
             o == agent[e]
             s == IF m.use THEN m.path ELSE o.selected
             a == [o EXCEPT !.selected = s]
  <1>1. /\ e \in Agents /\ m.path \in Paths /\ m.kind = "request" /\ IsLite(e)
        /\ GoesTo(e, a, {m}, {Response(m, "ok")})
    BY DEF LiteAnswers, IceInv, IceTypes, Requests, Answers
  <1>2. Sound(e, o) /\ o \in Agent
    BY <1>1, NowSound, Roles DEF IceInv
  <1>3. s \in Paths \cup {NoPath}
    BY <1>1, <1>2 DEF Agent
  <1> HIDE DEF s
  <1>4. a \in Agent
    BY <1>2, <1>3 DEF Agent
  <1>5. /\ a.phase = o.phase /\ a.controlling = o.controlling
        /\ a.check = o.check /\ a.consent = o.consent /\ a.asked = o.asked
    BY <1>2 DEF Agent
  <1> HIDE DEF a
  <1>6. Sound(e, a)
    BY <1>1, <1>2, <1>4, <1>5 DEF Sound, Turns, CheckFrom, IsNew, AsksNothing
  <1>7. AnswerOf(e, a, Response(m, "ok"))
    BY <1>1 DEF AnswerOf
  <1> QED BY <1>1, <1>6, <1>7, GoesKeeps DEF Emits

(* The roles after a request that was not refused.                         *)
LEMMA SwitchSound ==
  ASSUME IceInv, NEW m \in air, m.kind = "request", ~IsLite(m.to),
         ~Refuses(m.to, agent[m.to], m)
  PROVE  LET o == agent[m.to]
             b == IF Conflict(o, m) THEN [o EXCEPT !.controlling = ~@] ELSE o
         IN Sound(m.to, b) /\ b.controlling # m.controlling
  <1> DEFINE e == m.to
             f == OtherAgent(e)
             o == agent[e]
             a == [o EXCEPT !.controlling = ~@]
  <1>1. m \in Requests /\ e \in Agents /\ f \in Agents /\ f # e
    BY Other DEF IceInv, IceTypes, Requests, Answers
  <1>2. /\ Sound(e, o) /\ o \in Agent /\ o.controlling \in BOOLEAN /\ m.controlling \in BOOLEAN
        /\ RequestFits(f, m) /\ agent[f].controlling \in BOOLEAN
    BY <1>1, NowSound, Roles DEF IceInv, MessagesFit, Fits, Requests
  <1>3. CASE ~Conflict(o, m)
    BY <1>2, <1>3 DEF Conflict
  <1>4. CASE Conflict(o, m)
    <2>1. o.controlling = m.controlling /\ ~Right(e)
      BY <1>4 DEF Conflict, Refuses, Right
    <2>2. o.controlling = agent[f].controlling /\ Full
      BY <1>1, <1>2, <2>1, Other DEF RequestFits, Final, Full
    <2>3. Right(f) /\ ~Differ
      BY <1>1, <1>2, <2>1, <2>2, Roles DEF IceInv, Right
    <2>4. a \in Agent
      BY <1>2, ZenonT(30) DEF Agent
    <2>5. /\ a.phase = o.phase /\ a.controlling = ~o.controlling /\ a.heard = o.heard
          /\ a.early = o.early /\ a.nominated = o.nominated /\ a.selected = o.selected
          /\ a.check = o.check /\ a.list = o.list
      BY <1>2 DEF Agent
    <2> HIDE DEF a
    <2>6. Turns(e, a)
      BY <1>2, <2>1, <2>2, <2>3, <2>5 DEF Turns, Right
    <2>7. \A p \in Paths : CheckFrom(e, a, p)
      BY <2>5 DEF CheckFrom
    <2>8. Owed(e, o) /\ ~Progress(o)
      BY <1>1, <1>2, <2>2 DEF Sound, Owed
    <2>9. Owed(e, a)
      BY <2>5, <2>8 DEF Owed, Progress
    <2>10. Sound(e, a)
      BY <1>2, <2>4, <2>5, <2>6, <2>7, <2>9 DEF Sound
    <2> QED BY <1>2, <1>4, <2>1, <2>5, <2>10 DEF a
  <1> QED BY <1>3, <1>4

LEMMA ReceiveKeeps ==
  ASSUME IceInv, NEW m \in air, ReceiveRequest(m.to, m)
  PROVE  Kept
  <1> DEFINE e == m.to
             o == agent[e]
             b == IF Conflict(o, m) THEN [o EXCEPT !.controlling = ~@] ELSE o
             w == [b EXCEPT !.early = @ \cup {[path |-> m.path, use |-> m.use]}]
             c == IF \A p \in Paths : b.list[p] = "none" THEN w ELSE CheckIncoming(e, b, m)
             begun == {p \in {m.path} : b.check[p] = NoCheck /\ c.check[p] # NoCheck}
  <1>1. /\ m \in Requests /\ m.kind = "request" /\ ~IsLite(e) /\ e \in Agents /\ m.path \in Paths
        /\ m.controlling \in BOOLEAN /\ m.use \in BOOLEAN
    BY DEF ReceiveRequest, IceInv, IceTypes, Requests, Answers
  <1>2. Sound(e, o) /\ RequestFits(OtherAgent(e), m)
    BY <1>1, NowSound DEF IceInv, MessagesFit, Fits
  <1>3. CASE Refuses(e, o, m)
    <2>1. GoesTo(e, o, {m}, {Response(m, "conflict")})
      BY <1>3 DEF ReceiveRequest
    <2>2. AnswerOf(e, o, Response(m, "conflict"))
      BY <1>1, <1>3 DEF AnswerOf, Refuses, Conflict
    <2> QED BY <1>1, <1>2, <2>1, <2>2, GoesKeeps DEF Emits
  <1>4. CASE ~Refuses(e, o, m)
    <2>1. Sound(e, b) /\ b.controlling # m.controlling
      BY <1>1, <1>4, SwitchSound
    <2>2. GoesTo(e, c, {m}, {Response(m, "ok")} \cup FirstRequests(e, c, begun))
      BY <1>4 DEF ReceiveRequest
    <2> HIDE DEF b
    <2>3. m.use => m.path \in offered[OtherAgent(e)]
      BY <1>2 DEF RequestFits
    <2>4. Sound(e, w) /\ w.controlling = b.controlling
      <3>1. b \in Agent /\ b.phase # "lite" /\ Owed(e, b)
        BY <1>1, <2>1 DEF Sound, IsLite
      <3>2. [path |-> m.path, use |-> m.use] \in [path : Paths, use : BOOLEAN]
        BY <1>1
      <3>3. w \in Agent
        BY <3>1, <3>2 DEF Agent
      <3>4. /\ w.phase = b.phase /\ w.controlling = b.controlling /\ w.heard = b.heard
            /\ w.early = b.early \cup {[path |-> m.path, use |-> m.use]}
            /\ w.nominated = b.nominated /\ w.selected = b.selected
            /\ w.check = b.check /\ w.list = b.list
        BY <3>1 DEF Agent
      <3> HIDE DEF w
      <3>5. Turns(e, w) /\ \A p \in Paths : CheckFrom(e, w, p)
        BY <2>1, <3>4, SMTT(30) DEF Sound, Turns, CheckFrom, IsNew
      <3>6. Owed(e, w)
        BY <2>3, <3>1, <3>4 DEF Owed, Progress
      <3> QED BY <1>1, <2>1, <3>3, <3>4, <3>5, <3>6 DEF Sound
    <2>5. Sound(e, CheckIncoming(e, b, m)) /\ CheckIncoming(e, b, m).controlling = b.controlling
      BY <1>1, <2>1, <2>3, IncomingSound
    <2> HIDE DEF w
    <2>6. Sound(e, c) /\ c.controlling = b.controlling
      BY <2>4, <2>5
    <2> HIDE DEF c
    <2>7. AnswerOf(e, c, Response(m, "ok"))
      BY <1>1, <2>1, <2>6 DEF AnswerOf
    <2>8. \A q \in FirstRequests(e, c, begun) : CheckOf(e, c, q)
      BY <1>1, <2>6, OwnRequest DEF FirstRequests
    <2>9. Emits(e, c, {Response(m, "ok")} \cup FirstRequests(e, c, begun))
      BY <2>7, <2>8 DEF Emits
    <2> QED BY <1>1, <2>2, <2>6, <2>9, GoesKeeps
  <1> QED BY <1>3, <1>4

(* An answer finds its check, in a role that the other agent has not.      *)
LEMMA AnswerIs ==
  ASSUME IceInv, NEW m \in air, m.kind # "request", m.live \in Checks
  PROVE  LET e == m.to
             a == agent[e]
         IN /\ e \in Agents /\ m.path \in Paths /\ ~IsLite(e) /\ Sound(e, a) /\ m.kind \in {"ok", "conflict"}
            /\ a.check[m.path].stage = m.live /\ AnswerFits(e, m)
            /\ m.kind = "ok" =>
                 /\ Full => a.controlling # agent[OtherAgent(e)].controlling
                 /\ a.check[m.path].use \/ m.live = "nominate" => a.controlling
  <1> DEFINE e == m.to
             a == agent[e]
             c == a.check[m.path]
  <1>1. e \in Agents /\ m.path \in Paths /\ m.kind \in {"ok", "conflict"} /\ AnswerFits(e, m)
    BY DEF IceInv, IceTypes, Requests, Answers, MessagesFit, Fits
  <1>2. Sound(e, a) /\ ~IsLite(e) /\ c.stage = m.live
    BY <1>1, NowSound DEF AnswerFits, Pending
  <1>3. ASSUME m.kind = "ok"
        PROVE  /\ Full => a.controlling # agent[OtherAgent(e)].controlling
               /\ c.use \/ m.live = "nominate" => a.controlling
    <2>1. c.controlling = a.controlling /\ (Full => Differ)
      BY <1>1, <1>3 DEF AnswerFits, Pending
    <2>2. (c.use => c.controlling) /\ (c.stage = "nominate" => c.controlling)
      BY <1>1, <1>2 DEF IceInv, ChecksFit, Checks
    <2> QED BY <1>1, <1>2, <2>1, <2>2, Roles DEF IceInv
  <1> QED BY <1>1, <1>2, <1>3

LEMMA ConflictKeeps ==
  ASSUME IceInv, NEW m \in air, RoleConflict(m.to, m)
  PROVE  Kept
  <1> DEFINE e == m.to
             p == m.path
             o == agent[e]
             r == ~o.check[p].controlling
             a == [o EXCEPT !.controlling = r]
             b == StartsCheck(a, p)
  <1>1. /\ m.kind = "conflict" /\ m.live \in Checks
        /\ GoesTo(e, b, {m}, FirstRequests(e, b, {p}))
    BY DEF RoleConflict, Checks
  <1>2. /\ e \in Agents /\ p \in Paths /\ ~IsLite(e) /\ Sound(e, o) /\ AnswerFits(e, m)
        /\ o \in Agent
    BY <1>1, AnswerIs DEF Sound
  <1>3. Full /\ Right(OtherAgent(e)) /\ r = (e = Senior)
    BY <1>1, <1>2 DEF AnswerFits, Pending
  <1> HIDE DEF r
  <1>4. a \in Agent
    BY <1>2, <1>3 DEF Agent
  <1>5. /\ a.phase = o.phase /\ a.controlling = r /\ a.heard = o.heard
        /\ a.early = o.early /\ a.nominated = o.nominated /\ a.selected = o.selected
        /\ a.check = o.check /\ a.list = o.list
    BY <1>2 DEF Agent
  <1> HIDE DEF a, b
  <1>6. Turns(e, a) /\ \A q \in Paths : CheckFrom(e, a, q)
    BY <1>3, <1>5 DEF Turns, CheckFrom
  <1>7. Owed(e, o) /\ o.controlling \in BOOLEAN /\ agent[OtherAgent(e)].controlling \in BOOLEAN
        /\ agent[OtherAgent(e)].controlling = (e # Senior)
    BY <1>2, <1>3, Other, Roles DEF Sound, IceInv
  <1>8. r # agent[OtherAgent(e)].controlling
    BY <1>3, <1>7
  <1>9. ~r /\ o.nominated # {} => ~o.controlling
    BY <1>3, <1>7 DEF Owed, Progress
  <1>10. Owed(e, a)
    BY <1>5, <1>7, <1>8, <1>9 DEF Owed, Progress
  <1>11. Sound(e, a)
    BY <1>2, <1>4, <1>5, <1>6, <1>10 DEF Sound
  <1>12. Sound(e, b) /\ b.check[p] # NoCheck
    BY <1>2, <1>11, StartsSound DEF b, NoCheck
  <1>13. Emits(e, b, FirstRequests(e, b, {p}))
    BY <1>2, <1>12, OwnRequest DEF Emits, FirstRequests
  <1> QED BY <1>1, <1>2, <1>12, <1>13, GoesKeeps

LEMMA AnsweredKeeps ==
  ASSUME IceInv, NEW m \in air, CheckAnswered(m.to, m)
  PROVE  Kept
  <1> DEFINE e == m.to
             p == m.path
             o == agent[e]
             n == [stage |-> "nominate", controlling |-> TRUE, use |-> TRUE, tries |-> 1]
             b == [o EXCEPT !.nominating = TRUE, !.check[p] = n]
  <1>1. m.kind = "ok" /\ m.live = "check" /\ m.live \in Checks
    BY DEF CheckAnswered, Checks
  <1>2. /\ e \in Agents /\ p \in Paths /\ ~IsLite(e) /\ Sound(e, o) /\ o \in Agent
        /\ Full => o.controlling # agent[OtherAgent(e)].controlling
        /\ o.check[p].use => o.controlling
    BY <1>1, AnswerIs DEF Sound
  <1>3. CASE GoesTo(e, CheckFails(e, o, p), {m}, {})
    BY <1>2, <1>3, FailsSound, SilentKeeps
  <1>4. CASE GoesTo(e, CheckSucceeds(e, o, p, FALSE), {m}, {})
    <2>1. Sound(e, CheckSucceeds(e, o, p, FALSE))
      BY <1>2, SucceedsSound
    <2> QED BY <1>2, <1>4, <2>1, SilentKeeps
  <1>5. CASE (o.check[p].use \/ p \in o.heard) /\ GoesTo(e, CheckSucceeds(e, o, p, TRUE), {m}, {})
    <2>1. o.heard \subseteq offered[OtherAgent(e)]
      BY <1>2 DEF Sound, Owed
    <2>2. Sound(e, CheckSucceeds(e, o, p, TRUE))
      BY <1>2, <1>5, <2>1, SucceedsSound
    <2> QED BY <1>2, <1>5, <2>2, SilentKeeps
  <1>6. CASE o.controlling /\ GoesTo(e, b, {m}, FirstRequests(e, b, {p}))
    <2>1. n \in Check /\ n.stage \in Checks
      BY DEF Check, Checks
    <2>2. n # NoCheck /\ n.tries = 1 /\ n.controlling
      BY DEF NoCheck
    <2> HIDE DEF n
    <2>3. b \in Agent
      BY <1>2, <2>1 DEF Agent
    <2>4. /\ b.phase = o.phase /\ b.controlling = o.controlling /\ b.heard = o.heard
          /\ b.early = o.early /\ b.nominated = o.nominated /\ b.selected = o.selected
          /\ b.list = o.list
      BY <1>2 DEF Agent
    <2>5. b.check[p] = n /\ \A q \in Paths : q # p => b.check[q] = o.check[q]
      BY <1>2 DEF Agent
    <2>6. CheckFrom(e, b, p)
      <3>1. n.controlling = b.controlling
        BY <1>2, <1>6, <2>4 DEF n, Agent
      <3> QED BY <2>1, <2>2, <2>5, <3>1 DEF CheckFrom, IsNew
    <2> HIDE DEF b
    <2>7. \A q \in Paths : b.check[q] = o.check[q] \/ CheckFrom(e, b, q)
      BY <2>5, <2>6
    <2>8. o.phase # "lite"
      BY <1>2 DEF IsLite
    <2>9. Sound(e, b)
      BY <1>2, <2>3, <2>4, <2>7, <2>8, Frame
    <2>10. Emits(e, b, FirstRequests(e, b, {p}))
      BY <1>2, <2>2, <2>5, <2>9, OwnRequest DEF Emits, FirstRequests
    <2> QED BY <1>2, <1>6, <2>9, <2>10, GoesKeeps
  <1> QED BY <1>3, <1>4, <1>5, <1>6 DEF CheckAnswered

LEMMA NominationKeeps ==
  ASSUME IceInv, NEW m \in air, NominationAnswered(m.to, m)
  PROVE  Kept
  <1> DEFINE e == m.to
             o == agent[e]
  <1>1. m.kind # "request" /\ m.live = "nominate" /\ m.live \in Checks
    BY DEF NominationAnswered, Checks
  <1>2. /\ e \in Agents /\ m.path \in Paths /\ ~IsLite(e) /\ Sound(e, o)
        /\ m.kind = "ok" => /\ Full => o.controlling # agent[OtherAgent(e)].controlling
                            /\ o.controlling
    BY <1>1, AnswerIs
  <1>3. CASE m.kind = "ok"
    <2>1. Sound(e, CheckSucceeds(e, o, m.path, TRUE))
      BY <1>2, <1>3, SucceedsSound
    <2> QED BY <1>2, <1>3, <2>1, SilentKeeps DEF NominationAnswered
  <1>4. CASE m.kind # "ok"
    <2>1. Sound(e, CheckFails(e, o, m.path))
      BY <1>2, FailsSound
    <2> QED BY <1>2, <1>4, <2>1, SilentKeeps DEF NominationAnswered
  <1> QED BY <1>3, <1>4

(* Consent changes no role.                                                *)
LEMMA MissedKeeps ==
  ASSUME IceInv, NEW e \in Agents, NEW taken, ~IsLite(e),
         \/ Missed(e, taken)
         \/ GoesTo(e, Forgives(agent[e]), taken, {})
  PROVE  Kept
  <1> DEFINE o == agent[e]
  <1>1. Sound(e, o) /\ o \in Agent /\ o.phase # "lite"
    BY NowSound, Roles DEF IceInv, IsLite
  <1>2. ASSUME NEW k \in Nat, NEW t,
               GoesTo(e, [o EXCEPT !.asked = NoPath, !.misses = k], t, {})
        PROVE  Kept
    <2> DEFINE a == [o EXCEPT !.asked = NoPath, !.misses = k]
    <2>1. a \in Agent
      BY <1>1 DEF Agent
    <2>2. /\ a.phase = o.phase /\ a.controlling = o.controlling /\ a.heard = o.heard
          /\ a.early = o.early /\ a.nominated = o.nominated /\ a.selected = o.selected
          /\ a.check = o.check /\ a.list = o.list
      BY <1>1 DEF Agent
    <2> HIDE DEF a
    <2>3. Sound(e, a)
      BY <1>1, <2>1, <2>2, Frame
    <2> QED BY <1>2, <2>3, GoesKeeps DEF Emits, a
  <1>3. CASE GoesTo(e, Forgives(o), taken, {})
    <2>1. Forgives(o) = [o EXCEPT !.asked = NoPath, !.misses = 0]
      BY DEF Forgives
    <2> QED BY <1>2, <1>3, <2>1
  <1>4. CASE GoesTo(e, Misses(o), taken, {})
    <2>1. Misses(o) = [o EXCEPT !.asked = NoPath, !.misses = o.misses + 1] /\ o.misses + 1 \in Nat
      BY <1>1 DEF Misses, Agent
    <2> QED BY <1>2, <1>4, <2>1
  <1> QED BY <1>3, <1>4, ShutsKeeps DEF Missed

LEMMA NextKeeps ==
  ASSUME IceInv, [IceNext]_iceVars
  PROVE  Kept
  <1>1. ASSUME NEW e \in Agents, ConsentTimesOut(e)
        PROVE  Kept
    <2>1. Sound(e, agent[e]) /\ agent[e].asked # NoPath
      BY <1>1, NowSound DEF ConsentTimesOut
    <2>2. ~IsLite(e)
      BY <2>1 DEF Sound, AsksNothing
    <2> QED BY <1>1, <2>2, MissedKeeps DEF ConsentTimesOut
  <1>2. ASSUME NEW m \in air, ConsentAnswered(m.to, m)
        PROVE  Kept
    <2>1. m.to \in Agents /\ ~IsLite(m.to)
      BY <1>2 DEF ConsentAnswered, IceInv, IceTypes, Requests, Answers, MessagesFit, Fits, AnswerFits
    <2> QED BY <1>2, <2>1, MissedKeeps DEF ConsentAnswered
  <1>3. ASSUME NEW m \in air, LoseConsent(m)
        PROVE  Kept
    BY <1>3, SMTT(30) DEF LoseConsent, Kept, IceInv, IceTypes, ChecksFit, MessagesFit, OffersFit, Fits, RequestFits,
                AnswerFits, Pending, Owed, Full, Final, Right, Differ, IsLite
  <1>4. CASE UNCHANGED iceVars
    BY <1>4, SMTT(30) DEF iceVars, Kept, IceInv, IceTypes, ChecksFit, MessagesFit, OffersFit, Fits, RequestFits,
                AnswerFits, Pending, Owed, Full, Final, Right, Differ, IsLite
  <1>5. ASSUME NEW e \in Agents, CloseIce(e)
        PROVE  Kept
    BY <1>5, ShutsKeeps DEF CloseIce
  <1>6. ASSUME NEW m \in air, ReceiveStun(m)
        PROVE  Kept
    BY <1>2, <1>6, ReceiveKeeps, LiteKeeps, ConflictKeeps, AnsweredKeeps, NominationKeeps
       DEF ReceiveStun
  <1>7. ASSUME NEW e \in Agents, Describe(e) \/ ConnectIce(e) \/ CheckPeriodic(e) \/ ConnectEnds(e)
        PROVE  Kept
    BY <1>7, DescribeKeeps, ConnectKeeps, PeriodicKeeps, EndsKeeps
  <1>8. ASSUME NEW e \in Agents, NEW p \in Paths, RetryCheck(e, p) \/ CheckTimesOut(e, p)
        PROVE  Kept
    BY <1>8, RetryKeeps, TimesOutKeeps
  <1> QED BY <1>1, <1>3, <1>4, <1>5, <1>6, <1>7, <1>8, AskKeeps DEF IceNext

LEMMA InitFits == IceInit => IceInv
  <1> SUFFICES ASSUME IceInit
               PROVE  IceInv
    OBVIOUS
  <1>1. PICK controls \in Openings, lite \in {{}} \cup {{e} : e \in LiteAgents} :
          agent = [e \in Agents |-> NewAgent(e \in controls, e \in lite)]
    BY DEF IceInit
  <1>2. NoCheck \in Check
    BY DEF NoCheck, Check
  <1>3. ASSUME NEW c \in BOOLEAN, NEW l \in BOOLEAN
        PROVE  NewAgent(c, l) \in Agent
    <2>1. [p \in Paths |-> "none"] \in [Paths -> State] /\ [p \in Paths |-> NoCheck] \in [Paths -> Check]
      BY <1>2 DEF State
    <2>2. <<>> \in Seq({"completed", "failed"})
      OBVIOUS
    <2> QED BY <2>1, <2>2 DEF NewAgent, Agent, Phase
  <1>4. ASSUME NEW e \in Agents
        PROVE  /\ agent[e] \in Agent /\ AsksNothing(agent[e]) /\ ~Progress(agent[e])
               /\ agent[e].heard = {} /\ agent[e].early = {} /\ agent[e].nominated = {}
               /\ agent[e].selected = NoPath
    <2>1. agent[e] = NewAgent(e \in controls, e \in lite)
      BY <1>1
    <2>2. (e \in controls) \in BOOLEAN /\ (e \in lite) \in BOOLEAN
      OBVIOUS
    <2>3. agent[e] \in Agent
      BY <1>3, <2>1, <2>2
    <2>4. /\ agent[e].heard = {} /\ agent[e].early = {} /\ agent[e].nominated = {}
          /\ agent[e].selected = NoPath /\ ~agent[e].consent /\ agent[e].asked = NoPath
          /\ agent[e].check = [p \in Paths |-> NoCheck] /\ agent[e].list = [p \in Paths |-> "none"]
      BY <2>1 DEF NewAgent
    <2> QED BY <2>3, <2>4 DEF AsksNothing, Progress
  <1>5. IceTypes
    BY <1>1, <1>4 DEF IceTypes, IceInit
  <1>6. ChecksFit
    BY <1>4 DEF ChecksFit, AsksNothing, NoCheck
  <1>7. MessagesFit
    BY DEF MessagesFit, IceInit
  <1>8. OffersFit
    BY <1>4 DEF OffersFit, Owed
  <1> QED BY <1>5, <1>6, <1>7, <1>8 DEF IceInv

LEMMA IceInvariant == IceSpec => []IceInv
  <1>1. IceInv /\ [IceNext]_iceVars => IceInv'
    BY NextKeeps DEF Kept
  <1> QED BY <1>1, InitFits, PTL DEF IceSpec

LEMMA InvNominates == IceInv => NominatedByOne
  <1> SUFFICES ASSUME IceInv, NEW e \in Agents, ~IsLite(e), agent[e].selected # NoPath
               PROVE  /\ ~agent[e].controlling => agent[e].selected \in offered[OtherAgent(e)]
                      /\ ~IsLite(OtherAgent(e)) /\ agent[OtherAgent(e)].selected # NoPath
                           => agent[e].controlling # agent[OtherAgent(e)].controlling
    BY DEF NominatedByOne
  <1>1. Owed(e, agent[e]) /\ Progress(agent[e])
    BY DEF IceInv, OffersFit, Progress
  <1>2. ~IsLite(OtherAgent(e)) => Full
    BY Other DEF Full
  <1> QED BY <1>1, <1>2 DEF Owed

(* For any paths, priorities and foundations, whichever messages get lost  *)
(* and whoever began as what: a controlled agent selects only what the     *)
(* controlling one nominated, and two agents that selected have different  *)
(* roles (request_received, check_start, check_complete).                  *)
THEOREM NominatedByOneHolds == IceSpec => []NominatedByOne
  BY IceInvariant, InvNominates, PTL

(* A role changes only as long as both agents have the same, and at once   *)
(* is the final one, the senior agent controlling: the conflict is settled *)
(* by a single switch, for good (switch_role in request_received and in    *)
(* check_start).                                                           *)
THEOREM RolesSettleOnce ==
  IceSpec => [][\A e \in Agents :
                  agent'[e].controlling # agent[e].controlling => Full /\ ~Differ /\ Final']_iceVars
  <1>1. IceInv /\ [IceNext]_iceVars =>
          [\A e \in Agents :
             agent'[e].controlling # agent[e].controlling => Full /\ ~Differ /\ Final']_iceVars
    BY NextKeeps DEF Kept
  <1> QED BY <1>1, IceInvariant, PTL DEF IceSpec

-----------------------------------------------------------------------------
(* The TURN client: its maps of channels, its nonces, and delete().        *)

Address == TurnPeers \cup {NoPeer}
Number == Numbers \cup {NoNumber}
Outcome == {"idle", "waiting", "done", "failed", "unauthorized"}

RequestMessage ==
  [type : {"request"}, op : Operations, attempt : {1, 2}, to : Address, number : Number, nonce : Nat]
ResponseMessage ==
  [type : {"response"}, op : Operations, attempt : {1, 2},
   answer : {"success", "refused", "unauthorized"}, nonce : Nat]

OpRecord ==
  [pc : Outcome, to : Address, number : Number, new : BOOLEAN,
   attempt : {0, 1, 2}, tries : Nat, nonce : Nat, since : Nat]

Types ==
  /\ client \in [number : Nat, nonce : Nat, deleted : BOOLEAN, lost : Nat,
                 channelToPeer : [Numbers -> Address], peerToChannel : [TurnPeers -> Number]]
  /\ op \in [Operations -> OpRecord]
  /\ turnNet \subseteq RequestMessage \cup ResponseMessage
  /\ server \in [nonce : Nat, allocated : BOOLEAN, bound : [Numbers -> Address]]

Completed == {s \in Sends : op[s].pc = "done"}

(* Each call takes at most one number, so they do not run out.             *)
NumbersLeft == client.number >= 1 /\ client.number <= 1 + Cardinality(Completed)

(* What is on its way belongs to a transaction of an operation that began; *)
(* a response, to the one that it awaits.                                  *)
Requested(m) ==
  /\ op[m.op].pc # "idle"
  /\ m.op \in Sends => m.to \in TurnPeers /\ m.number \in Numbers
  /\ op[m.op].pc = "waiting" =>
       /\ m.attempt <= op[m.op].attempt
       /\ m.attempt = op[m.op].attempt =>
            m.to = op[m.op].to /\ m.number = op[m.op].number /\ m.nonce = op[m.op].nonce

Awaited(m) == op[m.op].pc = "waiting" /\ m.attempt = op[m.op].attempt

Transactions ==
  /\ \A o \in Operations : op[o].pc = "idle" => op[o].attempt = 0
  /\ \A o \in Waiting : op[o].attempt \in {1, 2}
  /\ \A s \in Sends \cap Waiting :
       op[s].to \in TurnPeers /\ op[s].number \in Numbers /\ op[s].number <= client.number
  /\ \A m \in turnNet : IF m.type = "request" THEN Requested(m) ELSE Awaited(m)

(* The maps are inverse, and agree with the server's.                      *)
MapsAgree ==
  /\ OneChannelPerPeer
  /\ \A n \in Numbers : client.channelToPeer[n] # NoPeer => n < client.number
  /\ \A n, k \in Numbers : server.bound[n] # NoPeer /\ server.bound[n] = server.bound[k] => n = k

(* Whoever asks for a channel that has become another peer's meanwhile, or *)
(* for another channel of a peer, is going to be refused.                  *)
Harmless(n, p) ==
  client.channelToPeer[n] \notin {NoPeer, p} => server.bound[n] = client.channelToPeer[n]

BindingsAgree ==
  /\ \A s \in Sends \cap Waiting :
       /\ Harmless(op[s].number, op[s].to)
       /\ client.peerToChannel[op[s].to] \notin {NoNumber, op[s].number} =>
            server.bound[client.peerToChannel[op[s].to]] = op[s].to
  /\ \A m \in turnNet : m.op \in Sends =>
       IF m.type = "request" THEN Harmless(m.number, m.to)
       ELSE m.answer = "success" => server.bound[op[m.op].number] = op[m.op].to

(* No nonce is newer than the server's; one learnt from a refusal is no    *)
(* older than the operation.                                               *)
NoncesAge ==
  /\ client.nonce <= server.nonce
  /\ \A o \in Operations :
       /\ op[o].nonce <= server.nonce /\ op[o].since <= server.nonce
       /\ op[o].pc = "waiting" /\ op[o].attempt = 2 => op[o].nonce >= op[o].since
  /\ \A m \in turnNet :
       /\ m.nonce <= server.nonce
       /\ m.type = "response" => m.nonce >= op[m.op].since
       /\ m.type = "response" /\ m.answer = "unauthorized" /\ m.attempt = 2 =>
            server.nonce > op[m.op].since
  /\ FailsOnlyIfNonceMoved

(* delete() happens once, and after it no refresh.                         *)
DeletedOnce ==
  /\ client.deleted <=> op["delete"].pc # "idle"
  /\ client.lost = IF op["delete"].pc \in {"idle", "waiting"} THEN 0 ELSE 1
  /\ client.deleted => op["refresh"].pc # "waiting"

TurnInv == Types /\ NumbersLeft /\ Transactions /\ MapsAgree /\ BindingsAgree /\ NoncesAge /\ DeletedOnce

-----------------------------------------------------------------------------
LEMMA CallsAreSequence == Calls \in Seq(Range(Calls))
  BY TurnAssumption DEF TurnAssumption

LEMMA Lengths == Len(Calls) \in Nat /\ DOMAIN Calls = 1 .. Len(Calls) /\ \A k \in DOMAIN Calls : Calls[k] \in Sends
<1>1. Len(Calls) \in Nat /\ DOMAIN Calls = 1 .. Len(Calls)
  BY CallsAreSequence
<1>2. \A k \in DOMAIN Calls : Calls[k] \in Sends
  BY DEF Sends, Range
<1> QED  BY <1>1, <1>2

LEMMA Kinds ==
  /\ Operations = {"allocate", "refresh", "delete"} \cup Sends
  /\ "allocate" \notin Sends /\ "refresh" \notin Sends /\ "delete" \notin Sends
  /\ NoPeer \notin TurnPeers /\ NoNumber \notin Numbers /\ Numbers \subseteq Nat /\ 1 \in Numbers
<1>1. Range(Calls) \cap {"allocate", "refresh", "delete"} = {}
  BY TurnAssumption DEF TurnAssumption
<1>2. Operations = {"allocate", "refresh", "delete"} \cup Sends
  BY DEF Operations, Service
<1>3. "allocate" \notin Sends /\ "refresh" \notin Sends /\ "delete" \notin Sends
  BY <1>1 DEF Sends
<1>4. NoPeer \notin TurnPeers
  BY TurnAssumption DEF TurnAssumption, NoPeer
<1>5. NoNumber \notin Numbers /\ Numbers \subseteq Nat /\ 1 \in Numbers
  BY Lengths DEF NoNumber, Numbers
<1> QED  BY <1>2, <1>3, <1>4, <1>5

LEMMA SendsFinite == IsFiniteSet(Sends) /\ Cardinality(Sends) \in Nat /\ Cardinality(Sends) <= Len(Calls)
<1>1. Calls \in Surjection(1 .. Len(Calls), Sends)
  <2>1. Calls \in [1 .. Len(Calls) -> Sends]
    BY Lengths, CallsAreSequence DEF Sends
  <2>2. \A s \in Sends : \E k \in 1 .. Len(Calls) : Calls[k] = s
    BY Lengths DEF Sends, Range
  <2> QED  BY <2>1, <2>2 DEF Surjection
<1>2. IsFiniteSet(1 .. Len(Calls)) /\ Cardinality(1 .. Len(Calls)) = Len(Calls)
  <2>1. 1 \in Int /\ Len(Calls) \in Int
    BY Lengths
  <2>2. IsFiniteSet(1 .. Len(Calls))
        /\ Cardinality(1 .. Len(Calls)) = IF 1 > Len(Calls) THEN 0 ELSE Len(Calls) - 1 + 1
    BY <2>1, FS_Interval
  <2> QED  BY <2>2, Lengths
<1>3. IsFiniteSet(Sends) /\ Cardinality(Sends) <= Cardinality(1 .. Len(Calls))
  BY <1>1, <1>2, FS_Surjection
<1> QED  BY <1>2, <1>3, FS_CardinalityType

(* As long as a call has not been made there is a number for it.           *)
LEMMA NumberForCall ==
  ASSUME Types, NumbersLeft, NEW s \in Sends, op[s].pc # "done"
  PROVE  client.number \in Numbers
<1>1. Completed \subseteq Sends \ {s}
  BY DEF Completed
<1>2. IsFiniteSet(Sends \ {s}) /\ Cardinality(Sends \ {s}) = Cardinality(Sends) - 1
  BY SendsFinite, FS_RemoveElement
<1>3. Cardinality(Completed) <= Cardinality(Sends) - 1 /\ Cardinality(Completed) \in Nat
  BY <1>1, <1>2, FS_Subset, FS_CardinalityType
<1>4. Cardinality(Sends) \in Nat
  BY SendsFinite, FS_CardinalityType
<1>5. client.number \in Nat
  BY DEF Types
<1> QED  BY <1>3, <1>4, <1>5, SendsFinite, Lengths DEF NumbersLeft, Numbers

(* A call that completes frees room for one more number.                   *)
LEMMA OneMoreCompleted ==
  ASSUME NEW s \in Sends, op[s].pc # "done", NEW y, y.pc = "done", op \in [Operations -> OpRecord],
         op' = [op EXCEPT ![s] = y]
  PROVE  Cardinality(Completed') = Cardinality(Completed) + 1 /\ Cardinality(Completed) \in Nat
<1>1. Completed' = Completed \cup {s} /\ s \notin Completed
  BY Kinds DEF Completed
<1>2. IsFiniteSet(Completed)
  BY SendsFinite, FS_Subset DEF Completed
<1> QED  BY <1>1, <1>2, FS_AddElement, FS_CardinalityType

LEMMA BeginsRecord ==
  ASSUME NEW y \in OpRecord, y.attempt \in {0, 1}, NEW number \in Number, NEW nonce \in Nat
  PROVE  LET x == Begins(y, number, nonce)
         IN  /\ x \in OpRecord /\ x.pc = "waiting" /\ x.attempt = y.attempt + 1
             /\ x.to = y.to /\ x.since = y.since /\ x.number = number /\ x.nonce = nonce
             /\ x.new = y.new
<1>1. LET x == Begins(y, number, nonce)
      IN  /\ x.pc = "waiting" /\ x.attempt = y.attempt + 1 /\ x.to = y.to /\ x.since = y.since
          /\ x.number = number /\ x.nonce = nonce /\ x.new = y.new
  BY DEF Begins, OpRecord, Outcome
<1>2. Begins(y, number, nonce) \in
        [pc : Outcome, to : Address, number : Number, new : BOOLEAN, attempt : {y.attempt + 1},
         tries : Nat, nonce : Nat, since : Nat]
  BY DEF Begins, OpRecord, Outcome
<1>3. y.attempt + 1 \in {0, 1, 2}
  OBVIOUS
<1> QED  BY <1>1, <1>2, <1>3 DEF OpRecord

LEMMA StartingRecord ==
  ASSUME Types, NEW o \in Operations, op[o].attempt = 0, NEW to \in Address, NEW number \in Number
  PROVE  LET x == Starting(o, to, number)
         IN  /\ x \in OpRecord /\ x.pc = "waiting" /\ x.to = to /\ x.number = number
             /\ x.attempt = 1 /\ x.nonce = client.nonce /\ x.since = server.nonce
<1>1. op[o] \in OpRecord /\ client.nonce \in Nat /\ server.nonce \in Nat
  BY DEF Types
<1>2. PICK new \in BOOLEAN : new = (number = client.number)
  OBVIOUS
<1>3. PICK y : y = [op[o] EXCEPT !.since = server.nonce, !.to = to, !.new = new]
  OBVIOUS
<1>4. /\ y \in OpRecord /\ y.attempt = 0 /\ y.to = to /\ y.since = server.nonce
  BY <1>1, <1>3 DEF OpRecord
<1>5. Starting(o, to, number) = Begins(y, number, client.nonce)
  BY <1>2, <1>3 DEF Starting
<1> QED  BY <1>1, <1>4, <1>5, BeginsRecord

LEMMA EndedRecord ==
  ASSUME NEW y \in OpRecord, NEW how \in {"done", "failed", "unauthorized"}
  PROVE  LET z == Ended(y, how)
         IN  /\ z \in OpRecord /\ z.pc = how /\ z.nonce = 0 /\ z.attempt = 0
             /\ z.since = IF how = "unauthorized" THEN y.since ELSE 0
<1>1. NewOp \in OpRecord
  BY DEF NewOp, OpRecord, Outcome, Address, Number, NoNonce
<1>2. PICK t \in Nat : t = IF how = "unauthorized" THEN y.since ELSE 0
  BY DEF OpRecord
<1>3. Ended(y, how) = [NewOp EXCEPT !.pc = how, !.since = t]
  BY <1>2 DEF Ended, NoNonce
<1>4. NewOp.nonce = 0 /\ NewOp.attempt = 0
  BY DEF NewOp, NoNonce
<1> QED  BY <1>1, <1>2, <1>3, <1>4 DEF OpRecord, Outcome

LEMMA InitInv == TurnInit => TurnInv
<1> SUFFICES ASSUME TurnInit
             PROVE  TurnInv
  OBVIOUS
<1> USE Kinds DEF TurnInit, NewOp
<1>1. Types
  BY DEF Types, Number, Address, OpRecord, Outcome, NoNonce
<1>2. NumbersLeft
  <2>1. Completed = {} /\ client.number = 1
    BY DEF Completed
  <2>2. Cardinality(Completed) = 0
    BY <2>1, FS_EmptySet
  <2> QED  BY <2>1, <2>2 DEF NumbersLeft
<1>3. Transactions
  BY DEF Transactions, Waiting
<1>4. MapsAgree
  BY DEF MapsAgree, OneChannelPerPeer
<1>5. BindingsAgree
  BY DEF BindingsAgree, Waiting
<1>6. NoncesAge
  <2>1. client.nonce = 0 /\ server.nonce = 1 /\ turnNet = {}
    BY DEF NoNonce
  <2>2. \A o \in Operations : op[o].pc = "idle" /\ op[o].nonce = 0 /\ op[o].since = 0
    BY DEF NoNonce
  <2> QED  BY <2>1, <2>2 DEF NoncesAge, FailsOnlyIfNonceMoved
<1>7. DeletedOnce
  BY DEF DeletedOnce
<1> QED  BY <1>1, <1>2, <1>3, <1>4, <1>5, <1>6, <1>7 DEF TurnInv

-----------------------------------------------------------------------------
(* A message that was not there keeps its properties apart from those that *)
(* are about the operation that the step changes.                          *)
LEMMA StartsInv ==
  ASSUME TurnInv, NEW o \in Operations, NEW to \in Address, NEW number \in Number,
         op[o].pc = "idle", StartTransaction(o, to, number), UNCHANGED <<client, server>>,
         o # "delete", o = "refresh" => ~ client.deleted,
         o \in Sends => /\ to \in TurnPeers /\ number \in Numbers
                        /\ \/ number = client.number /\ client.peerToChannel[to] = NoNumber
                           \/ number = client.peerToChannel[to]
  PROVE  TurnInv'
<1>a. PICK x, r : x = Starting(o, to, number) /\ r = RequestOf(o, x)
  OBVIOUS
<1>0. Types
  BY DEF TurnInv
<1>1. op' = [op EXCEPT ![o] = x] /\ turnNet' = turnNet \cup {r}
  BY <1>a DEF StartTransaction
<1>2. op[o].attempt = 0
  BY DEF TurnInv, Transactions
<1>3. /\ x \in OpRecord /\ x.pc = "waiting" /\ x.to = to /\ x.number = number
      /\ x.attempt = 1 /\ x.nonce = client.nonce /\ x.since = server.nonce
  BY <1>a, <1>0, <1>2, StartingRecord
<1>4. /\ r \in RequestMessage /\ r.type = "request" /\ r.op = o /\ r.attempt = 1
      /\ r.to = to /\ r.number = number /\ r.nonce = client.nonce
  BY <1>0, <1>3, <1>a DEF Types, RequestOf, RequestMessage
<1>5. Types'
  BY <1>0, <1>1, <1>3, <1>4 DEF Types
<1>6. /\ op'[o] = x /\ \A b \in Operations \ {o} : op'[b] = op[b]
  BY <1>0, <1>1 DEF Types
<1>7. NumbersLeft'
  <2>1. Completed' = Completed
    BY <1>3, <1>6, Kinds DEF Completed
  <2> QED  BY <2>1 DEF TurnInv, NumbersLeft
<1>8. Transactions'
  <2>1. \A b \in Operations : op'[b].pc = "idle" => op'[b].attempt = 0
    BY <1>3, <1>6 DEF TurnInv, Transactions
  <2>2. \A b \in Waiting' : op'[b].attempt \in {1, 2}
    BY <1>3, <1>6 DEF TurnInv, Transactions, Waiting
  <2>3. number \in Numbers /\ o \in Sends => number <= client.number
    <3>1. \A n \in Numbers, p \in TurnPeers :
            client.peerToChannel[p] = n => client.channelToPeer[n] = p
      BY DEF TurnInv, MapsAgree, OneChannelPerPeer
    <3>2. \A n \in Numbers : client.channelToPeer[n] # NoPeer => n < client.number
      BY DEF TurnInv, MapsAgree
    <3>3. client.number \in Nat
      BY <1>0 DEF Types
    <3> QED  BY <3>1, <3>2, <3>3, Kinds
  <2>4. \A s \in Sends \cap Waiting' :
          op'[s].to \in TurnPeers /\ op'[s].number \in Numbers /\ op'[s].number <= client'.number
    BY <1>3, <1>6, <2>3, Kinds DEF TurnInv, Transactions, Waiting
  <2>5. \A m \in turnNet : IF m.type = "request" THEN Requested(m)' ELSE Awaited(m)'
    BY <1>0, <1>3, <1>6 DEF TurnInv, Types, Transactions, Requested, Awaited, RequestMessage, ResponseMessage
  <2>6. Requested(r)'
    BY <1>3, <1>4, <1>6 DEF Requested
  <2> QED  BY <1>1, <1>4, <2>1, <2>2, <2>4, <2>5, <2>6 DEF Transactions
<1>9. MapsAgree'
  BY DEF TurnInv, MapsAgree, OneChannelPerPeer
<1>10. BindingsAgree'
  <2>1. o \in Sends => Harmless(number, to)
    <3>1. \A n \in Numbers, p \in TurnPeers : client.peerToChannel[p] = n => client.channelToPeer[n] = p
      BY Kinds DEF TurnInv, MapsAgree, OneChannelPerPeer
    <3>2. client.number \in Numbers => client.channelToPeer[client.number] = NoPeer
      BY <1>0, Kinds DEF TurnInv, MapsAgree, Types
    <3> QED  BY <3>1, <3>2 DEF Harmless
  <2>2. \A n, p : Harmless(n, p)' <=> Harmless(n, p)
    BY DEF Harmless
  <2>3. \A s \in Sends \cap Waiting' :
       /\ Harmless(op'[s].number, op'[s].to)
       /\ client.peerToChannel[op'[s].to] \notin {NoNumber, op'[s].number} =>
            server.bound[client.peerToChannel[op'[s].to]] = op'[s].to
    <3>1. SUFFICES ASSUME NEW s \in Sends \cap Waiting'
                   PROVE  /\ Harmless(op'[s].number, op'[s].to)
                          /\ client.peerToChannel[op'[s].to] \notin {NoNumber, op'[s].number} =>
                               server.bound[client.peerToChannel[op'[s].to]] = op'[s].to
      OBVIOUS
    <3>2. CASE s = o
      <4>1. client.peerToChannel[to] \in {NoNumber, number}
        BY <3>2
      <4> QED  BY <1>3, <1>6, <2>1, <3>2, <4>1
    <3>3. CASE s # o
      <4>1. s \in Sends \cap Waiting /\ op'[s] = op[s]
        BY <1>6, <3>1, <3>3, Kinds DEF Waiting
      <4> QED  BY <4>1 DEF TurnInv, BindingsAgree
    <3> QED  BY <3>2, <3>3
  <2>4. \A m \in turnNet : m.op \in Sends =>
       IF m.type = "request" THEN Harmless(m.number, m.to)
       ELSE m.answer = "success" => server.bound[op'[m.op].number] = op'[m.op].to
    BY <1>0, <1>3, <1>6, Kinds DEF TurnInv, Transactions, Awaited, BindingsAgree
  <2> QED  BY <1>1, <1>4, <2>1, <2>2, <2>3, <2>4 DEF BindingsAgree
<1>11. NoncesAge'
  <2>1. client.nonce <= server.nonce /\ server.nonce \in Nat /\ client.nonce \in Nat
    BY <1>0 DEF TurnInv, NoncesAge, Types
  <2>2. \A b \in Operations :
       /\ op'[b].nonce <= server.nonce /\ op'[b].since <= server.nonce
       /\ op'[b].pc = "waiting" /\ op'[b].attempt = 2 => op'[b].nonce >= op'[b].since
    BY <1>3, <1>6, <2>1 DEF TurnInv, NoncesAge
  <2>3. \A m \in turnNet :
       /\ m.nonce <= server.nonce
       /\ m.type = "response" => m.nonce >= op'[m.op].since
       /\ m.type = "response" /\ m.answer = "unauthorized" /\ m.attempt = 2 =>
            server.nonce > op'[m.op].since
    BY <1>0, <1>6 DEF TurnInv, NoncesAge, Types, Transactions, Awaited, ResponseMessage, RequestMessage
  <2>4. FailsOnlyIfNonceMoved'
    BY <1>3, <1>6 DEF TurnInv, NoncesAge, FailsOnlyIfNonceMoved
  <2> QED  BY <1>1, <1>4, <2>1, <2>2, <2>3, <2>4 DEF NoncesAge
<1>12. DeletedOnce'
  BY <1>3, <1>6, Kinds DEF TurnInv, DeletedOnce
<1> QED  BY <1>5, <1>7, <1>8, <1>9, <1>10, <1>11, <1>12 DEF TurnInv

-----------------------------------------------------------------------------
(* An operation ends, or never had to wait; what it does to the maps is    *)
(* left to the lemmas below.                                               *)
LEMMA EndsInv ==
  ASSUME TurnInv, NEW o \in Operations, NEW y \in OpRecord,
         op[o].pc \in {"idle", "waiting"},
         op' = [op EXCEPT ![o] = y], turnNet' = Over(o), UNCHANGED server,
         \/ y.pc \in {"done", "failed", "unauthorized"}
         \/ o = "refresh" /\ y.pc = "idle" /\ y.attempt = 0,
         o = "delete" => op[o].pc = "waiting",
         y.nonce <= server.nonce, y.since <= server.nonce,
         y.pc = "unauthorized" => server.nonce > y.since,
         Types', client'.nonce = client.nonce, client'.deleted = client.deleted,
         client'.lost = IF o = "delete" THEN client.lost + 1 ELSE client.lost,
         client'.number >= client.number,
         NumbersLeft', MapsAgree', BindingsAgree'
  PROVE  TurnInv'
<1>0. Types
  BY DEF TurnInv
<1>1. /\ op'[o] = y /\ y.pc # "waiting"
      /\ \A b \in Operations \ {o} : op'[b] = op[b]
  BY <1>0 DEF Types
<1>2. turnNet' \subseteq turnNet /\ \A m \in turnNet' : m.op = o => m.type # "response" /\ o \in Sends
  BY Kinds DEF Over, Service
<1>3. Transactions'
  <2>1. \A b \in Operations : op'[b].pc = "idle" => op'[b].attempt = 0
    BY <1>1 DEF TurnInv, Transactions
  <2>2. \A b \in Waiting' : b \in Waiting /\ op'[b] = op[b]
    BY <1>1 DEF Waiting
  <2>3. \A b \in Waiting' : op'[b].attempt \in {1, 2}
    BY <2>2 DEF TurnInv, Transactions
  <2>4. \A s \in Sends \cap Waiting' :
          op'[s].to \in TurnPeers /\ op'[s].number \in Numbers /\ op'[s].number <= client'.number
    <3>1. client.number \in Nat /\ client'.number \in Nat
      BY <1>0 DEF Types
    <3>2. \A s \in Sends \cap Waiting' : op[s].number \in Nat /\ op[s].number <= client.number
      BY <2>2, Kinds DEF TurnInv, Transactions
    <3> QED  BY <2>2, <3>1, <3>2 DEF TurnInv, Transactions
  <2>5. \A m \in turnNet' : IF m.type = "request" THEN Requested(m)' ELSE Awaited(m)'
    <3>1. SUFFICES ASSUME NEW m \in turnNet'
                   PROVE  IF m.type = "request" THEN Requested(m)' ELSE Awaited(m)'
      OBVIOUS
    <3>2. m \in turnNet /\ m \in RequestMessage \cup ResponseMessage
      BY <1>0, <1>2, <3>1 DEF Types
    <3>3. m.op \in Operations /\ m.type \in {"request", "response"}
      BY <3>2 DEF RequestMessage, ResponseMessage
    <3>4. IF m.type = "request" THEN Requested(m) ELSE Awaited(m)
      BY <3>2 DEF TurnInv, Transactions
    <3>5. CASE m.op # o
      BY <1>1, <3>3, <3>4, <3>5 DEF Requested, Awaited
    <3>6. CASE m.op = o
      BY <1>1, <1>2, <3>1, <3>3, <3>4, <3>6, Kinds DEF Requested
    <3> QED  BY <3>5, <3>6
  <2> QED  BY <2>1, <2>3, <2>4, <2>5 DEF Transactions
<1>4. NoncesAge'
  <2>1. client.nonce <= server.nonce
    BY DEF TurnInv, NoncesAge
  <2>2. \A b \in Operations :
       /\ op'[b].nonce <= server.nonce /\ op'[b].since <= server.nonce
       /\ op'[b].pc = "waiting" /\ op'[b].attempt = 2 => op'[b].nonce >= op'[b].since
    BY <1>1 DEF TurnInv, NoncesAge
  <2>3. \A m \in turnNet' :
       /\ m.nonce <= server.nonce
       /\ m.type = "response" => m.nonce >= op'[m.op].since
       /\ m.type = "response" /\ m.answer = "unauthorized" /\ m.attempt = 2 =>
            server.nonce > op'[m.op].since
    <3>1. \A m \in turnNet' : m \in turnNet /\ m.op \in Operations
      BY <1>0, <1>2 DEF Types, RequestMessage, ResponseMessage
    <3>2. \A m \in turnNet' : m.type = "response" => op'[m.op] = op[m.op]
      BY <1>1, <1>2, <3>1
    <3> QED  BY <3>1, <3>2 DEF TurnInv, NoncesAge
  <2>4. FailsOnlyIfNonceMoved'
    BY <1>1 DEF TurnInv, NoncesAge, FailsOnlyIfNonceMoved
  <2> QED  BY <2>1, <2>2, <2>3, <2>4 DEF NoncesAge
<1>5. DeletedOnce'
  <2>1. CASE o = "delete"
    <3>1. op["delete"].pc = "waiting" /\ op'["delete"].pc \notin {"idle", "waiting"}
      BY <1>1, <2>1
    <3>2. op'["refresh"] = op["refresh"]
      BY <1>1, <2>1, Kinds
    <3> QED  BY <2>1, <3>1, <3>2 DEF TurnInv, DeletedOnce
  <2>2. CASE o # "delete"
    <3>1. op'["delete"] = op["delete"]
      BY <1>1, <2>2, Kinds
    <3>2. op'["refresh"].pc = "waiting" => op["refresh"].pc = "waiting"
      BY <1>1, Kinds
    <3> QED  BY <2>2, <3>1, <3>2 DEF TurnInv, DeletedOnce
  <2> QED  BY <2>1, <2>2
<1> QED  BY <1>3, <1>4, <1>5 DEF TurnInv

(* An operation that leaves the maps alone ends.                           *)
LEMMA MapsKept ==
  ASSUME TurnInv, NEW o \in Operations, NEW y \in OpRecord, op[o].pc # "done",
         op' = [op EXCEPT ![o] = y], y.pc # "waiting", turnNet' = Over(o), UNCHANGED server,
         client'.number = client.number, client'.channelToPeer = client.channelToPeer,
         client'.peerToChannel = client.peerToChannel
  PROVE  NumbersLeft' /\ MapsAgree' /\ BindingsAgree'
<1>0. Types
  BY DEF TurnInv
<1>1. /\ op'[o] = y /\ \A b \in Operations \ {o} : op'[b] = op[b]
  BY <1>0 DEF Types
<1>2. turnNet' \subseteq turnNet /\ \A m \in turnNet' : m.op = o => m.type # "response"
  BY DEF Over
<1>3. NumbersLeft'
  <2>1. Completed \subseteq Completed' /\ Completed' \subseteq Sends
    BY <1>1, Kinds DEF Completed
  <2>2. Cardinality(Completed) <= Cardinality(Completed')
        /\ Cardinality(Completed) \in Nat /\ Cardinality(Completed') \in Nat
    <3>1. IsFiniteSet(Completed')
      BY <2>1, SendsFinite, FS_Subset
    <3>2. IsFiniteSet(Completed)
      BY <2>1, <3>1, FS_Subset
    <3> QED  BY <2>1, <3>1, <3>2, FS_Subset, FS_CardinalityType
  <2>3. client.number \in Nat
    BY <1>0 DEF Types
  <2> QED  BY <2>2, <2>3 DEF TurnInv, NumbersLeft
<1>4. MapsAgree'
  BY DEF TurnInv, MapsAgree, OneChannelPerPeer
<1>5. BindingsAgree'
  <2>1. \A n, p : Harmless(n, p)' <=> Harmless(n, p)
    BY DEF Harmless
  <2>2. \A b \in Waiting' : b \in Waiting /\ op'[b] = op[b]
    BY <1>1 DEF Waiting
  <2>3. \A m \in turnNet' : m \in turnNet /\ m.op \in Operations /\ m.type \in {"request", "response"}
    BY <1>0, <1>2 DEF Types, RequestMessage, ResponseMessage
  <2>4. \A m \in turnNet' : m.type = "response" => op'[m.op] = op[m.op]
    BY <1>1, <1>2, <2>3
  <2>5. \A s \in Sends \cap Waiting' :
       /\ Harmless(op[s].number, op[s].to)'
       /\ client'.peerToChannel[op'[s].to] \notin {NoNumber, op'[s].number} =>
            server'.bound[client'.peerToChannel[op'[s].to]] = op'[s].to
    BY <2>1, <2>2 DEF TurnInv, BindingsAgree
  <2>6. \A m \in turnNet' : m.op \in Sends =>
       IF m.type = "request" THEN Harmless(m.number, m.to)'
       ELSE m.answer = "success" => server'.bound[op'[m.op].number] = op'[m.op].to
    BY <2>1, <2>3, <2>4 DEF TurnInv, BindingsAgree
  <2> QED  BY <2>5, <2>6 DEF BindingsAgree
<1> QED  BY <1>3, <1>4, <1>5

(* A binding succeeds, and enters both maps if it is a new one.            *)
LEMMA MapsBound ==
  ASSUME TurnInv, NEW o \in Sends, NEW y \in OpRecord, op[o].pc = "waiting",
         op' = [op EXCEPT ![o] = y], y.pc = "done", turnNet' = Over(o), UNCHANGED server,
         server.bound[op[o].number] = op[o].to, op[o].new,
         client' = Bound(client, op[o])
  PROVE  Types' /\ NumbersLeft' /\ MapsAgree' /\ BindingsAgree' /\ client'.number = client.number + 1
<1> DEFINE n == op[o].number
           p == op[o].to
<1>0. Types
  BY DEF TurnInv
<1>1. o \in Operations /\ o \in Waiting
  BY Kinds DEF Waiting
<1>2. /\ op'[o] = y /\ \A b \in Operations \ {o} : op'[b] = op[b]
  BY <1>0, <1>1 DEF Types
<1>3. turnNet' \subseteq turnNet /\ \A m \in turnNet' : m.op = o => m.type # "response"
  BY DEF Over
<1>4. n \in Numbers /\ p \in TurnPeers /\ n <= client.number
  BY <1>1 DEF TurnInv, Transactions
<1>5. client' = [client EXCEPT !.channelToPeer[n] = p, !.peerToChannel[p] = n, !.number = @ + 1]
  BY DEF Bound
<1> HIDE DEF n, p
<1>6. /\ client'.number = client.number + 1
      /\ client'.channelToPeer = [client.channelToPeer EXCEPT ![n] = p]
      /\ client'.peerToChannel = [client.peerToChannel EXCEPT ![p] = n]
  BY <1>0, <1>5 DEF Types
<1>7. client' \in [number : Nat, nonce : Nat, deleted : BOOLEAN, lost : Nat,
                  channelToPeer : [Numbers -> Address], peerToChannel : [TurnPeers -> Number]]
  <2>1. PICK f : f = [client.channelToPeer EXCEPT ![n] = p]
    OBVIOUS
  <2>2. PICK g : g = [client.peerToChannel EXCEPT ![p] = n]
    OBVIOUS
  <2>3. f \in [Numbers -> Address] /\ g \in [TurnPeers -> Number]
    BY <1>0, <1>4, <2>1, <2>2 DEF Types, Address, Number
  <2>4. client' = [client EXCEPT !.channelToPeer = f, !.peerToChannel = g, !.number = @ + 1]
    BY <1>5, <2>1, <2>2
  <2>5. client.number + 1 \in Nat
    BY <1>0 DEF Types
  <2>6. PICK m \in Nat : m = client.number + 1
    BY <2>5
  <2>7. client' = [client EXCEPT !.channelToPeer = f, !.peerToChannel = g, !.number = m]
    BY <2>4, <2>6
  <2>8. client \in [number : Nat, nonce : Nat, deleted : BOOLEAN, lost : Nat,
                    channelToPeer : [Numbers -> Address], peerToChannel : [TurnPeers -> Number]]
    BY <1>0 DEF Types
  <2> QED  BY <2>3, <2>7, <2>8
<1>8. Types'
  <2>1. op' \in [Operations -> OpRecord] /\ server' = server
    BY <1>0 DEF Types
  <2>2. turnNet' \subseteq RequestMessage \cup ResponseMessage
    BY <1>0, <1>3 DEF Types
  <2> QED  BY <1>0, <1>7, <2>1, <2>2 DEF Types
<1>9. NumbersLeft'
  <2>1. Cardinality(Completed') = Cardinality(Completed) + 1 /\ Cardinality(Completed) \in Nat
    BY <1>0, OneMoreCompleted DEF Types
  <2>2. client.number \in Nat
    BY <1>0 DEF Types
  <2> QED  BY <1>6, <2>1, <2>2 DEF TurnInv, NumbersLeft
<1>10. client.channelToPeer[n] \in {NoPeer, p}
  BY <1>1, Kinds DEF TurnInv, BindingsAgree, Harmless, n, p
<1>11. client.peerToChannel[p] \in {NoNumber, n}
  <2>1. client.peerToChannel[p] \in Numbers \cup {NoNumber}
    BY <1>0, <1>4 DEF Types, Number
  <2>2. client.peerToChannel[p] \notin {NoNumber, n} => server.bound[client.peerToChannel[p]] = p
    BY <1>1 DEF TurnInv, BindingsAgree, n, p
  <2>3. server.bound[n] = p /\ p # NoPeer
    BY <1>4, Kinds DEF n, p
  <2> QED  BY <1>4, <2>1, <2>2, <2>3 DEF TurnInv, MapsAgree
<1>12. /\ \A k \in Numbers : client'.channelToPeer[k] = IF k = n THEN p ELSE client.channelToPeer[k]
       /\ \A q \in TurnPeers : client'.peerToChannel[q] = IF q = p THEN n ELSE client.peerToChannel[q]
  BY <1>0, <1>4, <1>6 DEF Types
<1>13. MapsAgree'
  <2>1. \A k \in Numbers, q \in TurnPeers : client'.channelToPeer[k] = q <=> client'.peerToChannel[q] = k
    <3>1. \A k \in Numbers, q \in TurnPeers : client.channelToPeer[k] = q <=> client.peerToChannel[q] = k
      BY DEF TurnInv, MapsAgree, OneChannelPerPeer
    <3> QED  BY <1>4, <1>10, <1>11, <1>12, <3>1, Kinds
  <2>2. \A k \in Numbers : client'.channelToPeer[k] # NoPeer => server.bound[k] \in {NoPeer, client'.channelToPeer[k]}
    BY <1>12 DEF TurnInv, MapsAgree, OneChannelPerPeer, n, p
  <2>3. \A k \in Numbers : client'.channelToPeer[k] # NoPeer => k < client'.number
    <3>1. \A k \in Numbers : client.channelToPeer[k] # NoPeer => k < client.number
      BY DEF TurnInv, MapsAgree
    <3>2. client.number \in Nat
      BY <1>0 DEF Types
    <3> QED  BY <1>4, <1>6, <1>12, <3>1, <3>2, Kinds
  <2> QED  BY <2>1, <2>2, <2>3 DEF TurnInv, MapsAgree, OneChannelPerPeer
<1>14. BindingsAgree'
  <2>1. \A k \in Numbers : \A q : Harmless(k, q) => Harmless(k, q)'
    BY <1>12 DEF Harmless, n, p
  <2>2. \A s \in Sends \cap Waiting' : s \in Sends \cap Waiting /\ op'[s] = op[s]
    BY <1>2, Kinds DEF Waiting
  <2>3. \A s \in Sends \cap Waiting' : op[s].number \in Numbers /\ op[s].to \in TurnPeers
    BY <2>2 DEF TurnInv, Transactions
  <2>4. \A m \in turnNet' : m \in turnNet /\ m.op \in Operations /\ m.type \in {"request", "response"}
    BY <1>0, <1>3 DEF Types, RequestMessage, ResponseMessage
  <2>5. \A m \in turnNet' : m.type = "response" => op'[m.op] = op[m.op]
    BY <1>2, <1>3, <2>4
  <2>6. \A s \in Sends \cap Waiting' :
       /\ Harmless(op[s].number, op[s].to)'
       /\ client'.peerToChannel[op'[s].to] \notin {NoNumber, op'[s].number} =>
            server'.bound[client'.peerToChannel[op'[s].to]] = op'[s].to
    <3>1. SUFFICES ASSUME NEW s \in Sends \cap Waiting'
                   PROVE  /\ Harmless(op[s].number, op[s].to)'
                          /\ client'.peerToChannel[op[s].to] \notin {NoNumber, op[s].number} =>
                               server.bound[client'.peerToChannel[op[s].to]] = op[s].to
      BY <2>2
    <3>2. /\ Harmless(op[s].number, op[s].to)
          /\ client.peerToChannel[op[s].to] \notin {NoNumber, op[s].number} =>
               server.bound[client.peerToChannel[op[s].to]] = op[s].to
      BY <2>2 DEF TurnInv, BindingsAgree
    <3>3. \A k \in Numbers, q \in TurnPeers :
            k = op'[s].number /\ q = op'[s].to /\ Harmless(k, q) => Harmless(op[s].number, op[s].to)'
      BY <1>12, <2>2 DEF Harmless, n, p
    <3>4. Harmless(op[s].number, op[s].to)'
      BY <2>2, <2>3, <3>2, <3>3
    <3>5. server.bound[n] = p
      BY DEF n, p
    <3>6. client'.peerToChannel[op[s].to] = IF op[s].to = p THEN n ELSE client.peerToChannel[op[s].to]
      BY <1>12, <2>3
    <3>7. client'.peerToChannel[op[s].to] \notin {NoNumber, op[s].number} =>
            server.bound[client'.peerToChannel[op[s].to]] = op[s].to
      BY <3>2, <3>5, <3>6
    <3> QED  BY <3>4, <3>7
  <2>7. \A m \in turnNet' : m.op \in Sends =>
       IF m.type = "request" THEN Harmless(m.number, m.to)'
       ELSE m.answer = "success" => server'.bound[op'[m.op].number] = op'[m.op].to
    <3>1. \A m \in turnNet' : m.op \in Sends /\ m.type = "request" => m.number \in Numbers
      BY <2>4 DEF TurnInv, Transactions, Requested
    <3>2. \A m \in turnNet' : m.op \in Sends =>
       IF m.type = "request" THEN Harmless(m.number, m.to)
       ELSE m.answer = "success" => server.bound[op[m.op].number] = op[m.op].to
      BY <2>4 DEF TurnInv, BindingsAgree
    <3> QED  BY <2>1, <2>4, <2>5, <3>1, <3>2
  <2> QED  BY <2>6, <2>7 DEF BindingsAgree
<1> QED  BY <1>6, <1>8, <1>9, <1>13, <1>14

-----------------------------------------------------------------------------
(* Tries are counted; nothing else changes.                                *)
LEMMA CountInv ==
  ASSUME TurnInv, NEW o \in Operations, op' = [op EXCEPT ![o].tries = @ + 1],
         UNCHANGED <<client, turnNet, server>>
  PROVE  TurnInv'
<1>0. Types
  BY DEF TurnInv
<1>1. op' \in [Operations -> OpRecord]
  <2>1. op[o] \in OpRecord
    BY <1>0 DEF Types
  <2>2. [op[o] EXCEPT !.tries = @ + 1] \in OpRecord
    BY <2>1 DEF OpRecord
  <2> QED  BY <1>0, <2>2 DEF Types
<1>2. \A b \in Operations :
        /\ op'[b].pc = op[b].pc /\ op'[b].to = op[b].to /\ op'[b].number = op[b].number
        /\ op'[b].attempt = op[b].attempt /\ op'[b].nonce = op[b].nonce /\ op'[b].since = op[b].since
  BY <1>0 DEF Types, OpRecord
<1>3. Types' /\ Waiting' = Waiting /\ Completed' = Completed
  BY <1>0, <1>1, <1>2, Kinds DEF Types, Waiting, Completed
<1>4. \A m \in turnNet : m.op \in Operations
  BY <1>0 DEF Types, RequestMessage, ResponseMessage
<1>5. NumbersLeft' /\ MapsAgree'
  BY <1>3 DEF TurnInv, NumbersLeft, MapsAgree, OneChannelPerPeer
<1>6. Transactions'
  <2>1. \A m \in turnNet : (Requested(m)' <=> Requested(m)) /\ (Awaited(m)' <=> Awaited(m))
    BY <1>2, <1>4 DEF Requested, Awaited
  <2> QED  BY <1>2, <1>3, <2>1, Kinds DEF TurnInv, Transactions, Waiting
<1>7. BindingsAgree'
  <2>1. \A n, p : Harmless(n, p)' <=> Harmless(n, p)
    BY DEF Harmless
  <2>2. \A s \in Sends \cap Waiting :
       /\ Harmless(op[s].number, op[s].to)'
       /\ client'.peerToChannel[op'[s].to] \notin {NoNumber, op'[s].number} =>
            server'.bound[client'.peerToChannel[op'[s].to]] = op'[s].to
    <3>1. \A s \in Sends \cap Waiting :
            Harmless(op[s].number, op[s].to) => Harmless(op[s].number, op[s].to)'
      BY <1>2, Kinds DEF Harmless
    <3> QED  BY <1>2, <3>1, Kinds DEF TurnInv, BindingsAgree
  <2>3. \A m \in turnNet : m.op \in Sends =>
       IF m.type = "request" THEN Harmless(m.number, m.to)'
       ELSE m.answer = "success" => server'.bound[op'[m.op].number] = op'[m.op].to
    BY <1>2, <2>1, Kinds DEF TurnInv, BindingsAgree
  <2> QED  BY <1>3, <2>2, <2>3 DEF BindingsAgree
<1>8. NoncesAge'
  <2>1. \A b \in Operations :
       /\ op'[b].nonce <= server.nonce /\ op'[b].since <= server.nonce
       /\ op'[b].pc = "waiting" /\ op'[b].attempt = 2 => op'[b].nonce >= op'[b].since
    BY <1>2 DEF TurnInv, NoncesAge
  <2>2. \A m \in turnNet :
       /\ m.nonce <= server.nonce
       /\ m.type = "response" => m.nonce >= op'[m.op].since
       /\ m.type = "response" /\ m.answer = "unauthorized" /\ m.attempt = 2 =>
            server.nonce > op'[m.op].since
    BY <1>2, <1>4 DEF TurnInv, NoncesAge
  <2>3. FailsOnlyIfNonceMoved'
    BY <1>2 DEF TurnInv, NoncesAge, FailsOnlyIfNonceMoved
  <2>4. client.nonce <= server.nonce
    BY DEF TurnInv, NoncesAge
  <2> QED  BY <2>1, <2>2, <2>3, <2>4 DEF NoncesAge
<1>9. DeletedOnce'
  BY <1>2, Kinds DEF TurnInv, DeletedOnce
<1> QED  BY <1>3, <1>5, <1>6, <1>7, <1>8, <1>9 DEF TurnInv

(* The server takes a new nonce, or loses a binding when nobody waits.     *)
LEMMA NonceInv == TurnInv /\ ChangeNonce => TurnInv'
<1> SUFFICES ASSUME TurnInv, ChangeNonce
             PROVE  TurnInv'
  OBVIOUS
<1>0. Types
  BY DEF TurnInv
<1>1. /\ UNCHANGED <<client, op, turnNet>> /\ server.nonce \in Nat
      /\ server'.nonce = server.nonce + 1 /\ server'.bound = server.bound
      /\ server' \in [nonce : Nat, allocated : BOOLEAN, bound : [Numbers -> Address]]
  BY <1>0 DEF Types, ChangeNonce
<1>2. Types' /\ Waiting' = Waiting /\ Completed' = Completed
  BY <1>0, <1>1 DEF Types, Waiting, Completed
<1>3. NumbersLeft' /\ MapsAgree' /\ DeletedOnce'
  BY <1>1, <1>2 DEF TurnInv, NumbersLeft, MapsAgree, OneChannelPerPeer, DeletedOnce
<1>4. Transactions'
  BY <1>1, <1>2 DEF TurnInv, Transactions, Requested, Awaited
<1>5. BindingsAgree'
  BY <1>1, <1>2 DEF TurnInv, BindingsAgree, Harmless
<1>6. NoncesAge'
  <2>1. \A b \in Operations : op[b].nonce \in Nat /\ op[b].since \in Nat
    BY <1>0 DEF Types, OpRecord
  <2>2. \A m \in turnNet : m.nonce \in Nat /\ m.op \in Operations
    BY <1>0 DEF Types, RequestMessage, ResponseMessage
  <2>3. client.nonce \in Nat
    BY <1>0 DEF Types
  <2> QED  BY <1>1, <2>1, <2>2, <2>3 DEF TurnInv, NoncesAge, FailsOnlyIfNonceMoved
<1> QED  BY <1>2, <1>3, <1>4, <1>5, <1>6 DEF TurnInv

LEMMA ExpiryInv ==
  ASSUME TurnInv, NEW n \in Numbers, BindingExpires(n)
  PROVE  TurnInv'
<1>0. Types
  BY DEF TurnInv
<1>1. /\ UNCHANGED <<client, op, turnNet>> /\ Waiting = {} /\ turnNet = {}
      /\ server'.nonce = server.nonce /\ server'.bound = [server.bound EXCEPT ![n] = NoPeer]
      /\ server' \in [nonce : Nat, allocated : BOOLEAN, bound : [Numbers -> Address]]
  BY <1>0 DEF Types, BindingExpires, Address
<1>2. Types' /\ Waiting' = Waiting /\ Completed' = Completed
  BY <1>0, <1>1 DEF Types, Waiting, Completed
<1>3. NumbersLeft' /\ DeletedOnce'
  BY <1>1, <1>2 DEF TurnInv, NumbersLeft, DeletedOnce
<1>4. MapsAgree'
  <2>1. \A k \in Numbers : server'.bound[k] = IF k = n THEN NoPeer ELSE server.bound[k]
    BY <1>0, <1>1 DEF Types
  <2> QED  BY <1>1, <2>1 DEF TurnInv, MapsAgree, OneChannelPerPeer
<1>5. Transactions'
  BY <1>1, <1>2 DEF TurnInv, Transactions
<1>6. BindingsAgree'
  BY <1>1, <1>2 DEF BindingsAgree
<1>7. NoncesAge'
  BY <1>1 DEF TurnInv, NoncesAge, FailsOnlyIfNonceMoved
<1> QED  BY <1>2, <1>3, <1>4, <1>5, <1>6, <1>7 DEF TurnInv

-----------------------------------------------------------------------------
(* A refusal for want of authentication leads to a second attempt.         *)
LEMMA TriesAgainInv ==
  ASSUME TurnInv, NEW m \in turnNet, m.type = "response", m.attempt = 1,
         TriesAgain(m.op, m), UNCHANGED server
  PROVE  TurnInv'
<1>0. Types
  BY DEF TurnInv
<1>1. m \in ResponseMessage
  BY <1>0 DEF Types, RequestMessage
<1>2. PICK o \in Operations : o = m.op
  BY <1>1 DEF ResponseMessage
<1>3. op[o] \in OpRecord /\ op[o].pc = "waiting" /\ op[o].attempt = 1 /\ o \in Waiting
  BY <1>0, <1>2 DEF TurnInv, Types, Transactions, Awaited, Waiting
<1>4. PICK x, r : x = Begins(op[o], op[o].number, m.nonce) /\ r = RequestOf(o, x)
  OBVIOUS
<1>5. /\ op' = [op EXCEPT ![o] = x] /\ turnNet' = Over(o) \cup {r}
      /\ client' = [client EXCEPT !.nonce = m.nonce]
  BY <1>2, <1>4 DEF TriesAgain, NewNonce
<1>6. /\ x \in OpRecord /\ x.pc = "waiting" /\ x.attempt = 2 /\ x.to = op[o].to
      /\ x.since = op[o].since /\ x.number = op[o].number /\ x.nonce = m.nonce
  <2>1. op[o].number \in Number /\ m.nonce \in Nat
    BY <1>1, <1>3 DEF OpRecord, ResponseMessage
  <2> QED  BY <1>3, <1>4, <2>1, BeginsRecord
<1>7. /\ r \in RequestMessage /\ r.type = "request" /\ r.op = o /\ r.attempt = 2
      /\ r.to = op[o].to /\ r.number = op[o].number /\ r.nonce = m.nonce
  <2>1. x.to \in Address /\ x.number \in Number /\ x.nonce \in Nat
    BY <1>6 DEF OpRecord
  <2> QED  BY <1>4, <1>6, <2>1 DEF RequestOf, RequestMessage
<1>8. /\ op'[o] = x /\ \A b \in Operations \ {o} : op'[b] = op[b]
  BY <1>0, <1>5 DEF Types
<1>9. Over(o) \subseteq turnNet /\ \A z \in Over(o) : z.op = o => z.type # "response"
  BY DEF Over
<1>10. /\ client'.number = client.number /\ client'.nonce = m.nonce
       /\ client'.deleted = client.deleted /\ client'.lost = client.lost
       /\ client'.channelToPeer = client.channelToPeer /\ client'.peerToChannel = client.peerToChannel
       /\ client' \in [number : Nat, nonce : Nat, deleted : BOOLEAN, lost : Nat,
                       channelToPeer : [Numbers -> Address], peerToChannel : [TurnPeers -> Number]]
  <2>1. m.nonce \in Nat
    BY <1>1 DEF ResponseMessage
  <2> QED  BY <1>0, <1>5, <2>1 DEF Types
<1>11. Types'
  <2>1. op' \in [Operations -> OpRecord]
    BY <1>0, <1>5, <1>6 DEF Types
  <2>2. turnNet' \subseteq RequestMessage \cup ResponseMessage
    BY <1>0, <1>5, <1>7, <1>9 DEF Types
  <2> QED  BY <1>0, <1>10, <2>1, <2>2 DEF Types
<1>12. Waiting' = Waiting /\ Completed' = Completed
  <2>1. \A b \in Operations : op'[b].pc = op[b].pc
    BY <1>3, <1>6, <1>8
  <2>2. Sends \subseteq Operations
    BY Kinds
  <2> QED  BY <2>1, <2>2 DEF Waiting, Completed
<1>13. NumbersLeft' /\ MapsAgree'
  BY <1>10, <1>12 DEF TurnInv, NumbersLeft, MapsAgree, OneChannelPerPeer
<1>14. \A z \in Over(o) : z \in turnNet /\ z.op \in Operations /\ z.type \in {"request", "response"}
  BY <1>0, <1>9 DEF Types, RequestMessage, ResponseMessage
<1>15. \A b \in Operations : /\ op'[b].pc = op[b].pc /\ op'[b].to = op[b].to
                            /\ op'[b].number = op[b].number /\ op'[b].since = op[b].since
  BY <1>3, <1>6, <1>8
<1>16. Transactions'
  <2>1. \A b \in Operations : op'[b].pc = "idle" => op'[b].attempt = 0
    BY <1>6, <1>8 DEF TurnInv, Transactions
  <2>2. \A b \in Waiting : op'[b].attempt \in {1, 2}
    BY <1>6, <1>8 DEF TurnInv, Transactions, Waiting
  <2>3. \A s \in Sends \cap Waiting :
          op'[s].to \in TurnPeers /\ op'[s].number \in Numbers /\ op'[s].number <= client'.number
    BY <1>10, <1>15, Kinds DEF TurnInv, Transactions
  <2>4. \A z \in Over(o) : IF z.type = "request" THEN Requested(z)' ELSE Awaited(z)'
    <3>1. SUFFICES ASSUME NEW z \in Over(o)
                   PROVE  IF z.type = "request" THEN Requested(z)' ELSE Awaited(z)'
      OBVIOUS
    <3>2. IF z.type = "request" THEN Requested(z) ELSE Awaited(z)
      BY <1>14 DEF TurnInv, Transactions
    <3>3. CASE z.op # o
      BY <1>8, <1>14, <3>2, <3>3 DEF Requested, Awaited
    <3>4. CASE z.op = o
      <4>1. z.type = "request" /\ Requested(z) /\ z \in RequestMessage
        BY <1>0, <1>9, <1>14, <3>2, <3>4 DEF Types, ResponseMessage
      <4>2. z.attempt \in {1, 2} /\ z.attempt <= 1
        BY <1>3, <3>4, <4>1 DEF Requested, RequestMessage
      <4> QED  BY <1>6, <1>8, <3>4, <4>1, <4>2 DEF Requested
    <3> QED  BY <3>3, <3>4
  <2>5. Requested(r)'
    <3>1. o \in Sends => op[o].to \in TurnPeers /\ op[o].number \in Numbers
      BY <1>3 DEF TurnInv, Transactions
    <3> QED  BY <1>6, <1>7, <1>8, <3>1 DEF Requested
  <2> QED  BY <1>5, <1>7, <1>12, <2>1, <2>2, <2>3, <2>4, <2>5 DEF Transactions
<1>17. BindingsAgree'
  <2>1. \A n, p : Harmless(n, p)' <=> Harmless(n, p)
    BY <1>10 DEF Harmless
  <2>2. \A s \in Sends \cap Waiting :
       /\ Harmless(op[s].number, op[s].to)'
       /\ client'.peerToChannel[op'[s].to] \notin {NoNumber, op'[s].number} =>
            server'.bound[client'.peerToChannel[op'[s].to]] = op'[s].to
    <3>1. SUFFICES ASSUME NEW s \in Sends \cap Waiting
                   PROVE  /\ Harmless(op[s].number, op[s].to)'
                          /\ client'.peerToChannel[op'[s].to] \notin {NoNumber, op'[s].number} =>
                               server'.bound[client'.peerToChannel[op'[s].to]] = op'[s].to
      OBVIOUS
    <3>2. op'[s].to = op[s].to /\ op'[s].number = op[s].number
      BY <1>15, Kinds
    <3>3. /\ Harmless(op[s].number, op[s].to)
          /\ client.peerToChannel[op[s].to] \notin {NoNumber, op[s].number} =>
               server.bound[client.peerToChannel[op[s].to]] = op[s].to
      BY DEF TurnInv, BindingsAgree
    <3>4. Harmless(op[s].number, op[s].to)'
      BY <1>10, <3>2, <3>3 DEF Harmless
    <3>5. client'.peerToChannel[op'[s].to] \notin {NoNumber, op'[s].number} =>
            server'.bound[client'.peerToChannel[op'[s].to]] = op'[s].to
      BY <1>10, <3>2, <3>3
    <3> QED  BY <3>4, <3>5
  <2>3. \A z \in Over(o) : z.op \in Sends =>
       IF z.type = "request" THEN Harmless(z.number, z.to)'
       ELSE z.answer = "success" => server'.bound[op'[z.op].number] = op'[z.op].to
    BY <1>14, <1>15, <2>1, Kinds DEF TurnInv, BindingsAgree
  <2>4. o \in Sends => Harmless(r.number, r.to)'
    BY <1>3, <1>7, <2>1 DEF TurnInv, BindingsAgree
  <2> QED  BY <1>5, <1>7, <1>12, <2>2, <2>3, <2>4 DEF BindingsAgree
<1>18. NoncesAge'
  <2>1. m.nonce <= server.nonce /\ m.nonce >= op[o].since
    BY <1>2 DEF TurnInv, NoncesAge
  <2>2. \A b \in Operations :
       /\ op'[b].nonce <= server.nonce /\ op'[b].since <= server.nonce
       /\ op'[b].pc = "waiting" /\ op'[b].attempt = 2 => op'[b].nonce >= op'[b].since
    BY <1>6, <1>8, <2>1 DEF TurnInv, NoncesAge
  <2>3. \A z \in Over(o) :
       /\ z.nonce <= server.nonce
       /\ z.type = "response" => z.nonce >= op'[z.op].since
       /\ z.type = "response" /\ z.answer = "unauthorized" /\ z.attempt = 2 =>
            server.nonce > op'[z.op].since
    BY <1>14, <1>15 DEF TurnInv, NoncesAge
  <2>4. FailsOnlyIfNonceMoved'
    BY <1>15 DEF TurnInv, NoncesAge, FailsOnlyIfNonceMoved
  <2> QED  BY <1>5, <1>7, <1>10, <2>1, <2>2, <2>3, <2>4 DEF NoncesAge
<1>19. DeletedOnce'
  BY <1>10, <1>15, Kinds DEF TurnInv, DeletedOnce
<1> QED  BY <1>11, <1>13, <1>16, <1>17, <1>18, <1>19 DEF TurnInv

-----------------------------------------------------------------------------
(* The server answers a request; a binding that contradicts none of its    *)
(* own contradicts none of the client's.                                   *)
LEMMA ServeInv ==
  ASSUME TurnInv, NEW r \in turnNet, Serve(r)
  PROVE  TurnInv'
<1>0. Types
  BY DEF TurnInv
<1>1. r \in RequestMessage /\ r.type = "request" /\ UNCHANGED <<client, op>>
  BY <1>0 DEF Types, ResponseMessage, Serve
<1>2. PICK o \in Operations : o = r.op
  BY <1>1 DEF RequestMessage
<1>3. /\ r.attempt \in {1, 2} /\ r.nonce \in Nat /\ r.number \in Number /\ r.to \in Address
      /\ server.nonce \in Nat
  BY <1>0, <1>1 DEF Types, RequestMessage
<1>4. Requested(r)
  BY <1>1 DEF TurnInv, Transactions
<1>5. PICK a : a = Answer(r)
  OBVIOUS
<1>6. a \in {"success", "refused", "unauthorized"} /\ (a = "unauthorized" <=> r.nonce # server.nonce)
  BY <1>5 DEF Answer
<1>7. o \in Sends => r.number \in Numbers /\ r.to \in TurnPeers
  BY <1>2, <1>4 DEF Requested
<1>8. a = "success" /\ o \in Sends =>
        /\ server.bound[r.number] \in {NoPeer, r.to}
        /\ \A k \in Numbers : server.bound[k] = r.to => k = r.number
  <2>1. a = "success" /\ o \in Sends => ~ Contradicts(r.number, r.to)
    BY <1>2, <1>5, Kinds DEF Answer
  <2> QED  BY <2>1 DEF Contradicts
<1>9. PICK q : q = [type |-> "response", op |-> o, attempt |-> r.attempt, answer |-> a, nonce |-> server.nonce]
  OBVIOUS
<1>10. /\ q \in ResponseMessage /\ q.type = "response" /\ q.op = o /\ q.attempt = r.attempt
       /\ q.answer = a /\ q.nonce = server.nonce
  BY <1>3, <1>6, <1>9 DEF ResponseMessage
<1>11. \A m \in turnNet' : \/ m \in turnNet
                           \/ m = q /\ op[o].pc = "waiting" /\ op[o].attempt = r.attempt
  BY <1>2, <1>5, <1>9 DEF Serve
<1>12. /\ server'.nonce = server.nonce
       /\ server' \in [nonce : Nat, allocated : BOOLEAN, bound : [Numbers -> Address]]
       /\ IF a = "success" /\ o \in Sends
            THEN \A n \in Numbers : server'.bound[n] = IF n = r.number THEN r.to ELSE server.bound[n]
            ELSE server'.bound = server.bound
  <2>1. server' = IF a # "success" THEN server
                  ELSE IF o \in Sends THEN [server EXCEPT !.bound[r.number] = r.to]
                  ELSE [server EXCEPT !.allocated = (o # "delete")]
    BY <1>2, <1>5 DEF Serve
  <2>2. server \in [nonce : Nat, allocated : BOOLEAN, bound : [Numbers -> Address]]
    BY <1>0 DEF Types
  <2>3. CASE a # "success"
    BY <2>1, <2>2, <2>3
  <2>4. CASE a = "success" /\ o \in Sends
    <3>1. PICK f : f = [server.bound EXCEPT ![r.number] = r.to]
      OBVIOUS
    <3>2. f \in [Numbers -> Address]
          /\ \A n \in Numbers : f[n] = IF n = r.number THEN r.to ELSE server.bound[n]
      BY <1>3, <1>7, <2>2, <2>4, <3>1
    <3>3. server' = [server EXCEPT !.bound = f]
      BY <2>1, <2>4, <3>1
    <3> QED  BY <2>2, <2>4, <3>2, <3>3
  <2>5. CASE a = "success" /\ o \notin Sends
    <3>1. PICK b \in BOOLEAN : b = (o # "delete")
      OBVIOUS
    <3>2. server' = [server EXCEPT !.allocated = b]
      BY <2>1, <2>5, <3>1
    <3> QED  BY <2>2, <2>5, <3>2
  <2> QED  BY <2>3, <2>4, <2>5
<1>13. Types' /\ Waiting' = Waiting /\ Completed' = Completed
  BY <1>0, <1>1, <1>10, <1>11, <1>12 DEF Types, Waiting, Completed
<1>14. NumbersLeft' /\ DeletedOnce'
  BY <1>1, <1>13 DEF TurnInv, NumbersLeft, DeletedOnce
<1>15. Transactions'
  <2>1. \A m \in turnNet : (Requested(m)' <=> Requested(m)) /\ (Awaited(m)' <=> Awaited(m))
    BY <1>1 DEF Requested, Awaited
  <2>2. op[o].pc = "waiting" /\ op[o].attempt = r.attempt => Awaited(q)'
    BY <1>1, <1>10 DEF Awaited
  <2> QED  BY <1>1, <1>10, <1>11, <1>13, <2>1, <2>2 DEF TurnInv, Transactions
<1>16. \A n \in Numbers, p \in TurnPeers : client.channelToPeer[n] = p <=> client.peerToChannel[p] = n
  BY DEF TurnInv, MapsAgree, OneChannelPerPeer
<1>17. a = "success" /\ o \in Sends => client.channelToPeer[r.number] \in {NoPeer, r.to}
  <2>1. o \in Sends => Harmless(r.number, r.to)
    BY <1>1, <1>2 DEF TurnInv, BindingsAgree
  <2> QED  BY <1>7, <1>8, <2>1 DEF Harmless
<1>18. MapsAgree'
  <2>1. \A n \in Numbers : client.channelToPeer[n] # NoPeer => server'.bound[n] \in {NoPeer, client.channelToPeer[n]}
    <3>1. \A n \in Numbers : client.channelToPeer[n] # NoPeer => server.bound[n] \in {NoPeer, client.channelToPeer[n]}
      BY DEF TurnInv, MapsAgree, OneChannelPerPeer
    <3> QED  BY <1>12, <1>17, <3>1
  <2>2. \A n, k \in Numbers : server'.bound[n] # NoPeer /\ server'.bound[n] = server'.bound[k] => n = k
    <3>1. \A n, k \in Numbers : server.bound[n] # NoPeer /\ server.bound[n] = server.bound[k] => n = k
      BY DEF TurnInv, MapsAgree
    <3> QED  BY <1>8, <1>12, <3>1
  <2>3. \A n \in Numbers : client.channelToPeer[n] # NoPeer => n < client.number
    BY DEF TurnInv, MapsAgree
  <2> QED  BY <1>1, <1>16, <2>1, <2>2, <2>3 DEF MapsAgree, OneChannelPerPeer
<1>19. BindingsAgree'
  <2>1. \A n \in Numbers : \A p : Harmless(n, p) => Harmless(n, p)'
    BY <1>1, <1>12, <1>17 DEF Harmless
  <2>2. \A s \in Sends \cap Waiting : op[s].to \in TurnPeers /\ op[s].number \in Numbers
    BY DEF TurnInv, Transactions
  <2>3. \A s \in Sends \cap Waiting : Harmless(op[s].number, op[s].to)'
    <3>1. \A s \in Sends \cap Waiting : Harmless(op[s].number, op[s].to)
      BY DEF TurnInv, BindingsAgree
    <3>2. \A n \in Numbers : \A p : Harmless(n, p) =>
            (client'.channelToPeer[n] \notin {NoPeer, p} => server'.bound[n] = client'.channelToPeer[n])
      BY <2>1 DEF Harmless
    <3> QED  BY <1>1, <2>2, <3>1, <3>2 DEF Harmless
  <2>4. \A s \in Sends \cap Waiting :
          client.peerToChannel[op[s].to] \notin {NoNumber, op[s].number} =>
            server'.bound[client.peerToChannel[op[s].to]] = op[s].to
    <3>1. \A p \in TurnPeers : client.peerToChannel[p] \in Numbers \cup {NoNumber}
      BY <1>0 DEF Types, Number
    <3>2. \A s \in Sends \cap Waiting :
            client.peerToChannel[op[s].to] \notin {NoNumber, op[s].number} =>
              server.bound[client.peerToChannel[op[s].to]] = op[s].to
      BY DEF TurnInv, BindingsAgree
    <3>3. \A p \in TurnPeers : a = "success" /\ o \in Sends /\ client.peerToChannel[p] = r.number => p = r.to
      <4> SUFFICES ASSUME NEW p \in TurnPeers, a = "success" /\ o \in Sends,
                          client.peerToChannel[p] = r.number
                   PROVE  p = r.to
        OBVIOUS
      <4>1. client.channelToPeer[r.number] = p
        BY <1>7, <1>16
      <4> QED  BY <1>17, <4>1, Kinds
    <3> QED  BY <1>12, <2>2, <3>1, <3>2, <3>3
  <2>5. \A m \in turnNet : m.op \in Operations /\ m.type \in {"request", "response"}
    BY <1>0 DEF Types, RequestMessage, ResponseMessage
  <2>6. \A m \in turnNet : m.op \in Sends /\ m.type = "request" => Harmless(m.number, m.to)'
    <3>1. \A m \in turnNet : m.op \in Sends /\ m.type = "request" => m.number \in Numbers
      BY DEF TurnInv, Transactions, Requested
    <3> QED  BY <2>1, <3>1 DEF TurnInv, BindingsAgree
  <2>7. \A m \in turnNet : m.op \in Sends /\ m.type = "response" /\ m.answer = "success" =>
          server'.bound[op[m.op].number] = op[m.op].to
    <3>1. \A m \in turnNet : m.op \in Sends /\ m.type = "response" =>
            op[m.op].number \in Numbers /\ op[m.op].to \in TurnPeers
      BY <2>2, <2>5 DEF TurnInv, Transactions, Awaited, Waiting
    <3>2. \A m \in turnNet : m.op \in Sends /\ m.type = "response" /\ m.answer = "success" =>
            server.bound[op[m.op].number] = op[m.op].to
      BY DEF TurnInv, BindingsAgree
    <3>3. \A n \in Numbers, p \in TurnPeers : server.bound[n] = p => server'.bound[n] = p
      <4> SUFFICES ASSUME NEW n \in Numbers, NEW p \in TurnPeers, server.bound[n] = p
                   PROVE  server'.bound[n] = p
        OBVIOUS
      <4>1. CASE a = "success" /\ o \in Sends
        BY <1>8, <1>12, <4>1, Kinds
      <4>2. CASE ~ (a = "success" /\ o \in Sends)
        BY <1>12, <4>2
      <4> QED  BY <4>1, <4>2
    <3> QED  BY <3>1, <3>2, <3>3
  <2>8. op[o].pc = "waiting" /\ op[o].attempt = r.attempt /\ o \in Sends /\ a = "success" =>
          server'.bound[op[o].number] = op[o].to
    BY <1>2, <1>4, <1>7, <1>12 DEF Requested
  <2> QED  BY <1>1, <1>10, <1>11, <1>13, <2>3, <2>4, <2>5, <2>6, <2>7, <2>8 DEF BindingsAgree
<1>20. NoncesAge'
  <2>1. op[o].pc = "waiting" /\ op[o].attempt = r.attempt =>
          /\ server.nonce >= op[o].since
          /\ r.attempt = 2 /\ a = "unauthorized" => server.nonce > op[o].since
    <3>1. op[o].nonce \in Nat /\ op[o].since \in Nat
      BY <1>0 DEF Types, OpRecord
    <3>2. op[o].pc = "waiting" /\ op[o].attempt = r.attempt => r.nonce = op[o].nonce
      BY <1>2, <1>4 DEF Requested
    <3>3. /\ op[o].nonce <= server.nonce /\ op[o].since <= server.nonce
          /\ op[o].pc = "waiting" /\ op[o].attempt = 2 => op[o].nonce >= op[o].since
      BY DEF TurnInv, NoncesAge
    <3> QED  BY <1>3, <1>6, <3>1, <3>2, <3>3
  <2> QED  BY <1>1, <1>3, <1>10, <1>11, <1>12, <2>1 DEF TurnInv, NoncesAge, FailsOnlyIfNonceMoved
<1> QED  BY <1>13, <1>14, <1>15, <1>18, <1>19, <1>20 DEF TurnInv

-----------------------------------------------------------------------------
(* delete() begins, and a refresh that is under way ends.                  *)
LEMMA DeleteInv == TurnInv /\ Delete => TurnInv'
<1> SUFFICES ASSUME TurnInv, Delete
             PROVE  TurnInv'
  OBVIOUS
<1>0. Types
  BY DEF TurnInv
<1>1. PICK x, y, r : /\ x = Starting("delete", NoPeer, NoNumber) /\ y = Cancel(op["refresh"])
                     /\ r = RequestOf("delete", x)
  OBVIOUS
<1>2. /\ op["delete"].pc = "idle" /\ UNCHANGED server
      /\ op' = [op EXCEPT !["delete"] = x, !["refresh"] = y]
      /\ turnNet' = Over("refresh") \cup {r} /\ client' = [client EXCEPT !.deleted = TRUE]
  BY <1>1, Kinds DEF Delete
<1>3. /\ x \in OpRecord /\ x.pc = "waiting" /\ x.to = NoPeer /\ x.number = NoNumber
      /\ x.attempt = 1 /\ x.nonce = client.nonce /\ x.since = server.nonce
  <2>1. "delete" \in Operations /\ NoPeer \in Address /\ NoNumber \in Number
    BY Kinds DEF Address, Number
  <2>2. op["delete"].attempt = 0
    BY <1>2, <2>1 DEF TurnInv, Transactions
  <2> QED  BY <1>0, <1>1, <2>1, <2>2, StartingRecord
<1>4. /\ r \in RequestMessage /\ r.type = "request" /\ r.op = "delete" /\ r.attempt = 1
      /\ r.to = NoPeer /\ r.number = NoNumber /\ r.nonce = client.nonce
  <2>1. x.to \in Address /\ x.number \in Number /\ x.nonce \in Nat
    BY <1>3 DEF OpRecord
  <2> QED  BY <1>1, <1>3, <2>1, Kinds DEF RequestOf, RequestMessage
<1>5. /\ y \in OpRecord /\ y.pc # "waiting"
      /\ y.pc = "idle" => y.attempt = 0
      /\ y.pc = "idle" => op["refresh"].pc = "idle"
      /\ y.nonce <= server.nonce /\ y.since <= server.nonce
      /\ y.pc = "unauthorized" => server.nonce > y.since
  <2>1. op["refresh"] \in OpRecord /\ "refresh" \in Operations /\ server.nonce \in Nat
    BY <1>0, Kinds DEF Types
  <2>2. CASE op["refresh"].pc = "waiting"
    <3>1. y = Ended(op["refresh"], "failed")
      BY <1>1, <2>2 DEF Cancel
    <3> QED  BY <2>1, <3>1, EndedRecord
  <2>3. CASE op["refresh"].pc # "waiting"
    <3>1. y = op["refresh"]
      BY <1>1, <2>3 DEF Cancel
    <3> QED  BY <2>1, <2>3, <3>1 DEF TurnInv, Transactions, NoncesAge, FailsOnlyIfNonceMoved
  <2> QED  BY <2>2, <2>3
<1>6. /\ op'["delete"] = x /\ op'["refresh"] = y
      /\ \A b \in Operations \ {"delete", "refresh"} : op'[b] = op[b]
  BY <1>0, <1>2, Kinds DEF Types
<1>7. Over("refresh") \subseteq turnNet /\ \A m \in Over("refresh") : m.op # "refresh"
  <2>1. \A m \in turnNet : m.type \in {"request", "response"}
    BY <1>0 DEF Types, RequestMessage, ResponseMessage
  <2> QED  BY <2>1 DEF Over, Service
<1>8. \A m \in Over("refresh") : m \in turnNet /\ m.op \in Operations \ {"delete", "refresh"}
  <2>1. \A m \in turnNet : m.op \in Operations /\ m.op # "delete"
    BY <1>0, <1>2 DEF TurnInv, Transactions, Requested, Awaited, Types, RequestMessage, ResponseMessage
  <2> QED  BY <1>7, <2>1
<1>9. /\ client'.number = client.number /\ client'.nonce = client.nonce
      /\ client'.deleted = TRUE /\ client'.lost = client.lost
      /\ client'.channelToPeer = client.channelToPeer /\ client'.peerToChannel = client.peerToChannel
      /\ client' \in [number : Nat, nonce : Nat, deleted : BOOLEAN, lost : Nat,
                      channelToPeer : [Numbers -> Address], peerToChannel : [TurnPeers -> Number]]
  BY <1>0, <1>2 DEF Types
<1>10. Types'
  <2>1. op' \in [Operations -> OpRecord]
    BY <1>0, <1>2, <1>3, <1>5 DEF Types
  <2>2. turnNet' \subseteq RequestMessage \cup ResponseMessage
    BY <1>0, <1>2, <1>4, <1>7 DEF Types
  <2> QED  BY <1>0, <1>2, <1>9, <2>1, <2>2 DEF Types
<1>11. Sends \cap Waiting' = Sends \cap Waiting /\ Completed' = Completed
  BY <1>6, Kinds DEF Waiting, Completed
<1>12. NumbersLeft' /\ MapsAgree'
  BY <1>2, <1>9, <1>11 DEF TurnInv, NumbersLeft, MapsAgree, OneChannelPerPeer
<1>13. \A s \in Sends : op'[s] = op[s]
  BY <1>6, Kinds
<1>14. Transactions'
  <2>1. \A b \in Operations : op'[b].pc = "idle" => op'[b].attempt = 0
    BY <1>3, <1>5, <1>6 DEF TurnInv, Transactions
  <2>2. \A b \in Waiting' : op'[b].attempt \in {1, 2}
    BY <1>3, <1>5, <1>6 DEF TurnInv, Transactions, Waiting
  <2>3. \A s \in Sends \cap Waiting' :
          op'[s].to \in TurnPeers /\ op'[s].number \in Numbers /\ op'[s].number <= client'.number
    BY <1>9, <1>11, <1>13 DEF TurnInv, Transactions
  <2>4. \A m \in Over("refresh") : IF m.type = "request" THEN Requested(m)' ELSE Awaited(m)'
    BY <1>6, <1>8 DEF TurnInv, Transactions, Requested, Awaited
  <2>5. Requested(r)'
    BY <1>3, <1>4, <1>6, Kinds DEF Requested
  <2> QED  BY <1>2, <1>4, <2>1, <2>2, <2>3, <2>4, <2>5 DEF Transactions
<1>15. BindingsAgree'
  <2>1. \A n, p : Harmless(n, p)' <=> Harmless(n, p)
    BY <1>2, <1>9 DEF Harmless
  <2>2. \A s \in Sends \cap Waiting :
       /\ Harmless(op[s].number, op[s].to)'
       /\ client'.peerToChannel[op'[s].to] \notin {NoNumber, op'[s].number} =>
            server'.bound[client'.peerToChannel[op'[s].to]] = op'[s].to
    <3>1. \A s \in Sends \cap Waiting :
            Harmless(op[s].number, op[s].to) => Harmless(op[s].number, op[s].to)'
      BY <1>2, <1>9, <1>13 DEF Harmless
    <3> QED  BY <1>2, <1>9, <1>13, <3>1 DEF TurnInv, BindingsAgree
  <2>3. \A m \in Over("refresh") : m.op \in Sends =>
       IF m.type = "request" THEN Harmless(m.number, m.to)'
       ELSE m.answer = "success" => server'.bound[op'[m.op].number] = op'[m.op].to
    BY <1>2, <1>8, <1>13, <2>1 DEF TurnInv, BindingsAgree
  <2> QED  BY <1>2, <1>4, <1>11, <2>2, <2>3, Kinds DEF BindingsAgree
<1>16. NoncesAge'
  <2>1. client.nonce <= server.nonce /\ server.nonce \in Nat /\ client.nonce \in Nat
    BY <1>0 DEF TurnInv, NoncesAge, Types
  <2>2. \A b \in Operations :
       /\ op'[b].nonce <= server.nonce /\ op'[b].since <= server.nonce
       /\ op'[b].pc = "waiting" /\ op'[b].attempt = 2 => op'[b].nonce >= op'[b].since
    BY <1>3, <1>5, <1>6, <2>1 DEF TurnInv, NoncesAge
  <2>3. \A m \in Over("refresh") :
       /\ m.nonce <= server.nonce
       /\ m.type = "response" => m.nonce >= op'[m.op].since
       /\ m.type = "response" /\ m.answer = "unauthorized" /\ m.attempt = 2 =>
            server.nonce > op'[m.op].since
    BY <1>6, <1>8 DEF TurnInv, NoncesAge
  <2>4. FailsOnlyIfNonceMoved'
    BY <1>2, <1>3, <1>5, <1>6 DEF TurnInv, NoncesAge, FailsOnlyIfNonceMoved
  <2> QED  BY <1>2, <1>4, <1>9, <2>1, <2>2, <2>3, <2>4 DEF NoncesAge
<1>17. DeletedOnce'
  BY <1>2, <1>3, <1>5, <1>6, <1>9 DEF TurnInv, DeletedOnce
<1> QED  BY <1>10, <1>12, <1>14, <1>15, <1>16, <1>17 DEF TurnInv

-----------------------------------------------------------------------------
(* An operation that ends without an effect on the maps.                   *)
LEMMA ConcludesInv ==
  ASSUME TurnInv, NEW o \in Operations, NEW how \in {"done", "failed", "unauthorized"},
         op[o].pc \in {"idle", "waiting"}, o = "delete" => op[o].pc = "waiting",
         how = "unauthorized" => server.nonce > op[o].since,
         Concludes(o, how), turnNet' = Over(o), UNCHANGED server
  PROVE  TurnInv'
<1>0. Types
  BY DEF TurnInv
<1>1. PICK y : y = Ended(op[o], how)
  OBVIOUS
<1>2. /\ y \in OpRecord /\ y.pc = how /\ y.nonce <= server.nonce /\ y.since <= server.nonce
      /\ y.pc = "unauthorized" => server.nonce > y.since
  <2>1. op[o] \in OpRecord /\ server.nonce \in Nat
    BY <1>0 DEF Types
  <2>2. op[o].since <= server.nonce
    BY DEF TurnInv, NoncesAge
  <2> QED  BY <1>1, <2>1, <2>2, EndedRecord
<1>3. op' = [op EXCEPT ![o] = y]
  BY <1>1 DEF Concludes
<1>4. /\ client'.number = client.number /\ client'.nonce = client.nonce
      /\ client'.deleted = client.deleted
      /\ client'.channelToPeer = client.channelToPeer /\ client'.peerToChannel = client.peerToChannel
      /\ client'.lost = IF o = "delete" THEN client.lost + 1 ELSE client.lost
      /\ client' \in [number : Nat, nonce : Nat, deleted : BOOLEAN, lost : Nat,
                      channelToPeer : [Numbers -> Address], peerToChannel : [TurnPeers -> Number]]
      /\ client.number \in Nat
  BY <1>0 DEF Types, Concludes
<1>5. Types'
  <2>1. op' \in [Operations -> OpRecord]
    BY <1>0, <1>2, <1>3 DEF Types
  <2>2. turnNet' \subseteq RequestMessage \cup ResponseMessage
    BY <1>0 DEF Types, Over
  <2> QED  BY <1>0, <1>4, <2>1, <2>2 DEF Types
<1>6. NumbersLeft' /\ MapsAgree' /\ BindingsAgree'
  BY <1>2, <1>3, <1>4, MapsKept
<1>7. client'.number >= client.number
  BY <1>4
<1> QED  BY <1>2, <1>3, <1>4, <1>5, <1>6, <1>7, EndsInv

LEMMA SendInv ==
  ASSUME TurnInv, NEW k \in DOMAIN Calls, NEW p \in TurnPeers, NEW old \in BOOLEAN, SendData(k, p, old)
  PROVE  TurnInv'
<1>0. Types
  BY DEF TurnInv
<1>1. PICK s \in Sends : s = Calls[k]
  BY Lengths
<1>2. PICK n : n = client.peerToChannel[p]
  OBVIOUS
<1>3. /\ op[s].pc = "idle" /\ UNCHANGED server
      /\ IF n = NoNumber \/ old
           THEN StartTransaction(s, p, IF n = NoNumber THEN client.number ELSE n) /\ UNCHANGED client
           ELSE Concludes(s, "done") /\ UNCHANGED turnNet
  BY <1>1, <1>2 DEF SendData
<1>4. s \in Operations /\ s # "delete" /\ s # "refresh" /\ p \in Address
  BY Kinds DEF Address
<1>5. CASE n = NoNumber
  <2>1. client.number \in Numbers
    BY <1>0, <1>3, NumberForCall DEF TurnInv
  <2>2. client.number \in Number
    BY <2>1 DEF Number
  <2>3. StartTransaction(s, p, client.number) /\ UNCHANGED <<client, server>>
    BY <1>3, <1>5
  <2> QED  BY <1>2, <1>3, <1>4, <1>5, <2>1, <2>2, <2>3, StartsInv
<1>6. CASE n # NoNumber /\ old
  <2>1. n \in Numbers /\ n \in Number
    BY <1>0, <1>2, <1>6 DEF Types, Number
  <2>2. StartTransaction(s, p, n) /\ UNCHANGED <<client, server>>
    BY <1>3, <1>6
  <2> QED  BY <1>2, <1>3, <1>4, <2>1, <2>2, StartsInv
<1>7. CASE n # NoNumber /\ ~ old
  <2>1. \A m \in turnNet : m.op # s
    <3>1. \A m \in turnNet : Requested(m) \/ Awaited(m)
      BY DEF TurnInv, Transactions
    <3> QED  BY <1>3, <3>1 DEF Requested, Awaited
  <2>2. turnNet' = Over(s) /\ Concludes(s, "done")
    BY <1>3, <1>7, <2>1 DEF Over
  <2> QED  BY <1>3, <1>4, <2>2, ConcludesInv
<1> QED  BY <1>5, <1>6, <1>7

LEMMA ReceiveInv ==
  ASSUME TurnInv, NEW m \in turnNet, Receive(m)
  PROVE  TurnInv'
<1>0. Types
  BY DEF TurnInv
<1>1. m \in ResponseMessage /\ m.type = "response" /\ UNCHANGED server
  BY <1>0 DEF Types, RequestMessage, Receive
<1>2. PICK o \in Operations : o = m.op
  BY <1>1 DEF ResponseMessage
<1>3. op[o].pc = "waiting" /\ op[o].attempt = m.attempt /\ op[o] \in OpRecord /\ o \in Waiting
  BY <1>0, <1>1, <1>2 DEF TurnInv, Types, Transactions, Awaited, Waiting
<1>4. CASE m.attempt = 1 /\ TriesAgain(o, m)
  BY <1>1, <1>2, <1>4, TriesAgainInv
<1>5. CASE turnNet' = Over(o) /\ m.answer = "refused" /\ Concludes(o, "failed")
  BY <1>1, <1>3, <1>5, ConcludesInv
<1>6. CASE turnNet' = Over(o) /\ m.answer = "unauthorized" /\ m.attempt > 1 /\ Concludes(o, "unauthorized")
  <2>1. m.attempt = 2
    BY <1>1, <1>6 DEF ResponseMessage
  <2>2. server.nonce > op[o].since
    BY <1>1, <1>2, <1>6, <2>1 DEF TurnInv, NoncesAge
  <2> QED  BY <1>1, <1>3, <1>6, <2>2, ConcludesInv
<1>7. CASE turnNet' = Over(o) /\ m.answer = "success" /\ Succeeds(o)
  <2>1. CASE o = "refresh"
    <3>1. PICK y : y = NewOp
      OBVIOUS
    <3>2. op' = [op EXCEPT ![o] = y] /\ UNCHANGED client
      BY <1>7, <2>1, <3>1, Kinds DEF Succeeds
    <3>3. /\ y \in OpRecord /\ y.pc = "idle" /\ y.attempt = 0 /\ y.nonce = 0 /\ y.since = 0
      BY <3>1 DEF NewOp, OpRecord, Outcome, Address, Number, NoNonce
    <3>4. server.nonce \in Nat /\ client.number \in Nat
      BY <1>0 DEF Types
    <3>5. Types'
      <4>1. op' \in [Operations -> OpRecord]
        BY <1>0, <3>2, <3>3 DEF Types
      <4>2. turnNet' \subseteq RequestMessage \cup ResponseMessage
        BY <1>0, <1>7 DEF Types, Over
      <4> QED  BY <1>0, <1>1, <3>2, <4>1, <4>2 DEF Types
    <3>6. NumbersLeft' /\ MapsAgree' /\ BindingsAgree'
      BY <1>1, <1>3, <1>7, <3>2, <3>3, MapsKept
    <3>7. client'.number >= client.number /\ y.nonce <= server.nonce /\ y.since <= server.nonce
      BY <3>2, <3>3, <3>4
    <3> QED  BY <1>1, <1>3, <1>7, <2>1, <3>2, <3>3, <3>5, <3>6, <3>7, EndsInv
  <2>2. CASE o # "refresh" /\ ~ (o \in Sends /\ op[o].new)
    <3>1. Concludes(o, "done")
      BY <1>7, <2>2, Kinds DEF Succeeds, Concludes, Bound
    <3> QED  BY <1>1, <1>3, <1>7, <3>1, ConcludesInv
  <2>3. CASE o \in Sends /\ op[o].new
    <3>1. PICK y : y = Ended(op[o], "done")
      OBVIOUS
    <3>2. op' = [op EXCEPT ![o] = y] /\ client' = Bound(client, op[o])
      BY <1>7, <2>3, <3>1, Kinds DEF Succeeds
    <3>3. y \in OpRecord /\ y.pc = "done" /\ y.nonce = 0 /\ y.since = 0
      BY <1>3, <3>1, EndedRecord
    <3>4. server.bound[op[o].number] = op[o].to
      BY <1>1, <1>2, <1>7, <2>3 DEF TurnInv, BindingsAgree
    <3>5. Types' /\ NumbersLeft' /\ MapsAgree' /\ BindingsAgree' /\ client'.number = client.number + 1
      BY <1>1, <1>3, <1>7, <2>3, <3>2, <3>3, <3>4, MapsBound
    <3>6. /\ client'.nonce = client.nonce /\ client'.deleted = client.deleted
          /\ client'.lost = client.lost
      BY <1>0, <2>3, <3>2 DEF Bound, Types
    <3>7. client.number \in Nat /\ server.nonce \in Nat
      BY <1>0 DEF Types
    <3>8. client'.number >= client.number /\ y.nonce <= server.nonce /\ y.since <= server.nonce
      BY <3>3, <3>5, <3>7
    <3> QED  BY <1>1, <1>3, <1>7, <2>3, <3>2, <3>3, <3>5, <3>6, <3>8, EndsInv, Kinds
  <2> QED  BY <2>1, <2>2, <2>3
<1> QED  BY <1>2, <1>4, <1>5, <1>6, <1>7 DEF Receive

LEMMA NextInv == TurnInv /\ [TurnNext]_turnVars => TurnInv'
<1> SUFFICES ASSUME TurnInv, [TurnNext]_turnVars
             PROVE  TurnInv'
  OBVIOUS
<1>0. Types
  BY DEF TurnInv
<1>1. NoPeer \in Address /\ NoNumber \in Number
  BY DEF Address, Number
<1>2. CASE Connect
  BY <1>1, <1>2, StartsInv, Kinds DEF Connect
<1>3. CASE Refresh
  BY <1>1, <1>3, StartsInv, Kinds DEF Refresh
<1>4. CASE Delete
  BY <1>4, DeleteInv
<1>5. CASE ChangeNonce
  BY <1>5, NonceInv
<1>6. ASSUME NEW k \in DOMAIN Calls, NEW p \in TurnPeers, NEW old \in BOOLEAN, SendData(k, p, old)
      PROVE  TurnInv'
  BY <1>6, SendInv
<1>7. ASSUME NEW o \in Operations, Retry(o)
      PROVE  TurnInv'
  <2>1. CASE op[o].tries < MaxTries
    <3>1. op' = [op EXCEPT ![o].tries = @ + 1] /\ UNCHANGED <<client, turnNet, server>>
      BY <1>7, <2>1 DEF Retry
    <3> QED  BY <3>1, CountInv
  <2>2. CASE ~ (op[o].tries < MaxTries)
    <3>1. /\ op[o].pc = "waiting" /\ Concludes(o, "failed") /\ turnNet' = Over(o) /\ UNCHANGED server
      BY <1>7, <2>2 DEF Retry, TimesOut
    <3> QED  BY <3>1, ConcludesInv
  <2> QED  BY <2>1, <2>2
<1>8. ASSUME NEW m \in turnNet, Receive(m)
      PROVE  TurnInv'
  BY <1>8, ReceiveInv
<1>9. ASSUME NEW m \in turnNet, Serve(m)
      PROVE  TurnInv'
  BY <1>9, ServeInv
<1>10. ASSUME NEW n \in Numbers, BindingExpires(n)
       PROVE  TurnInv'
  BY <1>10, ExpiryInv
<1>11. CASE UNCHANGED turnVars
  BY <1>11 DEF turnVars, TurnInv, Types, NumbersLeft, Completed, Transactions, Waiting, Requested,
               Awaited, MapsAgree, OneChannelPerPeer, BindingsAgree, Harmless, NoncesAge,
               FailsOnlyIfNonceMoved, DeletedOnce
<1> QED  BY <1>2, <1>3, <1>4, <1>5, <1>6, <1>7, <1>8, <1>9, <1>10, <1>11 DEF TurnNext

-----------------------------------------------------------------------------
LEMMA TurnInvariant == TurnSpec => []TurnInv
  BY InitInv, NextInv, PTL DEF TurnSpec

(* For any number of peers and of calls that bind channels at once: the    *)
(* two maps are each other's inverse, and no channel leads to another peer *)
(* than the server has it bound to.                                        *)
THEOREM ChannelsHold == TurnSpec => []OneChannelPerPeer
<1>1. TurnInv => OneChannelPerPeer
  BY DEF TurnInv, MapsAgree
<1> QED  BY <1>1, TurnInvariant, PTL

(* However requests mix up the client's nonce, authentication fails an     *)
(* operation only if the server's nonce moved since the operation began.   *)
THEOREM NoncesHold == TurnSpec => []FailsOnlyIfNonceMoved
<1>1. TurnInv => FailsOnlyIfNonceMoved
  BY DEF TurnInv, NoncesAge
<1> QED  BY <1>1, TurnInvariant, PTL

(* No refresh outlives delete(), which reports the loss at most once.      *)
THEOREM DeletionHolds == TurnSpec => []DeletedForGood
<1>1. TurnInv => DeletedForGood
  BY DEF TurnInv, DeletedOnce, DeletedForGood
<1> QED  BY <1>1, TurnInvariant, PTL

=============================================================================
