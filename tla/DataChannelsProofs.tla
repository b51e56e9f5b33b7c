-------------------------- MODULE DataChannelsProofs --------------------------
(***************************************************************************)
(* Theorems about DataChannels for any set of channels, whoever owns them, *)
(* whatever ids are agreed, and any number of losses.                      *)
(***************************************************************************)
EXTENDS DataChannels, DataLemmas, FiniteSetTheorems

Alive(p, c) == p.chan[c] \notin {"none", "closed"}

(* The channels that end e announces, and those announced to it.           *)
Own(e) == {c \in Channels \ Negotiated : Owner[c] = e}

States == {"none", "connecting", "open", "closing", "closed"}
SomeId == Ids \cup {NoId}
Item == [chan : Channels, kind : {"OPEN", "ACK"}]
Message == [id : Ids, chan : Channels, kind : {"OPEN", "ACK"}]
Chunk == [to : Ends, kind : {"request", "response"}, no : Nat, ids : Seq(Ids)]

End ==
  [assoc : {"connecting", "established", "closed"}, chan : [Channels -> States],
   id : [Channels -> SomeId], table : [Ids -> Channels \cup {NoChannel}],
   queue : Seq(Item), resets : Seq(SomeId), request : Seq(SomeId), requestNo : Nat,
   tasks : SUBSET {"flush", "reconfig"}, deaf : BOOLEAN, out : Seq(Message),
   control : SUBSET Chunk]

(* The table and the channels of an end agree.                             *)
TableFits(p) ==
  /\ \A i \in Ids, c \in Channels : p.table[i] = c => p.id[c] = i /\ Alive(p, c)
  /\ \A c \in Channels : Alive(p, c) /\ p.id[c] # NoId => p.table[p.id[c]] = c

(* The ids are those agreed, or odd or even as the owner's.                *)
IdsFit(p) ==
  /\ \A c \in Negotiated : p.id[c] = AgreedId[c]
  /\ \A c \in Channels \ Negotiated : p.id[c] # NoId => p.id[c] % 2 = FirstId(Owner[c])
  /\ \A c \in Channels \ Negotiated : p.chan[c] = "none" => p.id[c] = NoId

(* What may wait in the queue: the OPEN of an own channel, which is alive  *)
(* and has no id yet, or the ACK of a channel with an id.                  *)
MayQueue(e, p) ==
  {m \in Item :
     IF m.kind = "OPEN" THEN m.chan \in Own(e) /\ p.id[m.chan] = NoId /\ Alive(p, m.chan)
                        ELSE p.id[m.chan] # NoId}

(* What end e may send: OPEN for its own channels, with their ids.         *)
MaySend(e, p) ==
  {m \in Message : m.kind = "OPEN" => m.chan \in Own(e) /\ p.id[m.chan] = m.id}

(* Messages whose channel, if they are to open it, has no id at p.         *)
Fresh(p) == {m \in Message : m.kind = "OPEN" => p.id[m.chan] = NoId}

(* Among the messages s there is one of kind K for a channel at most.      *)
Once(K, s) ==
  \A k, l \in DOMAIN s : s[k].kind = K /\ s[l].kind = K /\ s[k].chan = s[l].chan => k = l

(* An end has a channel of the other only with the id that it came with.   *)
OthersFit(e, p) ==
  \A c \in Own(Other(e)) : p.id[c] = NoId => p.chan[c] = "none"

EndFits(e, p) ==
  /\ TableFits(p) /\ IdsFit(p) /\ OthersFit(e, p)
  /\ p.queue \in Seq(MayQueue(e, p)) /\ Once("OPEN", p.queue)

(* An end has no other id for a channel of the other than the other has.   *)
SameIds ==
  \A e \in Ends : \A c \in Own(Other(e)) :
    end[e].id[c] \in {NoId, end[Other(e)].id[c]}

(* On a stream are messages of that stream, and OPEN of its channel only.  *)
StreamsFit ==
  \A e \in Ends, i \in Ids :
    stream[e][i] \in Seq({m \in MaySend(Other(e), end[Other(e)]) : m.id = i})

(* An OPEN finds a channel that the receiver has never had.                *)
OpensFit ==
  \A e \in Ends, i \in Ids :
    stream[e][i] \in Seq(Fresh(end[e])) /\ Once("OPEN", stream[e][i])

(* As long as no id is used again, an end's channels have different ids.   *)
IdsDiffer ==
  "reused" \notin spoiled =>
    \A e \in Ends, c, d \in Channels :
      end[e].id[c] = end[e].id[d] /\ end[e].id[c] # NoId => c = d

Types ==
  /\ end \in [Ends -> End]
  /\ stream \in [Ends -> [Ids -> Seq(Message)]]
  /\ control \subseteq Chunk
  /\ \A e \in Ends : end[e].out = <<>> /\ end[e].control = {}

ChannelInv ==
  /\ Types
  /\ \A e \in Ends : EndFits(e, end[e])
  /\ SameIds /\ StreamsFit /\ OpensFit /\ IdsDiffer

(* How a step of end e, from p to q, leaves that end: it fits, what it     *)
(* sends is its own, an id, once given, is not changed, a channel that is  *)
(* closed remains closed, and an OPEN is sent when its channel gets an id. *)
Keeps(e, p, q) ==
  /\ q \in End /\ EndFits(e, q)
  /\ q.out \in Seq(MaySend(e, q)) /\ q.out \in Seq(Fresh(p)) /\ Once("OPEN", q.out)
  /\ \A c \in Channels : p.id[c] # NoId => q.id[c] = p.id[c]
  /\ \A c \in Channels : p.id[c] = NoId /\ q.id[c] # NoId => Alive(q, c)
  /\ \A c \in Channels : p.chan[c] = "closed" => q.chan[c] = "closed"

(* No channel that is closed at an end is anything else there afterwards.  *)
Final ==
  \A e \in Ends, c \in Channels : end[e].chan[c] = "closed" => end'[e].chan[c] = "closed"

-----------------------------------------------------------------------------
(* Ends, ids and sequences.                                                *)

LEMMA Others ==
  ASSUME NEW e \in Ends
  PROVE  /\ Other(e) \in Ends /\ Other(e) # e /\ Other(Other(e)) = e
         /\ \A x \in Ends : x # e => x = Other(e)
  BY ChannelAssumption DEF ChannelAssumption, Ends, Other

LEMMA IdsAreInts == Ids \subseteq Int /\ NoId \notin Ids /\ NoChannel \notin Channels
  BY ChannelAssumption DEF ChannelAssumption, Ids, NoId

LEMMA SeqMore ==
  ASSUME NEW S, NEW T, S \subseteq T, NEW s \in Seq(S)
  PROVE  s \in Seq(T)
  OBVIOUS

LEMMA OnceTogether ==
  ASSUME NEW K, NEW S, NEW T, NEW s \in Seq(S), NEW t \in Seq(T), Once(K, s), Once(K, t),
         \A a \in S, b \in T : a.kind = K /\ b.kind = K => a.chan # b.chan
  PROVE  Once(K, s \o t)
<1> DEFINE u == s \o t
           n == Len(s)
           m == Len(t)
<1>1. /\ n \in Nat /\ m \in Nat /\ DOMAIN u = 1 .. n + m
      /\ DOMAIN s = 1 .. n /\ DOMAIN t = 1 .. m
      /\ \A k \in 1 .. n : u[k] = s[k] /\ s[k] \in S
      /\ \A k \in n + 1 .. n + m : u[k] = t[k - n] /\ k - n \in 1 .. m /\ t[k - n] \in T
  OBVIOUS
<1> HIDE DEF u, n, m
<1> SUFFICES ASSUME NEW k \in DOMAIN u, NEW l \in DOMAIN u,
                    u[k].kind = K, u[l].kind = K, u[k].chan = u[l].chan
             PROVE  k = l
  BY DEF Once, u
<1>2. CASE k \in 1 .. n /\ l \in 1 .. n
  BY <1>1, <1>2 DEF Once
<1>3. CASE k \in n + 1 .. n + m /\ l \in n + 1 .. n + m
  <2>1. k - n = l - n
    BY <1>1, <1>3 DEF Once
  <2> QED  BY <1>1, <2>1
<1>4. CASE k \in 1 .. n /\ l \in n + 1 .. n + m
  BY <1>1, <1>4
<1>5. CASE l \in 1 .. n /\ k \in n + 1 .. n + m
  BY <1>1, <1>5
<1> QED  BY <1>1, <1>2, <1>3, <1>4, <1>5

LEMMA OnceAfter ==
  ASSUME NEW K, NEW S, NEW s \in Seq(S), s # <<>>, Once(K, s)
  PROVE  /\ Once(K, Tail(s)) /\ Tail(s) \in Seq(S)
         /\ \A k \in DOMAIN Tail(s) : Tail(s)[k] \in S
         /\ \A k \in DOMAIN Tail(s) :
              Head(s).kind = K /\ Tail(s)[k].kind = K => Tail(s)[k].chan # Head(s).chan
<1> DEFINE u == Tail(s)
<1>1. /\ u \in Seq(S) /\ 1 \in DOMAIN s /\ Head(s) = s[1] /\ DOMAIN u \subseteq Nat
      /\ \A k \in DOMAIN u : /\ u[k] = s[k + 1] /\ k + 1 \in DOMAIN s /\ k + 1 # 1 /\ u[k] \in S
                            /\ \A l \in DOMAIN u : k + 1 = l + 1 => k = l
  OBVIOUS
<1> HIDE DEF u
<1>2. Once(K, u)
  BY <1>1 DEF Once
<1>3. \A k \in DOMAIN u : Head(s).kind = K /\ u[k].kind = K => u[k].chan # Head(s).chan
  BY <1>1 DEF Once
<1> QED  BY <1>1, <1>2, <1>3 DEF u

(* A fold in a state of S stays there, if each step does.                  *)
LEMMA KeepIn ==
  ASSUME NEW A, NEW S, NEW T, NEW s \in Seq(T), NEW b \in S, NEW V, b \in V[0], b = <<>>,
         \A r \in S, x \in T : (IF x \in A THEN Append(r, x) ELSE r) \in S,
         \A k \in 0 .. Len(s) - 1 : \A r \in S \cap V[k] :
           (IF s[k + 1] \in A THEN Append(r, s[k + 1]) ELSE r) \in V[k + 1]
  PROVE  Keep(s, A) \in S \cap V[Len(s)]
<1> DEFINE Op(r, x) == IF x \in A THEN Append(r, x) ELSE r
           f == [y \in S \X T |-> Op(y[1], y[2])]
           Fold(it) == it = [d \in SUBSET (DOMAIN s) |->
             IF d = {} THEN b ELSE Op(it[d \ {Max(d)}], s[Max(d)])]
           n == Len(s)
           jt == CHOOSE it : Fold(it)
           W == [k \in 0 .. n |-> S \cap V[k]]
<1>1. Keep(s, A) = jt[DOMAIN s]
  BY DEF Keep, FoldLeft, MapThenFoldSet
<1>2. \A r \in S, x \in T : Op(r, x) \in S
  OBVIOUS
<1>2a. \A k \in 0 .. n - 1 : \A r \in S \cap V[k] : Op(r, s[k + 1]) \in V[k + 1]
  OBVIOUS
<1>3. f \in [S \X T -> S] /\ \A r \in S, x \in T : f[<<r, x>>] = Op(r, x)
  BY <1>2
<1> HIDE DEF Op, f
<1>4. PICK it : it \in FoldTables(S, f, b, s)
  <2>1. f \in [S \X T -> S] /\ b \in S /\ s \in Seq(T)
    BY <1>3
  <2>2. FoldTables(S, f, b, s) # {}
    BY <2>1, FoldExists
  <2> QED  BY <2>2
<1>5. Fold(it)
  <2>1. \A d \in SUBSET (1 .. n) :
          it[d] = IF d = {} THEN b ELSE Op(it[d \ {Max(d)}], s[Max(d)])
    BY <1>3, <1>4, FoldIndices DEF FoldTables
  <2>2. it \in [SUBSET (DOMAIN s) -> S]
    BY <1>4, FoldIndices DEF FoldTables
  <2>3. DOMAIN s = 1 .. n
    BY FoldIndices
  <2> HIDE DEF n
  <2> QED  BY <2>1, <2>2, <2>3
<1>6. Fold(jt)
  BY <1>5
<1> HIDE DEF jt
<1>7. jt[{}] \in W[0]
  BY <1>6, FoldIndices
<1>8. ASSUME NEW k \in 0 .. n - 1, jt[1 .. k] \in W[k]
      PROVE  jt[1 .. k + 1] \in W[k + 1]
  <2>1. /\ 1 .. k + 1 \in SUBSET (DOMAIN s) /\ 1 .. k + 1 # {} /\ s[k + 1] \in T
        /\ Max(1 .. k + 1) = k + 1 /\ (1 .. k + 1) \ {k + 1} = 1 .. k
    BY FoldIndices
  <2>2. jt[1 .. k + 1] = Op(jt[1 .. k], s[k + 1])
    BY <1>6, <2>1
  <2>3. jt[1 .. k] \in S \cap V[k] /\ k + 1 \in 0 .. n
    BY <1>8, FoldIndices
  <2> HIDE DEF n
  <2>4. Op(jt[1 .. k], s[k + 1]) \in V[k + 1] /\ Op(jt[1 .. k], s[k + 1]) \in S
    BY <1>2, <1>2a, <2>1, <2>3
  <2> QED  BY <2>2, <2>3, <2>4
<1>9. jt[DOMAIN s] \in W[n]
  <2>1. n \in Nat /\ DOMAIN s = 1 .. n
    BY FoldIndices
  <2> HIDE DEF W, n
  <2> QED  BY <1>7, <1>8, <2>1, FoldStays
<1>10. W[n] = S \cap V[n]
  BY FoldIndices
<1> QED  BY <1>1, <1>9, <1>10

LEMMA KeepFits ==
  ASSUME NEW A, NEW T, NEW s \in Seq(T)
  PROVE  Keep(s, A) \in Seq(A \cap T)
<1> DEFINE S == Seq(A \cap T)
           b == <<>>
           V == [k \in 0 .. Len(s) |-> S]
<1>1. b \in S /\ \A r \in S, x \in T : (IF x \in A THEN Append(r, x) ELSE r) \in S
  OBVIOUS
<1> HIDE DEF S
<1>2. /\ b \in V[0]
      /\ \A k \in 0 .. Len(s) - 1 : \A r \in S \cap V[k] :
           (IF s[k + 1] \in A THEN Append(r, s[k + 1]) ELSE r) \in V[k + 1]
  <2>1. \A k \in 0 .. Len(s) - 1 : s[k + 1] \in T /\ k + 1 \in 0 .. Len(s) /\ Len(s) \in Nat
    OBVIOUS
  <2> QED  BY <1>1, <2>1
<1> HIDE DEF V
<1>3. Keep(s, A) \in S \cap V[Len(s)]
  BY <1>1, <1>2, KeepIn
<1> QED  BY <1>3 DEF S

(* The messages of kind K that are kept are some of those of s, as often.  *)
LEMMA KeepOnce ==
  ASSUME NEW K, NEW A, NEW T, NEW s \in Seq(T)
  PROVE  Once(K, s) => Once(K, Keep(s, A))
<1> DEFINE S == Seq(T)
           b == <<>>
           n == Len(s)
           Came(k, r) == \A j \in DOMAIN r : \E l \in 1 .. k : s[l] = r[j]
           V == [k \in 0 .. n |-> {r \in S : Came(k, r) /\ (Once(K, s) => Once(K, r))}]
<1>1. b \in S /\ \A r \in S, x \in T : (IF x \in A THEN Append(r, x) ELSE r) \in S
  OBVIOUS
<1>2. b \in V[0]
  BY <1>1 DEF Once
<1>3. ASSUME NEW k \in 0 .. n - 1, NEW r \in S \cap V[k]
      PROVE  (IF s[k + 1] \in A THEN Append(r, s[k + 1]) ELSE r) \in V[k + 1]
  <2> DEFINE x == s[k + 1]
             t == IF x \in A THEN Append(r, x) ELSE r
  <2>1. k \in 0 .. n /\ k + 1 \in 0 .. n /\ k + 1 \in DOMAIN s /\ x \in T /\ k \in Nat
    OBVIOUS
  <2>2. r \in Seq(T) /\ Came(k, r) /\ (Once(K, s) => Once(K, r))
    BY <2>1
  <2>3. t \in S
    BY <1>1, <2>1
  <2>4. ASSUME x \notin A PROVE t \in V[k + 1]
    <3>1. t = r /\ Came(k + 1, r)
      BY <2>1, <2>2, <2>4
    <3> HIDE DEF t
    <3> QED  BY <2>1, <2>2, <2>3, <3>1
  <2>5. ASSUME x \in A PROVE t \in V[k + 1]
    <3> DEFINE h == Len(r)
    <3>1. /\ t = Append(r, x) /\ h \in Nat /\ DOMAIN t = 1 .. h + 1 /\ DOMAIN r = 1 .. h
          /\ t[h + 1] = x /\ \A j \in 1 .. h : t[j] = r[j]
      BY <2>2, <2>5
    <3> HIDE DEF h, t
    <3>2. ASSUME NEW j \in DOMAIN t
          PROVE  \E l \in 1 .. k + 1 : s[l] = t[j]
      <4>1. CASE j = h + 1
        <5>1. k + 1 \in 1 .. k + 1
          BY <2>1
        <5> QED  BY <3>1, <4>1, <5>1
      <4>2. CASE j \in 1 .. h
        <5>1. PICK l \in 1 .. k : s[l] = r[j]
          BY <2>2, <3>1, <4>2
        <5>2. l \in 1 .. k + 1
          BY <2>1
        <5> QED  BY <3>1, <4>2, <5>1, <5>2
      <4> QED  BY <3>1, <4>1, <4>2
    <3>3. ASSUME Once(K, s), NEW i \in DOMAIN t, NEW j \in DOMAIN t, t[i].kind = K,
                 t[j].kind = K, t[i].chan = t[j].chan
          PROVE  i = j
      <4>1. CASE i \in 1 .. h /\ j \in 1 .. h
        BY <2>2, <3>1, <3>3, <4>1 DEF Once
      <4>2. CASE i = h + 1 /\ j = h + 1
        BY <4>2
      <4>3. ASSUME NEW y \in 1 .. h, r[y].kind = K, x.kind = K, r[y].chan = x.chan
            PROVE  FALSE
        <5>1. PICK l \in 1 .. k : s[l] = r[y]
          BY <2>2, <3>1
        <5>2. l \in DOMAIN s /\ l # k + 1
          BY <2>1
        <5> QED  BY <2>1, <3>3, <4>3, <5>1, <5>2 DEF Once
      <4> QED  BY <3>1, <3>3, <4>1, <4>2, <4>3
    <3>4. Once(K, s) => Once(K, t)
      BY <3>3 DEF Once
    <3> QED  BY <2>1, <2>3, <3>2, <3>4
  <2> QED  BY <2>4, <2>5
<1> HIDE DEF S, V
<1>4. Keep(s, A) \in S \cap V[n]
  BY <1>1, <1>2, <1>3, KeepIn
<1>5. n \in 0 .. n /\ DOMAIN s = 1 .. n
  OBVIOUS
<1>6. Came(n, Keep(s, A)) /\ (Once(K, s) => Once(K, Keep(s, A)))
  BY <1>4, <1>5 DEF V
<1> QED  BY <1>6

(* The loop of _data_channel_flush, over the items s from state b.         *)
Flushed(e, b, s) == FoldLeft(LAMBDA q, item : FlushOne(e, q, item), b, s)

LEMMA FlushIn ==
  ASSUME NEW e, NEW S, NEW T, NEW s \in Seq(T), NEW b \in S, NEW V, b \in V[0],
         \A r \in S, x \in T : FlushOne(e, r, x) \in S,
         \A k \in 0 .. Len(s) - 1 : \A r \in S \cap V[k] :
           FlushOne(e, r, s[k + 1]) \in V[k + 1]
  PROVE  Flushed(e, b, s) \in S \cap V[Len(s)]
<1> DEFINE Op(r, x) == FlushOne(e, r, x)
           f == [y \in S \X T |-> Op(y[1], y[2])]
           Fold(it) == it = [d \in SUBSET (DOMAIN s) |->
             IF d = {} THEN b ELSE Op(it[d \ {Max(d)}], s[Max(d)])]
           n == Len(s)
           jt == CHOOSE it : Fold(it)
           W == [k \in 0 .. n |-> S \cap V[k]]
<1>1. Flushed(e, b, s) = jt[DOMAIN s]
  BY DEF Flushed, FoldLeft, MapThenFoldSet
<1>2. \A r \in S, x \in T : Op(r, x) \in S
  OBVIOUS
<1>2a. \A k \in 0 .. n - 1 : \A r \in S \cap V[k] : Op(r, s[k + 1]) \in V[k + 1]
  OBVIOUS
<1>3. f \in [S \X T -> S] /\ \A r \in S, x \in T : f[<<r, x>>] = Op(r, x)
  BY <1>2
<1> HIDE DEF Op, f
<1>4. PICK it : it \in FoldTables(S, f, b, s)
  <2>1. f \in [S \X T -> S] /\ b \in S /\ s \in Seq(T)
    BY <1>3
  <2>2. FoldTables(S, f, b, s) # {}
    BY <2>1, FoldExists
  <2> QED  BY <2>2
<1>5. Fold(it)
  <2>1. \A d \in SUBSET (1 .. n) :
          it[d] = IF d = {} THEN b ELSE Op(it[d \ {Max(d)}], s[Max(d)])
    BY <1>3, <1>4, FoldIndices DEF FoldTables
  <2>2. it \in [SUBSET (DOMAIN s) -> S]
    BY <1>4, FoldIndices DEF FoldTables
  <2>3. DOMAIN s = 1 .. n
    BY FoldIndices
  <2> HIDE DEF n
  <2> QED  BY <2>1, <2>2, <2>3
<1>6. Fold(jt)
  BY <1>5
<1> HIDE DEF jt
<1>7. jt[{}] \in W[0]
  BY <1>6, FoldIndices
<1>8. ASSUME NEW k \in 0 .. n - 1, jt[1 .. k] \in W[k]
      PROVE  jt[1 .. k + 1] \in W[k + 1]
  <2>1. /\ 1 .. k + 1 \in SUBSET (DOMAIN s) /\ 1 .. k + 1 # {} /\ s[k + 1] \in T
        /\ Max(1 .. k + 1) = k + 1 /\ (1 .. k + 1) \ {k + 1} = 1 .. k
    BY FoldIndices
  <2>2. jt[1 .. k + 1] = Op(jt[1 .. k], s[k + 1])
    BY <1>6, <2>1
  <2>3. jt[1 .. k] \in S \cap V[k] /\ k + 1 \in 0 .. n
    BY <1>8, FoldIndices
  <2> HIDE DEF n
  <2>4. Op(jt[1 .. k], s[k + 1]) \in V[k + 1] /\ Op(jt[1 .. k], s[k + 1]) \in S
    BY <1>2, <1>2a, <2>1, <2>3
  <2> QED  BY <2>2, <2>3, <2>4
<1>9. jt[DOMAIN s] \in W[n]
  <2>1. n \in Nat /\ DOMAIN s = 1 .. n
    BY FoldIndices
  <2> HIDE DEF W, n
  <2> QED  BY <1>7, <1>8, <2>1, FoldStays
<1>10. W[n] = S \cap V[n]
  BY FoldIndices
<1> QED  BY <1>1, <1>9, <1>10

LEMMA ClosedIn ==
  ASSUME NEW S, NEW T, NEW s \in Seq(T), NEW b \in S, NEW V, b \in V[0],
         \A r \in S, x \in T : ChannelClosed(r, x) \in S,
         \A k \in 0 .. Len(s) - 1 : \A r \in S \cap V[k] :
           ChannelClosed(r, s[k + 1]) \in V[k + 1]
  PROVE  FoldLeft(ChannelClosed, b, s) \in S \cap V[Len(s)]
<1> DEFINE Op(r, x) == ChannelClosed(r, x)
           f == [y \in S \X T |-> Op(y[1], y[2])]
           Fold(it) == it = [d \in SUBSET (DOMAIN s) |->
             IF d = {} THEN b ELSE Op(it[d \ {Max(d)}], s[Max(d)])]
           n == Len(s)
           jt == CHOOSE it : Fold(it)
           W == [k \in 0 .. n |-> S \cap V[k]]
<1>1. FoldLeft(ChannelClosed, b, s) = jt[DOMAIN s]
  BY DEF FoldLeft, MapThenFoldSet
<1>2. \A r \in S, x \in T : Op(r, x) \in S
  OBVIOUS
<1>2a. \A k \in 0 .. n - 1 : \A r \in S \cap V[k] : Op(r, s[k + 1]) \in V[k + 1]
  OBVIOUS
<1>3. f \in [S \X T -> S] /\ \A r \in S, x \in T : f[<<r, x>>] = Op(r, x)
  BY <1>2
<1> HIDE DEF Op, f
<1>4. PICK it : it \in FoldTables(S, f, b, s)
  <2>1. f \in [S \X T -> S] /\ b \in S /\ s \in Seq(T)
    BY <1>3
  <2>2. FoldTables(S, f, b, s) # {}
    BY <2>1, FoldExists
  <2> QED  BY <2>2
<1>5. Fold(it)
  <2>1. \A d \in SUBSET (1 .. n) :
          it[d] = IF d = {} THEN b ELSE Op(it[d \ {Max(d)}], s[Max(d)])
    BY <1>3, <1>4, FoldIndices DEF FoldTables
  <2>2. it \in [SUBSET (DOMAIN s) -> S]
    BY <1>4, FoldIndices DEF FoldTables
  <2>3. DOMAIN s = 1 .. n
    BY FoldIndices
  <2> HIDE DEF n
  <2> QED  BY <2>1, <2>2, <2>3
<1>6. Fold(jt)
  BY <1>5
<1> HIDE DEF jt
<1>7. jt[{}] \in W[0]
  BY <1>6, FoldIndices
<1>8. ASSUME NEW k \in 0 .. n - 1, jt[1 .. k] \in W[k]
      PROVE  jt[1 .. k + 1] \in W[k + 1]
  <2>1. /\ 1 .. k + 1 \in SUBSET (DOMAIN s) /\ 1 .. k + 1 # {} /\ s[k + 1] \in T
        /\ Max(1 .. k + 1) = k + 1 /\ (1 .. k + 1) \ {k + 1} = 1 .. k
    BY FoldIndices
  <2>2. jt[1 .. k + 1] = Op(jt[1 .. k], s[k + 1])
    BY <1>6, <2>1
  <2>3. jt[1 .. k] \in S \cap V[k] /\ k + 1 \in 0 .. n
    BY <1>8, FoldIndices
  <2> HIDE DEF n
  <2>4. Op(jt[1 .. k], s[k + 1]) \in V[k + 1] /\ Op(jt[1 .. k], s[k + 1]) \in S
    BY <1>2, <1>2a, <2>1, <2>3
  <2> QED  BY <2>2, <2>3, <2>4
<1>9. jt[DOMAIN s] \in W[n]
  <2>1. n \in Nat /\ DOMAIN s = 1 .. n
    BY FoldIndices
  <2> HIDE DEF W, n
  <2> QED  BY <1>7, <1>8, <2>1, FoldStays
<1>10. W[n] = S \cap V[n]
  BY FoldIndices
<1> QED  BY <1>1, <1>9, <1>10

LEMMA ClosingIn ==
  ASSUME NEW S, NEW T, NEW s \in Seq(T), NEW b \in S,
         \A r \in S, x \in T :
           (IF r.table[x] = NoChannel THEN r ELSE CloseChannel(r, r.table[x])) \in S
  PROVE  FoldLeft(LAMBDA q, i : IF q.table[i] = NoChannel THEN q ELSE CloseChannel(q, q.table[i]),
                  b, s) \in S
<1> DEFINE Op(r, x) == IF r.table[x] = NoChannel THEN r ELSE CloseChannel(r, r.table[x])
           f == [y \in S \X T |-> Op(y[1], y[2])]
           Fold(it) == it = [d \in SUBSET (DOMAIN s) |->
             IF d = {} THEN b ELSE Op(it[d \ {Max(d)}], s[Max(d)])]
           n == Len(s)
           jt == CHOOSE it : Fold(it)
           W == [k \in 0 .. n |-> S]
<1>1. FoldLeft(LAMBDA q, i : IF q.table[i] = NoChannel THEN q ELSE CloseChannel(q, q.table[i]),
              b, s) = jt[DOMAIN s]
  BY DEF FoldLeft, MapThenFoldSet
<1>2. \A r \in S, x \in T : Op(r, x) \in S
  OBVIOUS
<1>3. f \in [S \X T -> S] /\ \A r \in S, x \in T : f[<<r, x>>] = Op(r, x)
  BY <1>2
<1> HIDE DEF Op, f
<1>4. PICK it : it \in FoldTables(S, f, b, s)
  <2>1. f \in [S \X T -> S] /\ b \in S /\ s \in Seq(T)
    BY <1>3
  <2>2. FoldTables(S, f, b, s) # {}
    BY <2>1, FoldExists
  <2> QED  BY <2>2
<1>5. Fold(it)
  <2>1. \A d \in SUBSET (1 .. n) :
          it[d] = IF d = {} THEN b ELSE Op(it[d \ {Max(d)}], s[Max(d)])
    BY <1>3, <1>4, FoldIndices DEF FoldTables
  <2>2. it \in [SUBSET (DOMAIN s) -> S]
    BY <1>4, FoldIndices DEF FoldTables
  <2>3. DOMAIN s = 1 .. n
    BY FoldIndices
  <2> HIDE DEF n
  <2> QED  BY <2>1, <2>2, <2>3
<1>6. Fold(jt)
  BY <1>5
<1> HIDE DEF jt
<1>7. jt[{}] \in W[0]
  BY <1>6, FoldIndices
<1>8. ASSUME NEW k \in 0 .. n - 1, jt[1 .. k] \in W[k]
      PROVE  jt[1 .. k + 1] \in W[k + 1]
  <2>1. /\ 1 .. k + 1 \in SUBSET (DOMAIN s) /\ 1 .. k + 1 # {} /\ s[k + 1] \in T
        /\ Max(1 .. k + 1) = k + 1 /\ (1 .. k + 1) \ {k + 1} = 1 .. k
    BY FoldIndices
  <2>2. jt[1 .. k + 1] = Op(jt[1 .. k], s[k + 1])
    BY <1>6, <2>1
  <2>3. jt[1 .. k] \in S /\ k + 1 \in 0 .. n
    BY <1>8, FoldIndices
  <2> HIDE DEF n
  <2>4. Op(jt[1 .. k], s[k + 1]) \in S
    BY <1>2, <2>1, <2>3
  <2> QED  BY <2>2, <2>3, <2>4
<1>9. jt[DOMAIN s] \in W[n]
  <2>1. n \in Nat /\ DOMAIN s = 1 .. n
    BY FoldIndices
  <2> HIDE DEF W, n
  <2> QED  BY <1>7, <1>8, <2>1, FoldStays
<1>10. W[n] = S
  BY FoldIndices
<1> QED  BY <1>1, <1>9, <1>10

-----------------------------------------------------------------------------
(* Ids.                                                                    *)

LEMMA Parities ==
  /\ \A e \in Ends : FirstId(e) \in {0, 1} /\ FirstId(e) % 2 = FirstId(e)
  /\ \A e, x \in Ends : FirstId(e) = FirstId(x) => e = x
  /\ \A c \in Channels : Owner[c] \in Ends
  BY ChannelAssumption DEF ChannelAssumption, Ends, FirstId

(* An end always finds an id for a channel of its own: its other channels  *)
(* are too few to have them all.                                           *)
LEMMA FreeIdFound ==
  ASSUME NEW e \in Ends, NEW q \in End, TableFits(q), IdsFit(q),
         NEW c \in Own(e), q.id[c] = NoId
  PROVE  /\ FreeId(e, q) \in Ids /\ q.table[FreeId(e, q)] = NoChannel
         /\ FreeId(e, q) % 2 = FirstId(e)
<1> DEFINE S == {i \in Ids : i % 2 = FirstId(e)}
           M == Negotiated \cup {x \in Channels : Owner[x] = e}
           T == M \ {c}
<1>1. c \in M /\ c \in Channels /\ M \in SUBSET Channels
  BY ChannelAssumption DEF Own, ChannelAssumption
<1>2. q.table \in [Ids -> Channels \cup {NoChannel}]
  BY DEF End
<1>3. IsFiniteSet(M) /\ IsFiniteSet(T) /\ Cardinality(T) = Cardinality(M) - 1
  <2>1. IsFiniteSet(M)
    BY <1>1, EnoughIds, FS_Subset DEF EnoughIds
  <2> HIDE DEF M
  <2> QED  BY <1>1, <2>1, FS_RemoveElement
<1>4. IsFiniteSet(S)
  <2>1. IsFiniteSet(0 .. MaxId) /\ S \in SUBSET (0 .. MaxId)
    BY ChannelAssumption, FS_Interval DEF ChannelAssumption, Ids
  <2> HIDE DEF S
  <2> QED  BY <2>1, FS_Subset
<1>5. Cardinality(T) < Cardinality(S)
  <2>1. Cardinality(M) <= Cardinality(S)
    BY EnoughIds DEF EnoughIds
  <2> HIDE DEF M, S, T
  <2> QED  BY <1>3, <1>4, <2>1, FS_CardinalityType
<1>6. ASSUME NEW i \in S, q.table[i] # NoChannel
      PROVE  q.table[i] \in T /\ q.id[q.table[i]] = i
  <2> DEFINE d == q.table[i]
  <2>1. i \in Ids /\ d \in Channels /\ q.id[d] = i /\ i # NoId
    BY <1>2, <1>6, IdsAreInts DEF TableFits
  <2>2. d # c
    BY <2>1
  <2>3. CASE d \in Negotiated
    BY <2>1, <2>2, <2>3
  <2>4. CASE d \notin Negotiated
    <3>1. i % 2 = FirstId(Owner[d])
      BY <2>1, <2>4 DEF IdsFit
    <3>2. Owner[d] = e
      BY <2>1, <3>1, Parities
    <3> QED  BY <2>1, <2>2, <3>2
  <2> QED  BY <2>3, <2>4
<1>7. \E i \in S : q.table[i] = NoChannel
  <2>1. SUFFICES ASSUME \A i \in S : q.table[i] # NoChannel PROVE FALSE
    OBVIOUS
  <2> DEFINE f == [i \in S |-> q.table[i]]
  <2>2. f \in [S -> T] /\ \A i \in S : q.id[f[i]] = i
    BY <1>6, <2>1
  <2> HIDE DEF f, S, T
  <2>3. \E x, y \in S : x # y /\ f[x] = f[y]
    BY <1>3, <1>4, <1>5, <2>2, FS_PigeonHole
  <2> QED  BY <2>2, <2>3
<1> DEFINE F == {i \in S : q.table[i] = NoChannel}
<1>8. \E i \in F : \A j \in F : i <= j
  <2>1. F \subseteq Nat /\ F # {}
    BY <1>7, ChannelAssumption DEF Ids, ChannelAssumption
  <2> HIDE DEF F
  <2> QED  BY <2>1, LeastNatural
<1>9. PICK i \in F : \A j \in F : i <= j
  BY <1>8
<1>10. \A j \in Ids : j % 2 = i % 2 /\ j < i => q.table[j] # NoChannel
  BY <1>9, IdsAreInts
<1>11. FirstId(e) % 2 = FirstId(e)
  BY Parities
<1>12. \E k \in Ids : /\ k % 2 = FirstId(e) % 2 /\ q.table[k] = NoChannel
                      /\ \A j \in Ids : j % 2 = k % 2 /\ j < k => q.table[j] # NoChannel
  BY <1>9, <1>10, <1>11
<1>13. /\ FreeId(e, q) \in Ids
       /\ FreeId(e, q) % 2 = FirstId(e) % 2 /\ q.table[FreeId(e, q)] = NoChannel
  BY <1>12 DEF FreeId
<1> QED  BY <1>11, <1>13

-----------------------------------------------------------------------------
(* The step of an end is one of the whole.                                 *)

(* An OPEN that arrives is for a channel of the other end, with its id,    *)
(* that this end has never had.                                            *)
LEMMA OpenArrives ==
  ASSUME ChannelInv, NEW e \in Ends, NEW i \in Ids, stream[e][i] # <<>>,
         Head(stream[e][i]).kind = "OPEN"
  PROVE  LET c == Head(stream[e][i]).chan
         IN  /\ c \in Own(Other(e)) /\ end[Other(e)].id[c] = i
             /\ end[e].id[c] = NoId /\ end[e].chan[c] = "none"
<1> DEFINE S == {m \in MaySend(Other(e), end[Other(e)]) : m.id = i}
           F == Fresh(end[e])
<1>1. stream[e][i] \in Seq(S) /\ stream[e][i] \in Seq(F)
  BY DEF ChannelInv, StreamsFit, OpensFit
<1> HIDE DEF S, F
<1>2. Head(stream[e][i]) \in S /\ Head(stream[e][i]) \in F
  BY <1>1
<1> QED  BY <1>2 DEF S, F, MaySend, Fresh, ChannelInv, EndFits, OthersFit

LEMMA EndSteps ==
  ASSUME ChannelInv, NEW e \in Ends, NEW p, Keeps(e, end[e], p),
         \A c \in Own(Other(e)) : p.id[c] \in {NoId, end[Other(e)].id[c]},
         NEW i, i \in Ids => stream[e][i] # <<>>,
         \A c \in Own(Other(e)) : end[e].id[c] = NoId /\ p.id[c] # NoId =>
           i \in Ids /\ Head(stream[e][i]).kind = "OPEN" /\ Head(stream[e][i]).chan = c,
         NEW m, p.control \subseteq Chunk,
         EndGoesOn(e, p, i, m),
         spoiled \subseteq spoiled',
         "reused" \notin spoiled' => ~ Reuses(end[e], p)
  PROVE  ChannelInv' /\ Final
<1> DEFINE n == [p EXCEPT !.out = <<>>, !.control = {}]
           x == Other(e)
           sent == IF p.deaf THEN <<>> ELSE p.out
<1>1. p \in End /\ EndFits(e, p) /\ p.out \in Seq(MaySend(e, p))
  BY DEF Keeps
<1>2. /\ n \in End /\ n.chan = p.chan /\ n.id = p.id /\ n.table = p.table /\ n.queue = p.queue
      /\ n.out = <<>> /\ n.control = {}
  <2>1. p \in End
    BY <1>1
  <2>2. n \in End
    <3>1. <<>> \in Seq(Message) /\ {} \in SUBSET Chunk
      OBVIOUS
    <3> HIDE DEF Message, Chunk
    <3> QED  BY <2>1, <3>1 DEF End
  <2>3. /\ n.chan = p.chan /\ n.id = p.id /\ n.table = p.table /\ n.queue = p.queue
        /\ n.out = <<>> /\ n.control = {}
    BY <2>1 DEF End
  <2> QED  BY <2>2, <2>3
<1>3. EndFits(e, n)
  <2>1. MayQueue(e, n) = MayQueue(e, p)
    BY <1>2 DEF MayQueue, Alive
  <2> HIDE DEF n
  <2> QED  BY <1>1, <1>2, <2>1 DEF EndFits, TableFits, IdsFit, OthersFit, Alive
<1>4. /\ end \in [Ends -> End] /\ end' = [end EXCEPT ![e] = n]
      /\ x \in Ends /\ x # e /\ Other(x) = e /\ \A y \in Ends : y # e => y = x
  BY Others DEF ChannelInv, Types, EndGoesOn
<1> HIDE DEF n, x
<1>5. end'[e] = n /\ end'[x] = end[x] /\ end' \in [Ends -> End] /\ end[x] \in End
  BY <1>2, <1>4
<1>6. \A y \in Ends : EndFits(y, end'[y])
  BY <1>3, <1>4, <1>5 DEF ChannelInv
<1>7. \A y \in Ends : end'[y].out = <<>> /\ end'[y].control = {}
  BY <1>2, <1>4, <1>5 DEF ChannelInv, Types
<1>8. control' \subseteq Chunk
  BY DEF ChannelInv, Types, EndGoesOn
<1>9. \A c \in Channels : end[e].id[c] # NoId => n.id[c] = end[e].id[c]
  BY <1>2 DEF Keeps
<1>10. SameIds'
  <2>1. \A c \in Own(x) : n.id[c] \in {NoId, end[x].id[c]}
    BY <1>2 DEF x
  <2>2. \A c \in Own(e) : end[x].id[c] \in {NoId, n.id[c]}
    <3>1. \A c \in Own(e) : end[x].id[c] \in {NoId, end[e].id[c]}
      BY <1>4 DEF ChannelInv, SameIds
    <3> QED  BY <1>9, <3>1 DEF Own
  <2> QED  BY <1>4, <1>5, <2>1, <2>2 DEF SameIds, x
<1>11. IdsDiffer'
  <2> SUFFICES ASSUME "reused" \notin spoiled',
                      NEW y \in Ends, NEW c \in Channels, NEW d \in Channels,
                      end'[y].id[c] = end'[y].id[d], end'[y].id[c] # NoId
               PROVE  c = d
    BY DEF IdsDiffer
  <2>1. "reused" \notin spoiled
    OBVIOUS
  <2>2. CASE y = x
    BY <1>5, <2>1, <2>2 DEF ChannelInv, IdsDiffer
  <2>3. CASE y = e
    <3>1. p.id[c] = p.id[d] /\ p.id[c] # NoId
      BY <1>2, <1>5, <2>3
    <3>2. CASE end[e].id[c] # NoId /\ end[e].id[d] # NoId
      BY <2>1, <3>1, <3>2 DEF ChannelInv, IdsDiffer, Keeps
    <3>3. CASE end[e].id[c] = NoId /\ end[e].id[d] = NoId
      <4>1. Alive(p, c) /\ Alive(p, d)
        BY <3>1, <3>3 DEF Keeps
      <4>2. p.table[p.id[c]] = c /\ p.table[p.id[d]] = d
        BY <1>1, <3>1, <4>1 DEF EndFits, TableFits
      <4> QED  BY <3>1, <4>2
    <3>4. ASSUME NEW a \in Channels, NEW b \in Channels, end[e].id[a] = NoId,
                 end[e].id[b] # NoId, p.id[a] = p.id[b], p.id[a] # NoId
          PROVE  FALSE
      <4>1. p.id[a] = end[e].id[b] /\ a # b
        BY <3>4 DEF Keeps
      <4> QED  BY <3>4, <4>1 DEF Reuses
    <3> QED  BY <3>1, <3>2, <3>3, <3>4
  <2> QED  BY <1>4, <2>2, <2>3
<1>12. sent \in Seq(MaySend(e, p))
  <2>1. <<>> \in Seq(MaySend(e, p))
    OBVIOUS
  <2> QED  BY <1>1, <2>1
<1> HIDE DEF sent
<1>13. ASSUME NEW k \in Ids
       PROVE  /\ stream'[x][k] \in Seq({o \in MaySend(e, n) : o.id = k})
              /\ stream'[e][k] \in Seq({o \in MaySend(x, end[x]) : o.id = k})
  <2>1. /\ stream[x][k] \in Seq({o \in MaySend(e, end[e]) : o.id = k})
        /\ stream[e][k] \in Seq({o \in MaySend(x, end[x]) : o.id = k})
    BY <1>4 DEF ChannelInv, StreamsFit, x
  <2>2. /\ stream'[x][k] = stream[x][k] \o Keep(sent, {o \in Range(sent) : o.id = k})
        /\ stream'[e][k] = IF k = i THEN Tail(stream[e][k]) ELSE stream[e][k]
    BY <1>4 DEF EndGoesOn, sent
  <2>3. stream'[e][k] \in Seq({o \in MaySend(x, end[x]) : o.id = k})
    BY <2>1, <2>2
  <2> DEFINE New == {o \in MaySend(e, n) : o.id = k}
             Old == {o \in MaySend(e, end[e]) : o.id = k}
             A == {o \in Range(sent) : o.id = k}
             B == MaySend(e, p)
  <2>4. Old \subseteq New
    BY <1>9, IdsAreInts DEF MaySend, Own, Message
  <2>5. A \cap B \subseteq New
    BY <1>2 DEF MaySend
  <2> HIDE DEF New, Old, A, B
  <2>6. Keep(sent, A) \in Seq(A \cap B)
    BY <1>12, KeepFits DEF B
  <2>7. Keep(sent, A) \in Seq(New)
    BY <2>5, <2>6, SeqMore
  <2>8. stream[x][k] \in Seq(New)
    BY <2>1, <2>4, SeqMore DEF Old
  <2>9. stream'[x][k] \in Seq(New)
    BY <2>2, <2>7, <2>8 DEF A
  <2> QED  BY <2>3, <2>9 DEF New
<1>14. StreamsFit'
  <2> SUFFICES ASSUME NEW y \in Ends, NEW k \in Ids
               PROVE  stream'[y][k] \in Seq({o \in MaySend(Other(y), end'[Other(y)]) : o.id = k})
    BY DEF StreamsFit
  <2>1. CASE y = x
    BY <1>4, <1>5, <1>13, <2>1
  <2>2. CASE y = e
    BY <1>4, <1>5, <1>13, <2>2 DEF x
  <2> QED  BY <1>4, <2>1, <2>2
<1>15. stream' \in [Ends -> [Ids -> Seq(Message)]]
  <2>1. ASSUME NEW y \in Ends, NEW k \in Ids
        PROVE  stream'[y][k] \in Seq(Message)
    <3> DEFINE W == {o \in MaySend(Other(y), end'[Other(y)]) : o.id = k}
    <3>1. W \subseteq Message /\ stream'[y][k] \in Seq(W)
      BY <1>14 DEF StreamsFit, MaySend
    <3> HIDE DEF W
    <3> QED  BY <3>1, SeqMore
  <2>2. stream' = [y \in Ends |-> [k \in Ids |-> stream'[y][k]]]
    BY DEF EndGoesOn
  <2> QED  BY <2>1, <2>2
<1>16. OpensFit'
  <2>1. ASSUME NEW k \in Ids
        PROVE  stream'[x][k] \in Seq(Fresh(end'[x])) /\ Once("OPEN", stream'[x][k])
    <3> DEFINE Old == {o \in MaySend(e, end[e]) : o.id = k}
               B == {o \in Fresh(end[e]) : o \in MaySend(e, p)}
               A == {o \in Range(sent) : o.id = k}
               s == stream[x][k]
               t == Keep(sent, A)
    <3>1. sent \in Seq(B) /\ Once("OPEN", sent)
      <4>1. p.out \in Seq(MaySend(e, p)) /\ p.out \in Seq(Fresh(end[e])) /\ Once("OPEN", p.out)
        BY DEF Keeps
      <4>2. p.out \in Seq(B)
        <5>1. \A l \in DOMAIN p.out : p.out[l] \in B
          BY <4>1
        <5> HIDE DEF B
        <5> QED  BY <4>1, <5>1
      <4>3. <<>> \in Seq(B) /\ Once("OPEN", <<>>)
        BY DEF Once
      <4> HIDE DEF B
      <4> QED  BY <4>1, <4>2, <4>3 DEF sent
    <3>2. s \in Seq(Old) /\ s \in Seq(Fresh(end[x])) /\ Once("OPEN", s)
      BY <1>4 DEF ChannelInv, StreamsFit, OpensFit, x
    <3>3. stream'[x][k] = s \o t
      BY <1>4 DEF EndGoesOn, sent
    <3>4. A \cap B \subseteq B
      OBVIOUS
    <3>5. \A a \in Old, b \in B : a.kind = "OPEN" /\ b.kind = "OPEN" => a.chan # b.chan
      BY IdsAreInts DEF Fresh, MaySend, Message
    <3>6. B \subseteq Fresh(end[x])
      <4> SUFFICES ASSUME NEW b \in B, b.kind = "OPEN"
                   PROVE  end[x].id[b.chan] = NoId
        BY DEF Fresh
      <4>1. b.chan \in Own(e) /\ end[e].id[b.chan] = NoId
        BY DEF Fresh, MaySend
      <4>2. end[x].id[b.chan] \in {NoId, end[e].id[b.chan]}
        BY <1>4, <4>1 DEF ChannelInv, SameIds
      <4> QED  BY <4>1, <4>2
    <3> HIDE DEF Old, A, B, s
    <3>7. t \in Seq(A \cap B) /\ Once("OPEN", t)
      BY <3>1, KeepFits, KeepOnce
    <3> HIDE DEF t
    <3>8. t \in Seq(B)
      BY <3>4, <3>7, SeqMore
    <3>9. Once("OPEN", s \o t)
      BY <3>2, <3>5, <3>7, <3>8, OnceTogether
    <3>10. t \in Seq(Fresh(end[x]))
      BY <3>6, <3>8, SeqMore
    <3>11. s \o t \in Seq(Fresh(end[x]))
      BY <3>2, <3>10
    <3> QED  BY <1>5, <3>3, <3>9, <3>11
  <2>2. ASSUME NEW k \in Ids
        PROVE  stream'[e][k] \in Seq(Fresh(n)) /\ Once("OPEN", stream'[e][k])
    <3> DEFINE s == stream[e][k]
               Old == {o \in MaySend(x, end[x]) : o.id = k}
               F == {o \in Fresh(end[e]) : o \in Old}
    <3>1. s \in Seq(Fresh(end[e])) /\ s \in Seq(Old) /\ Once("OPEN", s)
      BY <1>4 DEF ChannelInv, StreamsFit, OpensFit, x
    <3>2. s \in Seq(F)
      <4>1. \A l \in DOMAIN s : s[l] \in F
        BY <3>1
      <4> HIDE DEF F, s
      <4> QED  BY <3>1, <4>1
    <3>3. stream'[e][k] = IF k = i THEN Tail(s) ELSE s
      BY <1>4 DEF EndGoesOn
    <3>4. ASSUME NEW o \in F, o \notin Fresh(n)
          PROVE  /\ i = k /\ Head(s).kind = "OPEN" /\ Head(s).chan = o.chan
                 /\ o.kind = "OPEN"
      <4>1. /\ o.kind = "OPEN" /\ end[e].id[o.chan] = NoId /\ p.id[o.chan] # NoId
            /\ o.chan \in Own(x) /\ end[x].id[o.chan] = k
        BY <1>2, <3>4 DEF Fresh, MaySend
      <4>2. i \in Ids /\ Head(stream[e][i]).kind = "OPEN" /\ Head(stream[e][i]).chan = o.chan
        BY <4>1 DEF x
      <4>5. stream[e][i] # <<>> /\ e \in Ends /\ ChannelInv
        BY <4>2
      <4> HIDE DEF ChannelInv, Own, x
      <4>6. end[Other(e)].id[Head(stream[e][i]).chan] = i
        BY <4>2, <4>5, OpenArrives
      <4>3. end[x].id[o.chan] = i
        BY <4>2, <4>6 DEF x
      <4> QED  BY <4>1, <4>2, <4>3
    <3> HIDE DEF s, F
    <3>5. CASE k = i
      <4>1. s # <<>>
        BY <3>5 DEF s
      <4>2. /\ Once("OPEN", Tail(s)) /\ Tail(s) \in Seq(F) /\ \A l \in DOMAIN Tail(s) : Tail(s)[l] \in F
            /\ \A l \in DOMAIN Tail(s) :
                 Head(s).kind = "OPEN" /\ Tail(s)[l].kind = "OPEN" => Tail(s)[l].chan # Head(s).chan
        BY <3>1, <3>2, <4>1, OnceAfter
      <4>3. \A l \in DOMAIN Tail(s) : Tail(s)[l] \in Fresh(n)
        BY <3>4, <4>2
      <4> DEFINE G == Fresh(n)
                 u == Tail(s)
      <4>4. u \in Seq(F) /\ \A l \in DOMAIN u : u[l] \in G
        BY <4>2, <4>3
      <4> HIDE DEF G, u
      <4>5. u \in Seq(G)
        BY <4>4
      <4> QED  BY <3>3, <3>5, <4>2, <4>5 DEF G, u
    <3>6. CASE k # i
      <4>1. F \subseteq Fresh(n)
        BY <3>4, <3>6
      <4>2. s \in Seq(Fresh(n))
        BY <3>2, <4>1, SeqMore
      <4> QED  BY <3>1, <3>3, <3>6, <4>2
    <3> QED  BY <3>5, <3>6
  <2> QED  BY <1>4, <1>5, <2>1, <2>2 DEF OpensFit
<1>17. Final
  <2>1. \A c \in Channels : end[e].chan[c] = "closed" => n.chan[c] = "closed"
    BY <1>2 DEF Keeps
  <2> QED  BY <1>4, <1>5, <2>1 DEF Final
<1> QED  BY <1>5, <1>6, <1>7, <1>8, <1>10, <1>11, <1>14, <1>15, <1>16, <1>17 DEF ChannelInv, Types

-----------------------------------------------------------------------------
(* The flush.                                                              *)

(* Where a flush that began at p has come: the queue is taken, channels of *)
(* this end have got their ids.                                            *)
Flushing(e, p, q) ==
  /\ q \in End /\ TableFits(q) /\ IdsFit(q) /\ OthersFit(e, q)
  /\ q.out \in Seq(MaySend(e, q)) /\ q.out \in Seq(Fresh(p))
  /\ q.chan = p.chan /\ q.queue = <<>>
  /\ \A c \in Channels : p.id[c] # NoId => q.id[c] = p.id[c]
  /\ \A c \in Channels : p.id[c] = NoId /\ q.id[c] # NoId => Alive(q, c)
  /\ \A c \in Channels \ Own(e) : q.id[c] = p.id[c]

LEMMA AssignKeeps ==
  ASSUME NEW e \in Ends, NEW p \in End, NEW q, Flushing(e, p, q), NEW item \in MayQueue(e, p)
  PROVE  /\ Flushing(e, p, Assign(e, q, item.chan))
         /\ Assign(e, q, item.chan).id[item.chan] \in Ids
         /\ Assign(e, q, item.chan).out = q.out
         /\ \A d \in Channels :
              d # item.chan \/ q.id[item.chan] # NoId => Assign(e, q, item.chan).id[d] = q.id[d]
<1> DEFINE c == item.chan
           r == Assign(e, q, c)
           i == FreeId(e, q)
<1>1. c \in Channels /\ q \in End
  BY DEF MayQueue, Item, Flushing
<1>2. CASE q.id[c] # NoId
  <2>1. r = q
    BY <1>2 DEF Assign
  <2>2. q.id[c] \in Ids
    BY <1>1, <1>2 DEF End, SomeId
  <2> QED  BY <2>1, <2>2
<1>3. CASE q.id[c] = NoId
  <2>1. p.id[c] = NoId
    BY <1>1, <1>3 DEF Flushing
  <2>2. c \in Own(e) /\ Alive(p, c)
    BY <2>1 DEF MayQueue
  <2>3. i \in Ids /\ q.table[i] = NoChannel /\ i % 2 = FirstId(e)
    BY <1>1, <1>3, <2>2, FreeIdFound DEF Flushing
  <2>4. r = [q EXCEPT !.table[i] = c, !.id[c] = i]
    BY <1>3 DEF Assign
  <2> HIDE DEF c, i, r
  <2>5. r \in End
    <3>1. i \in SomeId /\ c \in Channels \cup {NoChannel}
      BY <1>1, <2>3 DEF SomeId
    <3> HIDE DEF Message, Chunk, SomeId, States, Item
    <3> QED  BY <1>1, <2>3, <2>4, <3>1 DEF End
  <2>6. /\ r.chan = q.chan /\ r.queue = q.queue /\ r.out = q.out
        /\ r.table = [q.table EXCEPT ![i] = c] /\ r.id = [q.id EXCEPT ![c] = i]
    BY <1>1, <2>4 DEF End
  <2>7. q.table \in [Ids -> Channels \cup {NoChannel}] /\ q.id \in [Channels -> SomeId]
    BY <1>1 DEF End
  <2>8. /\ r.id[c] = i /\ \A d \in Channels : d # c => r.id[d] = q.id[d]
        /\ r.table[i] = c /\ \A j \in Ids : j # i => r.table[j] = q.table[j]
        /\ \A d \in Channels : Alive(r, d) <=> Alive(q, d)
    BY <1>1, <2>3, <2>6, <2>7 DEF Alive
  <2>9. TableFits(r)
    <3>1. ASSUME NEW j \in Ids, NEW d \in Channels, r.table[j] = d
          PROVE  r.id[d] = j /\ Alive(r, d)
      <4>1. CASE j = i
        BY <2>2, <2>8, <3>1, <4>1 DEF Flushing, Alive
      <4>2. CASE j # i
        <5>1. q.table[j] = d
          BY <2>8, <3>1, <4>2
        <5>2. q.id[d] = j /\ Alive(q, d)
          BY <5>1 DEF Flushing, TableFits
        <5> QED  BY <1>3, <2>8, <5>2, IdsAreInts
      <4> QED  BY <4>1, <4>2
    <3>2. ASSUME NEW d \in Channels, Alive(r, d), r.id[d] # NoId
          PROVE  r.table[r.id[d]] = d
      <4>1. CASE d = c
        BY <2>8, <4>1
      <4>2. CASE d # c
        <5>1. q.id[d] # NoId /\ Alive(q, d) /\ q.id[d] = r.id[d]
          BY <2>8, <3>2, <4>2
        <5>2. q.table[q.id[d]] = d /\ q.id[d] \in Ids
          BY <2>7, <5>1 DEF Flushing, TableFits, SomeId
        <5>3. q.id[d] # i
          BY <2>3, <5>2, IdsAreInts
        <5> QED  BY <2>8, <5>1, <5>2, <5>3
      <4> QED  BY <4>1, <4>2
    <3> QED  BY <3>1, <3>2 DEF TableFits
  <2>10. IdsFit(r)
    <3>1. IdsFit(q)
      BY DEF Flushing
    <3>2. \A d \in Negotiated : r.id[d] = AgreedId[d]
      BY <2>2, <2>8, <3>1, ChannelAssumption DEF IdsFit, Own, ChannelAssumption
    <3>3. \A d \in Channels \ Negotiated : r.id[d] # NoId => r.id[d] % 2 = FirstId(Owner[d])
      BY <2>2, <2>3, <2>8, <3>1 DEF IdsFit, Own
    <3>4. \A d \in Channels \ Negotiated : r.chan[d] = "none" => r.id[d] = NoId
      BY <2>2, <2>6, <2>8, <3>1 DEF IdsFit, Alive, Flushing
    <3> QED  BY <3>2, <3>3, <3>4 DEF IdsFit
  <2>11. r.out \in Seq(MaySend(e, r))
    <3> DEFINE Old == MaySend(e, q)
               New == MaySend(e, r)
    <3>1. Old \subseteq New
      BY <1>3, <2>8, IdsAreInts DEF MaySend, Message, Own
    <3>2. r.out \in Seq(Old)
      BY <2>6 DEF Flushing
    <3> HIDE DEF Old, New
    <3>3. r.out \in Seq(New)
      BY <3>1, <3>2, SeqMore
    <3> QED  BY <3>3 DEF New
  <2>14. OthersFit(e, r)
    <3>1. \A d \in Own(Other(e)) : d \in Channels /\ d # c
      BY <2>2, Others DEF Own
    <3> QED  BY <2>6, <2>8, <3>1 DEF Flushing, OthersFit
  <2>12. /\ \A d \in Channels : p.id[d] # NoId => r.id[d] = p.id[d]
         /\ \A d \in Channels : p.id[d] = NoId /\ r.id[d] # NoId => Alive(r, d)
         /\ \A d \in Channels \ Own(e) : r.id[d] = p.id[d]
    BY <2>1, <2>2, <2>8 DEF Flushing, Alive
  <2>13. Flushing(e, p, r)
    BY <2>5, <2>6, <2>9, <2>10, <2>11, <2>12, <2>14 DEF Flushing
  <2> QED  BY <1>3, <2>3, <2>6, <2>8, <2>13 DEF r, c
<1> QED  BY <1>2, <1>3

LEMMA FlushOneKeeps ==
  ASSUME NEW e \in Ends, NEW p \in End, NEW q, Flushing(e, p, q), NEW item \in MayQueue(e, p)
  PROVE  /\ Flushing(e, p, FlushOne(e, q, item))
         /\ Once("OPEN", q.out) /\ (item.kind = "OPEN" => q.id[item.chan] = NoId) =>
              Once("OPEN", FlushOne(e, q, item).out)
         /\ \A d \in Channels :
              d # item.chan \/ item.kind # "OPEN" => FlushOne(e, q, item).id[d] = q.id[d]
<1> DEFINE c == item.chan
           r == Assign(e, q, c)
           m == [id |-> r.id[c], chan |-> c, kind |-> item.kind]
           s == FlushOne(e, q, item)
<1>1. /\ Flushing(e, p, r) /\ r.id[c] \in Ids /\ r.out = q.out
      /\ \A d \in Channels : d # c \/ q.id[c] # NoId => r.id[d] = q.id[d]
  BY AssignKeeps
<1>2. /\ c \in Channels /\ item.kind \in {"OPEN", "ACK"}
      /\ item.kind = "OPEN" => c \in Own(e) /\ p.id[c] = NoId
      /\ item.kind # "OPEN" => q.id[c] # NoId
  BY DEF MayQueue, Item, Flushing
<1>3. s = [r EXCEPT !.out = Append(@, m)]
  BY DEF FlushOne
<1> HIDE DEF r, s
<1>4. /\ m \in MaySend(e, r) /\ m \in Fresh(p) /\ m.kind = item.kind /\ m.chan = c
      /\ r \in End /\ r.out \in Seq(MaySend(e, r)) /\ r.out \in Seq(Fresh(p))
  BY <1>1, <1>2 DEF MaySend, Message, Flushing, Fresh
<1> HIDE DEF m
<1>5. Append(r.out, m) \in Seq(MaySend(e, r)) /\ Append(r.out, m) \in Seq(Fresh(p))
  BY <1>4
<1>6. Append(r.out, m) \in Seq(Message)
  BY <1>4 DEF MaySend, End
<1>7. s \in End
  BY <1>3, <1>4, <1>6 DEF End
<1>8. /\ s.chan = r.chan /\ s.id = r.id /\ s.table = r.table /\ s.queue = r.queue
      /\ s.out = Append(r.out, m)
  BY <1>3, <1>4 DEF End
<1>9. MaySend(e, s) = MaySend(e, r)
  BY <1>8 DEF MaySend
<1>10. TableFits(s) /\ IdsFit(s) /\ OthersFit(e, s)
  BY <1>1, <1>8 DEF Flushing, TableFits, IdsFit, OthersFit, Alive
<1>11. Flushing(e, p, s)
  BY <1>1, <1>5, <1>7, <1>8, <1>9, <1>10 DEF Flushing, Alive
<1>12. ASSUME Once("OPEN", q.out), item.kind = "OPEN" => q.id[c] = NoId
       PROVE  Once("OPEN", s.out)
  <2> DEFINE B == MaySend(e, q)
             t == <<m>>
  <2>1. \A a \in B, b \in {m} : a.kind = "OPEN" /\ b.kind = "OPEN" => a.chan # b.chan
    BY <1>4, <1>12, IdsAreInts DEF MaySend, Message
  <2>2. q.out \in Seq(B) /\ t \in Seq({m}) /\ Once("OPEN", t)
    BY DEF Once, Flushing
  <2> HIDE DEF B, t
  <2>3. Once("OPEN", q.out \o t)
    BY <1>12, <2>1, <2>2, OnceTogether
  <2>4. Append(r.out, m) = q.out \o t
    BY <1>1, <1>4 DEF t
  <2> QED  BY <1>8, <2>3, <2>4
<1>13. \A d \in Channels : d # c \/ item.kind # "OPEN" => s.id[d] = q.id[d]
  BY <1>1, <1>2, <1>8
<1> QED  BY <1>11, <1>12, <1>13 DEF s

(* A flush gives ids to channels of this end only, and to live ones.       *)
LEMMA FlushKeeps ==
  ASSUME NEW e \in Ends, NEW p \in End, EndFits(e, p), p.out = <<>>
  PROVE  /\ Keeps(e, p, FlushQueue(e, p))
         /\ FlushQueue(e, p).chan = p.chan
         /\ \A c \in Channels \ Own(e) : FlushQueue(e, p).id[c] = p.id[c]
<1>0. Once("OPEN", <<>>) /\ p.out \in Seq(MaySend(e, p)) /\ p.out \in Seq(Fresh(p))
  BY DEF Once
<1>1. CASE p.assoc # "established"
  BY <1>0, <1>1 DEF FlushQueue, Keeps
<1>2. CASE p.assoc = "established"
  <2> DEFINE b == [p EXCEPT !.queue = <<>>]
             T == MayQueue(e, p)
             S == {q \in End : Flushing(e, p, q)}
             r == FlushQueue(e, p)
             s == p.queue
             n == Len(s)
             Later(k, q) == \A j \in k + 1 .. n : s[j].kind = "OPEN" => q.id[s[j].chan] = NoId
             V == [k \in 0 .. n |-> {q \in S : Once("OPEN", q.out) /\ Later(k, q)}]
  <2>1. b \in End /\ b.queue = <<>>
    <3>1. <<>> \in Seq(Item)
      OBVIOUS
    <3> QED  BY <3>1 DEF End
  <2>2. b.chan = p.chan /\ b.id = p.id /\ b.table = p.table /\ b.out = p.out
    BY DEF End
  <2> HIDE DEF b
  <2>3. Flushing(e, p, b)
    <3>1. MaySend(e, b) = MaySend(e, p)
      BY <2>2 DEF MaySend
    <3> QED  BY <1>0, <2>1, <2>2, <3>1 DEF Flushing, EndFits, TableFits, IdsFit, OthersFit, Alive
  <2>4. \A q \in S, item \in T : FlushOne(e, q, item) \in S
    BY FlushOneKeeps DEF Flushing
  <2>5. s \in Seq(T) /\ b \in S /\ Once("OPEN", s)
    BY <2>1, <2>3 DEF EndFits
  <2>6. n \in Nat /\ DOMAIN s = 1 .. n /\ \A k \in 1 .. n : s[k] \in T
    BY <2>5
  <2>7. b \in V[0]
    <3>1. \A item \in T : item.kind = "OPEN" => b.id[item.chan] = NoId
      BY <2>2 DEF MayQueue
    <3>2. Later(0, b)
      <4> HIDE DEF T, s, n
      <4> QED  BY <2>6, <3>1
    <3> QED  BY <1>0, <2>2, <2>5, <2>6, <3>2
  <2>8. ASSUME NEW k \in 0 .. n - 1, NEW q \in S \cap V[k]
        PROVE  FlushOne(e, q, s[k + 1]) \in V[k + 1]
    <3> DEFINE x == s[k + 1]
               f == FlushOne(e, q, x)
    <3>1. k \in 0 .. n /\ k + 1 \in 0 .. n /\ k + 1 \in 1 .. n /\ x \in T
      BY <2>6
    <3>2. q \in S /\ Once("OPEN", q.out) /\ Later(k, q)
      BY <3>1
    <3>3. x.kind = "OPEN" => q.id[x.chan] = NoId
      BY <2>6, <3>1, <3>2
    <3>4. /\ f \in S
          /\ Once("OPEN", f.out)
          /\ \A d \in Channels : d # x.chan \/ x.kind # "OPEN" => f.id[d] = q.id[d]
      BY <2>4, <3>1, <3>2, <3>3, FlushOneKeeps
    <3>5. ASSUME NEW j \in k + 2 .. n, s[j].kind = "OPEN"
          PROVE  f.id[s[j].chan] = NoId
      <4>1. j \in 1 .. n /\ j \in k + 1 .. n /\ j # k + 1 /\ s[j] \in T
        BY <2>6, <3>1
      <4>2. s[j].chan \in Channels
        BY <4>1 DEF MayQueue, Item
      <4>3. s[j].chan # x.chan \/ x.kind # "OPEN"
        BY <2>5, <2>6, <3>1, <3>5, <4>1 DEF Once
      <4>4. q.id[s[j].chan] = NoId
        BY <3>2, <3>5, <4>1
      <4> QED  BY <3>4, <4>2, <4>3, <4>4
    <3>6. Later(k + 1, f)
      <4>1. (k + 1) + 1 = k + 2
        BY <2>6
      <4> QED  BY <3>5, <4>1
    <3> HIDE DEF S, f, Later, n
    <3> QED  BY <3>1, <3>4, <3>6 DEF f
  <2> HIDE DEF S, T, V, s
  <2>9. Flushed(e, b, s) \in S \cap V[Len(s)]
    <3>1. \A k \in 0 .. Len(s) - 1 : \A q \in S \cap V[k] : FlushOne(e, q, s[k + 1]) \in V[k + 1]
      BY <2>8
    <3>2. s \in Seq(T) /\ b \in S /\ b \in V[0]
      BY <2>5, <2>7
    <3> QED  BY <2>4, <3>1, <3>2, FlushIn
  <2>10. r = Flushed(e, b, s)
    BY <1>2 DEF FlushQueue, Flushed, b, s
  <2>11. r \in S /\ r \in V[n]
    BY <2>9, <2>10
  <2> HIDE DEF r
  <2>12. Flushing(e, p, r) /\ Once("OPEN", r.out)
    BY <2>6, <2>11 DEF S, V
  <2>13. r.queue \in Seq(MayQueue(e, r)) /\ Once("OPEN", r.queue)
    BY <1>0, <2>12 DEF Flushing
  <2>14. Keeps(e, p, r)
    BY <2>12, <2>13 DEF Flushing, Keeps, EndFits
  <2> QED  BY <2>12, <2>14 DEF Flushing, r
<1> QED  BY <1>1, <1>2

-----------------------------------------------------------------------------
(* Closing.                                                                *)

(* Neither ids nor what is sent change, and closed channels stay closed.   *)
Quiet(e, p, q) ==
  /\ q \in End /\ EndFits(e, q) /\ q.id = p.id /\ q.out = p.out
  /\ \A c \in Channels : p.chan[c] = "closed" => q.chan[c] = "closed"

LEMMA QuietKeeps ==
  ASSUME NEW e, NEW p \in End, p.out = <<>>, NEW q, Quiet(e, p, q)
  PROVE  Keeps(e, p, q)
<1>1. q.out = <<>> /\ <<>> \in Seq(MaySend(e, q)) /\ <<>> \in Seq(Fresh(p)) /\ Once("OPEN", <<>>)
  BY DEF Quiet, Once
<1> QED  BY <1>1 DEF Quiet, Keeps

(* What is not in the table, ids or channels is of no account.             *)
LEMMA SameQuiet ==
  ASSUME NEW e, NEW p, EndFits(e, p), NEW q \in End, q.chan = p.chan, q.id = p.id,
         q.table = p.table, q.queue = p.queue, q.out = p.out
  PROVE  Quiet(e, p, q)
<1>1. MayQueue(e, q) = MayQueue(e, p)
  BY DEF MayQueue, Alive
<1>2. EndFits(e, q)
  BY <1>1 DEF EndFits, TableFits, IdsFit, OthersFit, Alive
<1> QED  BY <1>2 DEF Quiet

LEMMA CloseQuiet ==
  ASSUME NEW e \in Ends, NEW p \in End, EndFits(e, p), NEW c \in Channels, p.chan[c] # "none"
  PROVE  Quiet(e, p, CloseChannel(p, c)) /\ CloseChannel(p, c).control = p.control
<1> DEFINE r == CloseChannel(p, c)
           all == Append(p.resets, p.id[c])
<1>0. /\ p.chan \in [Channels -> States] /\ p.id \in [Channels -> SomeId]
      /\ p.table \in [Ids -> Channels \cup {NoChannel}] /\ p.resets \in Seq(SomeId)
      /\ p.queue \in Seq(Item) /\ p.tasks \in SUBSET {"flush", "reconfig"}
  BY DEF End
<1>1. CASE p.chan[c] \in {"closing", "closed"}
  BY <1>1 DEF CloseChannel, Quiet
<1>2. CASE p.chan[c] \notin {"closing", "closed"} /\ p.assoc = "established"
  <2> DEFINE new == [p.chan EXCEPT ![c] = "closing"]
             q == [p EXCEPT !.chan[c] = "closing", !.resets = Append(@, p.id[c])]
  <2>1. all \in Seq(SomeId) /\ new \in [Channels -> States]
    BY <1>0 DEF States
  <2>2. /\ q \in End /\ q.chan = new /\ q.id = p.id /\ q.table = p.table /\ q.queue = p.queue
        /\ q.out = p.out /\ q.control = p.control
    <3>1. q = [p EXCEPT !.chan = new, !.resets = all]
      BY DEF End
    <3> HIDE DEF q, new, all, Message, Chunk, Item, SomeId, States
    <3> QED  BY <2>1, <3>1 DEF End
  <2> HIDE DEF q
  <2>3. r = q \/ r = [q EXCEPT !.tasks = @ \cup {"reconfig"}]
    BY <1>2 DEF CloseChannel, q
  <2>4. q.tasks \cup {"reconfig"} \in SUBSET {"flush", "reconfig"}
    BY <2>2 DEF End
  <2>5. /\ r \in End /\ r.chan = new /\ r.id = p.id /\ r.table = p.table /\ r.queue = p.queue
        /\ r.out = p.out /\ r.control = p.control
    <3>1. CASE r = q
      BY <2>2, <3>1
    <3>2. CASE r = [q EXCEPT !.tasks = @ \cup {"reconfig"}]
      <4> HIDE DEF r, new, Message, Chunk, Item, SomeId, States
      <4> QED  BY <2>2, <2>4, <3>2 DEF End
    <3> QED  BY <2>3, <3>1, <3>2
  <2> HIDE DEF r
  <2>6. p.chan[c] \in {"connecting", "open"}
    BY <1>0, <1>2 DEF States
  <2>7. /\ \A d \in Channels : Alive(r, d) <=> Alive(p, d)
        /\ \A d \in Channels : r.chan[d] = "none" <=> p.chan[d] = "none"
        /\ \A d \in Channels : p.chan[d] = "closed" => r.chan[d] = "closed"
    BY <1>0, <2>5, <2>6 DEF Alive
  <2>8. MayQueue(e, r) = MayQueue(e, p)
    BY <2>5, <2>7 DEF MayQueue, Item
  <2>9. TableFits(r) /\ IdsFit(r) /\ OthersFit(e, r)
    BY <2>5, <2>7 DEF EndFits, TableFits, IdsFit, OthersFit, Own
  <2> QED  BY <2>5, <2>7, <2>8, <2>9 DEF EndFits, Quiet, r
<1>3. CASE p.chan[c] \notin {"closing", "closed"} /\ p.assoc # "established"
  <2> DEFINE A == {item \in Range(p.queue) : item.chan # c}
             B == MayQueue(e, p)
             kept == Keep(p.queue, A)
             table == [i \in Ids |-> IF p.table[i] = c THEN NoChannel ELSE p.table[i]]
             chan == [p.chan EXCEPT ![c] = "closed"]
  <2>1. kept \in Seq(A \cap B)
    <3> HIDE DEF A, B
    <3>1. p.queue \in Seq(B)
      BY DEF EndFits, B
    <3> QED  BY <3>1, KeepFits
  <2>2. A \cap B \subseteq Item
    BY DEF MayQueue
  <2>12. Once("OPEN", kept)
    <3> HIDE DEF A, B
    <3>1. p.queue \in Seq(B) /\ Once("OPEN", p.queue)
      BY DEF EndFits, B
    <3> QED  BY <3>1, KeepOnce
  <2>3. kept \in Seq(Item)
    <3> HIDE DEF kept, A, B, Item
    <3> QED  BY <2>1, <2>2, SeqMore
  <2>4. table \in [Ids -> Channels \cup {NoChannel}] /\ chan \in [Channels -> States]
    BY <1>0 DEF States
  <2>5. r = [p EXCEPT !.chan = chan, !.queue = kept, !.table = table]
    BY <1>3 DEF CloseChannel, End
  <2>6. /\ r \in End /\ r.chan = chan /\ r.id = p.id /\ r.table = table /\ r.queue = kept
        /\ r.out = p.out /\ r.control = p.control
    <3> HIDE DEF r, chan, kept, table, Message, Chunk, Item, SomeId, States
    <3> QED  BY <2>3, <2>4, <2>5 DEF End
  <2> HIDE DEF r, kept
  <2>7. /\ \A d \in Channels : Alive(r, d) <=> Alive(p, d) /\ d # c
        /\ \A d \in Channels : d # c => r.chan[d] = p.chan[d]
        /\ r.chan[c] = "closed"
    BY <1>0, <2>6 DEF Alive
  <2>8. A \cap B \subseteq MayQueue(e, r)
    BY <2>6, <2>7 DEF MayQueue, Item
  <2>9. r.queue \in Seq(MayQueue(e, r))
    <3> HIDE DEF A, B
    <3> QED  BY <2>1, <2>6, <2>8, SeqMore
  <2>10. TableFits(r)
    <3>1. \A i \in Ids, d \in Channels : r.table[i] = d => p.table[i] = d /\ d # c
      BY <2>6, IdsAreInts
    <3>2. \A i \in Ids, d \in Channels : p.table[i] = d /\ d # c => r.table[i] = d
      BY <2>6
    <3>3. \A d \in Channels : p.id[d] # NoId => p.id[d] \in Ids
      BY <1>0 DEF SomeId
    <3> QED  BY <2>6, <2>7, <3>1, <3>2, <3>3 DEF EndFits, TableFits
  <2>11. IdsFit(r) /\ OthersFit(e, r)
    BY <2>6, <2>7 DEF EndFits, IdsFit, OthersFit, Own
  <2> QED  BY <2>6, <2>7, <2>9, <2>10, <2>11, <2>12 DEF EndFits, Quiet, r
<1> QED  BY <1>1, <1>2, <1>3

LEMMA RaiseQuiet ==
  ASSUME NEW e, NEW p \in End, EndFits(e, p)
  PROVE  Quiet(e, p, Raise(p)) /\ Raise(p).control = p.control
<1> DEFINE q == Raise(p)
<1>1. /\ q \in End /\ q.chan = p.chan /\ q.id = p.id /\ q.table = p.table /\ q.queue = p.queue
      /\ q.out = p.out /\ q.control = p.control
  BY DEF Raise, End
<1> HIDE DEF q
<1> QED  BY <1>1, SameQuiet DEF q

LEMMA ClosedQuiet ==
  ASSUME NEW e \in Ends, NEW p \in End, EndFits(e, p), NEW i \in SomeId
  PROVE  Quiet(e, p, ChannelClosed(p, i)) /\ ChannelClosed(p, i).control = p.control
<1>1. CASE i = NoId \/ p.table[i] = NoChannel
  BY <1>1, RaiseQuiet DEF ChannelClosed
<1>2. CASE i # NoId /\ p.table[i] # NoChannel
  <2> DEFINE c == p.table[i]
             r == ChannelClosed(p, i)
             table == [p.table EXCEPT ![i] = NoChannel]
             chan == [p.chan EXCEPT ![c] = "closed"]
  <2>1. /\ p.chan \in [Channels -> States] /\ p.id \in [Channels -> SomeId]
        /\ p.table \in [Ids -> Channels \cup {NoChannel}]
    BY DEF End
  <2>2. i \in Ids /\ c \in Channels /\ p.id[c] = i /\ Alive(p, c)
    BY <1>2, <2>1 DEF SomeId, EndFits, TableFits
  <2> HIDE DEF c
  <2>3. table \in [Ids -> Channels \cup {NoChannel}] /\ chan \in [Channels -> States]
    BY <2>1 DEF States
  <2>4. r = [p EXCEPT !.chan = chan, !.table = table]
    BY <1>2 DEF ChannelClosed, End, c
  <2>5. /\ r \in End /\ r.chan = chan /\ r.id = p.id /\ r.table = table /\ r.queue = p.queue
        /\ r.out = p.out /\ r.control = p.control
    <3> HIDE DEF r, chan, table, Message, Chunk, Item, SomeId, States
    <3> QED  BY <2>3, <2>4 DEF End
  <2> HIDE DEF r
  <2>6. /\ \A d \in Channels : Alive(r, d) <=> Alive(p, d) /\ d # c
        /\ \A d \in Channels : d # c => r.chan[d] = p.chan[d]
        /\ r.chan[c] = "closed"
        /\ r.table[i] = NoChannel /\ \A j \in Ids : j # i => r.table[j] = p.table[j]
    BY <2>1, <2>2, <2>5 DEF Alive
  <2>7. MayQueue(e, p) \subseteq MayQueue(e, r)
    BY <2>2, <2>5, <2>6, IdsAreInts DEF MayQueue, Item
  <2>8. r.queue \in Seq(MayQueue(e, r))
    <3>1. p.queue \in Seq(MayQueue(e, p))
      BY DEF EndFits
    <3> QED  BY <2>5, <2>7, <3>1, SeqMore
  <2>9. TableFits(r)
    <3>1. \A j \in Ids, d \in Channels : r.table[j] = d => j # i /\ p.table[j] = d /\ d # c
      BY <2>2, <2>6, IdsAreInts DEF EndFits, TableFits
    <3>2. \A d \in Channels : p.id[d] # NoId => p.id[d] \in Ids
      BY <2>1 DEF SomeId
    <3>3. ASSUME NEW d \in Channels, Alive(p, d), d # c, p.id[d] # NoId
          PROVE  r.table[p.id[d]] = d
      <4>1. p.table[p.id[d]] = d
        BY <3>3 DEF EndFits, TableFits
      <4>2. p.id[d] # i
        BY <3>3, <4>1 DEF c
      <4> QED  BY <2>6, <3>2, <3>3, <4>1, <4>2
    <3> QED  BY <2>5, <2>6, <3>1, <3>3 DEF EndFits, TableFits
  <2>10. IdsFit(r) /\ OthersFit(e, r)
    BY <2>2, <2>5, <2>6 DEF EndFits, IdsFit, OthersFit, Own, Alive
  <2> QED  BY <2>5, <2>6, <2>8, <2>9, <2>10 DEF EndFits, Quiet, r
<1> QED  BY <1>1, <1>2

LEMMA QuietTrans ==
  ASSUME NEW e, NEW p, NEW q, Quiet(e, p, q), NEW r, Quiet(e, q, r)
  PROVE  Quiet(e, p, r)
  BY DEF Quiet

(* Folds of closes.                                                        *)
LEMMA AllClosedQuiet ==
  ASSUME NEW e \in Ends, NEW p \in End, EndFits(e, p), NEW s \in Seq(SomeId)
  PROVE  /\ Quiet(e, p, FoldLeft(ChannelClosed, p, s))
         /\ FoldLeft(ChannelClosed, p, s).control = p.control
<1> DEFINE S == {q \in End : Quiet(e, p, q) /\ q.control = p.control}
           T == SomeId
<1>1. p \in S
  BY DEF Quiet
<1>2. ASSUME NEW q \in S, NEW i \in T
      PROVE  ChannelClosed(q, i) \in S
  <2>1. Quiet(e, q, ChannelClosed(q, i)) /\ ChannelClosed(q, i).control = q.control
    BY ClosedQuiet DEF Quiet
  <2>2. Quiet(e, p, ChannelClosed(q, i))
    BY <2>1, QuietTrans
  <2> QED  BY <2>1, <2>2 DEF Quiet
<1> HIDE DEF S, T
<1> DEFINE V == [k \in 0 .. Len(s) |-> S]
<1>3. /\ p \in V[0]
      /\ \A k \in 0 .. Len(s) - 1 : \A q \in S \cap V[k] : ChannelClosed(q, s[k + 1]) \in V[k + 1]
  <2>1. \A k \in 0 .. Len(s) - 1 : s[k + 1] \in T /\ k + 1 \in 0 .. Len(s) /\ Len(s) \in Nat
    BY DEF T
  <2> QED  BY <1>1, <1>2, <2>1
<1> HIDE DEF V
<1>4. FoldLeft(ChannelClosed, p, s) \in S
  <2>1. s \in Seq(T)
    BY DEF T
  <2> QED  BY <1>1, <1>2, <1>3, <2>1, ClosedIn
<1> QED  BY <1>4 DEF S

LEMMA AllClosingQuiet ==
  ASSUME NEW e \in Ends, NEW p \in End, EndFits(e, p), NEW s \in Seq(Ids), NEW r,
         r = FoldLeft(LAMBDA q, i : IF q.table[i] = NoChannel THEN q ELSE CloseChannel(q, q.table[i]),
                      p, s)
  PROVE  Quiet(e, p, r) /\ r.control = p.control
<1> DEFINE S == {q \in End : Quiet(e, p, q) /\ q.control = p.control}
           T == Ids
           Closing(q, i) == IF q.table[i] = NoChannel THEN q ELSE CloseChannel(q, q.table[i])
<1>1. p \in S
  BY DEF Quiet
<1>2. ASSUME NEW q \in S, NEW i \in T
      PROVE  Closing(q, i) \in S
  <2>1. CASE q.table[i] = NoChannel
    BY <2>1
  <2>2. CASE q.table[i] # NoChannel
    <3> DEFINE c == q.table[i]
    <3>1. c \in Channels
      BY <2>2 DEF End
    <3>2. q.chan[c] # "none"
      BY <3>1 DEF Quiet, EndFits, TableFits, Alive
    <3>3. Quiet(e, q, CloseChannel(q, c)) /\ CloseChannel(q, c).control = q.control
      BY <3>1, <3>2, CloseQuiet DEF Quiet
    <3>4. Quiet(e, p, CloseChannel(q, c))
      BY <3>3, QuietTrans
    <3> QED  BY <2>2, <3>3, <3>4 DEF Quiet
  <2> QED  BY <2>1, <2>2
<1> HIDE DEF S, T
<1>3. \A q \in S, i \in T : (IF q.table[i] = NoChannel THEN q ELSE CloseChannel(q, q.table[i])) \in S
  BY <1>2
<1>4. FoldLeft(LAMBDA q, i : IF q.table[i] = NoChannel THEN q ELSE CloseChannel(q, q.table[i]),
               p, s) \in S
  BY <1>1, <1>3, ClosingIn DEF T
<1>5. r \in S
  BY <1>4
<1> QED  BY <1>5 DEF S

LEMMA TransmitQuiet ==
  ASSUME NEW e \in Ends, NEW p \in End, EndFits(e, p)
  PROVE  Quiet(e, p, TransmitReconfig(e, p))
<1> DEFINE ids == p.resets
           q == [p EXCEPT !.resets = <<>>, !.request = ids, !.requestNo = @ + 1]
           chunk == [to |-> Other(e), kind |-> "request", no |-> p.requestNo, ids |-> ids]
           r == [q EXCEPT !.control = @ \cup {chunk}]
           t == TransmitReconfig(e, p)
<1>1. ids \in Seq(SomeId) /\ <<>> \in Seq(SomeId) /\ p.requestNo \in Nat /\ p.requestNo + 1 \in Nat
  BY DEF End
<1> HIDE DEF ids
<1>2. /\ q \in End /\ q.chan = p.chan /\ q.id = p.id /\ q.table = p.table /\ q.queue = p.queue
      /\ q.out = p.out
  <2> HIDE DEF Message, Chunk, Item, SomeId, States
  <2> QED  BY <1>1 DEF End
<1> HIDE DEF q
<1>3. ASSUME NoId \notin Range(ids)
      PROVE  /\ r \in End /\ r.chan = q.chan /\ r.id = q.id /\ r.table = q.table
             /\ r.queue = q.queue /\ r.out = q.out
  <2>1. ids \in Seq(Ids)
    <3>1. \A k \in DOMAIN ids : ids[k] \in Range(ids)
      BY DEF Range
    <3>2. \A k \in DOMAIN ids : ids[k] \in Ids
      BY <1>1, <1>3, <3>1 DEF SomeId
    <3> QED  BY <1>1, <3>2
  <2>2. chunk \in Chunk
    BY <1>1, <2>1, Others DEF Chunk
  <2> HIDE DEF chunk
  <2>3. q.control \cup {chunk} \in SUBSET Chunk
    BY <1>2, <2>2 DEF End
  <2> HIDE DEF Message, Chunk, Item, SomeId, States
  <2> QED  BY <1>2, <2>3 DEF End
<1>4. t \in {p, q} \/ (NoId \notin Range(ids) /\ t = r)
  BY DEF TransmitReconfig, q, ids
<1> HIDE DEF t, r
<1>5. /\ t \in End /\ t.chan = p.chan /\ t.id = p.id /\ t.table = p.table /\ t.queue = p.queue
      /\ t.out = p.out
  BY <1>2, <1>3, <1>4
<1> QED  BY <1>5, SameQuiet DEF t

LEMMA CompleteQuiet ==
  ASSUME NEW e \in Ends, NEW p \in End, EndFits(e, p)
  PROVE  Quiet(e, p, CompleteRequest(e, p))
<1> DEFINE q == FoldLeft(ChannelClosed, p, p.request)
           u == [q EXCEPT !.request = <<>>]
           r == TransmitReconfig(e, u)
<1>1. Quiet(e, p, q)
  <2>1. p.request \in Seq(SomeId)
    BY DEF End
  <2> QED  BY <2>1, AllClosedQuiet
<1>2. CompleteRequest(e, p) = IF q.deaf \/ NoId \in Range(r.request) THEN Raise(q) ELSE r
  BY DEF CompleteRequest
<1> HIDE DEF q
<1>3. q \in End /\ EndFits(e, q)
  BY <1>1 DEF Quiet
<1>4. /\ u \in End /\ u.chan = q.chan /\ u.id = q.id /\ u.table = q.table /\ u.queue = q.queue
      /\ u.out = q.out
  <2>1. <<>> \in Seq(SomeId)
    OBVIOUS
  <2> HIDE DEF Message, Chunk, Item, SomeId, States
  <2> QED  BY <1>3, <2>1 DEF End
<1> HIDE DEF u
<1>5. Quiet(e, q, u)
  BY <1>3, <1>4, SameQuiet
<1>6. Quiet(e, u, r)
  BY <1>5, TransmitQuiet DEF Quiet
<1>7. Quiet(e, p, r)
  BY <1>1, <1>5, <1>6, QuietTrans
<1>8. Quiet(e, q, Raise(q))
  BY <1>3, RaiseQuiet
<1>9. Quiet(e, p, Raise(q))
  BY <1>1, <1>8, QuietTrans
<1> HIDE DEF r
<1> QED  BY <1>2, <1>7, <1>9

-----------------------------------------------------------------------------
(* The actions.                                                            *)

(* An end whose step is quiet.                                             *)
LEMMA QuietSteps ==
  ASSUME ChannelInv, NEW e \in Ends, NEW p, Quiet(e, end[e], p),
         NEW i, i \in Ids => stream[e][i] # <<>>,
         NEW m, EndGoesOn(e, p, i, m), spoiled \subseteq spoiled'
  PROVE  ChannelInv' /\ Final
<1>1. end[e] \in End /\ end[e].out = <<>>
  BY DEF ChannelInv, Types
<1>2. Keeps(e, end[e], p)
  BY <1>1, QuietKeeps
<1>3. p.id = end[e].id /\ p.control \subseteq Chunk
  BY DEF Quiet, End
<1>4. \A c \in Own(Other(e)) : p.id[c] \in {NoId, end[Other(e)].id[c]}
  BY <1>3 DEF ChannelInv, SameIds
<1>5. ~ Reuses(end[e], p)
  BY <1>3 DEF Reuses
<1>6. \A c \in Own(Other(e)) : ~ (end[e].id[c] = NoId /\ p.id[c] # NoId)
  BY <1>3
<1> QED  BY <1>2, <1>3, <1>4, <1>5, <1>6, EndSteps

LEMMA InitFits == ChannelInit => ChannelInv
  <1> SUFFICES ASSUME ChannelInit PROVE ChannelInv
    OBVIOUS
  <1> USE ChannelAssumption DEF ChannelAssumption
  <1>1. NewEnd \in End
    <2>1. [c \in Channels |-> "none"] \in [Channels -> States]
      BY DEF States
    <2>2. [c \in Channels |-> IF c \in Negotiated THEN AgreedId[c] ELSE NoId] \in [Channels -> SomeId]
      BY DEF SomeId
    <2>3. [i \in Ids |-> NoChannel] \in [Ids -> Channels \cup {NoChannel}]
      OBVIOUS
    <2>4. /\ <<>> \in Seq(Item) /\ <<>> \in Seq(SomeId) /\ <<>> \in Seq(Message)
          /\ {} \in SUBSET Chunk /\ {} \in SUBSET {"flush", "reconfig"} /\ 0 \in Nat
      OBVIOUS
    <2> HIDE DEF Message, Chunk, Item, SomeId, States
    <2> QED  BY <2>1, <2>2, <2>3, <2>4 DEF NewEnd, End
  <1>2. /\ NewEnd.chan = [c \in Channels |-> "none"] /\ NewEnd.queue = <<>> /\ NewEnd.out = <<>>
        /\ NewEnd.id = [c \in Channels |-> IF c \in Negotiated THEN AgreedId[c] ELSE NoId]
        /\ NewEnd.table = [i \in Ids |-> NoChannel] /\ NewEnd.control = {}
    BY DEF NewEnd
  <1>3. \A e \in Ends : end[e] = NewEnd
    BY DEF ChannelInit
  <1>4. Types
    <2>1. stream \in [Ends -> [Ids -> Seq(Message)]]
      BY DEF ChannelInit
    <2> HIDE DEF Message, Chunk, Item, SomeId, States
    <2> QED  BY <1>1, <1>2, <1>3, <2>1 DEF Types, ChannelInit
  <1>5. \A e \in Ends : EndFits(e, NewEnd)
    <2>1. \A e \in Ends : NewEnd.queue \in Seq(MayQueue(e, NewEnd))
      BY <1>2
    <2>2. TableFits(NewEnd)
      BY <1>2, IdsAreInts DEF TableFits, Alive
    <2>3. IdsFit(NewEnd) /\ Once("OPEN", NewEnd.queue)
      BY <1>2 DEF IdsFit, Once
    <2>4. \A e \in Ends : OthersFit(e, NewEnd)
      BY <1>2 DEF OthersFit, Own
    <2> QED  BY <2>1, <2>2, <2>3, <2>4 DEF EndFits
  <1>6. SameIds
    BY <1>2, <1>3, Others DEF SameIds, Own
  <1>7. StreamsFit
    BY DEF StreamsFit, ChannelInit
  <1>8. IdsDiffer
    <2>1. ASSUME NEW e \in Ends, NEW c \in Channels, NEW d \in Channels,
                 end[e].id[c] = end[e].id[d], end[e].id[c] # NoId
          PROVE  c = d
      BY <1>2, <1>3, <2>1
    <2> QED  BY <2>1 DEF IdsDiffer
  <1>9. OpensFit
    BY DEF OpensFit, Once, ChannelInit
  <1> QED  BY <1>3, <1>4, <1>5, <1>6, <1>7, <1>8, <1>9 DEF ChannelInv

(* What the invariant says of one end.                                     *)
LEMMA EndIs ==
  ASSUME ChannelInv, NEW e \in Ends
  PROVE  /\ end[e] \in End /\ EndFits(e, end[e]) /\ end[e].out = <<>>
         /\ end[e].chan \in [Channels -> States] /\ end[e].id \in [Channels -> SomeId]
         /\ end[e].table \in [Ids -> Channels \cup {NoChannel}]
         /\ end[e].tasks \subseteq {"flush", "reconfig"} /\ end[e].queue \in Seq(Item)
<1>1. end[e] \in End /\ EndFits(e, end[e]) /\ end[e].out = <<>>
  BY DEF ChannelInv, Types
<1> QED  BY <1>1 DEF End

LEMMA CreateNegotiated ==
  ASSUME ChannelInv, NEW e \in Ends, NEW c \in Negotiated, Create(e, c)
  PROVE  ChannelInv' /\ Final
<1> DEFINE p == end[e]
           i == AgreedId[c]
           s == IF p.assoc = "established" THEN "open" ELSE "connecting"
           chan == [p.chan EXCEPT ![c] = s]
           table == [p.table EXCEPT ![i] = c]
           q == [p EXCEPT !.chan = chan, !.table = table]
<1> USE EndIs
<1>1. c \in Channels /\ i \in Ids /\ p.chan[c] = "none" /\ p.table[i] = NoChannel
  <2>1. c \in Channels /\ i \in Ids
    BY ChannelAssumption DEF ChannelAssumption
  <2>2. [p EXCEPT !.chan[c] = "connecting"].table = p.table
    BY DEF End
  <2> QED  BY <2>1, <2>2 DEF Create
<1> HIDE DEF i
<1>2. EndGoesOn(e, q, NoId, {})
  <2> DEFINE u == [p EXCEPT !.chan[c] = "connecting"]
             v == [u EXCEPT !.table[i] = c, !.chan[c] = IF u.assoc = "established" THEN "open" ELSE @]
  <2>1. EndGoesOn(e, v, NoId, {})
    BY DEF Create, i
  <2>2. /\ u \in End /\ u.assoc = p.assoc /\ u.table = p.table
        /\ u.chan = [p.chan EXCEPT ![c] = "connecting"]
    <3>1. [p.chan EXCEPT ![c] = "connecting"] \in [Channels -> States]
      BY <1>1 DEF States
    <3> HIDE DEF Message, Chunk, Item, SomeId, States
    <3> QED  BY ZenonT(60), <3>1 DEF End
  <2>3. u = [p EXCEPT !.chan = [p.chan EXCEPT ![c] = "connecting"]]
    BY DEF End
  <2>4. v = [u EXCEPT !.table = table, !.chan = chan]
    <3> HIDE DEF u
    <3>1. v = [u EXCEPT !.table = [u.table EXCEPT ![i] = c],
                        !.chan = [u.chan EXCEPT ![c] = IF u.assoc = "established" THEN "open" ELSE u.chan[c]]]
      BY <2>2 DEF End
    <3>2. [u.chan EXCEPT ![c] = IF u.assoc = "established" THEN "open" ELSE u.chan[c]] = chan
      BY <1>1, <2>2
    <3> HIDE DEF v, chan
    <3> QED  BY <2>2, <3>1, <3>2
  <2>5. v = q
    <3> HIDE DEF u, v, chan, table
    <3> QED  BY <2>3, <2>4 DEF End
  <2> QED  BY <2>1, <2>5
<1>3. chan \in [Channels -> States] /\ table \in [Ids -> Channels \cup {NoChannel}]
  BY <1>1 DEF States
<1>4. /\ q \in End /\ q.chan = chan /\ q.table = table /\ q.id = p.id /\ q.queue = p.queue
      /\ q.out = p.out
  <2> HIDE DEF Message, Chunk, Item, SomeId, States, chan, table
  <2> QED  BY ZenonT(60), <1>3 DEF End
<1> HIDE DEF q
<1>5. /\ q.id[c] = i /\ q.table[i] = c /\ \A j \in Ids : j # i => q.table[j] = p.table[j]
      /\ q.chan[c] \in {"open", "connecting"} /\ \A d \in Channels : d # c => q.chan[d] = p.chan[d]
  BY <1>1, <1>4, ChannelAssumption DEF EndFits, IdsFit, i, ChannelAssumption
<1>6. TableFits(q)
  <2>1. ASSUME NEW j \in Ids, NEW d \in Channels, q.table[j] = d
        PROVE  q.id[d] = j /\ Alive(q, d)
    <3>1. CASE j = i
      BY <1>5, <2>1, <3>1 DEF Alive
    <3>2. CASE j # i
      <4>1. p.table[j] = d
        BY <1>5, <2>1, <3>2
      <4>2. p.id[d] = j /\ Alive(p, d)
        BY <4>1 DEF EndFits, TableFits
      <4> QED  BY <1>1, <1>4, <1>5, <4>2 DEF Alive
    <3> QED  BY <3>1, <3>2
  <2>2. ASSUME NEW d \in Channels, Alive(q, d), q.id[d] # NoId
        PROVE  q.table[q.id[d]] = d
    <3>1. CASE d = c
      BY <1>5, <3>1
    <3>2. CASE d # c
      <4>1. Alive(p, d) /\ p.id[d] = q.id[d] /\ p.id[d] \in Ids
        BY <1>4, <1>5, <2>2, <3>2 DEF Alive, SomeId
      <4>2. p.table[p.id[d]] = d
        BY <2>2, <4>1 DEF EndFits, TableFits
      <4>3. p.id[d] # i
        BY <1>1, <4>2, IdsAreInts
      <4> QED  BY <1>5, <4>1, <4>2, <4>3
    <3> QED  BY <3>1, <3>2
  <2> QED  BY <2>1, <2>2 DEF TableFits
<1>7. IdsFit(q) /\ OthersFit(e, q)
  BY <1>1, <1>4, <1>5 DEF EndFits, IdsFit, OthersFit, Own
<1>8. q.queue \in Seq(MayQueue(e, q)) /\ Once("OPEN", q.queue)
  <2>1. MayQueue(e, p) \subseteq MayQueue(e, q)
    BY <1>1, <1>4, <1>5 DEF MayQueue, Item, Alive
  <2>2. p.queue \in Seq(MayQueue(e, p)) /\ Once("OPEN", p.queue)
    BY DEF EndFits
  <2> QED  BY <1>4, <2>1, <2>2, SeqMore
<1>9. Quiet(e, p, q)
  BY <1>1, <1>4, <1>5, <1>6, <1>7, <1>8 DEF Quiet, EndFits
<1>10. spoiled' = spoiled
  BY DEF Create
<1> QED  BY <1>2, <1>9, <1>10, QuietSteps, IdsAreInts

LEMMA CreateOwn ==
  ASSUME ChannelInv, NEW e \in Ends, NEW c \in Channels \ Negotiated, Create(e, c)
  PROVE  ChannelInv' /\ Final
<1> DEFINE p == end[e]
           chan == [p.chan EXCEPT ![c] = "connecting"]
           item == [chan |-> c, kind |-> "OPEN"]
           queue == Append(p.queue, item)
           tasks == p.tasks \cup {"flush"}
           q == [p EXCEPT !.chan = chan, !.tasks = tasks, !.queue = queue]
<1> USE EndIs
<1>1. c \in Own(e) /\ p.chan[c] = "none"
  BY DEF Create, Own
<1>2. EndGoesOn(e, q, NoId, {})
  <2> DEFINE u == [p EXCEPT !.chan[c] = "connecting"]
             v == [u EXCEPT !.tasks = @ \cup {"flush"}, !.queue = Append(@, item)]
  <2>1. EndGoesOn(e, v, NoId, {})
    BY DEF Create
  <2>2. u = [p EXCEPT !.chan = chan]
    BY DEF End
  <2>3. v = q
    <3> HIDE DEF u, item, chan
    <3>1. u.tasks = p.tasks /\ u.queue = p.queue /\ u.chan = chan
      BY <2>2 DEF End
    <3> QED  BY <2>2, <3>1 DEF End
  <2> QED  BY <2>1, <2>3
<1>3. /\ chan \in [Channels -> States] /\ item \in Item /\ queue \in Seq(Item)
      /\ tasks \in SUBSET {"flush", "reconfig"}
  <2>1. item \in Item /\ chan \in [Channels -> States]
    BY DEF Item, States
  <2> HIDE DEF item, Item
  <2>2. queue \in Seq(Item)
    BY <2>1
  <2> QED  BY <2>1, <2>2
<1>4. /\ q \in End /\ q.chan = chan /\ q.table = p.table /\ q.id = p.id /\ q.queue = queue
      /\ q.out = p.out
  <2> HIDE DEF Message, Chunk, Item, SomeId, States, chan, queue, tasks
  <2> QED  BY ZenonT(60), <1>3 DEF End
<1> HIDE DEF q
<1>5. /\ q.chan[c] = "connecting" /\ \A d \in Channels : d # c => q.chan[d] = p.chan[d]
      /\ q.id[c] = NoId
      /\ \A d \in Channels : Alive(q, d) <=> Alive(p, d) \/ d = c
  <2>1. q.id[c] = NoId
    BY <1>1, <1>4 DEF EndFits, IdsFit
  <2> QED  BY <1>4, <2>1 DEF Alive
<1>6. TableFits(q)
  BY SMTT(30), <1>1, <1>4, <1>5 DEF EndFits, TableFits, Alive
<1>7. IdsFit(q) /\ OthersFit(e, q)
  BY <1>1, <1>4, <1>5, Others DEF EndFits, IdsFit, OthersFit, Own
<1>8. q.queue \in Seq(MayQueue(e, q))
  <2>1. MayQueue(e, p) \subseteq MayQueue(e, q)
    BY <1>1, <1>4, <1>5 DEF MayQueue, Item
  <2>2. item \in MayQueue(e, q)
    BY <1>1, <1>3, <1>5 DEF MayQueue
  <2>3. p.queue \in Seq(MayQueue(e, p))
    BY DEF EndFits
  <2>4. p.queue \in Seq(MayQueue(e, q))
    BY <2>1, <2>3, SeqMore
  <2> HIDE DEF item
  <2> QED  BY <1>4, <2>2, <2>4
<1>11. Once("OPEN", q.queue)
  <2> DEFINE B == MayQueue(e, p)
             t == <<item>>
  <2>1. \A a \in B, b \in {item} : a.kind = "OPEN" /\ b.kind = "OPEN" => a.chan # b.chan
    BY <1>1 DEF MayQueue, Alive
  <2>2. p.queue \in Seq(B) /\ Once("OPEN", p.queue) /\ t \in Seq({item}) /\ Once("OPEN", t)
    BY DEF Once, EndFits
  <2>3. q.queue = p.queue \o t
    <3> HIDE DEF item
    <3> QED  BY <1>4, <2>2
  <2> HIDE DEF B, t, item, p
  <2> QED  BY <2>1, <2>2, <2>3, OnceTogether
<1>9. Quiet(e, p, q)
  BY <1>1, <1>4, <1>5, <1>6, <1>7, <1>8, <1>11 DEF Quiet, EndFits
<1>10. spoiled' = spoiled
  BY DEF Create
<1> QED  BY <1>2, <1>9, <1>10, QuietSteps, IdsAreInts

LEMMA CloseFits ==
  ASSUME ChannelInv, NEW e \in Ends, NEW c \in Channels, Close(e, c)
  PROVE  ChannelInv' /\ Final
<1>1. Quiet(e, end[e], CloseChannel(end[e], c))
  BY EndIs, CloseQuiet DEF Close
<1>2. EndGoesOn(e, CloseChannel(end[e], c), NoId, {}) /\ spoiled \subseteq spoiled'
  BY DEF Close, Spoils
<1> QED  BY <1>1, <1>2, QuietSteps, IdsAreInts

(* The task that has begun is no longer scheduled.                         *)
LEMMA TaskBegins ==
  ASSUME ChannelInv, NEW e \in Ends, NEW t, NEW p, p = [end[e] EXCEPT !.tasks = @ \ {t}]
  PROVE  Quiet(e, end[e], p) /\ p.chan = end[e].chan
<1>1. end[e].tasks \ {t} \in SUBSET {"flush", "reconfig"}
  BY EndIs
<1>2. /\ p \in End /\ p.chan = end[e].chan /\ p.id = end[e].id /\ p.table = end[e].table
      /\ p.queue = end[e].queue /\ p.out = end[e].out
  <2> HIDE DEF Message, Chunk, Item, SomeId, States
  <2> QED  BY ZenonT(60), <1>1, EndIs DEF End
<1> QED  BY <1>2, EndIs, SameQuiet

LEMMA RunFlushFits ==
  ASSUME ChannelInv, NEW e \in Ends, RunFlush(e)
  PROVE  ChannelInv' /\ Final
<1> DEFINE p == [end[e] EXCEPT !.tasks = @ \ {"flush"}]
           q == FlushQueue(e, p)
<1>1. /\ EndGoesOn(e, q, NoId, {})
      /\ Spoils(IF Reuses(p, q) THEN {"reused"} ELSE {})
  BY DEF RunFlush
<1>2. Quiet(e, end[e], p)
  BY TaskBegins
<1> HIDE DEF p
<1>3. p \in End /\ EndFits(e, p) /\ p.id = end[e].id /\ p.out = <<>>
  BY <1>2, EndIs DEF Quiet
<1>4. Keeps(e, p, q) /\ \A c \in Channels \ Own(e) : q.id[c] = p.id[c]
  BY <1>3, FlushKeeps
<1> HIDE DEF q
<1>5. Keeps(e, end[e], q)
  BY <1>2, <1>3, <1>4 DEF Keeps, Quiet, Fresh
<1>6. \A c \in Own(Other(e)) : q.id[c] \in {NoId, end[Other(e)].id[c]}
  <2>1. \A c \in Own(Other(e)) : q.id[c] = end[e].id[c]
    BY <1>3, <1>4, Others DEF Own
  <2> QED  BY <2>1 DEF ChannelInv, SameIds
<1>9. \A c \in Own(Other(e)) : ~ (end[e].id[c] = NoId /\ q.id[c] # NoId)
  BY <1>3, <1>4, Others DEF Own
<1>7. q.control \subseteq Chunk
  BY <1>4 DEF Keeps, End
<1>8. spoiled \subseteq spoiled' /\ ("reused" \notin spoiled' => ~ Reuses(end[e], q))
  <2>1. Reuses(p, q) = Reuses(end[e], q)
    BY <1>3 DEF Reuses
  <2> QED  BY <1>1, <2>1 DEF Spoils
<1> QED  BY <1>1, <1>5, <1>6, <1>7, <1>8, <1>9, EndSteps, IdsAreInts

LEMMA RunReconfigFits ==
  ASSUME ChannelInv, NEW e \in Ends, RunReconfig(e)
  PROVE  ChannelInv' /\ Final
<1> DEFINE p == [end[e] EXCEPT !.tasks = @ \ {"reconfig"}]
<1>1. EndGoesOn(e, TransmitReconfig(e, p), NoId, {}) /\ spoiled' = spoiled
  BY DEF RunReconfig
<1>2. Quiet(e, end[e], p)
  BY TaskBegins
<1> HIDE DEF p
<1>3. Quiet(e, p, TransmitReconfig(e, p))
  BY <1>2, TransmitQuiet DEF Quiet
<1>4. Quiet(e, end[e], TransmitReconfig(e, p))
  BY <1>2, <1>3, QuietTrans
<1> QED  BY <1>1, <1>4, QuietSteps, IdsAreInts

LEMMA UpFits ==
  ASSUME ChannelInv, NEW e \in Ends, Up(e)
  PROVE  ChannelInv' /\ Final
<1> DEFINE p == end[e]
           chan == [c \in Channels |->
                      IF c \in Negotiated /\ c \in Range(p.table) THEN "open" ELSE p.chan[c]]
           tasks == p.tasks \cup {"flush"}
           q == [p EXCEPT !.assoc = "established", !.tasks = tasks, !.chan = chan]
<1> USE EndIs
<1>1. EndGoesOn(e, q, NoId, {}) /\ spoiled' = spoiled
  BY DEF Up
<1>2. chan \in [Channels -> States] /\ tasks \in SUBSET {"flush", "reconfig"}
  BY DEF States
<1>3. /\ q \in End /\ q.chan = chan /\ q.table = p.table /\ q.id = p.id /\ q.queue = p.queue
      /\ q.out = p.out
  <2> HIDE DEF Message, Chunk, Item, SomeId, States, chan, tasks
  <2> QED  BY ZenonT(60), <1>2 DEF End
<1> HIDE DEF q
<1>4. \A c \in Channels : c \in Range(p.table) => Alive(p, c)
  BY DEF Range, EndFits, TableFits
<1>5. /\ \A c \in Channels : Alive(q, c) <=> Alive(p, c)
      /\ \A c \in Channels : q.chan[c] = "none" <=> p.chan[c] = "none"
      /\ \A c \in Channels : p.chan[c] = "closed" => q.chan[c] = "closed"
  BY <1>3, <1>4 DEF Alive
<1>6. MayQueue(e, q) = MayQueue(e, p)
  BY <1>3, <1>5 DEF MayQueue, Item
<1>7. TableFits(q) /\ IdsFit(q) /\ OthersFit(e, q)
  BY <1>3, <1>5 DEF EndFits, TableFits, IdsFit, OthersFit, Own
<1>8. Quiet(e, p, q)
  BY <1>3, <1>5, <1>6, <1>7 DEF Quiet, EndFits
<1> QED  BY <1>1, <1>8, QuietSteps, IdsAreInts

LEMMA DownFits ==
  ASSUME ChannelInv, NEW e \in Ends, Down(e)
  PROVE  ChannelInv' /\ Final
<1> DEFINE p == end[e]
           table == [i \in Ids |-> NoChannel]
           chan == [c \in Channels |-> IF c \in Range(p.table) THEN "closed" ELSE p.chan[c]]
           q == [p EXCEPT !.assoc = "closed", !.table = table, !.chan = chan]
<1> USE EndIs
<1>1. EndGoesOn(e, q, NoId, {}) /\ spoiled \subseteq spoiled'
  BY DEF Down, Spoils
<1>2. chan \in [Channels -> States] /\ table \in [Ids -> Channels \cup {NoChannel}]
  BY DEF States
<1>3. /\ q \in End /\ q.chan = chan /\ q.table = table /\ q.id = p.id /\ q.queue = p.queue
      /\ q.out = p.out
  <2> HIDE DEF Message, Chunk, Item, SomeId, States, chan, table
  <2> QED  BY ZenonT(60), <1>2 DEF End
<1> HIDE DEF q
<1>4. \A c \in Channels : c \in Range(p.table) => Alive(p, c) /\ p.id[c] # NoId
  <2>1. \A c \in Channels : c \in Range(p.table) => \E i \in Ids : p.table[i] = c
    BY DEF Range
  <2> QED  BY <2>1, IdsAreInts DEF EndFits, TableFits
<1>5. \A c \in Channels : Alive(p, c) /\ p.id[c] # NoId => c \in Range(p.table)
  <2>1. \A c \in Channels : p.id[c] # NoId => p.id[c] \in Ids
    BY DEF SomeId
  <2> QED  BY <2>1 DEF Range, EndFits, TableFits
<1>6. /\ \A c \in Channels : Alive(q, c) <=> Alive(p, c) /\ p.id[c] = NoId
      /\ \A c \in Channels : q.chan[c] = "none" <=> p.chan[c] = "none"
      /\ \A c \in Channels : p.chan[c] = "closed" => q.chan[c] = "closed"
  BY <1>3, <1>4, <1>5 DEF Alive
<1>7. MayQueue(e, p) \subseteq MayQueue(e, q)
  BY <1>3, <1>6 DEF MayQueue, Item
<1>8. q.queue \in Seq(MayQueue(e, q)) /\ Once("OPEN", q.queue)
  <2>1. p.queue \in Seq(MayQueue(e, p)) /\ Once("OPEN", p.queue)
    BY DEF EndFits
  <2> QED  BY <1>3, <1>7, <2>1, SeqMore
<1>9. TableFits(q) /\ IdsFit(q) /\ OthersFit(e, q)
  BY <1>3, <1>6, IdsAreInts DEF EndFits, TableFits, IdsFit, OthersFit, Own
<1>10. Quiet(e, p, q)
  BY <1>3, <1>6, <1>8, <1>9 DEF Quiet, EndFits
<1> QED  BY <1>1, <1>10, QuietSteps, IdsAreInts

LEMMA OpenFits ==
  ASSUME ChannelInv, NEW e \in Ends, NEW i \in Ids, NEW c \in Own(Other(e)),
         end[Other(e)].id[c] = i, end[e].id[c] = NoId, end[e].chan[c] = "none",
         end[e].table[i] = NoChannel,
         NEW q, q = ReceiveOpen(e, end[e], i, c)
  PROVE  /\ Keeps(e, end[e], q) /\ q.control \subseteq Chunk
         /\ \A d \in Own(Other(e)) : q.id[d] \in {NoId, end[Other(e)].id[d]}
         /\ \A d \in Own(Other(e)) : d # c => q.id[d] = end[e].id[d]
<1> DEFINE p == end[e]
           chan == [p.chan EXCEPT ![c] = "open"]
           id == [p.id EXCEPT ![c] = i]
           table == [p.table EXCEPT ![i] = c]
           item == [chan |-> c, kind |-> "ACK"]
           queue == Append(p.queue, item)
           r == [p EXCEPT !.chan = chan, !.id = id, !.table = table, !.queue = queue]
<1> USE EndIs
<1>1. q = FlushQueue(e, r)
  BY DEF ReceiveOpen, End
<1>2. c \in Channels \ Negotiated /\ Owner[c] = Other(e) /\ c \notin Own(e)
  BY Others DEF Own
<1>3. /\ chan \in [Channels -> States] /\ id \in [Channels -> SomeId]
      /\ table \in [Ids -> Channels \cup {NoChannel}]
      /\ item \in Item /\ queue \in Seq(Item)
  <2>1. /\ item \in Item /\ chan \in [Channels -> States] /\ id \in [Channels -> SomeId]
        /\ table \in [Ids -> Channels \cup {NoChannel}]
    BY <1>2 DEF Item, States, SomeId
  <2> HIDE DEF item, Item
  <2>2. queue \in Seq(Item)
    BY <2>1
  <2> QED  BY <2>1, <2>2
<1>4. /\ r \in End /\ r.chan = chan /\ r.table = table /\ r.id = id /\ r.queue = queue
      /\ r.out = p.out
  <2>1. p \in End
    OBVIOUS
  <2> HIDE DEF Message, Chunk, Item, SomeId, States, chan, id, table, queue, p
  <2>2. r \in End
    BY <1>3, <2>1 DEF End
  <2>3. /\ r.chan = chan /\ r.table = table /\ r.id = id /\ r.queue = queue
        /\ r.out = p.out
    BY <2>1 DEF End
  <2> QED  BY <2>2, <2>3
<1> HIDE DEF r
<1>5. /\ r.chan[c] = "open" /\ \A d \in Channels : d # c => r.chan[d] = p.chan[d]
      /\ r.id[c] = i /\ \A d \in Channels : d # c => r.id[d] = p.id[d]
      /\ r.table[i] = c /\ \A j \in Ids : j # i => r.table[j] = p.table[j]
  BY <1>2, <1>4
<1>6. TableFits(r)
  <2>1. ASSUME NEW j \in Ids, NEW d \in Channels, r.table[j] = d
        PROVE  r.id[d] = j /\ Alive(r, d)
    <3>1. CASE j = i
      BY <1>5, <2>1, <3>1 DEF Alive
    <3>2. CASE j # i
      <4>1. p.table[j] = d
        BY <1>5, <2>1, <3>2
      <4>2. p.id[d] = j /\ Alive(p, d)
        BY <4>1 DEF EndFits, TableFits
      <4>3. d # c
        BY <3>2, <4>2, IdsAreInts
      <4> QED  BY <1>5, <4>2, <4>3 DEF Alive
    <3> QED  BY <3>1, <3>2
  <2>2. ASSUME NEW d \in Channels, Alive(r, d), r.id[d] # NoId
        PROVE  r.table[r.id[d]] = d
    <3>1. CASE d = c
      BY <1>5, <3>1
    <3>2. CASE d # c
      <4>1. Alive(p, d) /\ p.id[d] = r.id[d] /\ p.id[d] \in Ids
        BY <1>5, <2>2, <3>2 DEF Alive, SomeId
      <4>2. p.table[p.id[d]] = d
        BY <2>2, <4>1 DEF EndFits, TableFits
      <4>3. p.id[d] # i
        BY <4>2, IdsAreInts
      <4> QED  BY <1>5, <4>1, <4>2, <4>3
    <3> QED  BY <3>1, <3>2
  <2> QED  BY <2>1, <2>2 DEF TableFits
<1>14. OthersFit(e, r)
  BY <1>5, IdsAreInts DEF EndFits, OthersFit, Own
<1>7. IdsFit(r)
  <2>1. i % 2 = FirstId(Owner[c])
    <3>1. EndFits(Other(e), end[Other(e)])
      BY Others
    <3> QED  BY <1>2, <3>1, IdsAreInts DEF EndFits, IdsFit
  <2>2. IdsFit(p) /\ c \notin Negotiated /\ Negotiated \subseteq Channels
    BY <1>2, ChannelAssumption DEF EndFits, ChannelAssumption
  <2>3. \A d \in Negotiated : r.id[d] = AgreedId[d]
    BY <1>5, <2>2 DEF IdsFit
  <2>4. \A d \in Channels \ Negotiated : r.id[d] # NoId => r.id[d] % 2 = FirstId(Owner[d])
    BY <1>5, <2>1, <2>2 DEF IdsFit
  <2>5. \A d \in Channels \ Negotiated : r.chan[d] = "none" => r.id[d] = NoId
    BY <1>5, <2>2 DEF IdsFit
  <2> QED  BY <2>3, <2>4, <2>5 DEF IdsFit
<1>8. r.queue \in Seq(MayQueue(e, r))
  <2>1. MayQueue(e, p) \subseteq MayQueue(e, r)
    BY <1>2, <1>5, IdsAreInts DEF MayQueue, Item, Alive
  <2>2. item \in MayQueue(e, r)
    BY <1>3, <1>5, IdsAreInts DEF MayQueue
  <2>3. p.queue \in Seq(MayQueue(e, p))
    BY DEF EndFits
  <2>4. p.queue \in Seq(MayQueue(e, r))
    BY <2>1, <2>3, SeqMore
  <2> HIDE DEF item
  <2> QED  BY <1>4, <2>2, <2>4
<1>9. Once("OPEN", r.queue)
  <2> DEFINE B == MayQueue(e, p)
             t == <<item>>
  <2>1. item.kind = "ACK"
    OBVIOUS
  <2>2. p.queue \in Seq(B) /\ Once("OPEN", p.queue) /\ t \in Seq({item}) /\ Once("OPEN", t)
    BY DEF Once, EndFits
  <2>3. r.queue = p.queue \o t
    <3> DEFINE s == p.queue
    <3>1. r.queue = Append(s, item) /\ s \in Seq(B)
      BY <1>4, <2>2
    <3> HIDE DEF item, s, B
    <3>2. Append(s, item) = s \o <<item>>
      BY <3>1
    <3> QED  BY <3>1, <3>2 DEF s
  <2> HIDE DEF B, t, item
  <2>4. \A a \in B, b \in {item} : a.kind = "OPEN" /\ b.kind = "OPEN" => a.chan # b.chan
    BY <2>1
  <2> DEFINE s == p.queue
  <2>5. s \in Seq(B) /\ Once("OPEN", s)
    BY <2>2
  <2> HIDE DEF s, p
  <2>6. Once("OPEN", s \o t)
    BY <2>2, <2>4, <2>5, OnceTogether
  <2> QED  BY <2>3, <2>6 DEF s
<1>10. /\ Keeps(e, r, q) /\ q.chan = r.chan
       /\ \A d \in Channels \ Own(e) : q.id[d] = r.id[d]
  <2>1. r \in End /\ EndFits(e, r)
    BY <1>4, <1>6, <1>7, <1>8, <1>9, <1>14 DEF EndFits
  <2> QED  BY <1>1, <1>4, <2>1, FlushKeeps
<1>11. Keeps(e, p, q)
  <2>1. \A d \in Channels : p.id[d] # NoId => q.id[d] = p.id[d]
    BY <1>2, <1>5, <1>10, IdsAreInts DEF Keeps
  <2>2. \A d \in Channels : p.id[d] = NoId /\ q.id[d] # NoId => Alive(q, d)
    BY <1>2, <1>5, <1>10 DEF Keeps, Alive
  <2>3. q.out \in Seq(Fresh(p))
    <3> DEFINE F == Fresh(r)
               G == Fresh(p)
    <3>1. F \subseteq G
      BY <1>2, <1>5, IdsAreInts DEF Fresh, Message
    <3>2. q.out \in Seq(F)
      BY <1>10 DEF Keeps
    <3> HIDE DEF F, G
    <3>3. q.out \in Seq(G)
      BY <3>1, <3>2, SeqMore
    <3> QED  BY <3>3 DEF G
  <2>4. \A d \in Channels : p.chan[d] = "closed" => q.chan[d] = "closed"
    BY <1>2, <1>5, <1>10
  <2> QED  BY <1>10, <2>1, <2>2, <2>3, <2>4 DEF Keeps
<1>12. \A d \in Own(Other(e)) : q.id[d] \in {NoId, end[Other(e)].id[d]}
  <2>1. \A d \in Own(Other(e)) : d \in Channels \ Own(e)
    BY Others DEF Own
  <2>2. \A d \in Own(Other(e)) : p.id[d] \in {NoId, end[Other(e)].id[d]}
    BY DEF ChannelInv, SameIds
  <2> QED  BY <1>5, <1>10, <2>1, <2>2
<1>13. q.control \subseteq Chunk
  BY <1>10 DEF Keeps, End
<1>15. \A d \in Own(Other(e)) : d # c => q.id[d] = p.id[d]
  BY <1>5, <1>10, Others DEF Own
<1> QED  BY <1>11, <1>12, <1>13, <1>15

LEMMA AckQuiet ==
  ASSUME NEW e \in Ends, NEW p \in End, EndFits(e, p), NEW i \in Ids, NEW d
  PROVE  Quiet(e, p, ReceiveAck(p, i, d))
<1>1. CASE p.table[i] = NoChannel
  BY <1>1, RaiseQuiet DEF ReceiveAck
<1>2. CASE p.table[i] # NoChannel
  <2> DEFINE c == p.table[i]
             chan == [p.chan EXCEPT ![c] = "open"]
             q == [p EXCEPT !.chan = chan]
  <2>1. ReceiveAck(p, i, d) = q
    BY <1>2 DEF ReceiveAck, End
  <2>2. c \in Channels /\ Alive(p, c) /\ p.chan \in [Channels -> States]
    BY <1>2 DEF EndFits, TableFits, End
  <2>3. chan \in [Channels -> States]
    BY <2>2 DEF States
  <2>4. /\ q \in End /\ q.chan = chan /\ q.table = p.table /\ q.id = p.id /\ q.queue = p.queue
        /\ q.out = p.out
    <3> HIDE DEF Message, Chunk, Item, SomeId, States, chan
    <3> QED  BY <2>3 DEF End
  <2> HIDE DEF q, c
  <2>5. /\ \A x \in Channels : Alive(q, x) <=> Alive(p, x)
        /\ \A x \in Channels : q.chan[x] = "none" <=> p.chan[x] = "none"
        /\ \A x \in Channels : p.chan[x] = "closed" => q.chan[x] = "closed"
    BY <2>2, <2>4 DEF Alive
  <2>6. MayQueue(e, q) = MayQueue(e, p)
    BY <2>4, <2>5 DEF MayQueue, Item
  <2>7. TableFits(q) /\ IdsFit(q) /\ OthersFit(e, q)
    BY <2>4, <2>5 DEF EndFits, TableFits, IdsFit, OthersFit, Own
  <2>8. Quiet(e, p, q)
    BY <2>4, <2>5, <2>6, <2>7 DEF Quiet, EndFits
  <2> QED  BY <2>1, <2>8 DEF q
<1> QED  BY <1>1, <1>2

LEMMA ReceiveStreamFits ==
  ASSUME ChannelInv, NEW e \in Ends, NEW i \in Ids, ReceiveStream(e, i)
  PROVE  ChannelInv' /\ Final
<1> DEFINE m == Head(stream[e][i])
           p == end[e]
           c == m.chan
           q == IF m.kind = "OPEN" THEN ReceiveOpen(e, p, i, c) ELSE ReceiveAck(p, i, c)
<1>1. stream[e][i] # <<>> /\ EndGoesOn(e, q, i, {})
      /\ Spoils(IF Reuses(p, q) THEN {"reused"} ELSE {})
  BY DEF ReceiveStream
<1>2. spoiled \subseteq spoiled' /\ ("reused" \notin spoiled' => ~ Reuses(p, q))
  BY <1>1 DEF Spoils
<1>3. p \in End /\ EndFits(e, p)
  BY EndIs
<1>4. CASE m.kind = "OPEN" /\ p.table[i] = NoChannel
  <2>1. /\ c \in Own(Other(e)) /\ end[Other(e)].id[c] = i
        /\ p.id[c] = NoId /\ p.chan[c] = "none"
    BY <1>1, <1>4, OpenArrives
  <2>2. q = ReceiveOpen(e, p, i, c)
    BY <1>4
  <2>4. Head(stream[e][i]).kind = "OPEN" /\ Head(stream[e][i]).chan = c
    BY <1>4
  <2> HIDE DEF q, c, m
  <2>3. /\ Keeps(e, p, q) /\ q.control \subseteq Chunk
        /\ \A d \in Own(Other(e)) : q.id[d] \in {NoId, end[Other(e)].id[d]}
        /\ \A d \in Own(Other(e)) : d # c => q.id[d] = p.id[d]
    BY <1>4, <2>1, <2>2, OpenFits
  <2>5. \A d \in Own(Other(e)) : p.id[d] = NoId /\ q.id[d] # NoId =>
          i \in Ids /\ Head(stream[e][i]).kind = "OPEN" /\ Head(stream[e][i]).chan = d
    BY <2>3, <2>4
  <2> QED  BY <1>1, <1>2, <2>3, <2>5, EndSteps
<1>5. CASE ~ (m.kind = "OPEN" /\ p.table[i] = NoChannel)
  <2>1. Quiet(e, p, q)
    <3>1. q = Raise(p) \/ q = ReceiveAck(p, i, c)
      BY <1>5 DEF ReceiveOpen
    <3> HIDE DEF q, c, m, p
    <3> QED  BY <1>3, <3>1, RaiseQuiet, AckQuiet
  <2> HIDE DEF q
  <2> QED  BY <1>1, <1>2, <2>1, QuietSteps
<1> QED  BY <1>4, <1>5

LEMMA ReceiveReconfigFits ==
  ASSUME ChannelInv, NEW e \in Ends, NEW m \in control, ReceiveReconfig(e, m)
  PROVE  ChannelInv' /\ Final
<1> DEFINE p == end[e]
           closing == FoldLeft(LAMBDA q, i : IF q.table[i] = NoChannel THEN q
                                             ELSE CloseChannel(q, q.table[i]), p, m.ids)
           response == [to |-> Other(e), kind |-> "response", no |-> m.no, ids |-> <<>>]
           told == [closing EXCEPT !.control = {response}]
           q == IF p.assoc # "established" THEN p
                ELSE IF m.kind = "request" THEN told
                ELSE IF p.request # <<>> /\ m.no + 1 = p.requestNo THEN CompleteRequest(e, p)
                ELSE p
<1>1. EndGoesOn(e, q, NoId, {m}) /\ spoiled \subseteq spoiled'
  BY DEF ReceiveReconfig, Spoils
<1>2. p \in End /\ EndFits(e, p)
  BY EndIs
<1>3. m.ids \in Seq(Ids) /\ m.no \in Nat
  BY DEF ChannelInv, Types, Chunk
<1>4. Quiet(e, p, closing)
  <2> DEFINE r == closing
  <2>1. r = closing
    OBVIOUS
  <2>2. Quiet(e, p, r)
    BY <1>2, <1>3, AllClosingQuiet, Zenon
  <2> QED  BY <2>2
<1> HIDE DEF closing
<1>5. Quiet(e, p, told)
  <2>1. {response} \in SUBSET Chunk
    <3>1. <<>> \in Seq(Ids) /\ Other(e) \in Ends
      BY Others
    <3> QED  BY <1>3, <3>1 DEF Chunk
  <2> HIDE DEF response
  <2>2. closing \in End /\ EndFits(e, closing)
    BY <1>4 DEF Quiet
  <2>3. /\ told \in End /\ told.chan = closing.chan /\ told.id = closing.id
        /\ told.table = closing.table /\ told.queue = closing.queue /\ told.out = closing.out
    <3> HIDE DEF Message, Chunk, Item, SomeId, States
    <3> QED  BY <2>1, <2>2 DEF End
  <2> HIDE DEF told
  <2>4. Quiet(e, closing, told)
    BY <2>2, <2>3, SameQuiet
  <2> QED  BY <1>4, <2>4, QuietTrans
<1>6. Quiet(e, p, CompleteRequest(e, p)) /\ Quiet(e, p, p)
  BY <1>2, CompleteQuiet DEF Quiet
<1>7. Quiet(e, p, q)
  <2>1. q \in {p, told, CompleteRequest(e, p)}
    OBVIOUS
  <2> HIDE DEF q, told
  <2> QED  BY <1>5, <1>6, <2>1
<1> HIDE DEF q
<1> QED  BY <1>1, <1>7, QuietSteps, IdsAreInts

LEMMA LoseFits ==
  ASSUME ChannelInv, NEW m, LoseReconfig(m)
  PROVE  ChannelInv' /\ Final
<1>1. control' \subseteq control /\ spoiled \subseteq spoiled' /\ end' = end /\ stream' = stream
  BY DEF LoseReconfig, Spoils
<1>2. Types' /\ IdsDiffer'
  BY <1>1 DEF ChannelInv, Types, IdsDiffer
<1> QED  BY <1>1, <1>2 DEF ChannelInv, SameIds, StreamsFit, OpensFit, Final

LEMMA StepFits == ChannelInv /\ [ChannelNext]_channelVars => ChannelInv' /\ Final
<1> SUFFICES ASSUME ChannelInv, [ChannelNext]_channelVars PROVE ChannelInv' /\ Final
  OBVIOUS
<1>1. ASSUME NEW e \in Ends, NEW c \in Channels, Create(e, c)
      PROVE  ChannelInv' /\ Final
  <2>1. CASE c \in Negotiated
    BY <1>1, <2>1, CreateNegotiated
  <2>2. CASE c \notin Negotiated
    BY <1>1, <2>2, CreateOwn
  <2> QED  BY <2>1, <2>2
<1>2. ASSUME NEW e \in Ends, NEW c \in Channels, Close(e, c)
      PROVE  ChannelInv' /\ Final
  BY <1>2, CloseFits
<1>3. ASSUME NEW e \in Ends, RunFlush(e)
      PROVE  ChannelInv' /\ Final
  BY <1>3, RunFlushFits
<1>4. ASSUME NEW e \in Ends, RunReconfig(e)
      PROVE  ChannelInv' /\ Final
  BY <1>4, RunReconfigFits
<1>5. ASSUME NEW e \in Ends, Up(e)
      PROVE  ChannelInv' /\ Final
  BY <1>5, UpFits
<1>6. ASSUME NEW e \in Ends, Down(e)
      PROVE  ChannelInv' /\ Final
  BY <1>6, DownFits
<1>7. ASSUME NEW e \in Ends, NEW i \in Ids, ReceiveStream(e, i)
      PROVE  ChannelInv' /\ Final
  BY <1>7, ReceiveStreamFits
<1>8. ASSUME NEW e \in Ends, ReceiveControl(e)
      PROVE  ChannelInv' /\ Final
  BY <1>8, ReceiveReconfigFits DEF ReceiveControl
<1>9. ASSUME NEW m \in control, LoseReconfig(m)
      PROVE  ChannelInv' /\ Final
  BY <1>9, LoseFits
<1>10. CASE UNCHANGED channelVars
  BY <1>10 DEF channelVars, ChannelInv, Types, SameIds, StreamsFit, OpensFit, IdsDiffer, Final
<1> QED  BY <1>1, <1>2, <1>3, <1>4, <1>5, <1>6, <1>7, <1>8, <1>9, <1>10 DEF ChannelNext

LEMMA AlwaysFits == ChannelSpec => []ChannelInv
  BY InitFits, StepFits, PTL DEF ChannelSpec

-----------------------------------------------------------------------------
(* The theorems.                                                           *)

LEMMA FitsIsTrue == ChannelInv => TableIsTrue
<1> SUFFICES ASSUME ChannelInv, NEW e \in Ends, NEW c \in Channels
             PROVE  LET p == end[e]
                    IN  (p.chan[c] \notin {"none", "closed"} /\ p.id[c] # NoId)
                          <=> (\E i \in Ids : p.table[i] = c /\ p.id[c] = i)
  BY DEF TableIsTrue
<1>1. \A i \in Ids : end[e].table[i] = c => end[e].id[c] = i /\ Alive(end[e], c) /\ i # NoId
  BY EndIs, IdsAreInts DEF EndFits, TableFits
<1>2. Alive(end[e], c) /\ end[e].id[c] # NoId =>
        end[e].id[c] \in Ids /\ end[e].table[end[e].id[c]] = c
  BY EndIs DEF EndFits, TableFits, SomeId
<1> QED  BY <1>1, <1>2 DEF Alive

(* As long as no id is used again, it means one channel to both ends.      *)
LEMMA IdMeansOne ==
  ASSUME ChannelInv, "reused" \notin spoiled, NEW e \in Ends, NEW c \in Channels, NEW d \in Channels,
         end[e].id[c] # NoId, end[Other(e)].id[d] = end[e].id[c]
  PROVE  c = d
<1> DEFINE x == Other(e)
           i == end[e].id[c]
<1>1. /\ x \in Ends /\ x # e /\ Other(x) = e /\ i # NoId
      /\ end[e].id[c] = i /\ end[x].id[d] = i
  BY Others
<1> HIDE DEF x, i
<1>2. ASSUME NEW y \in Ends, NEW z \in Channels, z \in Negotiated \cup Own(y),
             end[Other(y)].id[z] = i
      PROVE  end[y].id[z] = i
  <2>1. CASE z \in Negotiated
    BY <1>2, <2>1, Others, EndIs DEF EndFits, IdsFit
  <2>2. CASE z \in Own(y)
    <3>1. Other(y) \in Ends /\ Other(Other(y)) = y
      BY Others
    <3> QED  BY <1>1, <1>2, <2>2, <3>1 DEF ChannelInv, SameIds
  <2> QED  BY <1>2, <2>1, <2>2
<1>3. CASE d \in Negotiated \cup Own(e)
  <2>1. end[e].id[d] = i
    BY <1>1, <1>2, <1>3 DEF x
  <2> QED  BY <1>1, <2>1 DEF ChannelInv, IdsDiffer
<1>4. CASE c \in Negotiated \cup Own(x)
  <2>1. end[x].id[c] = i
    BY <1>1, <1>2, <1>4
  <2> QED  BY <1>1, <2>1 DEF ChannelInv, IdsDiffer
<1>5. CASE c \in Own(e) /\ d \in Own(x)
  <2>1. i % 2 = FirstId(e) /\ i % 2 = FirstId(x)
    BY <1>1, <1>5, EndIs DEF EndFits, IdsFit, Own
  <2> QED  BY <1>1, <2>1, Parities
<1> QED  BY <1>1, <1>3, <1>4, <1>5, Parities, Others DEF Own, x

LEMMA FitsMeansOne == ChannelInv => StreamMeansOneChannel
<1> SUFFICES ASSUME ChannelInv, NEW i \in Ids, "reused" \notin spoiled,
                    end[Odd].table[i] # NoChannel, end[Even].table[i] # NoChannel
             PROVE  end[Odd].table[i] = end[Even].table[i]
  BY DEF StreamMeansOneChannel
<1> DEFINE c == end[Odd].table[i]
           d == end[Even].table[i]
<1>1. Odd \in Ends /\ Even \in Ends /\ Other(Odd) = Even /\ i # NoId
  BY ChannelAssumption, Others, IdsAreInts DEF Ends, ChannelAssumption
<1>2. /\ c \in Channels /\ end[Odd].id[c] = i
      /\ d \in Channels /\ end[Even].id[d] = i
  BY <1>1, EndIs DEF EndFits, TableFits
<1> HIDE DEF c, d
<1> QED  BY <1>1, <1>2, IdMeansOne DEF c, d

(* The table of an end and the states of its channels agree, whatever is   *)
(* lost, closed or raised, for any channels and any agreed ids (TableIsTrue*)
(* of _data_channels, _data_channel_flush and _data_channel_closed).       *)
THEOREM TableAgrees == ChannelSpec => []TableIsTrue
  BY AlwaysFits, FitsIsTrue, PTL

(* Odd and even ids keep the ends apart: as long as none is used again, a  *)
(* stream id names the same channel at both (start, _data_channel_flush,   *)
(* _data_channel_receive).                                                 *)
THEOREM OneChannelPerStream == ChannelSpec => []StreamMeansOneChannel
  BY AlwaysFits, FitsMeansOne, PTL

(* A channel that is closed at an end stays closed there: no message that  *)
(* arrives, no reset and no change of the association opens it again, for  *)
(* the OPEN of a channel comes once (readyState, _data_channel_receive).   *)
THEOREM ClosedStays == ChannelSpec => ClosedIsFinal
<1>1. ChannelInv /\ [ChannelNext]_channelVars =>
        [\A e \in Ends, c \in Channels :
           end[e].chan[c] = "closed" => end'[e].chan[c] = "closed"]_channelVars
  BY StepFits DEF Final
<1> QED  BY <1>1, AlwaysFits, PTL DEF ChannelSpec, ClosedIsFinal

-----------------------------------------------------------------------------
(* Nothing raises, as long as nothing has spoiled it.                      *)

Past(p, c) == p.chan[c] \notin {"none", "connecting"}

(* The ids to be reset, those asked for first.                             *)
Pending(p) == p.request \o p.resets

Resettable(p, i) == i \in Ids /\ p.table[i] # NoChannel /\ p.chan[p.table[i]] = "closing"

(* What is to be reset is in the table, once and closing: both that is     *)
(* asked for and that is going to be.  An end that is not yet established  *)
(* has nothing to reset and has given no ids.                              *)
Orderly(e, p) ==
  /\ ~ p.deaf /\ p.assoc # "closed"
  /\ \A k \in DOMAIN Pending(p) : Resettable(p, Pending(p)[k])
  /\ \A k, l \in DOMAIN Pending(p) : Pending(p)[k] = Pending(p)[l] => k = l
  /\ p.assoc = "connecting" => \A c \in Channels : p.chan[c] # "closing"
  /\ p.assoc = "connecting" => \A c \in Own(e) : p.id[c] = NoId
  /\ \A c \in Channels : p.chan[c] \in {"open", "closing"} => p.id[c] # NoId

(* A channel closes when both ends have opened it.                         *)
ClosingsFit ==
  \A e \in Ends, c \in Channels : end[e].chan[c] = "closing" => Past(end[Other(e)], c)

(* A request to e names channels that both ends have opened.               *)
Known(p, q, i) == \E d \in Channels : p.id[d] = i /\ Past(p, d) /\ Past(q, d)

RequestsFit ==
  \A m \in control : m.kind = "request" =>
    \A k \in DOMAIN m.ids : Known(end[Other(m.to)], end[m.to], m.ids[k])

(* The channels that messages of kind K in s are about.                    *)
Said(K, s) == {s[k].chan : k \in {l \in DOMAIN s : s[l].kind = K}}

(* A channel that its owner e announces, and one whose announcement the    *)
(* other end acknowledges, is connecting at e; there is one ACK for it.    *)
Announcing(e, p, s) == \A c \in Said("OPEN", s) : p.chan[c] = "connecting"

Acknowledging(e, p, s) == \A c \in Said("ACK", s) : c \in Own(e) /\ p.chan[c] = "connecting"

Apart(s, t) == Said("ACK", s) \cap Said("ACK", t) = {}

AnnouncedAt(e) ==
  LET p == end[e]
      x == Other(e)
  IN /\ Announcing(e, p, p.queue) /\ \A i \in Ids : Announcing(e, p, stream[x][i])
     /\ Acknowledging(e, p, end[x].queue) /\ \A i \in Ids : Acknowledging(e, p, stream[e][i])
     /\ \A i \in Ids : \A c \in Said("ACK", stream[e][i]) : end[x].id[c] = i
     /\ \A i \in Ids : Apart(stream[e][i], end[x].queue) /\ Once("ACK", stream[e][i])
     /\ Once("ACK", p.queue)

Calm ==
  /\ \A e \in Ends : Orderly(e, end[e]) /\ AnnouncedAt(e)
  /\ ClosingsFit /\ RequestsFit

CalmInv == spoiled = {} => Calm

-----------------------------------------------------------------------------
LEMMA SaidTogether ==
  ASSUME NEW K, NEW S, NEW s \in Seq(S), NEW t \in Seq(S)
  PROVE  Said(K, s \o t) = Said(K, s) \cup Said(K, t)
<1> DEFINE u == s \o t
           n == Len(s)
           m == Len(t)
<1>1. /\ n \in Nat /\ m \in Nat /\ DOMAIN u = 1 .. n + m
      /\ DOMAIN s = 1 .. n /\ DOMAIN t = 1 .. m
      /\ \A k \in 1 .. n : u[k] = s[k] /\ k \in DOMAIN u
      /\ \A k \in n + 1 .. n + m : u[k] = t[k - n] /\ k - n \in 1 .. m
      /\ \A k \in 1 .. m : u[k + n] = t[k] /\ k + n \in DOMAIN u
      /\ \A k \in DOMAIN u : k \in 1 .. n \/ k \in n + 1 .. n + m
  OBVIOUS
<1> HIDE DEF u, n, m
<1>2. ASSUME NEW k \in DOMAIN u, u[k].kind = K
      PROVE  u[k].chan \in Said(K, s) \cup Said(K, t)
  <2>1. CASE k \in DOMAIN s
    BY <1>1, <1>2, <2>1 DEF Said
  <2>2. CASE k \notin DOMAIN s
    <3>1. k - n \in DOMAIN t /\ u[k] = t[k - n]
      BY <1>1, <2>2
    <3> QED  BY <1>2, <3>1 DEF Said
  <2> QED  BY <2>1, <2>2
<1>3. Said(K, s) \subseteq Said(K, u)
  BY <1>1 DEF Said
<1>4. Said(K, t) \subseteq Said(K, u)
  BY <1>1 DEF Said
<1>5. Said(K, u) \subseteq Said(K, s) \cup Said(K, t)
  BY <1>2 DEF Said
<1> QED  BY <1>3, <1>4, <1>5 DEF u

LEMMA SaidEmpty ==
  ASSUME NEW K
  PROVE  Said(K, <<>>) = {} /\ Once(K, <<>>)
  BY DEF Said, Once

LEMMA SaidOne ==
  ASSUME NEW K, NEW m
  PROVE  /\ Said(K, <<m>>) = IF m.kind = K THEN {m.chan} ELSE {}
         /\ Once(K, <<m>>)
<1>1. DOMAIN <<m>> = {1} /\ <<m>>[1] = m
  OBVIOUS
<1> QED  BY <1>1 DEF Said, Once

LEMMA SaidMore ==
  ASSUME NEW K, NEW S, NEW s \in Seq(S), NEW m \in S
  PROVE  /\ Said(K, Append(s, m)) = Said(K, s) \cup (IF m.kind = K THEN {m.chan} ELSE {})
         /\ Once(K, s) /\ (m.kind = K => m.chan \notin Said(K, s)) => Once(K, Append(s, m))
<1> DEFINE t == <<m>>
<1>1. Append(s, m) = s \o t /\ t \in Seq(S)
  OBVIOUS
<1>2. Said(K, t) = (IF m.kind = K THEN {m.chan} ELSE {}) /\ Once(K, t)
  BY SaidOne
<1>3. ASSUME Once(K, s), m.kind = K => m.chan \notin Said(K, s)
      PROVE  Once(K, s \o t)
  <2>1. \A a \in {s[k] : k \in DOMAIN s}, b \in {m} : a.kind = K /\ b.kind = K => a.chan # b.chan
    BY <1>3 DEF Said
  <2>2. t \in Seq({m}) /\ s \in Seq({s[k] : k \in DOMAIN s})
    OBVIOUS
  <2> HIDE DEF t
  <2> QED  BY <1>2, <1>3, <2>1, <2>2, OnceTogether
<1> HIDE DEF t
<1>4. Said(K, s \o t) = Said(K, s) \cup Said(K, t)
  BY <1>1, SaidTogether
<1> QED  BY <1>1, <1>2, <1>3, <1>4

LEMMA SaidAfter ==
  ASSUME NEW K, NEW S, NEW s \in Seq(S), s # <<>>
  PROVE  /\ Said(K, Tail(s)) \subseteq Said(K, s)
         /\ Head(s).kind = K => Head(s).chan \in Said(K, s)
         /\ Once(K, s) => Once(K, Tail(s))
         /\ Once(K, s) /\ Head(s).kind = K => Head(s).chan \notin Said(K, Tail(s))
<1> DEFINE u == Tail(s)
<1>1. /\ u \in Seq(S) /\ 1 \in DOMAIN s /\ Head(s) = s[1] /\ DOMAIN u \subseteq Nat
      /\ \A k \in DOMAIN u : /\ u[k] = s[k + 1] /\ k + 1 \in DOMAIN s /\ k + 1 # 1
                             /\ \A l \in DOMAIN u : k + 1 = l + 1 => k = l
  OBVIOUS
<1> HIDE DEF u
<1> QED  BY <1>1 DEF Said, Once, u

About(K, A) == {o.chan : o \in {m \in A : m.kind = K}}

(* Only what is in A and in s is kept.                                     *)
LEMMA SaidKept ==
  ASSUME NEW K, NEW S, NEW s \in Seq(S), NEW A
  PROVE  /\ Said(K, Keep(s, A)) \subseteq About(K, A)
         /\ Said(K, Keep(s, A)) \subseteq Said(K, s)
         /\ Once(K, s) => Once(K, Keep(s, A))
<1> DEFINE T == {s[k] : k \in DOMAIN s}
           t == Keep(s, A)
<1>1. s \in Seq(T)
  OBVIOUS
<1>2. t \in Seq(A \cap T)
  <2> HIDE DEF T
  <2> QED  BY <1>1, KeepFits
<1>3. \A k \in DOMAIN t : t[k] \in A /\ t[k] \in T
  <2> HIDE DEF t, T
  <2> QED  BY <1>2
<1>4. Once(K, s) => Once(K, t)
  BY KeepOnce
<1> HIDE DEF t
<1> QED  BY <1>3, <1>4 DEF Said, About, t

-----------------------------------------------------------------------------
(* What a step of end e, to q, has to see to.                              *)

Proceeds(e, q) ==
  LET p == end[e]
      o == end[Other(e)]
  IN /\ Orderly(e, q)
     /\ \A c \in Channels : Past(p, c) => Past(q, c)
     /\ \A c \in Channels : q.chan[c] = "closing" => Past(o, c)
     /\ \A c \in Channels : p.id[c] # NoId => q.id[c] = p.id[c]
     /\ \A m \in q.control : m.kind = "request" =>
          m.to = Other(e) /\ \A k \in DOMAIN m.ids : Known(q, o, m.ids[k])

(* What is left to e on stream k, if the head of stream i is taken.        *)
Left(e, i, k) == IF k = i THEN Tail(stream[e][k]) ELSE stream[e][k]

Announces(e, q, i) ==
  LET x == Other(e)
      o == end[x]
  IN /\ Announcing(e, q, q.queue) /\ Announcing(e, q, q.out)
     /\ Acknowledging(x, o, q.queue) /\ Acknowledging(x, o, q.out)
     /\ \A k \in Ids : Announcing(e, q, stream[x][k])
     /\ Acknowledging(e, q, o.queue) /\ \A k \in Ids : Acknowledging(e, q, Left(e, i, k))
     /\ \A k \in Ids : Apart(stream[x][k], q.queue) /\ Apart(stream[x][k], q.out)
     /\ Apart(q.out, q.queue) /\ Once("ACK", q.queue) /\ Once("ACK", q.out)
     /\ \A k \in DOMAIN q.out : q.out[k].kind = "ACK" => q.id[q.out[k].chan] = q.out[k].id

(* What EndGoesOn leaves, if the end is not deaf.                          *)
Becomes(e, q, i, m) ==
  LET n == end'[e]
      x == Other(e)
  IN /\ n.chan = q.chan /\ n.id = q.id /\ n.table = q.table /\ n.queue = q.queue
     /\ n.assoc = q.assoc /\ n.deaf = q.deaf /\ n.request = q.request
     /\ n.resets = q.resets
     /\ end'[x] = end[x] /\ \A y \in Ends : y \in {e, x}
     /\ x \in Ends /\ Other(x) = e /\ x # e
     /\ control' = (control \ m) \cup q.control
     /\ \A k \in Ids :
          /\ stream'[x][k] = stream[x][k] \o Keep(q.out, {o \in Range(q.out) : o.id = k})
          /\ stream'[e][k] = Left(e, i, k)

LEMMA EndBecomes ==
  ASSUME ChannelInv, NEW e \in Ends, NEW q \in End, NEW i, NEW m, EndGoesOn(e, q, i, m), ~ q.deaf
  PROVE  Becomes(e, q, i, m)
<1> DEFINE n == [q EXCEPT !.out = <<>>, !.control = {}]
           x == Other(e)
<1>1. x \in Ends /\ Other(x) = e /\ x # e /\ \A y \in Ends : y \in {e, x}
  BY Others
<1> HIDE DEF x
<1>2. end \in [Ends -> End]
  BY DEF ChannelInv, Types
<1>3. end' = [end EXCEPT ![e] = n] /\ control' = (control \ m) \cup q.control
  BY DEF EndGoesOn
<1>4. /\ n.chan = q.chan /\ n.id = q.id /\ n.table = q.table /\ n.queue = q.queue
      /\ n.assoc = q.assoc /\ n.deaf = q.deaf /\ n.request = q.request
      /\ n.resets = q.resets
  BY DEF End
<1> HIDE DEF n
<1>5. end'[e] = n /\ end'[x] = end[x]
  BY <1>1, <1>2, <1>3
<1>6. ASSUME NEW k \in Ids
      PROVE  /\ stream'[x][k] = stream[x][k] \o Keep(q.out, {o \in Range(q.out) : o.id = k})
             /\ stream'[e][k] = Left(e, i, k)
  BY <1>1 DEF EndGoesOn, Left
<1> QED  BY <1>1, <1>3, <1>4, <1>5, <1>6 DEF Becomes, x

LEMMA OrderlySteps ==
  ASSUME ChannelInv, Calm, NEW e \in Ends, NEW q \in End, Proceeds(e, q),
         NEW i, NEW m, EndGoesOn(e, q, i, m)
  PROVE  (\A y \in Ends : Orderly(y, end'[y])) /\ ClosingsFit' /\ RequestsFit'
<1> DEFINE x == Other(e)
           n == end'[e]
<1>1. Orderly(e, q) /\ ~ q.deaf
  BY DEF Proceeds, Orderly
<1>2. /\ n.chan = q.chan /\ n.id = q.id /\ n.table = q.table
      /\ n.assoc = q.assoc /\ n.deaf = q.deaf /\ n.request = q.request /\ n.resets = q.resets
      /\ end'[x] = end[x] /\ \A y \in Ends : y \in {e, x}
      /\ x \in Ends /\ Other(x) = e /\ x # e
      /\ control' = (control \ m) \cup q.control
  <2>1. Becomes(e, q, i, m)
    BY <1>1, EndBecomes
  <2> QED  BY <2>1 DEF Becomes
<1> HIDE DEF n, x
<1>3. Orderly(e, n)
  BY <1>1, <1>2 DEF Orderly, Pending, Resettable
<1>4. \A y \in Ends : Orderly(y, end'[y])
  BY <1>2, <1>3 DEF Calm, n
<1>5. \A c \in Channels : Past(n, c) <=> Past(q, c)
  BY <1>2 DEF Past
<1>6. ClosingsFit'
  <2> SUFFICES ASSUME NEW y \in Ends, NEW c \in Channels, end'[y].chan[c] = "closing"
               PROVE  Past(end'[Other(y)], c)
    BY DEF ClosingsFit, Past
  <2>1. CASE y = e
    BY <1>2, <2>1 DEF Proceeds, x, n
  <2>2. CASE y = x
    <3>1. Past(end[e], c)
      BY <1>2, <2>2 DEF Calm, ClosingsFit
    <3> QED  BY <1>2, <1>5, <2>2, <3>1 DEF Proceeds, n
  <2> QED  BY <1>2, <2>1, <2>2
<1>7. RequestsFit'
  <2> SUFFICES ASSUME NEW w \in control', w.kind = "request", NEW k \in DOMAIN w.ids
               PROVE  Known(end'[Other(w.to)], end'[w.to], w.ids[k])
    BY DEF RequestsFit, Known, Past
  <2>1. w \in Chunk
    BY <1>2 DEF ChannelInv, Types, End
  <2>2. w.to \in Ends /\ w.ids[k] \in Ids /\ w.ids[k] # NoId
    BY <2>1, IdsAreInts DEF Chunk
  <2>3. CASE w \in q.control
    <3>1. w.to = x /\ Known(q, end[x], w.ids[k])
      BY <2>3 DEF Proceeds, x
    <3> QED  BY <1>2, <1>5, <3>1 DEF Known, n
  <2>4. CASE w \in control
    <3>1. PICK d \in Channels : /\ end[Other(w.to)].id[d] = w.ids[k]
                                /\ Past(end[Other(w.to)], d) /\ Past(end[w.to], d)
      BY <2>4 DEF Calm, RequestsFit, Known
    <3>2. \A c \in Channels : end[e].id[c] # NoId => n.id[c] = end[e].id[c]
      BY <1>2 DEF Proceeds
    <3>3. \A c \in Channels : Past(end[e], c) => Past(n, c)
      BY <1>5 DEF Proceeds
    <3>4. CASE w.to = e
      BY <1>2, <2>2, <3>1, <3>3, <3>4 DEF Known, x, n
    <3>5. CASE w.to = x
      BY <1>2, <2>2, <3>1, <3>2, <3>3, <3>5 DEF Known, n
    <3> QED  BY <1>2, <2>2, <3>4, <3>5
  <2> QED  BY <1>2, <2>3, <2>4
<1> QED  BY <1>4, <1>6, <1>7

LEMMA AnnouncedSteps ==
  ASSUME ChannelInv, Calm, NEW e \in Ends, NEW q \in End, NEW i, Announces(e, q, i), ~ q.deaf,
         i \in Ids => stream[e][i] # <<>>,
         \A c \in Channels : end[e].id[c] # NoId => q.id[c] = end[e].id[c],
         NEW m, EndGoesOn(e, q, i, m)
  PROVE  \A y \in Ends : AnnouncedAt(y)'
<1>0. Becomes(e, q, i, m)
  BY EndBecomes
<1> DEFINE x == Other(e)
           n == end'[e]
<1>1. /\ n.chan = q.chan /\ n.id = q.id /\ n.queue = q.queue
      /\ end'[x] = end[x] /\ \A y \in Ends : y \in {e, x}
      /\ x \in Ends /\ Other(x) = e /\ x # e
      /\ \A k \in Ids :
           /\ stream'[x][k] = stream[x][k] \o Keep(q.out, {o \in Range(q.out) : o.id = k})
           /\ stream'[e][k] = Left(e, i, k)
  BY <1>0 DEF Becomes
<1>2. /\ q.out \in Seq(Message) /\ stream \in [Ends -> [Ids -> Seq(Message)]]
      /\ AnnouncedAt(e) /\ AnnouncedAt(x)
  BY <1>1 DEF ChannelInv, Types, End, Calm
<1> HIDE DEF n, x
<1>3. ASSUME NEW k \in Ids
      PROVE  /\ Said("OPEN", stream'[x][k]) \subseteq Said("OPEN", stream[x][k]) \cup Said("OPEN", q.out)
             /\ \A c \in Said("ACK", stream'[x][k]) :
                  c \in Said("ACK", stream[x][k]) \/ (c \in Said("ACK", q.out) /\ q.id[c] = k)
             /\ Once("ACK", stream'[x][k])
  <2> DEFINE A == {o \in Range(q.out) : o.id = k}
             t == Keep(q.out, A)
             s == stream[x][k]
  <2>1. stream'[x][k] = s \o t /\ s \in Seq(Message)
    BY <1>1, <1>2
  <2>2. \A o \in A : o.kind = "ACK" => q.id[o.chan] = k
    BY DEF Announces, Range
  <2> HIDE DEF A
  <2>3. t \in Seq(Message)
    <3>1. t \in Seq(A \cap Message)
      BY <1>2, KeepFits
    <3> QED  BY <3>1, SeqMore
  <2> DEFINE sent == q.out
  <2>a. sent \in Seq(Message) /\ t = Keep(sent, A)
    BY <1>2
  <2> HIDE DEF sent, t
  <2>b. Said("OPEN", Keep(sent, A)) \subseteq Said("OPEN", sent)
    BY <2>a, SaidKept
  <2>c. Said("ACK", Keep(sent, A)) \subseteq Said("ACK", sent)
    BY <2>a, SaidKept
  <2>d. \A c \in Said("ACK", Keep(sent, A)) : \E o \in A : o.kind = "ACK" /\ o.chan = c
    <3>1. Said("ACK", Keep(sent, A)) \subseteq About("ACK", A)
      BY <2>a, SaidKept
    <3> QED  BY <3>1 DEF About
  <2>e. Once("ACK", sent) => Once("ACK", Keep(sent, A))
    BY <2>a, KeepOnce
  <2>4. /\ Said("OPEN", t) \subseteq Said("OPEN", q.out) /\ Said("ACK", t) \subseteq Said("ACK", q.out)
        /\ \A c \in Said("ACK", t) : \E o \in A : o.kind = "ACK" /\ o.chan = c
        /\ Once("ACK", q.out) => Once("ACK", t)
    BY <2>a, <2>b, <2>c, <2>d, <2>e DEF sent
  <2> HIDE DEF s, t
  <2>5. Said("OPEN", s \o t) = Said("OPEN", s) \cup Said("OPEN", t)
    BY <2>1, <2>3, SaidTogether
  <2>6. Said("ACK", s \o t) = Said("ACK", s) \cup Said("ACK", t)
    BY <2>1, <2>3, SaidTogether
  <2>7. Once("ACK", s \o t)
    <3>1. Once("ACK", s) /\ Once("ACK", t)
      BY <1>1, <1>2, <2>4 DEF AnnouncedAt, Announces, s
    <3>2. Said("ACK", s) \cap Said("ACK", t) = {}
      BY <2>4 DEF Announces, Apart, s, x
    <3> DEFINE M == {s[l] : l \in DOMAIN s}
               N == {t[l] : l \in DOMAIN t}
    <3>3. \A a \in M, b \in N : a.kind = "ACK" /\ b.kind = "ACK" => a.chan # b.chan
      BY <3>2 DEF Said
    <3>4. s \in Seq(M) /\ t \in Seq(N)
      BY <2>1, <2>3
    <3> HIDE DEF M, N
    <3> QED  BY <3>1, <3>3, <3>4, OnceTogether
  <2> QED  BY <2>1, <2>2, <2>4, <2>5, <2>6, <2>7 DEF s
<1>4. ASSUME NEW k \in Ids
      PROVE  /\ Said("OPEN", stream'[e][k]) \subseteq Said("OPEN", stream[e][k])
             /\ Said("ACK", stream'[e][k]) \subseteq Said("ACK", stream[e][k])
             /\ Once("ACK", stream[e][k]) => Once("ACK", stream'[e][k])
  <2>1. CASE k # i
    BY <1>1, <2>1 DEF Left
  <2>2. CASE k = i
    <3>1. stream[e][k] \in Seq(Message) /\ stream[e][k] # <<>> /\ stream'[e][k] = Tail(stream[e][k])
      BY <1>1, <1>2, <2>2 DEF Left
    <3> DEFINE s == stream[e][k]
    <3>2. s \in Seq(Message) /\ s # <<>>
      BY <3>1
    <3> HIDE DEF s
    <3>3. Said("OPEN", Tail(s)) \subseteq Said("OPEN", s)
      BY <3>2, SaidAfter
    <3>4. Said("ACK", Tail(s)) \subseteq Said("ACK", s) /\ (Once("ACK", s) => Once("ACK", Tail(s)))
      BY <3>2, SaidAfter
    <3> QED  BY <3>1, <3>3, <3>4 DEF s
  <2> QED  BY <2>1, <2>2
<1>5. AnnouncedAt(e)'
  <2>1. Announcing(e, n, n.queue) /\ \A k \in Ids : Announcing(e, n, stream'[x][k])
    BY <1>1, <1>3 DEF Announces, Announcing, x
  <2>2. Acknowledging(e, n, end[x].queue) /\ \A k \in Ids : Acknowledging(e, n, stream'[e][k])
    BY <1>1 DEF Announces, Acknowledging, x
  <2>3. ASSUME NEW k \in Ids
        PROVE  /\ \A c \in Said("ACK", stream'[e][k]) : end[x].id[c] = k
               /\ Apart(stream'[e][k], end[x].queue) /\ Once("ACK", stream'[e][k])
    BY <1>2, <1>4 DEF AnnouncedAt, Apart, x
  <2>4. Once("ACK", n.queue)
    BY <1>1 DEF Announces
  <2> QED  BY <1>1, <2>1, <2>2, <2>3, <2>4 DEF AnnouncedAt, Announcing, Acknowledging, Apart, x, n
<1>6. AnnouncedAt(x)'
  <2> DEFINE o == end[x]
  <2>1. Announcing(x, o, o.queue) /\ \A k \in Ids : Announcing(x, o, stream'[e][k])
    BY <1>1, <1>2, <1>4 DEF AnnouncedAt, Announcing
  <2>2. Acknowledging(x, o, n.queue) /\ \A k \in Ids : Acknowledging(x, o, stream'[x][k])
    <3>1. \A k \in Ids : Acknowledging(x, o, stream[x][k])
      BY <1>2 DEF AnnouncedAt
    <3> QED  BY <1>1, <1>3, <3>1 DEF Announces, Acknowledging, x
  <2>3. ASSUME NEW k \in Ids
        PROVE  /\ \A c \in Said("ACK", stream'[x][k]) : n.id[c] = k
               /\ Apart(stream'[x][k], n.queue) /\ Once("ACK", stream'[x][k])
    <3>1. \A c \in Said("ACK", stream[x][k]) : c \in Channels /\ end[e].id[c] = k
      BY <1>1, <1>2 DEF AnnouncedAt, Acknowledging, Own
    <3>2. k # NoId
      BY IdsAreInts
    <3>3. Apart(stream[x][k], q.queue) /\ Apart(q.out, q.queue)
      BY DEF Announces, x
    <3> QED  BY <1>1, <1>3, <3>1, <3>2, <3>3 DEF Apart
  <2>4. Once("ACK", o.queue)
    BY <1>2 DEF AnnouncedAt
  <2> QED  BY <1>1, <2>1, <2>2, <2>3, <2>4 DEF AnnouncedAt, Announcing, Acknowledging, Apart, n
<1> QED  BY <1>1, <1>5, <1>6

-----------------------------------------------------------------------------
LEMMA InitCalm == ChannelInit => CalmInv
<1> SUFFICES ASSUME ChannelInit PROVE Calm
  BY DEF CalmInv
<1>1. /\ NewEnd.chan = [c \in Channels |-> "none"] /\ NewEnd.queue = <<>> /\ NewEnd.deaf = FALSE
      /\ NewEnd.id = [c \in Channels |-> IF c \in Negotiated THEN AgreedId[c] ELSE NoId]
      /\ NewEnd.assoc = "connecting" /\ NewEnd.request = <<>> /\ NewEnd.resets = <<>>
  BY DEF NewEnd
<1>2. \A e \in Ends : end[e] = NewEnd /\ end[Other(e)] = NewEnd
  BY Others DEF ChannelInit
<1>3. \A e \in Ends, i \in Ids : stream[e][i] = <<>> /\ stream[Other(e)][i] = <<>>
  BY Others DEF ChannelInit
<1>4. /\ \A K \in {"OPEN", "ACK"} : Said(K, <<>>) = {} /\ Once(K, <<>>)
  BY SaidEmpty
<1>5. ASSUME NEW e \in Ends PROVE Orderly(e, NewEnd)
  <2>1. DOMAIN Pending(NewEnd) = {}
    <3>1. Pending(NewEnd) = <<>>
      BY <1>1 DEF Pending
    <3> QED  BY <3>1
  <2> QED  BY <1>1, <2>1 DEF Orderly, Own
<1>6. ASSUME NEW e \in Ends PROVE AnnouncedAt(e)
  BY <1>1, <1>2, <1>3, <1>4 DEF AnnouncedAt, Announcing, Acknowledging, Apart
<1>7. ClosingsFit
  BY <1>1, <1>2 DEF ClosingsFit
<1>8. RequestsFit
  BY DEF RequestsFit, ChannelInit
<1> QED  BY <1>2, <1>5, <1>6, <1>7, <1>8 DEF Calm

LEMMA CalmSteps ==
  ASSUME ChannelInv, Calm, NEW e \in Ends, NEW q \in End, Proceeds(e, q),
         NEW i, i \in Ids => stream[e][i] # <<>>, Announces(e, q, i),
         NEW m, EndGoesOn(e, q, i, m)
  PROVE  Calm'
<1>1. (\A y \in Ends : Orderly(y, end'[y])) /\ ClosingsFit' /\ RequestsFit'
  BY OrderlySteps
<1>2. ~ q.deaf /\ \A c \in Channels : end[e].id[c] # NoId => q.id[c] = end[e].id[c]
  BY DEF Proceeds, Orderly
<1>3. \A y \in Ends : AnnouncedAt(y)'
  BY <1>2, AnnouncedSteps
<1> QED  BY <1>1, <1>3 DEF Calm

(* Who is announced, and whose announcement is answered, is the end's own. *)
LEMMA SaidAreOwn ==
  ASSUME ChannelInv, Calm, NEW e \in Ends
  PROVE  /\ Said("OPEN", end[e].queue) \subseteq Own(e) /\ Said("ACK", end[Other(e)].queue) \subseteq Own(e)
         /\ \A k \in Ids : Said("OPEN", stream[Other(e)][k]) \subseteq Own(e)
         /\ \A k \in Ids : Said("ACK", stream[e][k]) \subseteq Own(e)
<1>1. Other(e) \in Ends /\ Other(Other(e)) = e
  BY Others
<1>2. AnnouncedAt(e)
  BY DEF Calm
<1>3. Said("ACK", end[Other(e)].queue) \subseteq Own(e) /\ \A k \in Ids : Said("ACK", stream[e][k]) \subseteq Own(e)
  BY <1>2 DEF AnnouncedAt, Acknowledging
<1>4. Said("OPEN", end[e].queue) \subseteq Own(e)
  <2>1. end[e].queue \in Seq(MayQueue(e, end[e]))
    BY DEF ChannelInv, EndFits
  <2> QED  BY <2>1 DEF MayQueue, Said
<1>5. ASSUME NEW k \in Ids PROVE Said("OPEN", stream[Other(e)][k]) \subseteq Own(e)
  <2>1. stream[Other(e)][k] \in Seq({m \in MaySend(e, end[e]) : m.id = k})
    BY <1>1 DEF ChannelInv, StreamsFit
  <2> QED  BY <2>1 DEF MaySend, Said
<1> QED  BY <1>3, <1>4, <1>5

LEMMA QuietAnnounces ==
  ASSUME ChannelInv, Calm, NEW e \in Ends, NEW q, q.queue = end[e].queue, q.out = <<>>,
         \A c \in Own(e) : end[e].chan[c] = "connecting" => q.chan[c] = "connecting"
  PROVE  Announces(e, q, NoId)
<1> DEFINE x == Other(e)
<1>1. x \in Ends /\ Other(x) = e
  BY Others
<1>2. AnnouncedAt(e) /\ AnnouncedAt(x)
  BY <1>1 DEF Calm
<1>3. /\ \A K \in {"OPEN", "ACK"} : Said(K, q.out) = {} /\ Once(K, q.out)
  BY SaidEmpty
<1>4. DOMAIN q.out = {}
  OBVIOUS
<1>5. \A k \in Ids : Left(e, NoId, k) = stream[e][k]
  BY IdsAreInts DEF Left
<1> HIDE DEF x
<1>6. Announcing(e, q, q.queue) /\ \A k \in Ids : Announcing(e, q, stream[x][k])
  BY <1>2, SaidAreOwn DEF AnnouncedAt, Announcing, x
<1>7. Acknowledging(e, q, end[x].queue) /\ \A k \in Ids : Acknowledging(e, q, Left(e, NoId, k))
  BY <1>2, <1>5 DEF AnnouncedAt, Acknowledging, x
<1>8. Acknowledging(x, end[x], q.queue) /\ Once("ACK", q.queue) /\ \A k \in Ids : Apart(stream[x][k], q.queue)
  BY <1>1, <1>2 DEF AnnouncedAt
<1>9. Announcing(e, q, q.out) /\ Acknowledging(x, end[x], q.out) /\ Apart(q.out, q.queue) /\ \A k \in Ids : Apart(stream[x][k], q.out)
  BY <1>3 DEF Announcing, Acknowledging, Apart
<1> QED  BY <1>3, <1>4, <1>6, <1>7, <1>8, <1>9 DEF Announces, x

-----------------------------------------------------------------------------
(* What a flush leaves: channels, resets, and whose ids were taken.        *)
Same(p, q) ==
  /\ q.assoc = p.assoc /\ q.deaf = p.deaf /\ q.resets = p.resets /\ q.request = p.request
  /\ q.control = p.control /\ q.chan = p.chan
  /\ \A i \in Ids : p.table[i] # NoChannel => q.table[i] = p.table[i]
  /\ \A c \in Channels : p.id[c] # NoId => q.id[c] = p.id[c]

(* q has sent the first k items of s, each with the id of its channel.     *)
Sent(q, s, k) ==
  /\ DOMAIN q.out = 1 .. k
  /\ \A l \in 1 .. k :
       /\ q.out[l].chan = s[l].chan /\ q.out[l].kind = s[l].kind
       /\ q.out[l].id \in Ids /\ q.id[q.out[l].chan] = q.out[l].id

LEMMA FlushOneSame ==
  ASSUME NEW e \in Ends, NEW p \in End, NEW q, Flushing(e, p, q), NEW item \in MayQueue(e, p)
  PROVE  /\ Same(q, FlushOne(e, q, item)) /\ FlushOne(e, q, item).id[item.chan] \in Ids
         /\ FlushOne(e, q, item).out = Append(q.out,
              [id |-> FlushOne(e, q, item).id[item.chan], chan |-> item.chan, kind |-> item.kind])
<1> DEFINE c == item.chan
           r == Assign(e, q, c)
           i == FreeId(e, q)
           m == [id |-> r.id[c], chan |-> c, kind |-> item.kind]
           f == FlushOne(e, q, item)
<1>1. /\ Flushing(e, p, r) /\ r.id[c] \in Ids /\ r.out = q.out /\ c \in Channels /\ q \in End /\ r \in End
  BY AssignKeeps DEF Flushing, MayQueue, Item
<1>2. Same(q, r)
  <2>1. CASE q.id[c] # NoId
    BY <2>1 DEF Assign, Same
  <2>2. CASE q.id[c] = NoId
    <3>1. p.id[c] = NoId
      BY <1>1, <2>2 DEF Flushing
    <3>2. c \in Own(e)
      BY <3>1 DEF MayQueue
    <3>3. i \in Ids /\ q.table[i] = NoChannel
      BY <1>1, <2>2, <3>2, FreeIdFound DEF Flushing
    <3>4. r = [q EXCEPT !.table[i] = c, !.id[c] = i]
      BY <2>2 DEF Assign
    <3> HIDE DEF c, i, r
    <3>5. /\ r.assoc = q.assoc /\ r.deaf = q.deaf /\ r.resets = q.resets /\ r.request = q.request
          /\ r.control = q.control /\ r.chan = q.chan
          /\ r.table = [q.table EXCEPT ![i] = c] /\ r.id = [q.id EXCEPT ![c] = i]
      BY <1>1, <3>4 DEF End
    <3>6. q.table \in [Ids -> Channels \cup {NoChannel}] /\ q.id \in [Channels -> SomeId]
      BY <1>1 DEF End
    <3> QED  BY <2>2, <3>3, <3>5, <3>6 DEF Same
  <2> QED  BY <2>1, <2>2
<1>3. f = [r EXCEPT !.out = Append(@, m)]
  BY DEF FlushOne
<1> HIDE DEF f, r, m
<1>5. /\ f.assoc = r.assoc /\ f.deaf = r.deaf /\ f.resets = r.resets /\ f.request = r.request
      /\ f.control = r.control /\ f.chan = r.chan /\ f.table = r.table /\ f.id = r.id
      /\ f.out = Append(r.out, m)
  BY <1>1, <1>3 DEF End
<1>6. Same(q, f)
  BY <1>2, <1>5 DEF Same
<1> QED  BY <1>1, <1>5, <1>6 DEF f, m

LEMMA FlushOneIs ==
  ASSUME NEW e \in Ends, NEW p \in End, NEW q, Flushing(e, p, q), NEW T, NEW s \in Seq(T),
         NEW k \in 0 .. Len(s) - 1, s[k + 1] \in MayQueue(e, p), Sent(q, s, k)
  PROVE  Sent(FlushOne(e, q, s[k + 1]), s, k + 1)
<1> DEFINE item == s[k + 1]
           f == FlushOne(e, q, item)
           m == [id |-> f.id[item.chan], chan |-> item.chan, kind |-> item.kind]
<1>1. item \in MayQueue(e, p) /\ q \in End
  BY DEF Flushing
<1>2. Same(q, f) /\ f.id[item.chan] \in Ids /\ f.out = Append(q.out, m)
  <2> HIDE DEF item
  <2> QED  BY <1>1, FlushOneSame
<1>4. m.chan = s[k + 1].chan /\ m.kind = s[k + 1].kind /\ m.id = f.id[m.chan] /\ m.id \in Ids
  BY <1>2
<1> HIDE DEF f, m
<1>7. k \in Nat /\ k + 1 \in Nat
  OBVIOUS
<1>8. q.out \in Seq(Message) /\ Len(q.out) = k
  BY <1>1, <1>7 DEF End, Sent
<1>9. /\ DOMAIN f.out = 1 .. k + 1 /\ f.out[k + 1] = m
      /\ \A l \in 1 .. k : f.out[l] = q.out[l] /\ f.out[l].chan \in Channels
  <2>2. \A l \in 1 .. k : q.out[l].chan \in Channels
    <3>1. \A l \in 1 .. k : q.out[l] \in Message
      BY <1>7, <1>8
    <3> QED  BY <3>1 DEF Message
  <2> QED  BY <1>2, <1>7, <1>8, <2>2
<1>10. Sent(f, s, k + 1)
  <2>1. ASSUME NEW l \in 1 .. k + 1
        PROVE  /\ f.out[l].chan = s[l].chan /\ f.out[l].kind = s[l].kind
               /\ f.out[l].id \in Ids /\ f.id[f.out[l].chan] = f.out[l].id
    <3>1. CASE l = k + 1
      BY <1>4, <1>9, <3>1
    <3>2. CASE l # k + 1
      <4>1. l \in 1 .. k
        BY <1>7, <3>2
      <4>2. q.id[q.out[l].chan] # NoId
        BY <4>1, IdsAreInts DEF Sent
      <4> QED  BY <1>2, <1>9, <4>1, <4>2 DEF Sent, Same
    <3> QED  BY <3>1, <3>2
  <2> QED  BY <1>9, <2>1 DEF Sent
<1> QED  BY <1>10 DEF f

LEMMA SameSame ==
  ASSUME NEW p \in End, NEW q \in End, NEW r, Same(p, q), Same(q, r)
  PROVE  Same(p, r)
  BY DEF Same

LEMMA FlushIs ==
  ASSUME NEW e \in Ends, NEW p \in End, EndFits(e, p), p.out = <<>>, p.assoc = "established"
  PROVE  /\ Same(p, FlushQueue(e, p)) /\ Sent(FlushQueue(e, p), p.queue, Len(p.queue))
         /\ FlushQueue(e, p).queue = <<>>
  <1> DEFINE b == [p EXCEPT !.queue = <<>>]
             T == MayQueue(e, p)
             S == {q \in End : Flushing(e, p, q) /\ Same(p, q)}
             r == FlushQueue(e, p)
             s == p.queue
             n == Len(s)
             V == [k \in 0 .. n |-> {q \in S : Sent(q, s, k)}]
  <1>0. Once("OPEN", <<>>) /\ p.out \in Seq(MaySend(e, p)) /\ p.out \in Seq(Fresh(p))
    BY DEF Once
  <1>1. b \in End /\ b.queue = <<>>
    <2>1. <<>> \in Seq(Item)
      OBVIOUS
    <2> QED  BY <2>1 DEF End
  <1>2. b.chan = p.chan /\ b.id = p.id /\ b.table = p.table /\ b.out = p.out /\ Same(p, b)
    BY DEF End, Same
  <1> HIDE DEF b
  <1>3. Flushing(e, p, b)
    <2>1. MaySend(e, b) = MaySend(e, p)
      BY <1>2 DEF MaySend
    <2> QED  BY <1>0, <1>1, <1>2, <2>1 DEF Flushing, EndFits, TableFits, IdsFit, OthersFit, Alive
  <1>5. s \in Seq(T) /\ b \in S
    BY <1>1, <1>2, <1>3 DEF EndFits
  <1>6. n \in Nat /\ DOMAIN s = 1 .. n /\ \A k \in 1 .. n : s[k] \in T
    BY <1>5
  <1>4. \A q \in S, item \in T : FlushOne(e, q, item) \in S
    <2> SUFFICES ASSUME NEW q \in S, NEW item \in T
                 PROVE  FlushOne(e, q, item) \in S
      OBVIOUS
    <2> DEFINE f == FlushOne(e, q, item)
    <2>1. Flushing(e, p, f) /\ f \in End
      BY FlushOneKeeps DEF Flushing
    <2>2. Same(q, f)
      BY FlushOneSame
    <2> QED  BY <2>1, <2>2, SameSame
  <1>7. b \in V[0]
    <2>1. Sent(b, s, 0)
      BY <1>2 DEF Sent
    <2> QED  BY <1>5, <1>6, <2>1
  <1>8. ASSUME NEW k \in 0 .. n - 1, NEW q \in S \cap V[k]
        PROVE  FlushOne(e, q, s[k + 1]) \in V[k + 1]
    <2>1. k \in 0 .. n /\ k + 1 \in 0 .. n /\ k + 1 \in 1 .. n /\ s[k + 1] \in T
      BY <1>6
    <2>2. Flushing(e, p, q) /\ Sent(q, s, k)
      BY <2>1
    <2>3. FlushOne(e, q, s[k + 1]) \in S
      BY <1>4, <2>1
    <2>4. Sent(FlushOne(e, q, s[k + 1]), s, k + 1)
      BY <1>5, <2>1, <2>2, FlushOneIs
    <2> HIDE DEF S, s, n
    <2> QED  BY <2>1, <2>3, <2>4
  <1> HIDE DEF S, T, V, s
  <1>9. Flushed(e, b, s) \in S \cap V[Len(s)]
    <2>1. \A k \in 0 .. Len(s) - 1 : \A q \in S \cap V[k] : FlushOne(e, q, s[k + 1]) \in V[k + 1]
      BY <1>8
    <2>2. s \in Seq(T) /\ b \in S /\ b \in V[0]
      BY <1>5, <1>7
    <2> QED  BY <1>4, <2>1, <2>2, FlushIn
  <1>10. r = Flushed(e, b, s)
    BY DEF FlushQueue, Flushed, b, s
  <1>11. r \in S /\ r \in V[n]
    BY <1>9, <1>10
  <1> HIDE DEF r
  <1>12. Flushing(e, p, r) /\ Same(p, r) /\ Sent(r, s, n)
    BY <1>6, <1>11 DEF S, V
  <1> QED  BY <1>12 DEF Flushing, r, s

-----------------------------------------------------------------------------
LEMMA SentSaid ==
  ASSUME NEW K, NEW q, NEW T, NEW s \in Seq(T), Sent(q, s, Len(s))
  PROVE  Said(K, q.out) = Said(K, s) /\ (Once(K, s) => Once(K, q.out))
<1> DEFINE t == q.out
<1>1. DOMAIN s = 1 .. Len(s)
  OBVIOUS
<1>2. DOMAIN t = DOMAIN s /\ \A l \in DOMAIN s : t[l].chan = s[l].chan /\ t[l].kind = s[l].kind
  BY <1>1 DEF Sent
<1> HIDE DEF t
<1>3. {l \in DOMAIN t : t[l].kind = K} = {l \in DOMAIN s : s[l].kind = K}
  BY <1>2
<1>4. Said(K, t) = Said(K, s)
  BY <1>2, <1>3 DEF Said
<1>5. Once(K, s) => Once(K, t)
  BY <1>2 DEF Once
<1> QED  BY <1>4, <1>5 DEF t

LEMMA FlushAnnounces ==
  ASSUME NEW e \in Ends, NEW p \in End, EndFits(e, p), p.out = <<>>, NEW i, Announces(e, p, i)
  PROVE  Announces(e, FlushQueue(e, p), i)
<1>1. CASE p.assoc # "established"
  BY <1>1 DEF FlushQueue
<1>2. CASE p.assoc = "established"
  <2> DEFINE q == FlushQueue(e, p)
             s == p.queue
             x == Other(e)
  <2>1. Same(p, q) /\ Sent(q, s, Len(s)) /\ q.queue = <<>> /\ s \in Seq(Item)
    BY <1>2, FlushIs DEF End
  <2> HIDE DEF q, s, x
  <2>2. Said("OPEN", q.out) = Said("OPEN", s)
    BY <2>1, SentSaid
  <2>3. Said("ACK", q.out) = Said("ACK", s) /\ (Once("ACK", s) => Once("ACK", q.out))
    BY <2>1, SentSaid
  <2>4. /\ Said("OPEN", q.queue) = {} /\ Said("ACK", q.queue) = {} /\ Once("ACK", q.queue)
    BY <2>1, SaidEmpty
  <2>5. q.chan = p.chan
    BY <2>1 DEF Same
  <2>6. \A k \in DOMAIN q.out : q.out[k].kind = "ACK" => q.id[q.out[k].chan] = q.out[k].id
    BY <2>1 DEF Sent
  <2>7. Announcing(e, q, q.out) /\ Acknowledging(x, end[x], q.out) /\ Once("ACK", q.out)
        /\ \A k \in Ids : Apart(stream[x][k], q.out)
    BY <2>2, <2>3, <2>5 DEF Announces, Announcing, Acknowledging, Apart, s, x
  <2>8. Announcing(e, q, q.queue) /\ Acknowledging(x, end[x], q.queue) /\ Apart(q.out, q.queue)
        /\ \A k \in Ids : Apart(stream[x][k], q.queue)
    BY <2>4 DEF Announcing, Acknowledging, Apart
  <2>9. /\ \A k \in Ids : Announcing(e, q, stream[x][k])
        /\ Acknowledging(e, q, end[x].queue) /\ \A k \in Ids : Acknowledging(e, q, Left(e, i, k))
    BY <2>5 DEF Announces, Announcing, Acknowledging, x
  <2> QED  BY <2>4, <2>6, <2>7, <2>8, <2>9 DEF Announces, q, x
<1> QED  BY <1>1, <1>2

LEMMA FlushProceeds ==
  ASSUME NEW e \in Ends, NEW p \in End, EndFits(e, p), p.out = <<>>, p.control = {}, Proceeds(e, p)
  PROVE  Proceeds(e, FlushQueue(e, p))
<1>1. CASE p.assoc # "established"
  BY <1>1 DEF FlushQueue
<1>2. CASE p.assoc = "established"
  <2> DEFINE q == FlushQueue(e, p)
  <2>1. Same(p, q)
    BY <1>2, FlushIs
  <2> HIDE DEF q
  <2>2. Pending(q) = Pending(p) /\ Orderly(e, p)
    BY <2>1 DEF Pending, Same, Proceeds
  <2>3. \A j : Resettable(p, j) => Resettable(q, j)
    BY <2>1 DEF Resettable, Same
  <2>4. Orderly(e, q)
    BY <1>2, <2>1, <2>2, <2>3 DEF Orderly, Same
  <2>5. \A c \in Channels : Past(q, c) <=> Past(p, c)
    BY <2>1 DEF Past, Same
  <2>6. \A c \in Channels : end[e].id[c] # NoId => q.id[c] = end[e].id[c]
    BY <2>1 DEF Proceeds, Same
  <2> QED  BY <2>1, <2>4, <2>5, <2>6 DEF Proceeds, Same, q
<1> QED  BY <1>1, <1>2

-----------------------------------------------------------------------------
(* What of an end is not about its channels and their messages.            *)
Still(p, q) ==
  /\ q.deaf = p.deaf /\ q.resets = p.resets /\ q.request = p.request
  /\ q.control = p.control /\ q.out = p.out

(* What creating a channel makes of end e.                                 *)
CreatedNegotiated(e, c, q) ==
  /\ EndGoesOn(e, q, NoId, {})
  /\ Still(end[e], q) /\ q.assoc = end[e].assoc /\ q.id = end[e].id /\ q.queue = end[e].queue
  /\ q.table = [end[e].table EXCEPT ![AgreedId[c]] = c]
  /\ q.chan = [end[e].chan EXCEPT ![c] =
                 IF end[e].assoc = "established" THEN "open" ELSE "connecting"]

CreatedOwn(e, c, q) ==
  /\ EndGoesOn(e, q, NoId, {})
  /\ Still(end[e], q) /\ q.assoc = end[e].assoc /\ q.id = end[e].id /\ q.table = end[e].table
  /\ q.queue = Append(end[e].queue, [chan |-> c, kind |-> "OPEN"])
  /\ q.chan = [end[e].chan EXCEPT ![c] = "connecting"]

LEMMA NegotiatedIs ==
  ASSUME ChannelInv, NEW e \in Ends, NEW c \in Negotiated, Create(e, c)
  PROVE  /\ c \in Channels /\ AgreedId[c] \in Ids /\ end[e].chan[c] = "none"
         /\ end[e].table[AgreedId[c]] = NoChannel
         /\ \E q \in End : CreatedNegotiated(e, c, q)
<1> DEFINE p == end[e]
           i == AgreedId[c]
           s == IF p.assoc = "established" THEN "open" ELSE "connecting"
           chan == [p.chan EXCEPT ![c] = s]
           table == [p.table EXCEPT ![i] = c]
           q == [p EXCEPT !.chan = chan, !.table = table]
<1> USE EndIs
<1>1. c \in Channels /\ i \in Ids /\ p.chan[c] = "none" /\ p.table[i] = NoChannel
  <2>1. c \in Channels /\ i \in Ids
    BY ChannelAssumption DEF ChannelAssumption
  <2>2. [p EXCEPT !.chan[c] = "connecting"].table = p.table
    BY DEF End
  <2> QED  BY <2>1, <2>2 DEF Create
<1> HIDE DEF i
<1>2. EndGoesOn(e, q, NoId, {})
  <2> DEFINE u == [p EXCEPT !.chan[c] = "connecting"]
             v == [u EXCEPT !.table[i] = c, !.chan[c] = IF u.assoc = "established" THEN "open" ELSE @]
  <2>1. EndGoesOn(e, v, NoId, {})
    BY DEF Create, i
  <2>2. /\ u \in End /\ u.assoc = p.assoc /\ u.table = p.table
        /\ u.chan = [p.chan EXCEPT ![c] = "connecting"]
    <3>1. [p.chan EXCEPT ![c] = "connecting"] \in [Channels -> States]
      BY <1>1 DEF States
    <3> HIDE DEF Message, Chunk, Item, SomeId, States
    <3> QED  BY ZenonT(60), <3>1 DEF End
  <2>3. u = [p EXCEPT !.chan = [p.chan EXCEPT ![c] = "connecting"]]
    BY DEF End
  <2>4. v = [u EXCEPT !.table = table, !.chan = chan]
    <3> HIDE DEF u
    <3>1. v = [u EXCEPT !.table = [u.table EXCEPT ![i] = c],
                        !.chan = [u.chan EXCEPT ![c] = IF u.assoc = "established" THEN "open" ELSE u.chan[c]]]
      BY <2>2 DEF End
    <3>2. [u.chan EXCEPT ![c] = IF u.assoc = "established" THEN "open" ELSE u.chan[c]] = chan
      BY <1>1, <2>2
    <3> HIDE DEF v, chan
    <3> QED  BY <2>2, <3>1, <3>2
  <2>5. v = q
    <3> HIDE DEF u, v, chan, table
    <3> QED  BY <2>3, <2>4 DEF End
  <2> QED  BY <2>1, <2>5
<1>3. chan \in [Channels -> States] /\ table \in [Ids -> Channels \cup {NoChannel}]
  BY <1>1 DEF States
<1>4. q \in End /\ q.chan = chan /\ q.table = table /\ q.id = p.id /\ q.queue = p.queue
  <2> HIDE DEF Message, Chunk, Item, SomeId, States, chan, table
  <2> QED  BY ZenonT(60), <1>3 DEF End
<1>5. q.assoc = p.assoc /\ Still(p, q)
  <2> HIDE DEF Message, Chunk, Item, SomeId, States, chan, table
  <2> QED  BY DEF End, Still
<1> HIDE DEF q
<1> QED  BY <1>1, <1>2, <1>4, <1>5 DEF i, CreatedNegotiated

LEMMA OwnIs ==
  ASSUME ChannelInv, NEW e \in Ends, NEW c \in Channels \ Negotiated, Create(e, c)
  PROVE  /\ c \in Own(e) /\ end[e].chan[c] = "none"
         /\ \E q \in End : CreatedOwn(e, c, q)
<1> DEFINE p == end[e]
           chan == [p.chan EXCEPT ![c] = "connecting"]
           item == [chan |-> c, kind |-> "OPEN"]
           queue == Append(p.queue, item)
           tasks == p.tasks \cup {"flush"}
           q == [p EXCEPT !.chan = chan, !.tasks = tasks, !.queue = queue]
<1> USE EndIs
<1>1. c \in Own(e) /\ p.chan[c] = "none"
  BY DEF Create, Own
<1>2. EndGoesOn(e, q, NoId, {})
  <2> DEFINE u == [p EXCEPT !.chan[c] = "connecting"]
             v == [u EXCEPT !.tasks = @ \cup {"flush"}, !.queue = Append(@, item)]
  <2>1. EndGoesOn(e, v, NoId, {})
    BY DEF Create
  <2>2. u = [p EXCEPT !.chan = chan]
    BY DEF End
  <2>3. v = q
    <3> HIDE DEF u, item, chan
    <3>1. u.tasks = p.tasks /\ u.queue = p.queue /\ u.chan = chan
      BY <2>2 DEF End
    <3> QED  BY <2>2, <3>1 DEF End
  <2> QED  BY <2>1, <2>3
<1>3. /\ chan \in [Channels -> States] /\ item \in Item /\ queue \in Seq(Item)
      /\ tasks \in SUBSET {"flush", "reconfig"}
  <2>1. item \in Item /\ chan \in [Channels -> States]
    BY DEF Item, States
  <2> HIDE DEF item, Item
  <2>2. queue \in Seq(Item)
    BY <2>1
  <2> QED  BY <2>1, <2>2
<1>4. q \in End /\ q.chan = chan /\ q.table = p.table /\ q.id = p.id /\ q.queue = queue
  <2> HIDE DEF Message, Chunk, Item, SomeId, States, chan, queue, tasks
  <2> QED  BY ZenonT(60), <1>3 DEF End
<1>5. q.assoc = p.assoc /\ Still(p, q)
  <2> HIDE DEF Message, Chunk, Item, SomeId, States, chan, queue, tasks
  <2> QED  BY DEF End, Still
<1> HIDE DEF q
<1> QED  BY <1>1, <1>2, <1>4, <1>5 DEF CreatedOwn

LEMMA UpIs ==
  ASSUME ChannelInv, NEW e \in Ends, Up(e)
  PROVE  /\ end[e].assoc = "connecting" /\ spoiled' = spoiled
         /\ \E q \in End :
              /\ EndGoesOn(e, q, NoId, {})
              /\ Still(end[e], q) /\ q.assoc = "established" /\ q.id = end[e].id
              /\ q.table = end[e].table /\ q.queue = end[e].queue
              /\ q.chan = [c \in Channels |->
                   IF c \in Negotiated /\ c \in Range(end[e].table) THEN "open" ELSE end[e].chan[c]]
<1> DEFINE p == end[e]
           chan == [c \in Channels |->
                      IF c \in Negotiated /\ c \in Range(p.table) THEN "open" ELSE p.chan[c]]
           tasks == p.tasks \cup {"flush"}
           q == [p EXCEPT !.assoc = "established", !.tasks = tasks, !.chan = chan]
<1> USE EndIs
<1>1. EndGoesOn(e, q, NoId, {}) /\ spoiled' = spoiled /\ p.assoc = "connecting"
  BY DEF Up
<1>2. chan \in [Channels -> States] /\ tasks \in SUBSET {"flush", "reconfig"}
  BY DEF States
<1>3. /\ q \in End /\ q.chan = chan /\ q.table = p.table /\ q.id = p.id /\ q.queue = p.queue
      /\ q.assoc = "established"
  <2> HIDE DEF Message, Chunk, Item, SomeId, States, chan, tasks
  <2> QED  BY ZenonT(60), <1>2 DEF End
<1>4. Still(p, q)
  <2> HIDE DEF Message, Chunk, Item, SomeId, States, chan, tasks
  <2> QED  BY DEF End, Still
<1> HIDE DEF q
<1> QED  BY <1>1, <1>3, <1>4

-----------------------------------------------------------------------------

LEMMA QuietCalm ==
  ASSUME ChannelInv, Calm, NEW e \in Ends, NEW q \in End, Proceeds(e, q),
         q.queue = end[e].queue, q.out = <<>>,
         \A c \in Own(e) : end[e].chan[c] = "connecting" => q.chan[c] = "connecting",
         NEW m, EndGoesOn(e, q, NoId, m)
  PROVE  Calm'
<1>1. Announces(e, q, NoId)
  BY QuietAnnounces
<1> QED  BY <1>1, CalmSteps, IdsAreInts

LEMMA StaysOrderly ==
  ASSUME ChannelInv, Calm, NEW e \in Ends, NEW q,
         q.deaf = end[e].deaf, q.resets = end[e].resets, q.request = end[e].request,
         q.control = {}, q.assoc # "closed",
         \A i \in Ids : end[e].table[i] # NoChannel => q.table[i] = end[e].table[i],
         \A c \in Channels : end[e].chan[c] = "closing" <=> q.chan[c] = "closing",
         \A c \in Channels : q.chan[c] = "open" => q.id[c] # NoId,
         \A c \in Channels : Past(end[e], c) => Past(q, c),
         \A c \in Channels : end[e].id[c] # NoId => q.id[c] = end[e].id[c],
         q.assoc = "connecting" => end[e].assoc = "connecting" /\ \A c \in Own(e) : q.id[c] = NoId
  PROVE  Proceeds(e, q)
<1> DEFINE p == end[e]
<1>1. Orderly(e, p)
  BY DEF Calm
<1>2. Pending(q) = Pending(p)
  BY DEF Pending
<1>3. p.table \in [Ids -> Channels \cup {NoChannel}]
  BY EndIs
<1>4. \A j : Resettable(p, j) => Resettable(q, j)
  BY <1>3 DEF Resettable
<1>5. Orderly(e, q)
  BY <1>1, <1>2, <1>4 DEF Orderly
<1>6. \A c \in Channels : q.chan[c] = "closing" => Past(end[Other(e)], c)
  BY DEF Calm, ClosingsFit
<1> QED  BY <1>5, <1>6 DEF Proceeds

LEMMA NegotiatedCalm ==
  ASSUME ChannelInv, Calm, NEW e \in Ends, NEW c \in Negotiated, Create(e, c)
  PROVE  Calm'
<1> DEFINE p == end[e]
           i == AgreedId[c]
<1> USE EndIs
<1>1. c \in Channels /\ i \in Ids /\ p.chan[c] = "none" /\ p.table[i] = NoChannel
  BY NegotiatedIs
<1>a. PICK q \in End : CreatedNegotiated(e, c, q)
  BY NegotiatedIs
<1>2. /\ EndGoesOn(e, q, NoId, {})
      /\ Still(p, q) /\ q.assoc = p.assoc /\ q.id = p.id /\ q.queue = p.queue
      /\ q.table = [p.table EXCEPT ![i] = c]
      /\ q.chan = [p.chan EXCEPT ![c] = IF p.assoc = "established" THEN "open" ELSE "connecting"]
  BY <1>a DEF CreatedNegotiated
<1> HIDE DEF i
<1>3. /\ q.chan[c] \in {"open", "connecting"} /\ \A d \in Channels : d # c => q.chan[d] = p.chan[d]
      /\ \A j \in Ids : p.table[j] # NoChannel => q.table[j] = p.table[j]
  BY <1>1, <1>2
<1>4. p.id[c] # NoId /\ p.control = {} /\ p.out = <<>>
  BY ChannelAssumption, IdsAreInts DEF EndFits, IdsFit, ChannelAssumption, ChannelInv, Types
<1>5. Orderly(e, p)
  BY DEF Calm
<1>6. Proceeds(e, q)
  BY <1>1, <1>2, <1>3, <1>4, <1>5, StaysOrderly DEF Still, Orderly, Past
<1>7. \A d \in Own(e) : d \in Channels /\ d # c
  BY DEF Own
<1> QED  BY <1>2, <1>3, <1>4, <1>6, <1>7, QuietCalm DEF Still

LEMMA UpCalm ==
  ASSUME ChannelInv, Calm, NEW e \in Ends, Up(e)
  PROVE  Calm'
<1> DEFINE p == end[e]
<1> USE EndIs
<1>1. p.assoc = "connecting"
  BY UpIs
<1>2. PICK q \in End :
        /\ EndGoesOn(e, q, NoId, {})
        /\ Still(p, q) /\ q.assoc = "established" /\ q.id = p.id
        /\ q.table = p.table /\ q.queue = p.queue
        /\ q.chan = [c \in Channels |->
              IF c \in Negotiated /\ c \in Range(p.table) THEN "open" ELSE p.chan[c]]
  BY UpIs
<1>3. Orderly(e, p) /\ p.control = {} /\ p.out = <<>>
  BY DEF Calm, ChannelInv, Types
<1>4. \A c \in Channels : p.chan[c] # "closing" /\ q.chan[c] # "closing"
  BY <1>1, <1>2, <1>3 DEF Orderly
<1>5. \A c \in Channels : Past(p, c) => Past(q, c)
  BY <1>2 DEF Past
<1>6. \A c \in Channels : q.chan[c] = "open" => q.id[c] # NoId
  <2>1. \A c \in Negotiated : p.id[c] # NoId
    BY ChannelAssumption, IdsAreInts DEF EndFits, IdsFit, ChannelAssumption
  <2> QED  BY <1>2, <1>3, <2>1 DEF Orderly
<1>7. Proceeds(e, q)
  BY <1>2, <1>3, <1>4, <1>5, <1>6, StaysOrderly DEF Still, Orderly
<1>8. \A c \in Own(e) : p.chan[c] = "connecting" => q.chan[c] = "connecting"
  BY <1>2 DEF Own
<1> QED  BY <1>2, <1>3, <1>7, <1>8, QuietCalm DEF Still

-----------------------------------------------------------------------------
(* An end whose queue has changed, and that sends nothing.                 *)
LEMMA QueueAnnounces ==
  ASSUME ChannelInv, Calm, NEW e \in Ends, NEW q, q.out = <<>>, Announcing(e, q, q.queue),
         Said("ACK", q.queue) \subseteq Said("ACK", end[e].queue), Once("ACK", q.queue),
         \A k \in Ids : Announcing(e, q, stream[Other(e)][k]),
         Acknowledging(e, q, end[Other(e)].queue),
         \A k \in Ids : Acknowledging(e, q, stream[e][k])
  PROVE  Announces(e, q, NoId)
<1> DEFINE x == Other(e)
<1>1. x \in Ends /\ Other(x) = e
  BY Others
<1>2. AnnouncedAt(e) /\ AnnouncedAt(x)
  BY <1>1 DEF Calm
<1>3. /\ \A K \in {"OPEN", "ACK"} : Said(K, q.out) = {} /\ Once(K, q.out)
  BY SaidEmpty
<1>4. DOMAIN q.out = {}
  OBVIOUS
<1>5. \A k \in Ids : Left(e, NoId, k) = stream[e][k]
  BY IdsAreInts DEF Left
<1> HIDE DEF x
<1>8. Acknowledging(x, end[x], q.queue) /\ \A k \in Ids : Apart(stream[x][k], q.queue)
  BY <1>1, <1>2 DEF AnnouncedAt, Acknowledging, Apart
<1>9. Announcing(e, q, q.out) /\ Acknowledging(x, end[x], q.out) /\ Apart(q.out, q.queue) /\ \A k \in Ids : Apart(stream[x][k], q.out)
  BY <1>3 DEF Announcing, Acknowledging, Apart
<1> QED  BY <1>3, <1>4, <1>5, <1>8, <1>9 DEF Announces, x

LEMMA OwnCalm ==
  ASSUME ChannelInv, Calm, NEW e \in Ends, NEW c \in Channels \ Negotiated, Create(e, c)
  PROVE  Calm'
<1> DEFINE p == end[e]
           item == [chan |-> c, kind |-> "OPEN"]
<1> USE EndIs
<1>1. c \in Own(e) /\ p.chan[c] = "none"
  BY OwnIs
<1>a. PICK q \in End : CreatedOwn(e, c, q)
  BY OwnIs
<1>2. /\ EndGoesOn(e, q, NoId, {})
      /\ Still(p, q) /\ q.assoc = p.assoc /\ q.id = p.id /\ q.queue = Append(p.queue, item)
      /\ q.table = p.table /\ q.chan = [p.chan EXCEPT ![c] = "connecting"]
  BY <1>a DEF CreatedOwn
<1>3. /\ q.chan[c] = "connecting" /\ \A d \in Channels : d # c => q.chan[d] = p.chan[d]
      /\ q.chan[c] = "connecting"
  BY <1>2
<1>4. p.control = {} /\ p.out = <<>> /\ Orderly(e, p)
  BY DEF ChannelInv, Types, Calm
<1>5. Proceeds(e, q)
  BY <1>1, <1>2, <1>3, <1>4, StaysOrderly DEF Still, Orderly, Past
<1>6. \A d \in Own(e) : p.chan[d] = "connecting" => q.chan[d] = "connecting"
  BY <1>3 DEF Own
<1>7. AnnouncedAt(e)
  BY DEF Calm
<1>8. /\ \A k \in Ids : Announcing(e, q, stream[Other(e)][k])
      /\ Acknowledging(e, q, end[Other(e)].queue)
      /\ \A k \in Ids : Acknowledging(e, q, stream[e][k])
      /\ Announcing(e, q, p.queue)
  BY <1>6, <1>7, SaidAreOwn DEF AnnouncedAt, Announcing, Acknowledging
<1>9. /\ Said("OPEN", q.queue) = Said("OPEN", p.queue) \cup {c}
      /\ Said("ACK", q.queue) = Said("ACK", p.queue) /\ Once("ACK", q.queue)
  <2> DEFINE s == p.queue
  <2>1. item.kind = "OPEN" /\ item.chan = c /\ Once("ACK", s)
    BY <1>7 DEF AnnouncedAt
  <2>5. item \in Item /\ s \in Seq(Item)
    BY DEF Item
  <2> HIDE DEF s, item
  <2>2. Said("OPEN", Append(s, item)) = Said("OPEN", s) \cup (IF item.kind = "OPEN" THEN {item.chan} ELSE {})
    BY <2>5, SaidMore
  <2>3. Said("ACK", Append(s, item)) = Said("ACK", s) \cup (IF item.kind = "ACK" THEN {item.chan} ELSE {})
    BY <2>5, SaidMore
  <2>4. Once("ACK", Append(s, item))
    <3>1. item.kind = "ACK" => item.chan \notin Said("ACK", s)
      BY <2>1
    <3> QED  BY <2>1, <2>5, <3>1, SaidMore
  <2> QED  BY <1>2, <2>1, <2>2, <2>3, <2>4 DEF s
<1>10. Announcing(e, q, q.queue)
  BY <1>3, <1>8, <1>9 DEF Announcing
<1>11. Announces(e, q, NoId)
  BY <1>2, <1>4, <1>8, <1>9, <1>10, QueueAnnounces DEF Still
<1> QED  BY <1>2, <1>5, <1>11, CalmSteps, IdsAreInts

-----------------------------------------------------------------------------
(* Only an open channel is changed, to closing, and its id put last.       *)
GoneOn(p, q) ==
  /\ q \in End /\ q.assoc = p.assoc /\ q.deaf = p.deaf /\ q.request = p.request
  /\ q.table = p.table /\ q.id = p.id /\ q.queue = p.queue /\ q.out = p.out
  /\ q.control = p.control
  /\ \A d \in Channels : q.chan[d] = p.chan[d] \/ (p.chan[d] = "open" /\ q.chan[d] = "closing")

LEMMA ClosingIs ==
  ASSUME NEW p \in End, p.assoc = "established", NEW c \in Channels,
         p.chan[c] \notin {"closing", "closed"}, NEW r, r = CloseChannel(p, c)
  PROVE  /\ r \in End /\ r.assoc = p.assoc /\ r.deaf = p.deaf /\ r.request = p.request
         /\ r.table = p.table /\ r.id = p.id /\ r.queue = p.queue /\ r.out = p.out
         /\ r.control = p.control
         /\ r.chan = [p.chan EXCEPT ![c] = "closing"] /\ r.resets = Append(p.resets, p.id[c])
<1> DEFINE all == Append(p.resets, p.id[c])
           new == [p.chan EXCEPT ![c] = "closing"]
           q == [p EXCEPT !.chan[c] = "closing", !.resets = Append(@, p.id[c])]
<1>0. /\ p.chan \in [Channels -> States] /\ p.id \in [Channels -> SomeId]
      /\ p.resets \in Seq(SomeId) /\ p.tasks \in SUBSET {"flush", "reconfig"}
  BY DEF End
<1>1. all \in Seq(SomeId) /\ new \in [Channels -> States]
  BY <1>0 DEF States
<1>2. q = [p EXCEPT !.chan = new, !.resets = all]
  BY DEF End
<1>3. /\ q \in End /\ q.chan = new /\ q.id = p.id /\ q.table = p.table /\ q.queue = p.queue
      /\ q.out = p.out /\ q.control = p.control
  <2> HIDE DEF q, new, all, Message, Chunk, Item, SomeId, States
  <2> QED  BY <1>1, <1>2 DEF End
<1>4. q.assoc = p.assoc /\ q.deaf = p.deaf /\ q.request = p.request /\ q.resets = all
  <2> HIDE DEF q, new, all, Message, Chunk, Item, SomeId, States
  <2> QED  BY <1>2 DEF End
<1> HIDE DEF q, new, all
<1>5. r = q \/ r = [q EXCEPT !.tasks = @ \cup {"reconfig"}]
  BY DEF CloseChannel, q
<1>6. q.tasks \cup {"reconfig"} \in SUBSET {"flush", "reconfig"}
  BY <1>3 DEF End
<1>7. CASE r = q
  BY <1>3, <1>4, <1>7 DEF new, all
<1>8. CASE r = [q EXCEPT !.tasks = @ \cup {"reconfig"}]
  <2>1. /\ r \in End /\ r.chan = new /\ r.id = p.id /\ r.table = p.table /\ r.queue = p.queue
        /\ r.out = p.out /\ r.control = p.control
    <3> HIDE DEF Message, Chunk, Item, SomeId, States
    <3> QED  BY <1>3, <1>6, <1>8 DEF End
  <2>2. r.assoc = p.assoc /\ r.deaf = p.deaf /\ r.request = p.request /\ r.resets = all
    <3> HIDE DEF Message, Chunk, Item, SomeId, States
    <3> QED  BY <1>3, <1>4, <1>8 DEF End
  <2> QED  BY <2>1, <2>2 DEF new, all
<1> QED  BY <1>5, <1>7, <1>8

LEMMA EmptyJoined ==
  ASSUME NEW S, NEW s \in Seq(S)
  PROVE  <<>> \o s = s /\ s \o <<>> = s
  OBVIOUS

LEMMA AppendLast ==
  ASSUME NEW S, NEW a \in Seq(S), NEW b \in Seq(S), NEW i \in S
  PROVE  a \o b \in Seq(S) /\ a \o Append(b, i) = Append(a \o b, i)
  OBVIOUS

LEMMA ClosingOrderly ==
  ASSUME NEW e \in Ends, NEW p \in End, EndFits(e, p), Orderly(e, p), p.assoc = "established",
         NEW c \in Channels, p.chan[c] \in {"open", "closing", "closed"},
         NEW q, q = CloseChannel(p, c)
  PROVE  /\ Orderly(e, q) /\ GoneOn(p, q)
         /\ \A d \in Channels : d # c => q.chan[d] = p.chan[d]
<1>0. /\ p.chan \in [Channels -> States] /\ p.id \in [Channels -> SomeId]
      /\ p.table \in [Ids -> Channels \cup {NoChannel}]
      /\ p.resets \in Seq(SomeId) /\ p.request \in Seq(SomeId)
  BY DEF End
<1>1. CASE p.chan[c] # "open"
  BY <1>1 DEF CloseChannel, GoneOn
<1>2. CASE p.chan[c] = "open"
  <2>1. /\ q \in End /\ q.assoc = p.assoc /\ q.deaf = p.deaf /\ q.request = p.request
        /\ q.table = p.table /\ q.id = p.id /\ q.queue = p.queue /\ q.out = p.out
        /\ q.control = p.control
        /\ q.chan = [p.chan EXCEPT ![c] = "closing"] /\ q.resets = Append(p.resets, p.id[c])
    BY <1>2, ClosingIs
  <2>2. q.chan[c] = "closing" /\ \A d \in Channels : d # c => q.chan[d] = p.chan[d]
    BY <1>0, <2>1
  <2>3. GoneOn(p, q)
    BY <1>2, <2>1, <2>2 DEF GoneOn
  <2> DEFINE i == p.id[c]
             s == Pending(p)
             t == Pending(q)
  <2>4. i \in Ids /\ p.table[i] = c
    <3>1. p.id[c] # NoId
      BY <1>2 DEF Orderly
    <3> QED  BY <1>0, <1>2, <3>1 DEF SomeId, EndFits, TableFits, Alive
  <2>5. s \in Seq(SomeId) /\ t = Append(s, i)
    <3> DEFINE a == p.request
               b == p.resets
    <3>1. a \in Seq(SomeId) /\ b \in Seq(SomeId) /\ i \in SomeId
      BY <1>0, <2>4 DEF SomeId
    <3>2. s = a \o b /\ t = a \o Append(b, i)
      BY <2>1 DEF Pending
    <3> HIDE DEF a, b, i, s, t
    <3> QED  BY <3>1, <3>2, AppendLast
  <2>6. \A j : Resettable(p, j) => Resettable(q, j) /\ j # i
    BY <1>0, <1>2, <2>1, <2>2, <2>4 DEF Resettable
  <2>7. Resettable(q, i)
    BY <2>1, <2>2, <2>4, IdsAreInts DEF Resettable
  <2>8. \A k \in DOMAIN s : Resettable(p, s[k])
    BY DEF Orderly
  <2>9. \A k, l \in DOMAIN s : s[k] = s[l] => k = l
    BY DEF Orderly
  <2> HIDE DEF s, t, i
  <2>10. \A k \in DOMAIN t : \/ k \in DOMAIN s /\ t[k] = s[k]
                             \/ k = Len(s) + 1 /\ t[k] = i
    BY <2>5
  <2>11. \A k \in DOMAIN t : Resettable(q, t[k])
    BY <2>6, <2>7, <2>8, <2>10
  <2>12. \A k, l \in DOMAIN t : t[k] = t[l] => k = l
    BY <2>6, <2>8, <2>9, <2>10
  <2>13. \A d \in Channels : q.chan[d] \in {"open", "closing"} => q.id[d] # NoId
    BY <1>2, <2>1, <2>2 DEF Orderly
  <2> QED  BY <2>1, <2>2, <2>3, <2>11, <2>12, <2>13 DEF Orderly, t
<1> QED  BY <1>0, <1>1, <1>2

(* Channel c is given up, with what waits in the queue for it.             *)
GivenUp(p, c, r) ==
  /\ r.assoc = p.assoc /\ Still(p, r) /\ r.id = p.id
  /\ r.queue = Keep(p.queue, {item \in Range(p.queue) : item.chan # c})
  /\ r.chan = [p.chan EXCEPT ![c] = "closed"]

LEMMA GivenUpIs ==
  ASSUME NEW p \in End, p.assoc # "established", NEW c \in Channels,
         p.chan[c] \notin {"closing", "closed"}
  PROVE  GivenUp(p, c, CloseChannel(p, c))
<1> DEFINE r == CloseChannel(p, c)
           kept == Keep(p.queue, {item \in Range(p.queue) : item.chan # c})
           table == [i \in Ids |-> IF p.table[i] = c THEN NoChannel ELSE p.table[i]]
           chan == [p.chan EXCEPT ![c] = "closed"]
<1>1. r = [p EXCEPT !.chan = chan, !.queue = kept, !.table = table]
  BY DEF CloseChannel, End
<1> HIDE DEF r, chan, kept, table, Message, Chunk, Item, SomeId, States
<1>2. r.assoc = p.assoc /\ Still(p, r) /\ r.id = p.id
  BY <1>1 DEF End, Still
<1>3. r.queue = kept /\ r.chan = chan
  BY <1>1 DEF End
<1> QED  BY <1>2, <1>3 DEF kept, chan, r, GivenUp

-----------------------------------------------------------------------------
(* Nobody has been told of the channels of an end that is not established. *)
LEMMA NothingSaid ==
  ASSUME ChannelInv, Calm, NEW e \in Ends, end[e].assoc = "connecting"
  PROVE  /\ \A k \in Ids : Said("OPEN", stream[Other(e)][k]) = {} /\ Said("ACK", stream[e][k]) = {}
         /\ Said("ACK", end[Other(e)].queue) = {}
<1> DEFINE x == Other(e)
<1>1. x \in Ends /\ Other(x) = e
  BY Others
<1>2. \A c \in Own(e) : end[e].id[c] = NoId
  BY DEF Calm, Orderly
<1>3. \A c \in Own(e) : end[x].id[c] = NoId
  BY <1>1, <1>2 DEF ChannelInv, SameIds
<1>4. AnnouncedAt(e)
  BY DEF Calm
<1>5. ASSUME NEW k \in Ids
      PROVE  Said("OPEN", stream[x][k]) = {} /\ Said("ACK", stream[e][k]) = {}
  <2>1. stream[x][k] \in Seq({m \in MaySend(e, end[e]) : m.id = k})
    BY <1>1 DEF ChannelInv, StreamsFit
  <2>2. \A m \in MaySend(e, end[e]) : m.kind # "OPEN"
    BY <1>2, IdsAreInts DEF MaySend, Message
  <2>3. Said("OPEN", stream[x][k]) = {}
    BY <2>1, <2>2 DEF Said
  <2>4. \A c \in Said("ACK", stream[e][k]) : c \in Own(e) /\ end[x].id[c] = k
    BY <1>4 DEF AnnouncedAt, Acknowledging
  <2> QED  BY <1>3, <2>3, <2>4, IdsAreInts
<1>6. Said("ACK", end[x].queue) = {}
  <2>1. Said("ACK", end[x].queue) \subseteq Own(e)
    BY <1>4 DEF AnnouncedAt, Acknowledging
  <2>2. end[x].queue \in Seq(MayQueue(x, end[x]))
    BY <1>1 DEF ChannelInv, EndFits
  <2>3. \A m \in MayQueue(x, end[x]) : m.kind = "ACK" => end[x].id[m.chan] # NoId
    BY DEF MayQueue
  <2>4. \A c \in Said("ACK", end[x].queue) : end[x].id[c] # NoId
    BY <2>2, <2>3 DEF Said
  <2> QED  BY <1>3, <2>1, <2>4
<1> QED  BY <1>5, <1>6

LEMMA CloseCalm ==
  ASSUME ChannelInv, Calm, NEW e \in Ends, NEW c \in Channels, Close(e, c), spoiled' = {}
  PROVE  Calm'
<1> DEFINE p == end[e]
           x == Other(e)
           q == CloseChannel(p, c)
<1> USE EndIs
<1>1. /\ p.chan[c] \in {"connecting", "open"} /\ EndGoesOn(e, q, NoId, {})
      /\ p.assoc = "established" => ~ ClosedEarly(e, c)
  BY DEF Close, Spoils
<1>2. p.control = {} /\ p.out = <<>> /\ Orderly(e, p) /\ x \in Ends
  BY Others DEF ChannelInv, Types, Calm
<1>3. q \in End
  BY <1>1, CloseQuiet DEF Quiet
<1> HIDE DEF q
<1>4. CASE p.assoc = "established"
  <2>1. p.chan[c] = "open" /\ Past(end[x], c)
    BY <1>1, <1>4 DEF ClosedEarly, Past
  <2>2. /\ Orderly(e, q) /\ GoneOn(p, q)
        /\ \A d \in Channels : d # c => q.chan[d] = p.chan[d]
    BY <1>2, <1>4, <2>1, ClosingOrderly DEF q
  <2>3. Proceeds(e, q)
    <3>1. \A d \in Channels : Past(p, d) => Past(q, d)
      BY <2>2 DEF GoneOn, Past
    <3>2. \A d \in Channels : q.chan[d] = "closing" => Past(end[x], d)
      BY <2>1, <2>2 DEF Calm, ClosingsFit
    <3> QED  BY <1>2, <2>2, <3>1, <3>2 DEF Proceeds, GoneOn
  <2>4. \A d \in Own(e) : p.chan[d] = "connecting" => q.chan[d] = "connecting"
    BY <2>2 DEF GoneOn, Own
  <2> QED  BY <1>1, <1>2, <1>3, <2>2, <2>3, <2>4, QuietCalm DEF GoneOn
<1>5. CASE p.assoc # "established"
  <2>1. p.assoc = "connecting"
    BY <1>2, <1>5 DEF Orderly, End
  <2> DEFINE A == {item \in Range(p.queue) : item.chan # c}
             s == p.queue
  <2>2. /\ q.assoc = p.assoc /\ Still(p, q) /\ q.id = p.id /\ q.queue = Keep(s, A)
        /\ q.chan = [p.chan EXCEPT ![c] = "closed"]
    <3>1. GivenUp(p, c, q)
      BY <1>1, <1>5, GivenUpIs DEF q
    <3> QED  BY <3>1 DEF GivenUp
  <2>3. q.chan[c] = "closed" /\ \A d \in Channels : d # c => q.chan[d] = p.chan[d]
    BY <2>2
  <2>4. Orderly(e, q)
    <3>1. Pending(q) = Pending(p)
      BY <2>2 DEF Pending, Still
    <3>2. \A d \in Channels : p.chan[d] # "closing"
      BY <1>2, <2>1 DEF Orderly
    <3>3. \A j : ~ Resettable(p, j)
      BY <3>2 DEF Resettable
    <3>4. DOMAIN Pending(p) = {}
      BY <1>2, <3>3 DEF Orderly
    <3>5. ~ q.deaf
      BY <1>2, <2>2 DEF Orderly, Still
    <3> QED  BY <1>2, <2>1, <2>2, <2>3, <3>1, <3>2, <3>4, <3>5 DEF Orderly
  <2>5. Proceeds(e, q)
    <3>1. \A d \in Channels : Past(p, d) => Past(q, d)
      BY <2>3 DEF Past
    <3>2. \A d \in Channels : q.chan[d] = "closing" => Past(end[x], d)
      BY <2>3 DEF Calm, ClosingsFit
    <3> QED  BY <1>2, <2>2, <2>4, <3>1, <3>2 DEF Proceeds, Still
  <2>6. s \in Seq(Item) /\ AnnouncedAt(e)
    BY DEF Calm
  <2>7. \A a \in A : a.chan # c
    OBVIOUS
  <2> HIDE DEF A, s
  <2>8. Said("OPEN", Keep(s, A)) \subseteq Said("OPEN", s)
    BY <2>6, SaidKept
  <2>9. Said("OPEN", Keep(s, A)) \subseteq About("OPEN", A)
    BY <2>6, SaidKept
  <2>10. Said("ACK", Keep(s, A)) \subseteq Said("ACK", s) /\ (Once("ACK", s) => Once("ACK", Keep(s, A)))
    BY <2>6, SaidKept
  <2>11. Announcing(e, q, q.queue)
    <3>1. c \notin About("OPEN", A)
      BY <2>7 DEF About
    <3>2. \A d \in Said("OPEN", s) : p.chan[d] = "connecting" /\ d \in Channels
      BY <2>6, SaidAreOwn DEF AnnouncedAt, Announcing, s, Own
    <3> QED  BY <2>2, <2>3, <2>8, <2>9, <3>1, <3>2 DEF Announcing
  <2>12. Announces(e, q, NoId)
    <3>1. /\ \A k \in Ids : Announcing(e, q, stream[x][k]) /\ Acknowledging(e, q, stream[e][k])
          /\ Acknowledging(e, q, end[x].queue)
      BY <2>1, NothingSaid DEF Announcing, Acknowledging
    <3>2. Once("ACK", s)
      BY <2>6 DEF AnnouncedAt, s
    <3> QED  BY <1>2, <2>2, <2>10, <2>11, <3>1, <3>2, QueueAnnounces DEF Still, s
  <2> QED  BY <1>1, <1>3, <2>5, <2>12, CalmSteps, IdsAreInts
<1> QED  BY <1>4, <1>5

-----------------------------------------------------------------------------
(* A request leaves what is to be reset as it is.                          *)
LEMMA TransmitOrderly ==
  ASSUME NEW e \in Ends, NEW p \in End, EndFits(e, p), Orderly(e, p), p.control = {},
         NEW t, t = TransmitReconfig(e, p)
  PROVE  /\ Orderly(e, t) /\ t \in End /\ t.chan = p.chan /\ t.id = p.id /\ t.table = p.table
         /\ t.queue = p.queue /\ t.out = p.out
         /\ NoId \notin Range(p.request) => NoId \notin Range(t.request)
         /\ \A m \in t.control : m.to = Other(e) /\ \A k \in DOMAIN m.ids : Resettable(p, m.ids[k])
<1> DEFINE ids == p.resets
           q == [p EXCEPT !.resets = <<>>, !.request = ids, !.requestNo = @ + 1]
           chunk == [to |-> Other(e), kind |-> "request", no |-> p.requestNo, ids |-> ids]
           r == [q EXCEPT !.control = @ \cup {chunk}]
<1>0. ids \in Seq(SomeId) /\ p.request \in Seq(SomeId) /\ <<>> \in Seq(SomeId) /\ p.requestNo + 1 \in Nat
  BY DEF End
<1>1. Quiet(e, p, t)
  BY TransmitQuiet
<1>2. t \in End /\ t.id = p.id /\ t.out = p.out
  BY <1>1 DEF Quiet
<1>3. CASE p.assoc # "established" \/ p.resets = <<>> \/ p.request # <<>>
  <2>1. t = p
    BY <1>3 DEF TransmitReconfig
  <2> QED  BY <2>1
<1>4. CASE ~ (p.assoc # "established" \/ p.resets = <<>> \/ p.request # <<>>)
  <2>1. Pending(p) = ids
    <3>1. p.request = <<>> /\ <<>> \o ids = ids
      BY <1>0, <1>4, EmptyJoined
    <3> QED  BY <3>1 DEF Pending
  <2>2. \A k \in DOMAIN ids : Resettable(p, ids[k])
    BY <2>1 DEF Orderly
  <2>3. NoId \notin Range(ids)
    BY <2>2, IdsAreInts DEF Range, Resettable
  <2>4. t = r
    BY <1>4, <2>3 DEF TransmitReconfig
  <2>5. chunk.to = Other(e) /\ chunk.ids = ids
    OBVIOUS
  <2> HIDE DEF chunk, ids
  <2>6. /\ q \in End /\ q.chan = p.chan /\ q.table = p.table /\ q.queue = p.queue
        /\ q.assoc = p.assoc /\ q.deaf = p.deaf /\ q.resets = <<>> /\ q.request = ids
        /\ q.control = p.control
    <3>1. q \in End
      <4> HIDE DEF Message, Chunk, Item, SomeId, States
      <4> QED  BY <1>0 DEF End
    <3> HIDE DEF Message, Chunk, Item, SomeId, States
    <3> QED  BY <3>1 DEF End
  <2> HIDE DEF q
  <2>7. /\ r.chan = p.chan /\ r.table = p.table /\ r.queue = p.queue
        /\ r.assoc = p.assoc /\ r.deaf = p.deaf /\ r.resets = <<>> /\ r.request = ids
        /\ r.control = {chunk}
    BY <2>6 DEF End
  <2> HIDE DEF r
  <2>8. Pending(t) = ids
    BY <1>0, <2>4, <2>7, EmptyJoined DEF Pending
  <2>9. \A j : Resettable(p, j) => Resettable(t, j)
    BY <2>4, <2>7 DEF Resettable
  <2>10. Orderly(e, t)
    BY <1>2, <2>1, <2>4, <2>7, <2>8, <2>9 DEF Orderly
  <2> QED  BY <1>2, <2>2, <2>3, <2>4, <2>5, <2>7, <2>10
<1> QED  BY <1>3, <1>4

LEMMA ResetsKnown ==
  ASSUME ChannelInv, NEW e \in Ends, NEW q \in End, EndFits(e, q), NEW o, NEW i, Resettable(q, i),
         \A c \in Channels : q.chan[c] = "closing" => Past(o, c)
  PROVE  Known(q, o, i)
<1>1. q.table[i] \in Channels /\ i \in Ids
  BY DEF End, Resettable
<1>2. q.id[q.table[i]] = i
  BY <1>1 DEF EndFits, TableFits
<1> QED  BY <1>1, <1>2 DEF Known, Resettable, Past

(* A task has begun: nothing else is changed.                              *)
Begun(e, p) ==
  /\ p \in End /\ EndFits(e, p) /\ p.chan = end[e].chan /\ p.id = end[e].id
  /\ p.table = end[e].table /\ p.queue = end[e].queue /\ p.assoc = end[e].assoc
  /\ Still(end[e], p) /\ p.control = {} /\ p.out = <<>>

LEMMA TaskIs ==
  ASSUME ChannelInv, NEW e \in Ends, NEW t
  PROVE  Begun(e, [end[e] EXCEPT !.tasks = @ \ {t}])
<1> DEFINE p == [end[e] EXCEPT !.tasks = @ \ {t}]
<1>1. p \in End /\ EndFits(e, p)
  BY TaskBegins DEF Quiet
<1>2. /\ p.chan = end[e].chan /\ p.id = end[e].id
      /\ p.table = end[e].table /\ p.queue = end[e].queue /\ p.assoc = end[e].assoc
      /\ Still(end[e], p)
  <2> HIDE DEF Message, Chunk, Item, SomeId, States
  <2> QED  BY EndIs DEF End, Still
<1>3. end[e].control = {} /\ end[e].out = <<>>
  BY DEF ChannelInv, Types
<1> QED  BY <1>1, <1>2, <1>3 DEF Still, Begun

LEMMA RunReconfigCalm ==
  ASSUME ChannelInv, Calm, NEW e \in Ends, RunReconfig(e)
  PROVE  Calm'
<1> DEFINE p == [end[e] EXCEPT !.tasks = @ \ {"reconfig"}]
           t == TransmitReconfig(e, p)
<1>1. EndGoesOn(e, t, NoId, {})
  BY DEF RunReconfig
<1>2. /\ p \in End /\ EndFits(e, p) /\ p.chan = end[e].chan /\ p.id = end[e].id
      /\ p.table = end[e].table /\ p.queue = end[e].queue /\ p.assoc = end[e].assoc
      /\ Still(end[e], p) /\ p.control = {} /\ p.out = <<>>
  <2>1. Begun(e, p)
    BY TaskIs
  <2> QED  BY <2>1 DEF Begun
<1> HIDE DEF p
<1>3. end[e].table \in [Ids -> Channels \cup {NoChannel}] /\ Orderly(e, end[e])
  BY EndIs DEF Calm
<1>4. Orderly(e, p)
  BY <1>2, <1>3 DEF Orderly, Still, Pending, Resettable
<1>5. /\ Orderly(e, t) /\ t \in End /\ t.chan = p.chan /\ t.id = p.id /\ t.table = p.table
      /\ t.queue = p.queue /\ t.out = p.out
      /\ \A m \in t.control : m.to = Other(e) /\ \A k \in DOMAIN m.ids : Resettable(p, m.ids[k])
  BY <1>2, <1>4, TransmitOrderly
<1>6. EndFits(e, t)
  BY <1>2, TransmitQuiet DEF Quiet
<1> HIDE DEF t
<1>7. \A c \in Channels : t.chan[c] = "closing" => Past(end[Other(e)], c)
  BY <1>2, <1>5 DEF Calm, ClosingsFit
<1>8. Proceeds(e, t)
  <2>1. \A j : Resettable(p, j) => Known(t, end[Other(e)], j)
    <3>1. \A j : Resettable(p, j) => Resettable(t, j)
      BY <1>5 DEF Resettable
    <3> QED  BY <1>5, <1>6, <1>7, <3>1, ResetsKnown
  <2>2. \A c \in Channels : Past(end[e], c) => Past(t, c)
    BY <1>2, <1>5 DEF Past
  <2> QED  BY <1>2, <1>5, <1>7, <2>1, <2>2 DEF Proceeds
<1> QED  BY <1>1, <1>2, <1>5, <1>8, QuietCalm DEF Own

LEMMA RunFlushCalm ==
  ASSUME ChannelInv, Calm, NEW e \in Ends, RunFlush(e)
  PROVE  Calm'
<1> DEFINE p == [end[e] EXCEPT !.tasks = @ \ {"flush"}]
           q == FlushQueue(e, p)
<1>1. EndGoesOn(e, q, NoId, {})
  BY DEF RunFlush
<1>2. /\ p \in End /\ EndFits(e, p) /\ p.chan = end[e].chan /\ p.id = end[e].id
      /\ p.table = end[e].table /\ p.queue = end[e].queue /\ p.assoc = end[e].assoc
      /\ Still(end[e], p) /\ p.control = {} /\ p.out = <<>>
  <2>1. Begun(e, p)
    BY TaskIs
  <2> QED  BY <2>1 DEF Begun
<1> HIDE DEF p
<1>3. Orderly(e, end[e])
  BY DEF Calm
<1>4. Proceeds(e, p)
  BY <1>2, <1>3, StaysOrderly DEF Orderly, Still, Past
<1>5. Announces(e, p, NoId)
  BY <1>2, QuietAnnounces DEF Own
<1>6. Proceeds(e, q) /\ Announces(e, q, NoId)
  BY <1>2, <1>4, <1>5, FlushProceeds, FlushAnnounces
<1>7. q \in End
  BY <1>2, FlushKeeps DEF Keeps
<1> QED  BY <1>1, <1>6, <1>7, CalmSteps, IdsAreInts

-----------------------------------------------------------------------------
(* The channel that an OPEN brings: open, and its ACK queued.              *)
Opened(p, i, c, r) ==
  /\ r.assoc = p.assoc /\ Still(p, r)
  /\ r.chan[c] = "open" /\ \A d \in Channels : d # c => r.chan[d] = p.chan[d]
  /\ r.id[c] = i /\ \A d \in Channels : d # c => r.id[d] = p.id[d]
  /\ r.table[i] = c /\ \A j \in Ids : j # i => r.table[j] = p.table[j]
  /\ r.queue = Append(p.queue, [chan |-> c, kind |-> "ACK"])

LEMMA OpenIs ==
  ASSUME ChannelInv, NEW e \in Ends, NEW i \in Ids, NEW c \in Own(Other(e)),
         end[Other(e)].id[c] = i, end[e].id[c] = NoId, end[e].chan[c] = "none",
         end[e].table[i] = NoChannel
  PROVE  \E r \in End : /\ EndFits(e, r) /\ Opened(end[e], i, c, r)
                        /\ ReceiveOpen(e, end[e], i, c) = FlushQueue(e, r)
<1> DEFINE p == end[e]
           q == ReceiveOpen(e, p, i, c)
           chan == [p.chan EXCEPT ![c] = "open"]
           id == [p.id EXCEPT ![c] = i]
           table == [p.table EXCEPT ![i] = c]
           item == [chan |-> c, kind |-> "ACK"]
           queue == Append(p.queue, item)
           r == [p EXCEPT !.chan = chan, !.id = id, !.table = table, !.queue = queue]
<1> USE EndIs
<1>1. q = FlushQueue(e, r)
  BY DEF ReceiveOpen, End
<1>2. c \in Channels \ Negotiated /\ Owner[c] = Other(e) /\ c \notin Own(e)
  BY Others DEF Own
<1>3. /\ chan \in [Channels -> States] /\ id \in [Channels -> SomeId]
      /\ table \in [Ids -> Channels \cup {NoChannel}]
      /\ item \in Item /\ queue \in Seq(Item)
  <2>1. /\ item \in Item /\ chan \in [Channels -> States] /\ id \in [Channels -> SomeId]
        /\ table \in [Ids -> Channels \cup {NoChannel}]
    BY <1>2 DEF Item, States, SomeId
  <2> HIDE DEF item, Item
  <2>2. queue \in Seq(Item)
    BY <2>1
  <2> QED  BY <2>1, <2>2
<1>4. /\ r \in End /\ r.chan = chan /\ r.table = table /\ r.id = id /\ r.queue = queue
      /\ r.assoc = p.assoc /\ Still(p, r)
  <2>1. p \in End
    OBVIOUS
  <2> HIDE DEF Message, Chunk, Item, SomeId, States, chan, id, table, queue, p
  <2>2. r \in End
    BY <1>3, <2>1 DEF End
  <2>3. /\ r.chan = chan /\ r.table = table /\ r.id = id /\ r.queue = queue
        /\ r.assoc = p.assoc
    BY <2>1 DEF End
  <2>4. Still(p, r)
    BY <2>1 DEF End, Still
  <2> QED  BY <2>2, <2>3, <2>4
<1> HIDE DEF r, q
<1>5. /\ r.chan[c] = "open" /\ \A d \in Channels : d # c => r.chan[d] = p.chan[d]
      /\ r.id[c] = i /\ \A d \in Channels : d # c => r.id[d] = p.id[d]
      /\ r.table[i] = c /\ \A j \in Ids : j # i => r.table[j] = p.table[j]
  BY <1>2, <1>4
<1>6. TableFits(r)
  <2>1. ASSUME NEW j \in Ids, NEW d \in Channels, r.table[j] = d
        PROVE  r.id[d] = j /\ Alive(r, d)
    <3>1. CASE j = i
      BY <1>5, <2>1, <3>1 DEF Alive
    <3>2. CASE j # i
      <4>1. p.table[j] = d
        BY <1>5, <2>1, <3>2
      <4>2. p.id[d] = j /\ Alive(p, d)
        BY <4>1 DEF EndFits, TableFits
      <4>3. d # c
        BY <3>2, <4>2, IdsAreInts
      <4> QED  BY <1>5, <4>2, <4>3 DEF Alive
    <3> QED  BY <3>1, <3>2
  <2>2. ASSUME NEW d \in Channels, Alive(r, d), r.id[d] # NoId
        PROVE  r.table[r.id[d]] = d
    <3>1. CASE d = c
      BY <1>5, <3>1
    <3>2. CASE d # c
      <4>1. Alive(p, d) /\ p.id[d] = r.id[d] /\ p.id[d] \in Ids
        BY <1>5, <2>2, <3>2 DEF Alive, SomeId
      <4>2. p.table[p.id[d]] = d
        BY <2>2, <4>1 DEF EndFits, TableFits
      <4>3. p.id[d] # i
        BY <4>2, IdsAreInts
      <4> QED  BY <1>5, <4>1, <4>2, <4>3
    <3> QED  BY <3>1, <3>2
  <2> QED  BY <2>1, <2>2 DEF TableFits
<1>14. OthersFit(e, r)
  BY <1>5, IdsAreInts DEF EndFits, OthersFit, Own
<1>7. IdsFit(r)
  <2>1. i % 2 = FirstId(Owner[c])
    <3>1. EndFits(Other(e), end[Other(e)])
      BY Others
    <3> QED  BY <1>2, <3>1, IdsAreInts DEF EndFits, IdsFit
  <2>2. IdsFit(p) /\ c \notin Negotiated /\ Negotiated \subseteq Channels
    BY <1>2, ChannelAssumption DEF EndFits, ChannelAssumption
  <2>3. \A d \in Negotiated : r.id[d] = AgreedId[d]
    BY <1>5, <2>2 DEF IdsFit
  <2>4. \A d \in Channels \ Negotiated : r.id[d] # NoId => r.id[d] % 2 = FirstId(Owner[d])
    BY <1>5, <2>1, <2>2 DEF IdsFit
  <2>5. \A d \in Channels \ Negotiated : r.chan[d] = "none" => r.id[d] = NoId
    BY <1>5, <2>2 DEF IdsFit
  <2> QED  BY <2>3, <2>4, <2>5 DEF IdsFit
<1>8. r.queue \in Seq(MayQueue(e, r))
  <2>1. MayQueue(e, p) \subseteq MayQueue(e, r)
    BY <1>2, <1>5, IdsAreInts DEF MayQueue, Item, Alive
  <2>2. item \in MayQueue(e, r)
    BY <1>3, <1>5, IdsAreInts DEF MayQueue
  <2>3. p.queue \in Seq(MayQueue(e, p))
    BY DEF EndFits
  <2>4. p.queue \in Seq(MayQueue(e, r))
    BY <2>1, <2>3, SeqMore
  <2> HIDE DEF item
  <2> QED  BY <1>4, <2>2, <2>4
<1>9. Once("OPEN", r.queue)
  <2> DEFINE B == MayQueue(e, p)
             t == <<item>>
  <2>1. item.kind = "ACK"
    OBVIOUS
  <2>2. p.queue \in Seq(B) /\ Once("OPEN", p.queue) /\ t \in Seq({item}) /\ Once("OPEN", t)
    BY DEF Once, EndFits
  <2>3. r.queue = p.queue \o t
    <3> DEFINE s == p.queue
    <3>1. r.queue = Append(s, item) /\ s \in Seq(B)
      BY <1>4, <2>2
    <3> HIDE DEF item, s, B
    <3>2. Append(s, item) = s \o <<item>>
      BY <3>1
    <3> QED  BY <3>1, <3>2 DEF s
  <2> HIDE DEF B, t, item
  <2>4. \A a \in B, b \in {item} : a.kind = "OPEN" /\ b.kind = "OPEN" => a.chan # b.chan
    BY <2>1
  <2> DEFINE s == p.queue
  <2>5. s \in Seq(B) /\ Once("OPEN", s)
    BY <2>2
  <2> HIDE DEF s, p
  <2>6. Once("OPEN", s \o t)
    BY <2>2, <2>4, <2>5, OnceTogether
  <2> QED  BY <2>3, <2>6 DEF s
<1>10. EndFits(e, r)
  BY <1>6, <1>7, <1>8, <1>9, <1>14 DEF EndFits
<1>11. Opened(p, i, c, r)
  BY <1>4, <1>5 DEF Opened
<1> QED  BY <1>1, <1>4, <1>10, <1>11 DEF q

LEMMA LeftSaid ==
  ASSUME ChannelInv, NEW e \in Ends, NEW i \in Ids, stream[e][i] # <<>>, NEW k \in Ids
  PROVE  Said("ACK", Left(e, i, k)) \subseteq Said("ACK", stream[e][k])
<1>1. CASE k # i
  BY <1>1 DEF Left
<1>2. CASE k = i
  <2> DEFINE s == stream[e][i]
  <2>1. s \in Seq(Message) /\ s # <<>> /\ Left(e, i, k) = Tail(s)
    BY <1>2 DEF ChannelInv, Types, Left
  <2> HIDE DEF s
  <2>2. Said("ACK", Tail(s)) \subseteq Said("ACK", s)
    BY <2>1, SaidAfter
  <2> QED  BY <1>2, <2>1, <2>2 DEF s
<1> QED  BY <1>1, <1>2

LEMMA OpenCalm ==
  ASSUME ChannelInv, Calm, "reused" \notin spoiled, NEW e \in Ends, NEW i \in Ids,
         stream[e][i] # <<>>, Head(stream[e][i]).kind = "OPEN",
         EndGoesOn(e, ReceiveOpen(e, end[e], i, Head(stream[e][i]).chan), i, {})
  PROVE  Calm'
<1> DEFINE p == end[e]
           x == Other(e)
           c == Head(stream[e][i]).chan
           item == [chan |-> c, kind |-> "ACK"]
<1> USE EndIs
<1>1. /\ c \in Own(x) /\ end[x].id[c] = i /\ p.id[c] = NoId /\ p.chan[c] = "none"
      /\ x \in Ends /\ Other(x) = e /\ x # e
  BY OpenArrives, Others
<1> HIDE DEF c
<1>2. p.table[i] = NoChannel
  <2>1. ASSUME p.table[i] # NoChannel PROVE FALSE
    <3> DEFINE d == p.table[i]
    <3>1. d \in Channels /\ p.id[d] = i
      BY <2>1 DEF EndFits, TableFits
    <3>2. c \in Channels
      BY <1>1 DEF Own
    <3>3. c = d
      BY <1>1, <3>1, <3>2, IdMeansOne, IdsAreInts
    <3> QED  BY <1>1, <3>1, <3>3, IdsAreInts
  <2> QED  BY <2>1
<1>3. PICK r \in End : /\ EndFits(e, r) /\ Opened(p, i, c, r)
                       /\ ReceiveOpen(e, p, i, c) = FlushQueue(e, r)
  BY <1>1, <1>2, OpenIs
<1>4. /\ p.control = {} /\ p.out = <<>> /\ Orderly(e, p)
      /\ r.control = {} /\ r.out = <<>>
  BY <1>3 DEF ChannelInv, Types, Calm, Opened, Still
<1>5. c \in Channels /\ c \notin Own(e)
  BY <1>1 DEF Own
<1>6. Proceeds(e, r)
  <2>1. \A j \in Ids : p.table[j] # NoChannel => r.table[j] = p.table[j]
    BY <1>2, <1>3 DEF Opened
  <2>2. \A d \in Channels : p.chan[d] = "closing" <=> r.chan[d] = "closing"
    BY <1>1, <1>3 DEF Opened
  <2>3. \A d \in Channels : r.chan[d] = "open" => r.id[d] # NoId
    BY <1>3, <1>4, IdsAreInts DEF Opened, Orderly
  <2>4. \A d \in Channels : Past(p, d) => Past(r, d)
    BY <1>3 DEF Opened, Past
  <2>5. \A d \in Channels : p.id[d] # NoId => r.id[d] = p.id[d]
    BY <1>1, <1>3 DEF Opened
  <2>6. r.assoc = "connecting" => p.assoc = "connecting" /\ \A d \in Own(e) : r.id[d] = NoId
    BY <1>3, <1>4, <1>5 DEF Opened, Orderly, Own
  <2>7. r.deaf = p.deaf /\ r.resets = p.resets /\ r.request = p.request /\ r.assoc # "closed"
    BY <1>3, <1>4 DEF Opened, Still, Orderly
  <2> QED  BY <1>4, <2>1, <2>2, <2>3, <2>4, <2>5, <2>6, <2>7, StaysOrderly
<1>7. AnnouncedAt(e) /\ AnnouncedAt(x)
  BY <1>1 DEF Calm
<1>8. /\ Said("OPEN", r.queue) = Said("OPEN", p.queue)
      /\ Said("ACK", r.queue) = Said("ACK", p.queue) \cup {c} /\ Once("ACK", r.queue)
  <2> DEFINE s == p.queue
  <2>1. item.kind = "ACK" /\ item.chan = c /\ r.queue = Append(s, item)
    BY <1>3 DEF Opened
  <2>2. item \in Item /\ s \in Seq(Item)
    BY <1>5 DEF Item
  <2>3. c \notin Said("ACK", s) /\ Once("ACK", s)
    <3>1. s \in Seq(MayQueue(e, p))
      BY DEF EndFits
    <3>2. \A m \in MayQueue(e, p) : m.kind = "ACK" => m.chan # c
      BY <1>1 DEF MayQueue
    <3> QED  BY <1>7, <3>1, <3>2 DEF Said, AnnouncedAt
  <2> HIDE DEF s, item
  <2>4. Said("OPEN", Append(s, item)) = Said("OPEN", s) \cup (IF item.kind = "OPEN" THEN {item.chan} ELSE {})
    BY <2>2, SaidMore
  <2>5. Said("ACK", Append(s, item)) = Said("ACK", s) \cup (IF item.kind = "ACK" THEN {item.chan} ELSE {})
    BY <2>2, SaidMore
  <2>6. Once("ACK", Append(s, item))
    BY <2>1, <2>2, <2>3, SaidMore
  <2> QED  BY <2>1, <2>4, <2>5, <2>6 DEF s
<1>9. \A d \in Own(e) : p.chan[d] = "connecting" => r.chan[d] = "connecting"
  BY <1>3, <1>5 DEF Opened, Own
<1>10. Announces(e, r, i)
  <2>1. /\ Said("OPEN", r.out) = {} /\ Said("ACK", r.out) = {} /\ Once("ACK", r.out)
        /\ DOMAIN r.out = {}
    BY <1>4, SaidEmpty
  <2>2. Announcing(e, r, r.queue) /\ \A k \in Ids : Announcing(e, r, stream[x][k])
    BY <1>7, <1>8, <1>9, SaidAreOwn DEF AnnouncedAt, Announcing, x
  <2>3. Acknowledging(x, end[x], r.queue)
    <3>1. Acknowledging(x, end[x], p.queue)
      BY <1>1, <1>7 DEF AnnouncedAt
    <3>2. end[x].chan[c] = "connecting"
      <4>1. Announcing(x, end[x], stream[e][i])
        BY <1>1, <1>7 DEF AnnouncedAt
      <4>2. c \in Said("OPEN", stream[e][i])
        <5> DEFINE s == stream[e][i]
        <5>1. s \in Seq(Message) /\ s # <<>>
          BY DEF ChannelInv, Types
        <5> HIDE DEF s
        <5>2. Head(s).kind = "OPEN" => Head(s).chan \in Said("OPEN", s)
          BY <5>1, SaidAfter
        <5> QED  BY <5>2 DEF s, c
      <4> QED  BY <4>1, <4>2 DEF Announcing
    <3> QED  BY <1>1, <1>8, <3>1, <3>2 DEF Acknowledging
  <2>4. Acknowledging(e, r, end[x].queue)
    BY <1>7, <1>9, SaidAreOwn DEF AnnouncedAt, Acknowledging, x
  <2>5. ASSUME NEW k \in Ids PROVE Acknowledging(e, r, Left(e, i, k))
    <3>1. Acknowledging(e, r, stream[e][k])
      BY <1>7, <1>9 DEF AnnouncedAt, Acknowledging
    <3>2. Said("ACK", Left(e, i, k)) \subseteq Said("ACK", stream[e][k])
      BY LeftSaid
    <3> QED  BY <3>1, <3>2 DEF Acknowledging
  <2>6. ASSUME NEW k \in Ids PROVE Apart(stream[x][k], r.queue)
    <3>1. Apart(stream[x][k], p.queue)
      BY <1>1, <1>7 DEF AnnouncedAt
    <3>2. c \notin Said("ACK", stream[x][k])
      BY <1>1, <1>7, IdsAreInts DEF AnnouncedAt
    <3> QED  BY <1>8, <3>1, <3>2 DEF Apart
  <2>7. Announcing(e, r, r.out) /\ Acknowledging(x, end[x], r.out) /\ Apart(r.out, r.queue)
        /\ \A k \in Ids : Apart(stream[x][k], r.out)
    BY <2>1 DEF Announcing, Acknowledging, Apart
  <2> QED  BY <1>8, <2>1, <2>2, <2>3, <2>4, <2>5, <2>6, <2>7 DEF Announces, x
<1> DEFINE q == FlushQueue(e, r)
<1>11. Proceeds(e, q) /\ Announces(e, q, i)
  BY <1>3, <1>4, <1>6, <1>10, FlushProceeds, FlushAnnounces
<1>12. q \in End /\ EndGoesOn(e, q, i, {})
  BY <1>3, <1>4, FlushKeeps DEF Keeps, c
<1> HIDE DEF q
<1> QED  BY <1>11, <1>12, CalmSteps

-----------------------------------------------------------------------------
LEMMA AckCalm ==
  ASSUME ChannelInv, Calm, NEW e \in Ends, NEW i \in Ids,
         stream[e][i] # <<>>, Head(stream[e][i]).kind = "ACK",
         EndGoesOn(e, ReceiveAck(end[e], i, Head(stream[e][i]).chan), i, {})
  PROVE  Calm'
<1> DEFINE p == end[e]
           x == Other(e)
           c == Head(stream[e][i]).chan
           q == ReceiveAck(p, i, c)
           s == stream[e][i]
<1> USE EndIs
<1>1. x \in Ends /\ Other(x) = e /\ x # e
  BY Others
<1>2. AnnouncedAt(e) /\ AnnouncedAt(x) /\ Orderly(e, p) /\ p.control = {} /\ p.out = <<>>
  BY <1>1 DEF Calm, ChannelInv, Types
<1>3. /\ c \in Said("ACK", s) /\ \A k \in Ids : Said("ACK", Left(e, i, k)) \subseteq Said("ACK", stream[e][k])
      /\ c \notin Said("ACK", Left(e, i, i))
  <2>1. s \in Seq(Message) /\ s # <<>> /\ Once("ACK", s) /\ Left(e, i, i) = Tail(s)
    BY <1>2 DEF AnnouncedAt, ChannelInv, Types, Left
  <2>2. Head(s).kind = "ACK" /\ Head(s).chan = c
    OBVIOUS
  <2> HIDE DEF s, c
  <2>3. Head(s).kind = "ACK" => Head(s).chan \in Said("ACK", s)
    BY <2>1, SaidAfter
  <2>4. Once("ACK", s) /\ Head(s).kind = "ACK" => Head(s).chan \notin Said("ACK", Tail(s))
    BY <2>1, SaidAfter
  <2> QED  BY <2>1, <2>2, <2>3, <2>4, LeftSaid DEF s
<1>4. EndGoesOn(e, q, i, {})
  OBVIOUS
<1>5. q \in End
  BY AckQuiet DEF Quiet
<1> HIDE DEF c, q, s
<1>6. c \in Own(e) /\ c \in Channels /\ p.chan[c] = "connecting" /\ end[x].id[c] = i
  BY <1>2, <1>3 DEF AnnouncedAt, Acknowledging, Own, x, s
<1>7. p.id[c] = i /\ i # NoId
  BY <1>1, <1>6, IdsAreInts DEF ChannelInv, SameIds
<1>8. p.table[i] = c
  BY <1>6, <1>7 DEF EndFits, TableFits, Alive
<1>9. /\ q.assoc = p.assoc /\ Still(p, q) /\ q.id = p.id /\ q.table = p.table /\ q.queue = p.queue
      /\ q.chan = [p.chan EXCEPT ![c] = "open"]
  <2> DEFINE chan == [p.chan EXCEPT ![c] = "open"]
  <2>1. c # NoChannel
    BY <1>6, IdsAreInts
  <2>2. q = [p EXCEPT !.chan = chan]
    BY <1>8, <2>1 DEF ReceiveAck, End, q
  <2> HIDE DEF Message, Chunk, Item, SomeId, States, chan
  <2>3. q.assoc = p.assoc /\ Still(p, q) /\ q.id = p.id
    BY <2>2 DEF End, Still
  <2>4. q.table = p.table /\ q.queue = p.queue /\ q.chan = chan
    BY <2>2 DEF End
  <2> QED  BY <2>3, <2>4 DEF chan
<1>10. q.chan[c] = "open" /\ \A d \in Channels : d # c => q.chan[d] = p.chan[d]
  BY <1>6, <1>9
<1>11. Proceeds(e, q)
  <2>1. \A d \in Channels : q.chan[d] = "open" => q.id[d] # NoId
    BY <1>2, <1>7, <1>9, <1>10 DEF Orderly
  <2>2. \A d \in Channels : (p.chan[d] = "closing" <=> q.chan[d] = "closing") /\ (Past(p, d) => Past(q, d))
    BY <1>6, <1>10 DEF Past
  <2>3. /\ q.assoc # "closed" /\ q.deaf = p.deaf /\ q.resets = p.resets /\ q.request = p.request
        /\ q.control = {}
        /\ q.assoc = "connecting" => p.assoc = "connecting" /\ \A d \in Own(e) : q.id[d] = NoId
    BY <1>2, <1>9 DEF Orderly, Still
  <2> QED  BY <1>9, <2>1, <2>2, <2>3, StaysOrderly
<1>12. Announces(e, q, i)
  <2>1. /\ Said("OPEN", q.out) = {} /\ Said("ACK", q.out) = {} /\ Once("ACK", q.out)
        /\ DOMAIN q.out = {}
    <3>1. q.out = <<>>
      BY <1>2, <1>9 DEF Still
    <3> QED  BY <3>1, SaidEmpty
  <2>2. Announcing(e, q, q.queue)
    <3>1. p.queue \in Seq(MayQueue(e, p))
      BY DEF EndFits
    <3>2. \A m \in MayQueue(e, p) : m.kind = "OPEN" => m.chan # c
      BY <1>7 DEF MayQueue
    <3>3. c \notin Said("OPEN", p.queue)
      BY <3>1, <3>2 DEF Said
    <3> QED  BY <1>2, <1>9, <1>10, <3>3, SaidAreOwn DEF AnnouncedAt, Announcing, Own
  <2>3. ASSUME NEW k \in Ids PROVE Announcing(e, q, stream[x][k])
    <3>1. stream[x][k] \in Seq(Fresh(end[x]))
      BY <1>1 DEF ChannelInv, OpensFit
    <3>2. \A m \in Fresh(end[x]) : m.kind = "OPEN" => m.chan # c
      BY <1>6, <1>7 DEF Fresh
    <3>3. c \notin Said("OPEN", stream[x][k])
      BY <3>1, <3>2 DEF Said
    <3>4. Said("OPEN", stream[x][k]) \subseteq Own(e)
      BY SaidAreOwn DEF x
    <3> QED  BY <1>2, <1>10, <3>3, <3>4 DEF AnnouncedAt, Announcing, Own, x
  <2>4. Acknowledging(e, q, end[x].queue)
    <3>1. c \notin Said("ACK", end[x].queue)
      BY <1>2, <1>3 DEF AnnouncedAt, Apart, s, x
    <3> QED  BY <1>2, <1>10, <3>1 DEF AnnouncedAt, Acknowledging, Own, x
  <2>5. ASSUME NEW k \in Ids PROVE Acknowledging(e, q, Left(e, i, k))
    <3>1. c \notin Said("ACK", Left(e, i, k))
      BY <1>2, <1>3, <1>6 DEF AnnouncedAt, x
    <3>2. Acknowledging(e, p, stream[e][k])
      BY <1>2 DEF AnnouncedAt
    <3> QED  BY <1>3, <1>10, <3>1, <3>2 DEF Acknowledging, Own
  <2>6. Acknowledging(x, end[x], q.queue) /\ Once("ACK", q.queue) /\ \A k \in Ids : Apart(stream[x][k], q.queue)
    BY <1>1, <1>2, <1>9 DEF AnnouncedAt
  <2>7. Announcing(e, q, q.out) /\ Acknowledging(x, end[x], q.out) /\ Apart(q.out, q.queue)
        /\ \A k \in Ids : Apart(stream[x][k], q.out)
    BY <2>1 DEF Announcing, Acknowledging, Apart
  <2> QED  BY <2>1, <2>2, <2>3, <2>4, <2>5, <2>6, <2>7 DEF Announces, x
<1> QED  BY <1>4, <1>5, <1>11, <1>12, CalmSteps DEF s

LEMMA ReceiveStreamCalm ==
  ASSUME ChannelInv, Calm, "reused" \notin spoiled, NEW e \in Ends, NEW i \in Ids, ReceiveStream(e, i)
  PROVE  Calm'
<1>1. stream[e][i] # <<>>
  BY DEF ReceiveStream
<1>2. Head(stream[e][i]).kind \in {"OPEN", "ACK"}
  <2> DEFINE s == stream[e][i]
  <2>1. s \in Seq(Message) /\ s # <<>>
    BY <1>1 DEF ChannelInv, Types
  <2> HIDE DEF s
  <2>2. Head(s) \in Message
    BY <2>1
  <2> QED  BY <2>2 DEF Message, s
<1>3. CASE Head(stream[e][i]).kind = "OPEN"
  <2>1. EndGoesOn(e, ReceiveOpen(e, end[e], i, Head(stream[e][i]).chan), i, {})
    BY <1>3 DEF ReceiveStream
  <2> QED  BY <1>1, <1>3, <2>1, OpenCalm
<1>4. CASE Head(stream[e][i]).kind = "ACK"
  <2>1. EndGoesOn(e, ReceiveAck(end[e], i, Head(stream[e][i]).chan), i, {})
    BY <1>4 DEF ReceiveStream
  <2> QED  BY <1>1, <1>4, <2>1, AckCalm
<1> QED  BY <1>2, <1>3, <1>4

-----------------------------------------------------------------------------
LEMMA SeqInto ==
  ASSUME NEW S, NEW T, NEW s \in Seq(S), \A k \in DOMAIN s : s[k] \in T
  PROVE  s \in Seq(T)
  OBVIOUS

LEMMA GoneTrans ==
  ASSUME NEW p, NEW q, GoneOn(p, q), NEW r, GoneOn(q, r)
  PROVE  GoneOn(p, r)
<1> SUFFICES ASSUME NEW d \in Channels
             PROVE  r.chan[d] = p.chan[d] \/ (p.chan[d] = "open" /\ r.chan[d] = "closing")
  BY DEF GoneOn
<1>1. q.chan[d] = p.chan[d] \/ (p.chan[d] = "open" /\ q.chan[d] = "closing")
  BY DEF GoneOn
<1>2. r.chan[d] = q.chan[d] \/ (q.chan[d] = "open" /\ r.chan[d] = "closing")
  BY DEF GoneOn
<1> QED  BY <1>1, <1>2

(* What a request makes of end e: of what both ends have opened, some is   *)
(* closing now.                                                            *)
Requested(e, q) ==
  /\ q \in End /\ EndFits(e, q) /\ Orderly(e, q) /\ GoneOn(end[e], q)
  /\ \A d \in Channels : q.chan[d] # end[e].chan[d] => Past(end[Other(e)], d)

LEMMA RequestedOne ==
  ASSUME ChannelInv, Calm, "reused" \notin spoiled, NEW e \in Ends, end[e].assoc = "established",
         NEW q, Requested(e, q), NEW i \in Ids, Known(end[Other(e)], end[e], i)
  PROVE  Requested(e, IF q.table[i] = NoChannel THEN q ELSE CloseChannel(q, q.table[i]))
<1>1. CASE q.table[i] = NoChannel
  BY <1>1
<1>2. CASE q.table[i] # NoChannel
  <2> DEFINE p == end[e]
             o == end[Other(e)]
             c == q.table[i]
             t == CloseChannel(q, c)
  <2>1. /\ q \in End /\ EndFits(e, q) /\ Orderly(e, q) /\ GoneOn(p, q)
        /\ \A d \in Channels : q.chan[d] # p.chan[d] => Past(o, d)
    BY DEF Requested
  <2>2. EndFits(e, p) /\ p.chan \in [Channels -> States]
    BY EndIs
  <2>3. c \in Channels /\ p.table[i] = c
    <3>1. q.table = p.table
      BY <2>1 DEF GoneOn
    <3>2. q.table \in [Ids -> Channels \cup {NoChannel}]
      BY <2>1 DEF End
    <3> QED  BY <1>2, <3>1, <3>2
  <2> HIDE DEF c, t
  <2>4. p.id[c] = i /\ i # NoId
    BY <2>2, <2>3, IdsAreInts DEF EndFits, TableFits
  <2>5. PICK d \in Channels : o.id[d] = i /\ Past(o, d) /\ Past(p, d)
    BY DEF Known
  <2>6. c = d
    BY <2>3, <2>4, <2>5, IdMeansOne
  <2>7. p.chan[c] \in {"open", "closing", "closed"} /\ Past(o, c)
    BY <2>2, <2>3, <2>5, <2>6 DEF Past, States
  <2>8. q.chan[c] \in {"open", "closing", "closed"} /\ q.assoc = "established"
    BY <2>1, <2>3, <2>7 DEF GoneOn
  <2>9. t = CloseChannel(q, c)
    BY DEF t
  <2> HIDE DEF p, o
  <2>10. Orderly(e, t) /\ GoneOn(q, t) /\ \A y \in Channels : y # c => t.chan[y] = q.chan[y]
    BY <2>1, <2>3, <2>8, <2>9, ClosingOrderly
  <2>11. EndFits(e, t)
    BY <2>1, <2>3, <2>8, <2>9, CloseQuiet DEF Quiet
  <2>12. GoneOn(p, t)
    BY <2>1, <2>10, GoneTrans
  <2>13. \A y \in Channels : t.chan[y] # p.chan[y] => Past(o, y)
    BY <2>1, <2>7, <2>10
  <2>14. Requested(e, t)
    BY <2>10, <2>11, <2>12, <2>13 DEF Requested, GoneOn, p, o
  <2> QED  BY <1>2, <2>14 DEF t, c
<1> QED  BY <1>1, <1>2

LEMMA RequestedAll ==
  ASSUME ChannelInv, Calm, "reused" \notin spoiled, NEW e \in Ends, end[e].assoc = "established",
         NEW s \in Seq(Ids), \A k \in DOMAIN s : Known(end[Other(e)], end[e], s[k])
  PROVE  Requested(e, FoldLeft(LAMBDA q, i : IF q.table[i] = NoChannel THEN q
                                             ELSE CloseChannel(q, q.table[i]), end[e], s))
<1> DEFINE S == {q \in End : Requested(e, q)}
           T == {i \in Ids : Known(end[Other(e)], end[e], i)}
           b == end[e]
<1>1. b \in S
  BY EndIs DEF Calm, GoneOn, Requested
<1>2. \A q \in S, i \in T : (IF q.table[i] = NoChannel THEN q ELSE CloseChannel(q, q.table[i])) \in S
  BY RequestedOne DEF Requested
<1>3. s \in Seq(T)
  <2>1. \A k \in DOMAIN s : s[k] \in Ids
    OBVIOUS
  <2>2. \A k \in DOMAIN s : s[k] \in T
    BY <2>1
  <2> HIDE DEF T
  <2> QED  BY <2>2, SeqInto
<1> HIDE DEF S, T
<1>4. FoldLeft(LAMBDA q, i : IF q.table[i] = NoChannel THEN q ELSE CloseChannel(q, q.table[i]),
               b, s) \in S
  BY <1>1, <1>2, <1>3, ClosingIn
<1> QED  BY <1>4 DEF S

-----------------------------------------------------------------------------
(* A chunk is answered by the end that took it.                            *)
Answered(p, chunk, q) ==
  /\ q \in End /\ q.assoc = p.assoc /\ q.deaf = p.deaf /\ q.resets = p.resets /\ q.request = p.request
  /\ q.out = p.out /\ q.control = {chunk} /\ q.table = p.table /\ q.id = p.id /\ q.queue = p.queue
  /\ q.chan = p.chan

LEMMA AnswerIs ==
  ASSUME NEW p \in End, NEW chunk \in Chunk
  PROVE  Answered(p, chunk, [p EXCEPT !.control = {chunk}])
<1> DEFINE q == [p EXCEPT !.control = {chunk}]
<1>1. {chunk} \in SUBSET Chunk
  OBVIOUS
<1> HIDE DEF Message, Chunk, Item, SomeId, States
<1>2. q \in End
  BY <1>1 DEF End
<1>3. /\ q.assoc = p.assoc /\ q.deaf = p.deaf /\ q.resets = p.resets /\ q.request = p.request
      /\ q.out = p.out /\ q.control = {chunk}
  BY DEF End
<1>4. q.table = p.table /\ q.id = p.id /\ q.queue = p.queue /\ q.chan = p.chan
  BY DEF End
<1> QED  BY <1>2, <1>3, <1>4 DEF Answered

LEMMA RequestCalm ==
  ASSUME ChannelInv, Calm, "reused" \notin spoiled, NEW e \in Ends, end[e].assoc = "established",
         NEW m \in control, m.kind = "request", m.to = e,
         NEW chunk \in Chunk, chunk.kind = "response",
         NEW r, Requested(e, r), EndGoesOn(e, [r EXCEPT !.control = {chunk}], NoId, {m})
  PROVE  Calm'
<1> DEFINE p == end[e]
           o == end[Other(e)]
           q == [r EXCEPT !.control = {chunk}]
<1>1. /\ r \in End /\ EndFits(e, r) /\ Orderly(e, r) /\ GoneOn(p, r)
      /\ \A d \in Channels : r.chan[d] # p.chan[d] => Past(o, d)
  BY DEF Requested
<1>2. Answered(r, chunk, q)
  BY <1>1, AnswerIs
<1> HIDE DEF q
<1>3. Orderly(e, q) /\ q \in End
  <2>1. Pending(q) = Pending(r) /\ \A j : Resettable(r, j) => Resettable(q, j)
    BY <1>2 DEF Answered, Pending, Resettable
  <2> QED  BY <1>1, <1>2, <2>1 DEF Answered, Orderly
<1>4. p.out = <<>> /\ q.out = <<>> /\ q.queue = p.queue /\ q.id = p.id
  BY <1>1, <1>2, EndIs DEF Answered, GoneOn
<1>5. \A d \in Channels : q.chan[d] = p.chan[d] \/ (p.chan[d] = "open" /\ q.chan[d] = "closing" /\ Past(o, d))
  BY <1>1, <1>2 DEF Answered, GoneOn
<1>6. Proceeds(e, q)
  <2>1. \A d \in Channels : q.chan[d] = "closing" => Past(o, d)
    BY <1>5 DEF Calm, ClosingsFit
  <2>2. \A d \in Channels : Past(p, d) => Past(q, d)
    BY <1>5 DEF Past
  <2>3. \A w \in q.control : w.kind # "request"
    BY <1>2 DEF Answered
  <2> QED  BY <1>3, <1>4, <2>1, <2>2, <2>3 DEF Proceeds
<1>7. \A d \in Own(e) : p.chan[d] = "connecting" => q.chan[d] = "connecting"
  BY <1>5 DEF Own
<1> QED  BY <1>3, <1>4, <1>6, <1>7, QuietCalm DEF q

-----------------------------------------------------------------------------
(* A channel is closed after its reset, and the others left alone.         *)
ResetBy(p, i, r) ==
  /\ r.assoc = p.assoc /\ Still(p, r) /\ r.id = p.id /\ r.queue = p.queue
  /\ \A d \in Channels : r.chan[d] = p.chan[d] \/ (p.chan[d] = "closing" /\ r.chan[d] = "closed")
  /\ \A j : j # i /\ Resettable(p, j) => Resettable(r, j)

LEMMA ResetIs ==
  ASSUME NEW e \in Ends, NEW p \in End, EndFits(e, p), NEW i, Resettable(p, i)
  PROVE  ResetBy(p, i, ChannelClosed(p, i))
<1> DEFINE c == p.table[i]
           r == ChannelClosed(p, i)
           table == [p.table EXCEPT ![i] = NoChannel]
           chan == [p.chan EXCEPT ![c] = "closed"]
<1>1. p.table \in [Ids -> Channels \cup {NoChannel}] /\ p.chan \in [Channels -> States]
  BY DEF End
<1>2. i \in Ids /\ i # NoId /\ c \in Channels /\ p.chan[c] = "closing"
  BY <1>1, IdsAreInts DEF Resettable
<1>3. r = [p EXCEPT !.chan = chan, !.table = table]
  BY <1>1, <1>2, IdsAreInts DEF ChannelClosed, End
<1> HIDE DEF r, chan, table, c
<1>4. r.assoc = p.assoc /\ Still(p, r) /\ r.id = p.id /\ r.queue = p.queue
  BY <1>3 DEF End, Still
<1>5. r.chan = chan /\ r.table = table
  BY <1>3 DEF End
<1>6. /\ \A d \in Channels : d # c => r.chan[d] = p.chan[d]
      /\ r.chan[c] = "closed" /\ \A j \in Ids : j # i => r.table[j] = p.table[j]
  BY <1>1, <1>2, <1>5 DEF chan, table
<1>7. ASSUME NEW j, j # i, Resettable(p, j)
      PROVE  Resettable(r, j)
  <2>1. j \in Ids /\ p.table[j] \in Channels /\ r.table[j] = p.table[j]
    BY <1>1, <1>6, <1>7 DEF Resettable
  <2>2. p.table[j] # c
    <3>1. p.id[p.table[j]] = j /\ p.id[c] = i
      BY <1>2, <2>1 DEF EndFits, TableFits, c
    <3> QED  BY <1>7, <3>1
  <2> QED  BY <1>6, <1>7, <2>1, <2>2 DEF Resettable
<1> QED  BY <1>2, <1>4, <1>6, <1>7 DEF ResetBy, r

LEMMA Joined ==
  ASSUME NEW S, NEW a \in Seq(S), NEW b \in Seq(S)
  PROVE  /\ Len(a) \in Nat /\ DOMAIN a = 1 .. Len(a) /\ DOMAIN b = 1 .. Len(b) /\ Len(b) \in Nat
         /\ DOMAIN (a \o b) = 1 .. Len(a) + Len(b)
         /\ \A k \in 1 .. Len(a) : (a \o b)[k] = a[k]
         /\ \A k \in 1 .. Len(b) : (a \o b)[Len(a) + k] = b[k]
  OBVIOUS

(* How far the resets that were asked for have been completed.             *)
Completed(e, p, n, q) ==
  /\ q \in End /\ EndFits(e, q) /\ q.assoc = p.assoc /\ Still(p, q) /\ q.id = p.id /\ q.queue = p.queue
  /\ \A d \in Channels : q.chan[d] = p.chan[d] \/ (p.chan[d] = "closing" /\ q.chan[d] = "closed")
  /\ \A l \in DOMAIN Pending(p) : l > n => Resettable(q, Pending(p)[l])

LEMMA CompletedOne ==
  ASSUME NEW e \in Ends, NEW p \in End, Orderly(e, p), NEW n \in 0 .. Len(p.request) - 1,
         NEW q, Completed(e, p, n, q)
  PROVE  Completed(e, p, n + 1, ChannelClosed(q, p.request[n + 1]))
<1> DEFINE i == p.request[n + 1]
           s == Pending(p)
           r == ChannelClosed(q, i)
<1>1. q \in End /\ EndFits(e, q)
  BY DEF Completed
<1>2. n \in Nat /\ n + 1 \in DOMAIN s /\ s[n + 1] = i /\ DOMAIN s \subseteq Nat /\ i \in SomeId
  <2> DEFINE a == p.request
             b == p.resets
  <2>1. a \in Seq(SomeId) /\ b \in Seq(SomeId) /\ s = a \o b /\ i = a[n + 1]
    BY DEF End, Pending
  <2>2. n \in 0 .. Len(a) - 1
    OBVIOUS
  <2> HIDE DEF a, b, s, i
  <2>3. /\ Len(a) \in Nat /\ Len(b) \in Nat /\ DOMAIN s = 1 .. Len(a) + Len(b)
        /\ \A k \in 1 .. Len(a) : s[k] = a[k]
    BY <2>1, Joined
  <2>4. n \in Nat /\ n + 1 \in 1 .. Len(a) /\ n + 1 \in 1 .. Len(a) + Len(b)
    BY <2>2, <2>3
  <2>5. a[n + 1] \in SomeId
    BY <2>1, <2>4
  <2> QED  BY <2>1, <2>3, <2>4, <2>5
<1> HIDE DEF i, s, r
<1>3. Resettable(q, i)
  BY <1>2 DEF Completed, s
<1>4. ResetBy(q, i, r)
  BY <1>1, <1>3, ResetIs DEF r
<1>5. r \in End /\ EndFits(e, r)
  BY <1>1, <1>2, ClosedQuiet DEF Quiet, r
<1>6. \A l \in DOMAIN s : l > n + 1 => l > n /\ s[l] # i
  BY <1>2 DEF Orderly, s
<1>7. \A l \in DOMAIN s : l > n + 1 => Resettable(r, s[l])
  BY <1>4, <1>6 DEF Completed, ResetBy, s
<1>8. r.assoc = p.assoc /\ Still(p, r) /\ r.id = p.id /\ r.queue = p.queue
  BY <1>4 DEF Completed, ResetBy, Still
<1>9. \A d \in Channels : r.chan[d] = p.chan[d] \/ (p.chan[d] = "closing" /\ r.chan[d] = "closed")
  BY <1>4 DEF Completed, ResetBy
<1> QED  BY <1>5, <1>7, <1>8, <1>9 DEF Completed, s, r, i

LEMMA CompletedAll ==
  ASSUME NEW e \in Ends, NEW p \in End, EndFits(e, p), Orderly(e, p)
  PROVE  Completed(e, p, Len(p.request), FoldLeft(ChannelClosed, p, p.request))
<1> DEFINE s == p.request
           n == Len(s)
           S == {q \in End : EndFits(e, q)}
           T == SomeId
           V == [k \in 0 .. n |-> {q \in S : Completed(e, p, k, q)}]
<1>1. s \in Seq(T) /\ p \in S
  BY DEF End
<1>2. n \in Nat
  BY <1>1
<1>3. \A q \in S, i \in T : ChannelClosed(q, i) \in S
  BY ClosedQuiet DEF Quiet
<1>4. p \in V[0]
  <2>1. Completed(e, p, 0, p)
    BY DEF Completed, Still, Orderly
  <2> QED  BY <1>1, <1>2, <2>1
<1>5. ASSUME NEW k \in 0 .. n - 1, NEW q \in S \cap V[k]
      PROVE  ChannelClosed(q, s[k + 1]) \in V[k + 1]
  <2>1. k \in 0 .. n /\ k + 1 \in 0 .. n
    BY <1>2
  <2>2. Completed(e, p, k, q)
    BY <2>1
  <2>3. Completed(e, p, k + 1, ChannelClosed(q, s[k + 1]))
    BY <2>2, CompletedOne
  <2>4. ChannelClosed(q, s[k + 1]) \in S
    BY <2>3 DEF Completed
  <2> HIDE DEF S, s, n
  <2> QED  BY <2>1, <2>3, <2>4
<1> HIDE DEF S, T, V
<1>6. FoldLeft(ChannelClosed, p, s) \in S \cap V[Len(s)]
  <2> HIDE DEF s
  <2> QED  BY <1>1, <1>3, <1>4, <1>5, ClosedIn DEF n
<1> QED  BY <1>2, <1>6 DEF V

(* The response: the channels are closed, and what was queued is asked for.*)
LEMMA CompleteIs ==
  ASSUME ChannelInv, Calm, NEW e \in Ends, NEW r, r = CompleteRequest(e, end[e])
  PROVE  Proceeds(e, r) /\ r \in End /\ r.queue = end[e].queue /\ r.out = <<>>
         /\ \A d \in Channels : end[e].chan[d] = "connecting" => r.chan[d] = "connecting"
<1> DEFINE p == end[e]
           o == end[Other(e)]
           q == FoldLeft(ChannelClosed, p, p.request)
           u == [q EXCEPT !.request = <<>>]
           t == TransmitReconfig(e, u)
<1>1. /\ p \in End /\ EndFits(e, p) /\ Orderly(e, p) /\ p.control = {} /\ p.out = <<>>
      /\ p.request \in Seq(SomeId) /\ p.resets \in Seq(SomeId)
  BY DEF ChannelInv, Types, Calm, End
<1>2. r = IF q.deaf \/ NoId \in Range(t.request) THEN Raise(q) ELSE t
  BY DEF CompleteRequest
<1>3. Completed(e, p, Len(p.request), q)
  BY <1>1, CompletedAll
<1> HIDE DEF p, o, q
<1>4. /\ u \in End /\ u.chan = q.chan /\ u.id = q.id /\ u.table = q.table /\ u.queue = q.queue
      /\ u.out = q.out
  <2>1. <<>> \in Seq(SomeId) /\ q \in End
    BY <1>3 DEF Completed
  <2> HIDE DEF Message, Chunk, Item, SomeId, States
  <2> QED  BY <2>1 DEF End
<1>5. u.assoc = q.assoc /\ u.deaf = q.deaf /\ u.resets = q.resets /\ u.request = <<>> /\ u.control = q.control
  <2>1. q \in End
    BY <1>3 DEF Completed
  <2> HIDE DEF Message, Chunk, Item, SomeId, States
  <2> QED  BY <2>1 DEF End
<1> HIDE DEF u
<1>6. EndFits(e, u)
  <2>1. EndFits(e, q)
    BY <1>3 DEF Completed
  <2> QED  BY <1>4, <2>1, SameQuiet DEF Quiet
<1>7. /\ u.assoc = p.assoc /\ ~ u.deaf /\ u.resets = p.resets /\ u.control = {} /\ u.out = <<>>
      /\ u.id = p.id /\ u.queue = p.queue
      /\ \A d \in Channels : u.chan[d] = p.chan[d] \/ (p.chan[d] = "closing" /\ u.chan[d] = "closed")
  BY <1>1, <1>3, <1>4, <1>5 DEF Completed, Still, Orderly
<1>8. Pending(u) = p.resets
  BY <1>1, <1>5, <1>7, EmptyJoined DEF Pending
<1>9. Orderly(e, u)
  <2> DEFINE a == p.request
             b == p.resets
             s == Pending(p)
             n == Len(a)
  <2>1. /\ n \in Nat /\ DOMAIN b = 1 .. Len(b) /\ Len(b) \in Nat
        /\ DOMAIN s = 1 .. n + Len(b) /\ \A k \in 1 .. Len(b) : s[n + k] = b[k]
    <3>1. a \in Seq(SomeId) /\ b \in Seq(SomeId) /\ s = a \o b
      BY <1>1 DEF Pending
    <3> HIDE DEF a, b, s
    <3> QED  BY <3>1, Joined
  <2>2. \A l \in DOMAIN s : l > n => Resettable(q, s[l])
    BY <1>3 DEF Completed
  <2>3. \A k, l \in DOMAIN s : s[k] = s[l] => k = l
    BY <1>1 DEF Orderly
  <2> HIDE DEF s, n, b
  <2>4. \A k \in DOMAIN b : n + k \in DOMAIN s /\ n + k > n /\ s[n + k] = b[k]
    BY <2>1
  <2>5. \A k \in DOMAIN b : Resettable(u, b[k])
    BY <1>4, <2>2, <2>4 DEF Resettable
  <2>6. \A k, l \in DOMAIN b : b[k] = b[l] => k = l
    <3>1. \A k, l \in DOMAIN b : n + k = n + l => k = l
      BY <2>1
    <3> QED  BY <2>3, <2>4, <3>1
  <2>7. u.assoc = "connecting" => \A d \in Channels : u.chan[d] # "closing"
    BY <1>1, <1>7 DEF Orderly
  <2> QED  BY <1>1, <1>7, <1>8, <2>5, <2>6, <2>7 DEF Orderly, b
<1>10. /\ Orderly(e, t) /\ t \in End /\ t.chan = u.chan /\ t.id = u.id /\ t.table = u.table
       /\ t.queue = u.queue /\ t.out = u.out
       /\ NoId \notin Range(u.request) => NoId \notin Range(t.request)
       /\ \A m \in t.control : m.to = Other(e) /\ \A k \in DOMAIN m.ids : Resettable(u, m.ids[k])
  BY <1>4, <1>6, <1>7, <1>9, TransmitOrderly
<1>11. EndFits(e, t)
  BY <1>4, <1>6, TransmitQuiet DEF Quiet
<1> HIDE DEF t
<1>12. r = t
  <2>1. NoId \notin Range(u.request)
    BY <1>5 DEF Range
  <2> QED  BY <1>2, <1>5, <1>7, <1>10, <2>1
<1>13. \A d \in Channels : t.chan[d] = "closing" => Past(o, d)
  BY <1>7, <1>10 DEF Calm, ClosingsFit, p, o
<1>14. Proceeds(e, t)
  <2>1. \A j : Resettable(u, j) => Known(t, o, j)
    <3>1. \A j : Resettable(u, j) => Resettable(t, j)
      BY <1>10 DEF Resettable
    <3> QED  BY <1>10, <1>11, <1>13, <3>1, ResetsKnown
  <2>2. \A d \in Channels : Past(p, d) => Past(t, d)
    BY <1>7, <1>10 DEF Past
  <2> QED  BY <1>7, <1>10, <1>13, <2>1, <2>2 DEF Proceeds, p, o
<1> QED  BY <1>7, <1>10, <1>12, <1>14 DEF p

LEMMA ReceiveReconfigCalm ==
  ASSUME ChannelInv, Calm, spoiled' = {}, spoiled = {}, NEW e \in Ends, NEW m \in control,
         ReceiveReconfig(e, m)
  PROVE  Calm'
<1> DEFINE p == end[e]
           closing == FoldLeft(LAMBDA q, i : IF q.table[i] = NoChannel THEN q
                                             ELSE CloseChannel(q, q.table[i]), p, m.ids)
           chunk == [to |-> Other(e), kind |-> "response", no |-> m.no, ids |-> <<>>]
<1>1. p.assoc = "established" /\ m.to = e
  BY DEF ReceiveReconfig, Spoils
<1>2. m.ids \in Seq(Ids) /\ m.no \in Nat
  BY DEF ChannelInv, Types, Chunk
<1>3. CASE m.kind = "request"
  <2>1. Requested(e, closing)
    <3>1. \A k \in DOMAIN m.ids : Known(end[Other(e)], p, m.ids[k])
      BY <1>1, <1>3 DEF Calm, RequestsFit
    <3> QED  BY <1>1, <1>2, <3>1, RequestedAll, Zenon
  <2>2. EndGoesOn(e, [closing EXCEPT !.control = {chunk}], NoId, {m})
    BY <1>1, <1>3 DEF ReceiveReconfig
  <2>3. chunk \in Chunk /\ chunk.kind = "response"
    <3>1. <<>> \in Seq(Ids) /\ Other(e) \in Ends
      BY Others
    <3> QED  BY <1>2, <3>1 DEF Chunk
  <2> HIDE DEF closing, chunk
  <2> QED  BY <1>1, <1>3, <2>1, <2>2, <2>3, RequestCalm
<1>4. CASE m.kind # "request" /\ p.request # <<>> /\ m.no + 1 = p.requestNo
  <2>1. EndGoesOn(e, CompleteRequest(e, p), NoId, {m})
    BY <1>1, <1>4 DEF ReceiveReconfig
  <2> DEFINE r == CompleteRequest(e, p)
  <2>2. /\ Proceeds(e, r) /\ r \in End /\ r.queue = p.queue /\ r.out = <<>>
        /\ \A d \in Channels : p.chan[d] = "connecting" => r.chan[d] = "connecting"
    BY CompleteIs
  <2> HIDE DEF r
  <2> QED  BY <2>1, <2>2, QuietCalm DEF r, Own
<1>5. CASE m.kind # "request" /\ ~ (p.request # <<>> /\ m.no + 1 = p.requestNo)
  <2>1. EndGoesOn(e, p, NoId, {m})
    BY <1>1, <1>5 DEF ReceiveReconfig
  <2>2. p.control = {} /\ p.out = <<>> /\ Orderly(e, p) /\ p \in End
    BY DEF ChannelInv, Types, Calm
  <2>3. Proceeds(e, p)
    BY <2>2, StaysOrderly DEF Orderly
  <2> QED  BY <2>1, <2>2, <2>3, QuietCalm
<1> QED  BY <1>3, <1>4, <1>5

-----------------------------------------------------------------------------
LEMMA LoseCalm ==
  ASSUME NEW m, LoseReconfig(m)
  PROVE  spoiled' # {}
  BY DEF LoseReconfig, Spoils

LEMMA DownCalm ==
  ASSUME NEW e, Down(e)
  PROVE  spoiled' # {}
  BY DEF Down, Spoils

(* What has happened is not forgotten.                                     *)
LEMMA SpoiledStays == [ChannelNext]_channelVars => spoiled \subseteq spoiled'
<1> SUFFICES ASSUME [ChannelNext]_channelVars PROVE spoiled \subseteq spoiled'
  OBVIOUS
<1>1. CASE UNCHANGED channelVars
  BY <1>1 DEF channelVars
<1>2. CASE ChannelNext
  BY <1>2 DEF ChannelNext, Create, Close, RunFlush, RunReconfig, Up, Down, ReceiveStream,
              ReceiveControl, ReceiveReconfig, LoseReconfig, Spoils
<1> QED  BY <1>1, <1>2

LEMMA StepCalm == ChannelInv /\ CalmInv /\ [ChannelNext]_channelVars => CalmInv'
<1> SUFFICES ASSUME ChannelInv, CalmInv, [ChannelNext]_channelVars, spoiled' = {}
             PROVE  Calm'
  BY DEF CalmInv
<1>1. spoiled = {} /\ Calm
  BY SpoiledStays DEF CalmInv
<1>2. CASE UNCHANGED channelVars
  <2>1. end' = end /\ stream' = stream /\ control' = control
    BY <1>2 DEF channelVars
  <2> QED  BY <1>1, <2>1 DEF Calm, AnnouncedAt, ClosingsFit, RequestsFit
<1>3. ASSUME NEW e \in Ends, NEW c \in Channels, Create(e, c)
      PROVE  Calm'
  BY <1>1, <1>3, NegotiatedCalm, OwnCalm
<1>4. ASSUME NEW e \in Ends, NEW c \in Channels, Close(e, c)
      PROVE  Calm'
  BY <1>1, <1>4, CloseCalm
<1>5. ASSUME NEW e \in Ends, RunFlush(e)
      PROVE  Calm'
  BY <1>1, <1>5, RunFlushCalm
<1>6. ASSUME NEW e \in Ends, RunReconfig(e)
      PROVE  Calm'
  BY <1>1, <1>6, RunReconfigCalm
<1>7. ASSUME NEW e \in Ends, Up(e)
      PROVE  Calm'
  BY <1>1, <1>7, UpCalm
<1>8. ASSUME NEW e \in Ends, Down(e)
      PROVE  Calm'
  BY <1>8, DownCalm
<1>9. ASSUME NEW e \in Ends, NEW i \in Ids, ReceiveStream(e, i)
      PROVE  Calm'
  BY <1>1, <1>9, ReceiveStreamCalm
<1>10. ASSUME NEW e \in Ends, ReceiveControl(e)
       PROVE  Calm'
  BY <1>1, <1>10, ReceiveReconfigCalm DEF ReceiveControl
<1>11. ASSUME NEW m \in control, LoseReconfig(m)
       PROVE  Calm'
  BY <1>11, LoseCalm
<1> QED  BY <1>2, <1>3, <1>4, <1>5, <1>6, <1>7, <1>8, <1>9, <1>10, <1>11 DEF ChannelNext

LEMMA AlwaysCalm == ChannelSpec => []CalmInv
<1>1. ChannelInit => CalmInv
  BY InitCalm
<1>2. ChannelInv /\ CalmInv /\ [ChannelNext]_channelVars => CalmInv'
  BY StepCalm
<1> QED  BY <1>1, <1>2, AlwaysFits, PTL DEF ChannelSpec

(* Nothing that _data_channel_receive and _data_channel_closed take for    *)
(* granted fails, as long as no channel is closed before both ends opened  *)
(* it, no id is given out again, no reset is lost and the association      *)
(* stays up: the receive loop goes on.                                     *)
THEOREM ReceiveGoesOn == ChannelSpec => []AssertionsHold
<1>1. CalmInv => AssertionsHold
  BY DEF CalmInv, AssertionsHold, Calm, Orderly
<1> QED  BY <1>1, AlwaysCalm, PTL

=============================================================================
