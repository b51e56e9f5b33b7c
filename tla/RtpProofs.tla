------------------------------ MODULE RtpProofs ------------------------------
(***************************************************************************)
(* Theorems about media.  Of RtpRouter for every set of receivers and      *)
(* senders, their SSRCs and payload types; of RtpStream for every capacity *)
(* of the jitter buffer, every range of sequence numbers, every order of   *)
(* arrival and any number of losses; of H264Packets for every PACKET_MAX   *)
(* and every sequence of well-formed units.                                *)
(***************************************************************************)
EXTENDS RtpRouter, RtpStream, H264Packets, DataLemmas, FiniteSetTheorems

-----------------------------------------------------------------------------
(* The router: its tables follow from who is registered.                   *)

(* The tables hold receivers and senders.                                  *)
Tables ==
  /\ started \subseteq Receivers \cup Senders
  /\ ssrcTable \in [Ssrcs -> Receivers \cup {Nobody}]
  /\ payloadTable \in [PayloadTypes -> SUBSET Receivers]
  /\ senderTable \in [Ssrcs -> Senders \cup {Nobody}]

(* Every registered receiver is in the table of its payload types, and     *)
(* nobody else.                                                            *)
PayloadsFollow ==
  \A t \in PayloadTypes : payloadTable[t] = {r \in Receivers \cap started : t \in Accepted[r]}

(* A registered receiver has the SSRCs that it declared; those that were   *)
(* learned belong to registered ones.                                      *)
SsrcsFollow ==
  /\ \A s \in Ssrcs : ssrcTable[s] \in started \cup {Nobody}
  /\ \A r \in Receivers \cap started : \A s \in Declared[r] : ssrcTable[s] = r

(* The table of the senders is that of the registered ones.                *)
SendersFollow ==
  /\ \A s \in Ssrcs : senderTable[s] \in started \cup {Nobody}
  /\ \A x \in Senders : senderTable[OwnSsrc[x]] = IF x \in started THEN x ELSE Nobody

TablesFollow == Tables /\ PayloadsFollow /\ SsrcsFollow /\ SendersFollow

(* A packet is routed to a receiver of its payload type, if to any.        *)
LEMMA RoutedByPayload ==
  ASSUME Tables, NEW s \in Ssrcs, NEW t \in PayloadTypes
  PROVE  /\ RouteRtp(s, t) \in payloadTable[t] \cup {Nobody}
         /\ ssrcTable[s] \in payloadTable[t] => RouteRtp(s, t) = ssrcTable[s]
         /\ ssrcTable[s] \notin payloadTable[t] /\ ssrcTable[s] # Nobody => RouteRtp(s, t) = Nobody
<1>1. Nobody \notin payloadTable[t]
  BY RouterAssumption DEF Tables, RouterAssumption
<1>2. Only(t) # {} => (CHOOSE r \in Only(t) : TRUE) \in payloadTable[t]
  <2>1. ASSUME Only(t) # {}
        PROVE  (CHOOSE r \in Only(t) : TRUE) \in Only(t)
    BY <2>1
  <2>2. \A r \in Only(t) : r \in payloadTable[t]
    BY DEF Only
  <2> QED  BY <2>1, <2>2
<1> QED  BY <1>1, <1>2 DEF RouteRtp

LEMMA InitFollows == RouterInit => TablesFollow
  BY RouterAssumption
     DEF RouterAssumption, RouterInit, TablesFollow, Tables, PayloadsFollow, SsrcsFollow, SendersFollow

LEMMA RegisteredReceiver ==
  ASSUME TablesFollow, NEW r \in Receivers, RegisterReceiver(r)
  PROVE  TablesFollow'
<1> USE RouterAssumption DEF RouterAssumption
<1>1. /\ started' = started \cup {r} /\ r \notin started /\ senderTable' = senderTable
      /\ ssrcTable' = [s \in Ssrcs |-> IF s \in Declared[r] THEN r ELSE ssrcTable[s]]
      /\ payloadTable' = [t \in PayloadTypes |->
                            IF t \in Accepted[r] THEN payloadTable[t] \cup {r} ELSE payloadTable[t]]
  BY DEF RegisterReceiver, Enters
<1>2. Tables'
  BY <1>1 DEF TablesFollow, Tables
<1>3. PayloadsFollow'
  <2> SUFFICES ASSUME NEW t \in PayloadTypes
               PROVE  payloadTable'[t] = {x \in Receivers \cap started' : t \in Accepted[x]}
    BY DEF PayloadsFollow
  <2>1. payloadTable[t] = {x \in Receivers \cap started : t \in Accepted[x]}
    BY DEF TablesFollow, PayloadsFollow
  <2>2. payloadTable'[t] = IF t \in Accepted[r] THEN payloadTable[t] \cup {r} ELSE payloadTable[t]
    BY <1>1
  <2> QED  BY <1>1, <2>1, <2>2
<1>4. SsrcsFollow'
  <2>1. \A s \in Ssrcs : ssrcTable'[s] \in started' \cup {Nobody}
    BY <1>1 DEF TablesFollow, SsrcsFollow
  <2>2. ASSUME NEW x \in Receivers \cap started', NEW s \in Declared[x]
        PROVE  ssrcTable'[s] = x
    <3>1. s \in Ssrcs
      OBVIOUS
    <3>2. CASE x = r
      BY <1>1, <3>1, <3>2
    <3>3. CASE x # r
      BY <1>1, <3>1, <3>3 DEF TablesFollow, SsrcsFollow
    <3> QED  BY <3>2, <3>3
  <2> QED  BY <2>1, <2>2 DEF SsrcsFollow
<1>5. SendersFollow'
  BY <1>1 DEF TablesFollow, SendersFollow
<1> QED  BY <1>2, <1>3, <1>4, <1>5 DEF TablesFollow

LEMMA UnregisteredReceiver ==
  ASSUME TablesFollow, NEW r \in Receivers, UnregisterReceiver(r)
  PROVE  TablesFollow'
<1> USE RouterAssumption DEF RouterAssumption
<1>1. /\ started' = started \ {r} /\ senderTable' = senderTable
      /\ ssrcTable' = [s \in Ssrcs |-> IF ssrcTable[s] = r THEN Nobody ELSE ssrcTable[s]]
      /\ payloadTable' = [t \in PayloadTypes |-> payloadTable[t] \ {r}]
  BY DEF UnregisterReceiver, Leaves, Without
<1>2. Tables'
  BY <1>1 DEF TablesFollow, Tables
<1>3. PayloadsFollow'
  BY <1>1 DEF TablesFollow, PayloadsFollow
<1>4. SsrcsFollow'
  BY <1>1 DEF TablesFollow, SsrcsFollow
<1>5. SendersFollow'
  BY <1>1 DEF TablesFollow, Tables, SendersFollow
<1> QED  BY <1>2, <1>3, <1>4, <1>5 DEF TablesFollow

LEMMA SenderComesAndGoes ==
  ASSUME TablesFollow, NEW x \in Senders, RegisterSender(x) \/ UnregisterSender(x)
  PROVE  TablesFollow'
<1> USE RouterAssumption DEF RouterAssumption
<1>1. x \notin Receivers /\ ssrcTable' = ssrcTable /\ payloadTable' = payloadTable
  BY DEF RegisterSender, UnregisterSender
<1>2. \/ /\ started' = started \cup {x}
         /\ senderTable' = [senderTable EXCEPT ![OwnSsrc[x]] = x]
      \/ /\ started' = started \ {x}
         /\ senderTable' = [s \in Ssrcs |-> IF senderTable[s] = x THEN Nobody ELSE senderTable[s]]
  BY DEF RegisterSender, UnregisterSender, Enters, Leaves, Without
<1>3. Tables'
  BY <1>1, <1>2 DEF TablesFollow, Tables
<1>4. Receivers \cap started' = Receivers \cap started
  BY <1>1, <1>2
<1>5. PayloadsFollow'
  BY <1>1, <1>4 DEF TablesFollow, PayloadsFollow
<1>6. SsrcsFollow'
  BY <1>1, <1>4 DEF TablesFollow, Tables, SsrcsFollow
<1>7. SendersFollow'
  BY <1>2 DEF TablesFollow, Tables, SendersFollow
<1> QED  BY <1>3, <1>5, <1>6, <1>7 DEF TablesFollow

LEMMA PacketFollows ==
  ASSUME TablesFollow, NEW s \in Ssrcs, NEW t \in PayloadTypes, ReceiveRtp(s, t)
  PROVE  TablesFollow'
<1> USE RouterAssumption DEF RouterAssumption
<1>1. RouteRtp(s, t) \in (Receivers \cap started) \cup {Nobody}
  <2>1. RouteRtp(s, t) \in payloadTable[t] \cup {Nobody}
    BY RoutedByPayload DEF TablesFollow
  <2> QED  BY <2>1 DEF TablesFollow, PayloadsFollow
<1>2. /\ started' = started /\ payloadTable' = payloadTable /\ senderTable' = senderTable
      /\ ssrcTable' = [ssrcTable EXCEPT ![s] = IF @ = Nobody THEN RouteRtp(s, t) ELSE @]
  BY DEF ReceiveRtp
<1>3. Tables'
  BY <1>1, <1>2 DEF TablesFollow, Tables
<1>4. PayloadsFollow' /\ SendersFollow'
  BY <1>2 DEF TablesFollow, PayloadsFollow, SendersFollow
<1>5. SsrcsFollow'
  BY <1>1, <1>2 DEF TablesFollow, Tables, SsrcsFollow
<1> QED  BY <1>3, <1>4, <1>5 DEF TablesFollow

LEMMA StepFollows == TablesFollow /\ [RouterNext]_routerVars => TablesFollow'
<1> SUFFICES ASSUME TablesFollow, [RouterNext]_routerVars
             PROVE  TablesFollow'
  OBVIOUS
<1>1. ASSUME NEW r \in Receivers, RegisterReceiver(r)
      PROVE  TablesFollow'
  BY <1>1, RegisteredReceiver
<1>2. ASSUME NEW r \in Receivers, UnregisterReceiver(r)
      PROVE  TablesFollow'
  BY <1>2, UnregisteredReceiver
<1>3. ASSUME NEW x \in Senders, RegisterSender(x) \/ UnregisterSender(x)
      PROVE  TablesFollow'
  BY <1>3, SenderComesAndGoes
<1>4. ASSUME NEW s \in Ssrcs, NEW t \in PayloadTypes, ReceiveRtp(s, t)
      PROVE  TablesFollow'
  BY <1>4, PacketFollows
<1>5. CASE UNCHANGED routerVars
  BY <1>5 DEF routerVars, TablesFollow, Tables, PayloadsFollow, SsrcsFollow, SendersFollow
<1> QED  BY <1>1, <1>2, <1>3, <1>4, <1>5 DEF RouterNext

LEMMA RoutesFollowTables == TablesFollow => RoutesAreTrue
<1> SUFFICES ASSUME TablesFollow
             PROVE  RoutesAreTrue
  OBVIOUS
<1> USE RouterAssumption DEF RouterAssumption
<1>1. Nobody \notin started
  BY DEF TablesFollow, Tables
<1>2. ASSUME NEW s \in Ssrcs, NEW t \in PayloadTypes
      PROVE  /\ RouteRtp(s, t) # Nobody => RouteRtp(s, t) \in started /\ t \in Accepted[RouteRtp(s, t)]
             /\ \A r \in Receivers \cap started :
                  s \in Declared[r] => RouteRtp(s, t) = (IF t \in Accepted[r] THEN r ELSE Nobody)
  <2>1. payloadTable[t] = {r \in Receivers \cap started : t \in Accepted[r]}
    BY DEF TablesFollow, PayloadsFollow
  <2>2. RouteRtp(s, t) \in payloadTable[t] \cup {Nobody}
    BY RoutedByPayload DEF TablesFollow
  <2>3. ASSUME NEW r \in Receivers \cap started, s \in Declared[r]
        PROVE  RouteRtp(s, t) = (IF t \in Accepted[r] THEN r ELSE Nobody)
    <3>1. ssrcTable[s] = r /\ r # Nobody
      BY <1>1, <2>3 DEF TablesFollow, SsrcsFollow
    <3> QED  BY <2>1, <3>1, RoutedByPayload DEF TablesFollow
  <2> QED  BY <2>1, <2>2, <2>3
<1>3. ASSUME NEW sources \in SUBSET Ssrcs, NEW streams \in SUBSET Ssrcs
      PROVE  RouteRtcp(sources, streams) \subseteq started
  BY DEF RouteRtcp, TablesFollow, SsrcsFollow, SendersFollow
<1>4. ASSUME NEW r \in Receivers \cap started, NEW s \in Declared[r]
      PROVE  RouteRtcp({s}, {}) = {r}
  BY <1>1 DEF RouteRtcp, TablesFollow, SsrcsFollow
<1>5. ASSUME NEW x \in Senders
      PROVE  RouteRtcp({}, {OwnSsrc[x]}) = {x} \cap started
  BY <1>1 DEF RouteRtcp, TablesFollow, SendersFollow
<1> QED  BY <1>2, <1>3, <1>4, <1>5 DEF RoutesAreTrue

(* Packets and reports reach the receiver or the sender they are meant     *)
(* for, and nothing reaches one that was stopped, however registrations,   *)
(* packets and stops of RtpRouter's users follow each other.               *)
THEOREM RoutesTrue == RouterSpec => []RoutesAreTrue
<1>1. RouterInit => TablesFollow
  BY InitFollows
<1>2. TablesFollow /\ [RouterNext]_routerVars => TablesFollow'
  BY StepFollows
<1>3. TablesFollow => RoutesAreTrue
  BY RoutesFollowTables
<1> QED  BY <1>1, <1>2, <1>3, PTL DEF RouterSpec

-----------------------------------------------------------------------------
(* The stream: a packet is in the slot of its distance from the origin, so *)
(* the frame in front of the buffer is a frame without a hole.             *)

OrNone(S) == S \cup {None}

Receiver ==
  [max : OrNone(Numbers16), missing : SUBSET Numbers16, origin : OrNone(Numbers16),
   slot : [0 .. Capacity - 1 -> OrNone(Numbers16)]]

RtpTypes ==
  /\ sending.next \in Numbers16
  /\ sending.history \in [0 .. HistorySize - 1 -> OrNone(Numbers16)]
  /\ flight \subseteq Numbers16 /\ nack \subseteq Numbers16
  /\ receiving \in Receiver
  /\ decoder \in [frame : Seq(Numbers16), told : BOOLEAN]

(* A slot of the jitter buffer is empty, or has the one packet that is as  *)
(* far from the origin as the slot is.                                     *)
SlotsFit(r) ==
  \A k \in 0 .. Capacity - 1 :
    r.slot[k] # None =>
      r.origin # None /\ r.slot[k] = Plus(r.origin, (k - r.origin) % Capacity)

(* Unless the buffer jumped since, it goes on after the last frame.        *)
GoesOn(d, r) ==
  d.frame # <<>> /\ ~d.told => r.origin = Plus(d.frame[Len(d.frame)], 1)

RtpInv == RtpTypes /\ SlotsFit(receiving) /\ GoesOn(decoder, receiving) /\ FramesHaveNoHole

-----------------------------------------------------------------------------
(* Sequence numbers and slots.                                             *)

LEMMA PlusIn ==
  ASSUME NEW a \in Int, NEW b \in Int
  PROVE  Plus(a, b) \in Numbers16
  <1>1. Wrap \in Nat \ {0} /\ a + b \in Int
    BY RtpAssumption
  <1> QED BY <1>1, DivMod DEF Plus, Numbers16

LEMMA PlusIs ==
  ASSUME NEW a \in Int, NEW b \in Int, NEW c \in Int
  PROVE  /\ Plus(a, b) \in Numbers16
         /\ Plus(Plus(a, b), c) = Plus(a, b + c)
         /\ Plus(c, Plus(a, b)) = Plus(a, b + c)
         /\ Plus(a, -Plus(b, c)) = Plus(a, -(b + c))
  <1>1. Wrap \in Nat \ {0} /\ a + b \in Int /\ b + c \in Int
    BY RtpAssumption
  <1>2. Plus(a, b) \in Numbers16
    BY <1>1, DivMod DEF Plus, Numbers16
  <1>3. (((a + b) % Wrap) + c) % Wrap = ((a + b) + c) % Wrap
    BY <1>1, ModAdd
  <1>4. (c + ((a + b) % Wrap)) % Wrap = (c + (a + b)) % Wrap
    BY <1>1, ModAdd
  <1>5. (a - ((b + c) % Wrap)) % Wrap = (a - (b + c)) % Wrap
    BY <1>1, ModAdd
  <1>6. (a + b) + c = a + (b + c) /\ c + (a + b) = a + (b + c) /\ a - (b + c) = a + (-(b + c))
        /\ \A x \in Int : a - x = a + (-x)
    OBVIOUS
  <1>7. (b + c) % Wrap \in Int
    BY <1>1, DivMod
  <1> QED BY <1>2, <1>3, <1>4, <1>5, <1>6, <1>7 DEF Plus

LEMMA PlusZero ==
  ASSUME NEW a \in Numbers16, NEW s \in Numbers16
  PROVE  /\ Plus(a, 0) = a /\ Plus(a, Plus(s, -a)) = s
         /\ a \in Int
  <1>1. Wrap \in Nat \ {0} /\ a \in Int /\ s \in Int /\ -a \in Int
    BY RtpAssumption DEF Numbers16
  <1>2. a % Wrap = a /\ s % Wrap = s
    BY <1>1, ModSmall DEF Numbers16
  <1>3. Plus(a, Plus(s, -a)) = Plus(s, (-a) + a)
    BY <1>1, PlusIs
  <1>4. (-a) + a = 0 /\ s + 0 = s /\ a + 0 = a
    BY <1>1
  <1> QED BY <1>1, <1>2, <1>3, <1>4 DEF Plus

LEMMA Moduli ==
  /\ Wrap \in Nat \ {0} /\ Capacity \in Nat \ {0} /\ Wrap % Capacity = 0 /\ Capacity < Wrap
  <1>1. /\ Wrap \in Nat \ {0} /\ Capacity \in Nat \ {0} /\ Wrap % Capacity = 0
        /\ Capacity < Wrap \div 2
    BY RtpAssumption
  <1>2. Wrap = (2 * (Wrap \div 2)) + (Wrap % 2) /\ Wrap % 2 \in 0 .. 1 /\ Wrap \div 2 \in Int
    BY <1>1, DivMod
  <1> QED BY <1>1, <1>2

(* The slot of a packet that is no further than the capacity from the      *)
(* origin is as far from the slot of the origin.                           *)
LEMMA SlotOf ==
  ASSUME NEW o \in Numbers16, NEW s \in Numbers16, Plus(s, -o) < Capacity
  PROVE  s % Capacity \in 0 .. Capacity - 1 /\ ((s % Capacity) - o) % Capacity = Plus(s, -o)
  <1> DEFINE d == (s - o) % Wrap
  <1>1. o \in Int /\ s \in Int /\ s - o \in Int /\ -o \in Int /\ s + (-o) = s - o
    BY DEF Numbers16
  <1>2. d \in 0 .. Capacity - 1 /\ d = Plus(s, -o)
    BY <1>1, Moduli, DivMod DEF Plus
  <1>3. d % Capacity = (s - o) % Capacity
    BY <1>1, Moduli, ModMod
  <1> HIDE DEF d
  <1>4. ((s % Capacity) + (-o)) % Capacity = (s + (-o)) % Capacity
    BY <1>1, Moduli, ModAdd
  <1>5. d % Capacity = d
    BY <1>2, Moduli, ModSmall
  <1>6. s % Capacity \in 0 .. Capacity - 1
    BY <1>1, Moduli, DivMod
  <1>7. (s % Capacity) + (-o) = (s % Capacity) - o
    BY <1>1, <1>6
  <1> QED BY <1>1, <1>2, <1>3, <1>4, <1>5, <1>6, <1>7

LEMMA SlotAt ==
  ASSUME NEW o \in Numbers16, NEW i \in 0 .. Capacity - 1
  PROVE  /\ (o + i) % Capacity \in 0 .. Capacity - 1
         /\ (((o + i) % Capacity) - o) % Capacity = i
  <1>1. o \in Int /\ i \in Int /\ o + i \in Int /\ -o \in Int /\ (o + i) + (-o) = i
    BY DEF Numbers16
  <1>2. (((o + i) % Capacity) + (-o)) % Capacity = ((o + i) + (-o)) % Capacity
    BY <1>1, Moduli, ModAdd
  <1>3. i % Capacity = i
    BY Moduli, ModSmall
  <1>4. (o + i) % Capacity \in 0 .. Capacity - 1
    BY <1>1, Moduli, DivMod
  <1>5. ((o + i) % Capacity) + (-o) = ((o + i) % Capacity) - o
    BY <1>1, <1>4
  <1> QED BY <1>1, <1>2, <1>3, <1>4, <1>5

(* When the origin moves on by n, a slot that stays is n nearer to it, and *)
(* what it has is still right.                                             *)
LEMMA SlotMoves ==
  ASSUME NEW o \in Numbers16, NEW n \in 0 .. Capacity, NEW k \in 0 .. Capacity - 1,
         ~((k - o) % Capacity < n)
  PROVE  Plus(o, (k - o) % Capacity) = Plus(Plus(o, n), (k - Plus(o, n)) % Capacity)
  <1> DEFINE i == (k - o) % Capacity
             x == (o + n) % Wrap
  <1>1. /\ o \in Int /\ n \in Int /\ k \in Int /\ o + n \in Int /\ k - o \in Int
        /\ -n \in Int /\ k - (o + n) = (k - o) + (-n)
    BY Moduli DEF Numbers16
  <1>2. i \in 0 .. Capacity - 1 /\ i >= n
    BY <1>1, Moduli, DivMod
  <1>3. x \in Int /\ x % Capacity = (o + n) % Capacity /\ x = Plus(o, n)
    <2>1. x \in Int
      BY <1>1, Moduli, DivMod
    <2>2. x % Capacity = (o + n) % Capacity
      BY <1>1, Moduli, ModMod
    <2> QED BY <2>1, <2>2 DEF Plus
  <1>4. (i + (-n)) % Capacity = ((k - o) + (-n)) % Capacity
    BY <1>1, Moduli, ModAdd, ZenonT(30)
  <1> HIDE DEF x, i
  <1>5. (k - (x % Capacity)) % Capacity = (k - x) % Capacity
    BY <1>1, <1>3, Moduli, ModAdd
  <1>6. (k - ((o + n) % Capacity)) % Capacity = (k - (o + n)) % Capacity
    BY <1>1, Moduli, ModAdd
  <1>7. i + (-n) \in 0 .. Capacity - 1
    BY <1>1, <1>2, Moduli
  <1>8. (i + (-n)) % Capacity = i + (-n)
    BY <1>7, Moduli, ModSmall
  <1>9. (k - x) % Capacity = i + (-n)
    BY <1>1, <1>3, <1>4, <1>5, <1>6, <1>8
  <1>10. Plus(Plus(o, n), i + (-n)) = Plus(o, n + (i + (-n)))
    <2> DEFINE c == i + (-n)
    <2>1. c \in Int
      BY <1>7
    <2> HIDE DEF c
    <2>2. Plus(Plus(o, n), c) = Plus(o, n + c)
      BY <1>1, <2>1, PlusIs
    <2> QED BY <2>2 DEF c
  <1>11. n + (i + (-n)) = i
    BY <1>1, <1>2
  <1> QED BY <1>3, <1>9, <1>10, <1>11 DEF i
-----------------------------------------------------------------------------
(* The jitter buffer.                                                      *)

LEMMA MinIs ==
  ASSUME NEW S, S \subseteq Nat, S # {}
  PROVE  Min(S) \in S /\ \A x \in S : Min(S) <= x
  <1>1. \E x \in S : \A y \in S : x <= y
    BY LeastNatural
  <1> QED BY <1>1 DEF Min

LEMMA NoneIs == None \notin Numbers16 /\ None \in OrNone(Numbers16)
  BY DEF None, Numbers16, OrNone

(* Slots that are removed are empty, and those that stay are still right.  *)
LEMMA RemoveIs ==
  ASSUME NEW r \in Receiver, SlotsFit(r), r.origin \in Numbers16, NEW n \in 0 .. Capacity
  PROVE  LET q == RemoveSlots(r, n)
         IN /\ q \in Receiver /\ SlotsFit(q)
            /\ q.origin = Plus(r.origin, n) /\ q.origin \in Numbers16
            /\ n = Capacity => \A k \in 0 .. Capacity - 1 : q.slot[k] = None
  <1> DEFINE slot == [k \in 0 .. Capacity - 1 |->
                        IF (k - r.origin) % Capacity < n THEN None ELSE r.slot[k]]
             o == Plus(r.origin, n)
             q == [r EXCEPT !.origin = o, !.slot = slot]
  <1>1. RemoveSlots(r, n) = q
    BY DEF RemoveSlots, Receiver
  <1>2. o \in Numbers16 /\ r.origin \in Int /\ n \in Int
    BY PlusZero, PlusIs, Moduli
  <1>3. slot \in [0 .. Capacity - 1 -> OrNone(Numbers16)]
    BY NoneIs DEF Receiver
  <1>4. ASSUME NEW k \in 0 .. Capacity - 1
        PROVE  /\ slot[k] # None => slot[k] = Plus(o, (k - o) % Capacity)
               /\ n = Capacity => slot[k] = None
    <2>1. CASE (k - r.origin) % Capacity < n
      BY <2>1
    <2>2. CASE ~((k - r.origin) % Capacity < n)
      <3>1. slot[k] = r.slot[k]
        BY <2>2
      <3>2. Plus(r.origin, (k - r.origin) % Capacity) = Plus(o, (k - o) % Capacity)
        BY <2>2, SlotMoves
      <3>3. (k - r.origin) % Capacity < Capacity
        <4>1. k - r.origin \in Int /\ Capacity \in Nat \ {0}
          BY <1>2, Moduli
        <4>2. (k - r.origin) % Capacity \in 0 .. Capacity - 1
          BY <4>1, DivMod
        <4> QED BY <4>1, <4>2
      <3>4. n # Capacity
        BY <2>2, <3>3
      <3> HIDE DEF slot, o
      <3> QED BY <3>1, <3>2, <3>4 DEF SlotsFit
    <2> QED BY <2>1, <2>2
  <1> HIDE DEF slot, o
  <1>5. q \in Receiver
    BY <1>2, <1>3 DEF Receiver, OrNone
  <1>6. q.origin = o /\ q.slot = slot
    BY DEF Receiver
  <1> HIDE DEF q
  <1>7. SlotsFit(q)
    BY <1>2, <1>4, <1>6, NoneIs DEF SlotsFit
  <1> QED BY <1>1, <1>2, <1>4, <1>5, <1>6, <1>7 DEF o

(* An empty buffer may begin anywhere.                                     *)
LEMMA BeginIs ==
  ASSUME NEW r \in Receiver, \A k \in 0 .. Capacity - 1 : r.slot[k] = None, NEW s \in Numbers16
  PROVE  LET q == [r EXCEPT !.origin = s]
         IN q \in Receiver /\ SlotsFit(q) /\ q.origin = s /\ Plus(s, -s) < Capacity
  <1> DEFINE q == [r EXCEPT !.origin = s]
  <1>1. q \in Receiver
    BY DEF Receiver, OrNone
  <1>2. q.origin = s /\ q.slot = r.slot
    BY DEF Receiver
  <1>3. SlotsFit(q)
    BY <1>2 DEF SlotsFit
  <1>4. s + (-s) = 0 /\ 0 \in 0 .. Wrap - 1
    BY Moduli DEF Numbers16
  <1>5. Plus(s, -s) = 0
    BY <1>4, Moduli, ModSmall DEF Plus
  <1> QED BY <1>1, <1>2, <1>3, <1>5, Moduli

(* The origin moves by b, and with it the distance of the packet s.        *)
LEMMA Nearer ==
  ASSUME NEW o \in Numbers16, NEW s \in Numbers16, NEW b \in 0 .. Capacity - 1,
         b >= Plus(s, -o) - Capacity + 1, Plus(s, -o) >= Capacity
  PROVE  Plus(s, -Plus(o, b)) < Capacity
  <1> DEFINE d == Plus(s, -o)
             x == d + (-b)
  <1>1. s \in Int /\ o \in Int /\ b \in Int /\ -o \in Int /\ -b \in Int /\ -(o + b) = (-o) + (-b)
    BY Moduli, PlusZero
  <1>2. d \in Numbers16
    BY <1>1, PlusIs
  <1>3. x \in 0 .. Wrap - 1 /\ x < Capacity
    BY <1>1, <1>2, Moduli DEF Numbers16
  <1>4. Plus(s, -Plus(o, b)) = Plus(s, -(o + b))
    BY <1>1, PlusIs
  <1>5. Plus(d, -b) = Plus(s, (-o) + (-b))
    BY <1>1, PlusIs
  <1>6. Plus(d, -b) = x % Wrap
    BY DEF Plus
  <1> HIDE DEF d, x
  <1>7. x % Wrap = x
    BY <1>3, Moduli, ModSmall
  <1> QED BY <1>1, <1>3, <1>4, <1>5, <1>6, <1>7

LEMMA DistanceIs ==
  ASSUME NEW o \in Numbers16, NEW s \in Numbers16
  PROVE  /\ o \in Int /\ s \in Int /\ -o \in Int
         /\ Plus(s, -o) \in Numbers16 /\ Plus(s, -o) \in Int
  <1>1. o \in Int /\ s \in Int /\ -o \in Int
    BY PlusZero
  <1>2. Plus(s, -o) \in Numbers16
    BY <1>1, PlusIs
  <1> QED BY <1>1, <1>2, PlusZero

(* add makes room: the packet then is no further than the capacity.        *)
LEMMA RoomIs ==
  ASSUME NEW r \in Receiver, SlotsFit(r), NEW s \in Numbers16, ~Late(r, s) \/ Resets(r, s)
  PROVE  LET q == MadeRoom(r, s)
         IN /\ q \in Receiver /\ SlotsFit(q) /\ q.origin \in Numbers16
            /\ Plus(s, -q.origin) < Capacity
            /\ r.origin # None /\ ~Resets(r, s) /\ ~Overflows(r, s) => q = r
  <1>1. r.origin = None \/ r.origin \in Numbers16
    BY DEF Receiver, OrNone
  <1>2. Capacity \in 0 .. Capacity
    BY Moduli
  <1>3. CASE r.origin = None
    <2>1. \A k \in 0 .. Capacity - 1 : r.slot[k] = None
      BY <1>3 DEF SlotsFit
    <2>2. MadeRoom(r, s) = [r EXCEPT !.origin = s]
      BY <1>3 DEF MadeRoom
    <2> QED BY <1>3, <2>1, <2>2, BeginIs
  <1>4. ASSUME r.origin \in Numbers16, MadeRoom(r, s) = [RemoveSlots(r, Capacity) EXCEPT !.origin = s],
               Resets(r, s) \/ Overflows(r, s)
        PROVE  LET q == MadeRoom(r, s)
               IN /\ q \in Receiver /\ SlotsFit(q) /\ q.origin \in Numbers16
                  /\ Plus(s, -q.origin) < Capacity
                  /\ r.origin # None /\ ~Resets(r, s) /\ ~Overflows(r, s) => q = r
    <2> DEFINE x == RemoveSlots(r, Capacity)
    <2>1. x \in Receiver /\ \A k \in 0 .. Capacity - 1 : x.slot[k] = None
      BY <1>2, <1>4, RemoveIs
    <2> HIDE DEF x
    <2>2. LET q == [x EXCEPT !.origin = s]
          IN q \in Receiver /\ SlotsFit(q) /\ q.origin = s /\ Plus(s, -s) < Capacity
      BY <2>1, BeginIs
    <2> QED BY <1>4, <2>2 DEF x
  <1>5. CASE r.origin \in Numbers16 /\ Resets(r, s)
    BY <1>4, <1>5, NoneIs DEF MadeRoom
  <1>6. CASE r.origin \in Numbers16 /\ ~Resets(r, s) /\ Overflows(r, s)
    <2> DEFINE n == Delta(r, s) - Capacity + 1
               B == Boundaries(r, n)
    <2>1. MadeRoom(r, s) = SmartRemove(r, n, s)
      BY <1>6, NoneIs DEF MadeRoom
    <2>2. CASE B = {}
      BY <1>4, <1>6, <2>1, <2>2 DEF SmartRemove
    <2>3. CASE B # {}
      <3>1. Delta(r, s) = Plus(s, -r.origin) /\ Delta(r, s) >= Capacity /\ Delta(r, s) \in Int
        BY <1>6, DistanceIs DEF Overflows, Delta
      <3>2. n \in Nat /\ n >= 1
        BY <3>1, Moduli
      <3>3. B \subseteq n .. Capacity - 1
        BY DEF Boundaries
      <3>4. B \subseteq Nat
        BY <3>2, <3>3
      <3> DEFINE b == Min(B)
      <3>5. b \in B
        BY <2>3, <3>4, MinIs
      <3>6. b \in 0 .. Capacity - 1 /\ b >= n /\ b \in 0 .. Capacity
        BY <3>2, <3>3, <3>5, Moduli
      <3>7. MadeRoom(r, s) = RemoveSlots(r, b)
        BY <2>1, <2>3 DEF SmartRemove
      <3>8. Plus(s, -Plus(r.origin, b)) < Capacity
        BY <1>6, <3>1, <3>6, Nearer
      <3> HIDE DEF b, n
      <3> QED BY <1>6, <3>6, <3>7, <3>8, RemoveIs
    <2> QED BY <2>2, <2>3
  <1>7. CASE r.origin \in Numbers16 /\ ~Resets(r, s) /\ ~Overflows(r, s)
    <2>1. MadeRoom(r, s) = r
      BY <1>7, NoneIs DEF MadeRoom
    <2>2. ~Late(r, s)
      BY <1>7
    <2>3. Plus(s, -r.origin) \in Int
      BY <1>7, DistanceIs
    <2>4. Plus(s, -r.origin) < Capacity
      BY <1>7, <2>2, <2>3, Moduli, NoneIs DEF Overflows, Delta
    <2> QED BY <1>7, <2>1, <2>4
  <1> QED BY <1>1, <1>3, <1>5, <1>6, <1>7

LEMMA StoredIs ==
  ASSUME NEW q \in Receiver, SlotsFit(q), q.origin \in Numbers16, NEW s \in Numbers16,
         Plus(s, -q.origin) < Capacity
  PROVE  LET t == [q EXCEPT !.slot[s % Capacity] = s]
         IN t \in Receiver /\ SlotsFit(t) /\ t.origin = q.origin
  <1> DEFINE j == s % Capacity
             slot == [q.slot EXCEPT ![j] = s]
             t == [q EXCEPT !.slot = slot]
  <1>1. j \in 0 .. Capacity - 1 /\ (j - q.origin) % Capacity = Plus(s, -q.origin)
    BY SlotOf
  <1>2. Plus(q.origin, (j - q.origin) % Capacity) = s
    BY <1>1, PlusZero
  <1> HIDE DEF j
  <1>3. slot \in [0 .. Capacity - 1 -> OrNone(Numbers16)]
    BY <1>1 DEF Receiver, OrNone
  <1>4. slot[j] = s /\ \A k \in 0 .. Capacity - 1 : k # j => slot[k] = q.slot[k]
    BY <1>1 DEF Receiver
  <1> HIDE DEF slot
  <1>5. t \in Receiver /\ t.origin = q.origin /\ t.slot = slot
    BY <1>3 DEF Receiver
  <1>6. [q EXCEPT !.slot[s % Capacity] = s] = t
    BY DEF slot, j
  <1> HIDE DEF t
  <1>7. SlotsFit(t)
    BY <1>1, <1>2, <1>4, <1>5, NoneIs DEF SlotsFit
  <1> QED BY <1>5, <1>6, <1>7

LEMMA AtIs ==
  ASSUME NEW r \in Receiver, SlotsFit(r), r.origin \in Numbers16, NEW i \in 0 .. Capacity - 1,
         Present(r, i)
  PROVE  At(r, i) = Plus(r.origin, i)
  <1> DEFINE k == (r.origin + i) % Capacity
  <1>1. k \in 0 .. Capacity - 1 /\ (k - r.origin) % Capacity = i
    BY SlotAt
  <1>2. At(r, i) = r.slot[k] /\ r.slot[k] # None
    BY DEF At, Present
  <1> HIDE DEF k
  <1> QED BY <1>1, <1>2 DEF SlotsFit

(* The frame that is released: all packets from the origin on, up to the   *)
(* first one of another frame.                                             *)
LEMMA FrontIs ==
  ASSUME NEW r \in Receiver, SlotsFit(r), r.origin \in Numbers16, Releases(r)
  PROVE  LET m == Min(Changes(r))
             f == FrontFrame(r)
         IN /\ m \in 1 .. Capacity - 1 /\ f \in Seq(Numbers16) /\ Len(f) = m
            /\ \A i \in 1 .. m : f[i] = Plus(r.origin, i - 1)
            /\ \A i \in 0 .. m - 1 : FrameOf[Plus(r.origin, i)] = FrameOf[r.origin]
            /\ FrameOf[Plus(r.origin, m)] # FrameOf[r.origin]
  <1> DEFINE m == Min(Changes(r))
             o == r.origin
  <1>1. Changes(r) # {} /\ Changes(r) \subseteq Nat
    BY Moduli DEF Releases, Changes, Run
  <1>2. m \in Changes(r) /\ \A x \in Changes(r) : m <= x
    BY <1>1, MinIs
  <1> HIDE DEF m
  <1>3. m \in 1 .. Capacity - 1 /\ (\A j \in 0 .. m : Present(r, j))
        /\ FrameOf[At(r, m)] # FrameOf[At(r, m - 1)]
    BY <1>2, Moduli DEF Changes, Run
  <1>4. \A i \in 0 .. m : At(r, i) = Plus(o, i)
    BY <1>3, AtIs, Moduli
  <1>5. ASSUME NEW i \in 1 .. m - 1
        PROVE  FrameOf[At(r, i)] = FrameOf[At(r, i - 1)]
    <2>1. i \in Run(r) \ {0}
      BY <1>3, Moduli DEF Run
    <2>2. i \notin Changes(r)
      BY <1>2, <1>3
    <2> QED BY <2>1, <2>2 DEF Changes
  <1> DEFINE T == {i \in 0 .. m - 1 : FrameOf[Plus(o, i)] = FrameOf[o]}
  <1>6. m - 1 \in Nat /\ 0 \in T
    BY <1>3, PlusZero
  <1>7. ASSUME NEW i \in 0 .. (m - 1) - 1, i \in T
        PROVE  i + 1 \in T
    <2>1. i + 1 \in 1 .. m - 1 /\ i \in 0 .. m /\ i + 1 \in 0 .. m /\ (i + 1) - 1 = i
      BY <1>3
    <2>2. FrameOf[At(r, i + 1)] = FrameOf[At(r, i)]
      BY <1>5, <2>1
    <2> QED BY <1>4, <1>7, <2>1, <2>2
  <1>8. \A i \in 0 .. m - 1 : i \in T
    <2> HIDE DEF T
    <2> QED BY <1>6, <1>7, Interval
  <1>9. FrontFrame(r) = [i \in 1 .. m |-> At(r, i - 1)]
    BY DEF FrontFrame, m
  <1>10. \A i \in 1 .. m : At(r, i - 1) = Plus(o, i - 1) /\ Plus(o, i - 1) \in Numbers16
    <2> SUFFICES ASSUME NEW i \in 1 .. m
                 PROVE  At(r, i - 1) = Plus(o, i - 1) /\ Plus(o, i - 1) \in Numbers16
      OBVIOUS
    <2>1. i - 1 \in 0 .. m /\ i - 1 \in Int /\ o \in Int
      BY <1>3, PlusZero
    <2> QED BY <1>4, <2>1, PlusIs
  <1>11. FrontFrame(r) \in Seq(Numbers16) /\ Len(FrontFrame(r)) = m
         /\ \A i \in 1 .. m : FrontFrame(r)[i] = Plus(o, i - 1)
    <2>1. m \in Nat /\ \A i \in 1 .. m : At(r, i - 1) \in Numbers16
      BY <1>3, <1>10
    <2> HIDE DEF m, o
    <2>2. /\ [i \in 1 .. m |-> At(r, i - 1)] \in Seq(Numbers16)
          /\ Len([i \in 1 .. m |-> At(r, i - 1)]) = m
      BY <2>1
    <2> QED BY <1>9, <1>10, <2>2
  <1>12. FrameOf[Plus(o, m)] # FrameOf[o]
    <2>1. m \in 0 .. m /\ m - 1 \in 0 .. m /\ m - 1 \in 0 .. m - 1
      BY <1>3
    <2> QED BY <1>3, <1>4, <1>8, <2>1
  <1> QED BY <1>3, <1>8, <1>11, <1>12 DEF m

(* The sequence numbers of a frame that begins at o.                       *)
LEMMA WholeFrame ==
  ASSUME NEW o \in Numbers16, NEW m \in 1 .. Capacity - 1,
         \A i \in 0 .. m - 1 : FrameOf[Plus(o, i)] = FrameOf[o],
         FrameOf[Plus(o, m)] # FrameOf[o], FrameOf[Plus(o, -1)] # FrameOf[o]
  PROVE  {Plus(o, i) : i \in 0 .. m - 1} = PacketsOf(FrameOf[o])
  <1>1. ASSUME NEW i \in 0 .. m - 1
        PROVE  Plus(o, i) \in PacketsOf(FrameOf[o])
    <2>1. Plus(o, i) \in Numbers16
      <3>1. o \in Int /\ i \in Int
        BY PlusZero
      <3> QED BY <3>1, PlusIs
    <2> QED BY <2>1 DEF PacketsOf
  <1>2. ASSUME NEW t \in Numbers16, FrameOf[t] = FrameOf[o]
        PROVE  t \in {Plus(o, i) : i \in 0 .. m - 1}
    <2> DEFINE d == Plus(t, -o)
               e == Plus(o, -t)
    <2>1. /\ d \in Numbers16 /\ e \in Numbers16 /\ o \in Int /\ t \in Int
          /\ Plus(o, d) = t /\ Plus(t, e) = o
      BY DistanceIs, PlusZero
    <2>2. CASE \A s \in UpTo(o, t) : FrameOf[s] = FrameOf[o]
      <3>1. Plus(o, m) \notin UpTo(o, t)
        BY <2>2
      <3>2. d < m
        BY <2>1, <3>1, Moduli DEF UpTo, Numbers16
      <3>3. d \in 0 .. m - 1
        BY <2>1, <3>2 DEF Numbers16
      <3> QED BY <2>1, <3>3
    <2>3. CASE \A s \in UpTo(t, o) : FrameOf[s] = FrameOf[o]
      <3>1. CASE t = o
        <4>1. Plus(o, 0) = o /\ 0 \in 0 .. m - 1
          BY PlusZero
        <4> QED BY <3>1, <4>1
      <3>2. CASE t # o
        <4>1. e # 0
          BY <2>1, <3>2, PlusZero
        <4> HIDE DEF e, d
        <4>2. e - 1 \in 0 .. e /\ e \in Int /\ e + (-1) = e - 1
          BY <2>1, <4>1 DEF Numbers16
        <4>3. Plus(Plus(t, e), -1) = Plus(t, e + (-1))
          BY <2>1, <4>2, PlusIs
        <4>4. Plus(o, -1) \in UpTo(t, o)
          BY <2>1, <4>2, <4>3 DEF UpTo, e
        <4> QED BY <2>3, <4>4
      <3> QED BY <3>1, <3>2
    <2> QED BY <1>2, <2>2, <2>3, FrameAssumption
  <1> QED BY <1>1, <1>2 DEF PacketsOf

LEMMA CountedIs ==
  ASSUME NEW r \in Receiver, SlotsFit(r), NEW s \in Numbers16
  PROVE  LET c == Counted(r, s)
         IN c \in Receiver /\ SlotsFit(c) /\ c.origin = r.origin
  <1> DEFINE c == Counted(r, s)
  <1>1. Gap(r, s) \subseteq Numbers16
    BY DEF Gap
  <1>2. c \in Receiver /\ c.origin = r.origin /\ c.slot = r.slot
    BY <1>1 DEF Counted, Receiver, OrNone
  <1> HIDE DEF c
  <1>3. SlotsFit(c)
    BY <1>2 DEF SlotsFit
  <1> QED BY <1>2, <1>3 DEF c

-----------------------------------------------------------------------------
(* The actions.                                                            *)

(* What the decoder gets, when it gets something.                          *)
Gives(d, o) ==
  /\ d.frame # <<>> /\ d.frame \in Seq(Numbers16)
  /\ \A i \in DOMAIN d.frame : d.frame[i] = Plus(o, i - 1)
  /\ \A i \in 0 .. Len(d.frame) - 1 : FrameOf[Plus(o, i)] = FrameOf[o]
  /\ FrameOf[Plus(o, Len(d.frame))] # FrameOf[o]
  /\ Len(d.frame) < Capacity

LEMMA GivesHasNoHole ==
  ASSUME NEW d, NEW o \in Numbers16, Gives(d, o)
  PROVE  /\ Plus(d.frame[Len(d.frame)], 1) = Plus(o, Len(d.frame))
         /\ \A i \in DOMAIN d.frame :
              LET s == d.frame[i]
              IN IF i < Len(d.frame)
                 THEN d.frame[i + 1] = Plus(s, 1) /\ FrameOf[Plus(s, 1)] = FrameOf[s]
                 ELSE FrameOf[Plus(s, 1)] # FrameOf[s]
  <1> DEFINE n == Len(d.frame)
  <1>1. n \in Nat /\ n >= 1 /\ DOMAIN d.frame = 1 .. n /\ o \in Int
    BY PlusZero DEF Gives
  <1> HIDE DEF n
  <1>2. ASSUME NEW i \in 1 .. n
        PROVE  Plus(d.frame[i], 1) = Plus(o, i) /\ FrameOf[d.frame[i]] = FrameOf[o]
    <2>1. d.frame[i] = Plus(o, i - 1) /\ i - 1 \in 0 .. n - 1 /\ i - 1 \in Int /\ (i - 1) + 1 = i
      BY <1>1, SMTT(30) DEF Gives
    <2>2. Plus(Plus(o, i - 1), 1) = Plus(o, (i - 1) + 1)
      BY <1>1, <2>1, PlusIs
    <2> QED BY <2>1, <2>2 DEF Gives, n
  <1>3. ASSUME NEW i \in 1 .. n, i < n
        PROVE  d.frame[i + 1] = Plus(o, i) /\ FrameOf[Plus(o, i)] = FrameOf[o]
    <2>1. i + 1 \in 1 .. n /\ (i + 1) - 1 = i /\ i \in 0 .. n - 1
      BY <1>1, <1>3
    <2> QED BY <1>1, <2>1 DEF Gives, n
  <1>4. n \in 1 .. n /\ FrameOf[Plus(o, n)] # FrameOf[o]
    BY <1>1 DEF Gives, n
  <1>5. \A i \in 1 .. n : ~(i < n) => i = n
    BY <1>1
  <1> QED BY <1>1, <1>2, <1>3, <1>4, <1>5 DEF n

(* The receiver of a packet goes on where it was, or a PLI is sent.        *)
LEMMA ReceiveStep ==
  ASSUME RtpInv, NEW s \in Numbers16, ReceivePacket(s)
  PROVE  /\ receiving' \in Receiver /\ SlotsFit(receiving)'
         /\ decoder' \in [frame : Seq(Numbers16), told : BOOLEAN]
         /\ GoesOn(decoder, receiving)' /\ FramesHaveNoHole'
         /\ \/ decoder'.frame = decoder.frame
            \/ \E o \in Numbers16 :
                 Gives(decoder', o) /\ (~decoder'.told /\ receiving.origin # None => o = receiving.origin)
  <1> DEFINE r == Counted(receiving, s)
             dropped == Late(r, s) /\ ~Resets(r, s)
             q == MadeRoom(r, s)
             t == [q EXCEPT !.slot[s % Capacity] = s]
             released == ~dropped /\ Releases(t)
             pli == Resets(r, s) \/ Overflows(r, s)
             m == Min(Changes(t))
  <1>1. /\ receiving \in Receiver /\ SlotsFit(receiving) /\ GoesOn(decoder, receiving)
        /\ decoder \in [frame : Seq(Numbers16), told : BOOLEAN] /\ FramesHaveNoHole
    BY DEF RtpInv, RtpTypes
  <1>2. r \in Receiver /\ SlotsFit(r) /\ r.origin = receiving.origin
    BY <1>1, CountedIs
  <1>3. /\ receiving' = IF dropped THEN r
                        ELSE IF released THEN RemoveSlots(t, m) ELSE t
        /\ decoder' = IF released THEN [frame |-> FrontFrame(t), told |-> pli]
                      ELSE [decoder EXCEPT !.told = @ \/ pli]
    BY DEF ReceivePacket
  <1>4. pli \in BOOLEAN
    BY DEF Resets, Overflows, Late
  <1> HIDE DEF r
  <1>5. ASSUME ~released
        PROVE  /\ decoder'.frame = decoder.frame /\ decoder'.told = (decoder.told \/ pli)
               /\ decoder' \in [frame : Seq(Numbers16), told : BOOLEAN]
    <2>1. decoder' = [decoder EXCEPT !.told = decoder.told \/ pli]
      BY <1>3, <1>5
    <2> HIDE DEF pli, released
    <2> QED BY <1>1, <1>4, <2>1
  <1>6. CASE dropped
    <2>1. ~released /\ ~pli
      BY <1>6, NoneIs DEF Overflows
    <2>2. receiving' = r
      BY <1>3, <1>6
    <2>3. decoder'.frame = decoder.frame /\ (~decoder'.told => ~decoder.told)
          /\ decoder' \in [frame : Seq(Numbers16), told : BOOLEAN]
      BY <1>1, <1>5, <2>1
    <2> HIDE DEF dropped, released, pli, t, m
    <2>4. SlotsFit(receiving') /\ receiving' \in Receiver
      BY <1>2, <2>2
    <2>5. GoesOn(decoder', receiving')
      BY <1>1, <1>2, <2>2, <2>3 DEF GoesOn
    <2>6. FramesHaveNoHole'
      BY <1>1, <2>3 DEF FramesHaveNoHole
    <2> QED BY <2>3, <2>4, <2>5, <2>6 DEF SlotsFit, GoesOn
  <1>7. CASE ~dropped
    <2>1. /\ q \in Receiver /\ SlotsFit(q) /\ q.origin \in Numbers16 /\ Plus(s, -q.origin) < Capacity
          /\ r.origin # None /\ ~pli => q = r
      BY <1>2, <1>7, RoomIs
    <2>2. t \in Receiver /\ SlotsFit(t) /\ t.origin = q.origin /\ t.origin \in Numbers16
          /\ (r.origin # None /\ ~pli => t.origin = r.origin)
      <3> HIDE DEF q, pli
      <3> QED BY <2>1, StoredIs
    <2>3. CASE ~released
      <3>1. receiving' = t
        BY <1>3, <1>7, <2>3
      <3>2. decoder'.frame = decoder.frame /\ (~decoder'.told => ~decoder.told /\ ~pli)
            /\ decoder' \in [frame : Seq(Numbers16), told : BOOLEAN]
        BY <1>1, <1>4, <1>5, <2>3
      <3> HIDE DEF dropped, released, pli, t, m
      <3>3. SlotsFit(receiving') /\ receiving' \in Receiver
        BY <2>2, <3>1
      <3>4. GoesOn(decoder', receiving')
        <4> SUFFICES ASSUME decoder'.frame # <<>>, ~decoder'.told
                     PROVE  receiving'.origin = Plus(decoder'.frame[Len(decoder'.frame)], 1)
          BY DEF GoesOn
        <4>1. receiving.origin = Plus(decoder.frame[Len(decoder.frame)], 1)
          BY <1>1, <3>2 DEF GoesOn
        <4>2. receiving.origin # None
          <5>1. decoder.frame \in Seq(Numbers16) /\ decoder.frame # <<>>
            BY <1>1, <3>2
          <5>2. decoder.frame[Len(decoder.frame)] \in Numbers16
            BY <5>1
          <5>3. decoder.frame[Len(decoder.frame)] \in Int
            BY <5>2, PlusZero
          <5> QED BY <4>1, <5>3, PlusIn, NoneIs
        <4> QED BY <1>2, <2>2, <3>1, <3>2, <4>1, <4>2
      <3>5. FramesHaveNoHole'
        BY <1>1, <3>2 DEF FramesHaveNoHole
      <3> QED BY <3>2, <3>3, <3>4, <3>5 DEF SlotsFit, GoesOn
    <2>4. CASE released
      <3>1. receiving' = RemoveSlots(t, m) /\ decoder' = [frame |-> FrontFrame(t), told |-> pli]
        BY <1>3, <1>7, <2>4
      <3>2. Releases(t)
        BY <2>4
      <3> HIDE DEF dropped, released, pli, t
      <3>3. /\ m \in 1 .. Capacity - 1 /\ FrontFrame(t) \in Seq(Numbers16) /\ Len(FrontFrame(t)) = m
            /\ \A i \in 1 .. m : FrontFrame(t)[i] = Plus(t.origin, i - 1)
            /\ \A i \in 0 .. m - 1 : FrameOf[Plus(t.origin, i)] = FrameOf[t.origin]
            /\ FrameOf[Plus(t.origin, m)] # FrameOf[t.origin]
        BY <2>2, <3>2, FrontIs
      <3> HIDE DEF m
      <3>4. decoder'.frame = FrontFrame(t) /\ decoder'.told = pli
            /\ decoder' \in [frame : Seq(Numbers16), told : BOOLEAN]
        BY <1>4, <3>1, <3>3
      <3>5. Gives(decoder', t.origin)
        <4>1. DOMAIN FrontFrame(t) = 1 .. m /\ FrontFrame(t) # <<>> /\ m < Capacity
          BY <3>3, Moduli
        <4> QED BY <3>3, <3>4, <4>1 DEF Gives
      <3>6. receiving' \in Receiver /\ SlotsFit(receiving') /\ receiving'.origin = Plus(t.origin, m)
        <4>1. m \in 0 .. Capacity
          BY <3>3, Moduli
        <4> QED BY <2>2, <3>1, <4>1, RemoveIs
      <3>7. /\ Plus(decoder'.frame[Len(decoder'.frame)], 1) = Plus(t.origin, Len(decoder'.frame))
            /\ FramesHaveNoHole'
        BY <2>2, <3>5, GivesHasNoHole DEF FramesHaveNoHole
      <3>8. GoesOn(decoder', receiving')
        BY <3>3, <3>4, <3>6, <3>7 DEF GoesOn
      <3> QED BY <1>2, <2>2, <3>4, <3>5, <3>6, <3>7, <3>8 DEF SlotsFit, GoesOn
    <2> QED BY <2>3, <2>4
  <1> QED BY <1>6, <1>7

LEMMA RtpStep ==
  ASSUME RtpInv, [RtpNext]_rtpVars
  PROVE  RtpInv'
  <1>1. RtpTypes /\ sending.next \in Int /\ sending.next \in Numbers16
    BY PlusZero DEF RtpInv, RtpTypes
  <1>2. ASSUME UNCHANGED <<receiving, decoder>>, RtpTypes'
        PROVE  RtpInv'
    BY <1>2 DEF RtpInv, SlotsFit, GoesOn, FramesHaveNoHole
  <1>3. CASE SendPacket
    <2> DEFINE h == sending.next % HistorySize
               n == Plus(sending.next, 1)
               x == [sending EXCEPT !.next = n, !.history[h] = sending.next]
    <2>1. n \in Numbers16 /\ h \in 0 .. HistorySize - 1
      <3>1. HistorySize \in Nat \ {0}
        BY RtpAssumption
      <3>2. h \in 0 .. HistorySize - 1
        BY <1>1, <3>1, DivMod
      <3>3. n \in Numbers16
        BY <1>1, PlusIn
      <3> QED BY <3>2, <3>3
    <2>2. x.next = n /\ x.history = [sending.history EXCEPT ![h] = sending.next]
      OBVIOUS
    <2>3. sending' = x /\ flight' = flight \cup {sending.next}
          /\ UNCHANGED <<nack, receiving, decoder>>
      BY <1>3 DEF SendPacket
    <2> QED BY <1>1, <1>2, <2>1, <2>2, <2>3 DEF RtpTypes, OrNone
  <1>4. CASE ReceiveNack
    BY <1>1, <1>2, <1>4 DEF ReceiveNack, RtpTypes
  <1>5. CASE LoseNack
    BY <1>1, <1>2, <1>5 DEF LoseNack, RtpTypes
  <1>6. ASSUME NEW s \in flight, LosePacket(s)
        PROVE  RtpInv'
    BY <1>1, <1>2, <1>6 DEF LosePacket, RtpTypes
  <1>7. ASSUME NEW s \in flight, ReceivePacket(s)
        PROVE  RtpInv'
    <2>1. s \in Numbers16
      BY <1>1 DEF RtpTypes
    <2>2. /\ receiving' \in Receiver /\ SlotsFit(receiving)'
          /\ decoder' \in [frame : Seq(Numbers16), told : BOOLEAN]
          /\ GoesOn(decoder, receiving)' /\ FramesHaveNoHole'
      BY <1>7, <2>1, ReceiveStep
    <2>3. /\ flight' = flight \ {s} /\ UNCHANGED sending
          /\ nack' = IF Missed(receiving, s) THEN Counted(receiving, s).missing ELSE {}
      BY <1>7 DEF ReceivePacket
    <2>4. Counted(receiving, s).missing \subseteq Numbers16
      <3>1. Counted(receiving, s) \in Receiver
        BY <2>1, CountedIs DEF RtpInv, RtpTypes
      <3> QED BY <3>1 DEF Receiver
    <2>5. RtpTypes'
      BY <1>1, <2>2, <2>3, <2>4 DEF RtpTypes
    <2> QED BY <2>2, <2>5 DEF RtpInv
  <1>8. CASE UNCHANGED rtpVars
    BY <1>1, <1>2, <1>8 DEF rtpVars, RtpTypes
  <1> QED BY <1>3, <1>4, <1>5, <1>6, <1>7, <1>8 DEF RtpNext

LEMMA RtpBegins == RtpInit => RtpInv
  <1> SUFFICES ASSUME RtpInit
               PROVE  RtpInv
    OBVIOUS
  <1>1. 0 \in Numbers16 /\ HistorySize \in Nat \ {0}
    BY Moduli, RtpAssumption DEF Numbers16
  <1>2. receiving \in Receiver /\ SlotsFit(receiving)
    BY NoneIs DEF RtpInit, Receiver, SlotsFit
  <1>3. decoder \in [frame : Seq(Numbers16), told : BOOLEAN] /\ decoder.frame = <<>>
    BY DEF RtpInit
  <1>4. RtpTypes
    BY <1>1, <1>2, <1>3, NoneIs DEF RtpInit, RtpTypes
  <1> QED BY <1>2, <1>3, <1>4 DEF RtpInv, GoesOn, FramesHaveNoHole

LEMMA RtpInvariant == RtpSpec => []RtpInv
  BY RtpStep, RtpBegins, PTL DEF RtpSpec

(* Whatever is lost, reordered or sent again, for any capacity and any     *)
(* frames, and over the wrap of the numbers: the packets of a frame reach  *)
(* the decoder in order, without a hole and up to the last one (add,       *)
(* smart_remove, _remove_frame).                                           *)
THEOREM NoHole == RtpSpec => []FramesHaveNoHole
  BY RtpInvariant, PTL DEF RtpInv

(* No frame is left out, in whole or in part, between two frames that the  *)
(* decoder gets, unless a PLI asked for a key frame in between.            *)
THEOREM NoGap == RtpSpec => NoSilentGap
  <1>1. ASSUME RtpInv, [RtpNext]_rtpVars,
               decoder'.frame # decoder.frame, decoder.frame # <<>>, ~decoder'.told, ~decoder.told
        PROVE  LET first == Plus(decoder.frame[Len(decoder.frame)], 1)
               IN /\ decoder'.frame[1] = first
                  /\ {decoder'.frame[i] : i \in DOMAIN decoder'.frame} = PacketsOf(FrameOf[first])
    <2> DEFINE last == decoder.frame[Len(decoder.frame)]
               first == Plus(last, 1)
               d == decoder'
               n == Len(d.frame)
    <2>1. PICK s \in flight : ReceivePacket(s)
      BY <1>1 DEF RtpNext, rtpVars, SendPacket, ReceiveNack, LoseNack, LosePacket
    <2>2. s \in Numbers16
      BY <1>1 DEF RtpInv, RtpTypes
    <2>3. Len(decoder.frame) \in DOMAIN decoder.frame /\ last \in Numbers16
      BY <1>1 DEF RtpInv, RtpTypes
    <2>4. last \in Int /\ first \in Numbers16 /\ first = receiving.origin
      BY <1>1, <2>3, PlusZero, PlusIn, SMTT(30) DEF RtpInv, GoesOn
    <2>5. Gives(d, first)
      BY <1>1, <2>1, <2>2, <2>4, ReceiveStep, NoneIs
    <2>6. n \in 1 .. Capacity - 1 /\ DOMAIN d.frame = 1 .. n
      BY <2>5, Moduli DEF Gives
    <2>7. FrameOf[Plus(first, -1)] # FrameOf[first]
      <3>1. Plus(first, -1) = Plus(last, 1 + (-1)) /\ 1 + (-1) = 0
        <4>1. 1 \in Int /\ -1 \in Int /\ last \in Int
          BY <2>4
        <4> HIDE DEF last
        <4>2. Plus(Plus(last, 1), -1) = Plus(last, 1 + (-1))
          BY <4>1, PlusIs
        <4> QED BY <4>2
      <3>2. Plus(first, -1) = last
        BY <2>3, <3>1, PlusZero
      <3>3. FrameOf[first] # FrameOf[last]
        BY <1>1, <2>3 DEF RtpInv, FramesHaveNoHole
      <3> QED BY <3>2, <3>3
    <2> HIDE DEF first, d, n
    <2>8. {Plus(first, i) : i \in 0 .. n - 1} = PacketsOf(FrameOf[first])
      BY <2>4, <2>5, <2>6, <2>7, WholeFrame DEF Gives, n
    <2>9. {d.frame[i] : i \in DOMAIN d.frame} = {Plus(first, i) : i \in 0 .. n - 1}
      <3>1. \A i \in 1 .. n : d.frame[i] = Plus(first, i - 1) /\ i - 1 \in 0 .. n - 1
        BY <2>5, <2>6 DEF Gives
      <3>2. \A j \in 0 .. n - 1 : j + 1 \in 1 .. n /\ (j + 1) - 1 = j
        BY <2>6
      <3>3. \A i \in 1 .. n : d.frame[i] \in {Plus(first, j) : j \in 0 .. n - 1}
        BY <3>1
      <3>4. \A j \in 0 .. n - 1 : Plus(first, j) \in {d.frame[i] : i \in 1 .. n}
        <4> SUFFICES ASSUME NEW j \in 0 .. n - 1
                     PROVE  Plus(first, j) \in {d.frame[i] : i \in 1 .. n}
          OBVIOUS
        <4>1. d.frame[j + 1] = Plus(first, j) /\ j + 1 \in 1 .. n
          BY <3>1, <3>2
        <4> QED BY <4>1
      <3> QED BY <2>6, <3>3, <3>4
    <2>10. d.frame[1] = first
      <3>1. 1 \in DOMAIN d.frame /\ 1 - 1 = 0
        BY <2>6
      <3>2. Plus(first, 0) = first
        BY <2>4, PlusZero
      <3> QED BY <2>5, <3>1, <3>2 DEF Gives
    <2> QED BY <2>8, <2>9, <2>10 DEF first, d
  <1>2. RtpInv /\ [RtpNext]_rtpVars =>
          [decoder'.frame # decoder.frame /\ decoder.frame # <<>> /\ ~decoder'.told /\ ~decoder.told =>
             LET first == Plus(decoder.frame[Len(decoder.frame)], 1)
             IN /\ decoder'.frame[1] = first
                /\ {decoder'.frame[i] : i \in DOMAIN decoder'.frame} = PacketsOf(FrameOf[first])]_rtpVars
    BY <1>1
  <1> QED BY <1>2, RtpInvariant, PTL DEF RtpSpec, NoSilentGap

-----------------------------------------------------------------------------
(* The H.264 packets.  The folds of the model, of units and of packets.    *)
Packet == {p \in [kind : {"single", "aggregate", "fragment"}, header : Byte, first : BOOLEAN, last : BOOLEAN,
                  data : Seq(Seq(Byte))] : p.data # <<>>}

Extends(code) == [y \in Seq(Byte) \X Unit |-> y[1] \o code \o y[2]]
Shows == [y \in Seq(Unit) \X Unit |-> IF IsSei(y[2]) THEN y[1] ELSE Append(y[1], y[2])]
Measures == [y \in Nat \X Seq(Byte) |-> y[1] + 2 + Len(y[2])]
Unpacks == [y \in Seq(Seq(Byte)) \X Packet |-> Depayload(y[1], y[2])]

LEMMA BufferFolds ==
  ASSUME NEW code \in Seq(Byte), NEW s \in Seq(Unit)
  PROVE  Buffer(code, s) = Folded(Seq(Byte), Extends(code), <<>>, s)
<1> DEFINE Op(r, x) == r \o code \o x
           S == Seq(Byte)
           E == Unit
           f == Extends(code)
           b == <<>>
           n == Len(s)
           Fold(it) == it = [d \in SUBSET (DOMAIN s) |->
             IF d = {} THEN b ELSE Op(it[d \ {Max(d)}], s[Max(d)])]
           jt == CHOOSE it : Fold(it)
<1>1. Buffer(code, s) = jt[DOMAIN s]
  BY DEF Buffer, FoldLeft, MapThenFoldSet
<1>2. f \in [S \X E -> S] /\ (\A r \in S, x \in E : f[<<r, x>>] = Op(r, x)) /\ b \in S
  <2>1. \A r \in Seq(Byte), x \in Unit : r \o code \o x \in Seq(Byte)
    BY DEF Unit
  <2> DEFINE Joint(r, x) == r \o code \o x
             h == [y \in Seq(Byte) \X Unit |-> Joint(y[1], y[2])]
  <2>2. \A r \in Seq(Byte), x \in Unit : Joint(r, x) \in Seq(Byte)
    BY <2>1
  <2>3. f = h
    BY DEF Extends
  <2>4. \A r \in S, x \in E : Op(r, x) = Joint(r, x)
    OBVIOUS
  <2>5. b \in S
    OBVIOUS
  <2> HIDE DEF Joint, f, Op
  <2>6. h \in [S \X E -> S]
    BY <2>2
  <2>7. \A r \in S, x \in E : h[<<r, x>>] = Joint(r, x)
    OBVIOUS
  <2> HIDE DEF h, S, E, b
  <2> QED  BY <2>3, <2>4, <2>5, <2>6, <2>7
<1> HIDE DEF Op, f, S, E, b
<1>3. PICK it : it \in FoldTables(S, f, b, s)
  <2>1. FoldTables(S, f, b, s) # {}
    BY <1>2, FoldExists DEF E
  <2> QED  BY <2>1
<1>4. Fold(it)
  <2>1. \A d \in SUBSET (1 .. n) :
          it[d] = IF d = {} THEN b ELSE Op(it[d \ {Max(d)}], s[Max(d)])
    BY <1>2, <1>3, FoldIndices DEF FoldTables, E
  <2>2. it \in [SUBSET (DOMAIN s) -> S]
    BY <1>3, FoldIndices DEF FoldTables
  <2>3. DOMAIN s = 1 .. n
    BY FoldIndices
  <2> HIDE DEF n
  <2> QED  BY <2>1, <2>2, <2>3
<1>5. Fold(jt)
  BY <1>4
<1> HIDE DEF jt
<1>6. jt[{}] = b
  BY <1>5, FoldIndices
<1>7. ASSUME NEW k \in 0 .. n - 1, jt[1 .. k] \in S PROVE jt[1 .. k + 1] = f[<<jt[1 .. k], s[k + 1]>>]
  <2>1. /\ 1 .. k + 1 \in SUBSET (DOMAIN s) /\ 1 .. k + 1 # {} /\ s[k + 1] \in E
        /\ Max(1 .. k + 1) = k + 1 /\ (1 .. k + 1) \ {k + 1} = 1 .. k
    BY FoldIndices DEF E
  <2>2. jt[1 .. k + 1] = Op(jt[1 .. k], s[k + 1])
    BY <1>5, <2>1
  <2> QED  BY <1>2, <1>7, <2>1, <2>2
<1>8. IsFolded(S, f, b, s, jt[DOMAIN s])
  BY <1>2, <1>6, <1>7, FoldedFrom DEF E
<1> QED  BY <1>1, <1>8 DEF S, f, b, IsFolded

LEMMA ShownFolds ==
  ASSUME NEW s \in Seq(Unit)
  PROVE  Shown(s) = Folded(Seq(Unit), Shows, <<>>, s)
<1> DEFINE Op(r, x) == IF IsSei(x) THEN r ELSE Append(r, x)
           S == Seq(Unit)
           E == Unit
           f == Shows
           b == <<>>
           n == Len(s)
           Fold(it) == it = [d \in SUBSET (DOMAIN s) |->
             IF d = {} THEN b ELSE Op(it[d \ {Max(d)}], s[Max(d)])]
           jt == CHOOSE it : Fold(it)
<1>1. Shown(s) = jt[DOMAIN s]
  BY DEF Shown, FoldLeft, MapThenFoldSet
<1>2. f \in [S \X E -> S] /\ (\A r \in S, x \in E : f[<<r, x>>] = Op(r, x)) /\ b \in S
  BY DEF Shows
<1> HIDE DEF Op, f, S, E, b
<1>3. PICK it : it \in FoldTables(S, f, b, s)
  <2>1. FoldTables(S, f, b, s) # {}
    BY <1>2, FoldExists DEF E
  <2> QED  BY <2>1
<1>4. Fold(it)
  <2>1. \A d \in SUBSET (1 .. n) :
          it[d] = IF d = {} THEN b ELSE Op(it[d \ {Max(d)}], s[Max(d)])
    BY <1>2, <1>3, FoldIndices DEF FoldTables, E
  <2>2. it \in [SUBSET (DOMAIN s) -> S]
    BY <1>3, FoldIndices DEF FoldTables
  <2>3. DOMAIN s = 1 .. n
    BY FoldIndices
  <2> HIDE DEF n
  <2> QED  BY <2>1, <2>2, <2>3
<1>5. Fold(jt)
  BY <1>4
<1> HIDE DEF jt
<1>6. jt[{}] = b
  BY <1>5, FoldIndices
<1>7. ASSUME NEW k \in 0 .. n - 1, jt[1 .. k] \in S PROVE jt[1 .. k + 1] = f[<<jt[1 .. k], s[k + 1]>>]
  <2>1. /\ 1 .. k + 1 \in SUBSET (DOMAIN s) /\ 1 .. k + 1 # {} /\ s[k + 1] \in E
        /\ Max(1 .. k + 1) = k + 1 /\ (1 .. k + 1) \ {k + 1} = 1 .. k
    BY FoldIndices DEF E
  <2>2. jt[1 .. k + 1] = Op(jt[1 .. k], s[k + 1])
    BY <1>5, <2>1
  <2> QED  BY <1>2, <1>7, <2>1, <2>2
<1>8. IsFolded(S, f, b, s, jt[DOMAIN s])
  BY <1>2, <1>6, <1>7, FoldedFrom DEF E
<1> QED  BY <1>1, <1>8 DEF S, f, b, IsFolded

LEMMA SizesFolds ==
  ASSUME NEW s \in Seq(Seq(Byte))
  PROVE  Sizes(s) = Folded(Nat, Measures, 0, s)
<1> DEFINE Op(r, x) == r + 2 + Len(x)
           S == Nat
           E == Seq(Byte)
           f == Measures
           b == 0
           n == Len(s)
           Fold(it) == it = [d \in SUBSET (DOMAIN s) |->
             IF d = {} THEN b ELSE Op(it[d \ {Max(d)}], s[Max(d)])]
           jt == CHOOSE it : Fold(it)
<1>1. Sizes(s) = jt[DOMAIN s]
  BY DEF Sizes, FoldLeft, MapThenFoldSet
<1>2. f \in [S \X E -> S] /\ (\A r \in S, x \in E : f[<<r, x>>] = Op(r, x)) /\ b \in S
  BY DEF Measures
<1> HIDE DEF Op, f, S, E, b
<1>3. PICK it : it \in FoldTables(S, f, b, s)
  <2>1. FoldTables(S, f, b, s) # {}
    BY <1>2, FoldExists DEF E
  <2> QED  BY <2>1
<1>4. Fold(it)
  <2>1. \A d \in SUBSET (1 .. n) :
          it[d] = IF d = {} THEN b ELSE Op(it[d \ {Max(d)}], s[Max(d)])
    BY <1>2, <1>3, FoldIndices DEF FoldTables, E
  <2>2. it \in [SUBSET (DOMAIN s) -> S]
    BY <1>3, FoldIndices DEF FoldTables
  <2>3. DOMAIN s = 1 .. n
    BY FoldIndices
  <2> HIDE DEF n
  <2> QED  BY <2>1, <2>2, <2>3
<1>5. Fold(jt)
  BY <1>4
<1> HIDE DEF jt
<1>6. jt[{}] = b
  BY <1>5, FoldIndices
<1>7. ASSUME NEW k \in 0 .. n - 1, jt[1 .. k] \in S PROVE jt[1 .. k + 1] = f[<<jt[1 .. k], s[k + 1]>>]
  <2>1. /\ 1 .. k + 1 \in SUBSET (DOMAIN s) /\ 1 .. k + 1 # {} /\ s[k + 1] \in E
        /\ Max(1 .. k + 1) = k + 1 /\ (1 .. k + 1) \ {k + 1} = 1 .. k
    BY FoldIndices DEF E
  <2>2. jt[1 .. k + 1] = Op(jt[1 .. k], s[k + 1])
    BY <1>5, <2>1
  <2> QED  BY <1>2, <1>7, <2>1, <2>2
<1>8. IsFolded(S, f, b, s, jt[DOMAIN s])
  BY <1>2, <1>6, <1>7, FoldedFrom DEF E
<1> QED  BY <1>1, <1>8 DEF S, f, b, IsFolded

LEMMA DepayloadIn ==
  ASSUME NEW o \in Seq(Seq(Byte)), NEW p \in Packet
  PROVE  Depayload(o, p) \in Seq(Seq(Byte))
<1>1. p.data \in Seq(Seq(Byte)) /\ p.data[1] \in Seq(Byte) /\ p.header \in Byte
  BY DEF Packet
<1>2. CASE p.kind # "fragment"
  BY <1>1, <1>2 DEF Depayload
<1>3. CASE p.kind = "fragment" /\ p.first
  BY <1>1, <1>3 DEF Depayload
<1>4. CASE p.kind = "fragment" /\ ~p.first
  <2> DEFINE d == p.data[1]
             t == [o EXCEPT ![Len(o)] = @ \o d]
  <2>1. Depayload(o, p) = t
    BY <1>4 DEF Depayload
  <2> HIDE DEF d
  <2>2. d \in Seq(Byte)
    BY <1>1 DEF d
  <2>3. \A i \in DOMAIN o : t[i] \in Seq(Byte)
    BY <2>2
  <2>4. DOMAIN t = DOMAIN o /\ DOMAIN o = 1 .. Len(o) /\ Len(o) \in Nat
    OBVIOUS
  <2> HIDE DEF t
  <2>5. t = [i \in 1 .. Len(o) |-> t[i]]
    BY <2>1, <2>4 DEF t
  <2>6. t \in Seq(Seq(Byte))
    BY <2>3, <2>4, <2>5
  <2> QED  BY <2>1, <2>6
<1> QED  BY <1>2, <1>3, <1>4

LEMMA OutputFolds ==
  ASSUME NEW s \in Seq(Packet)
  PROVE  Output(s) = Folded(Seq(Seq(Byte)), Unpacks, <<>>, s)
<1> DEFINE Op(r, x) == Depayload(r, x)
           S == Seq(Seq(Byte))
           E == Packet
           f == Unpacks
           b == <<>>
           n == Len(s)
           Fold(it) == it = [d \in SUBSET (DOMAIN s) |->
             IF d = {} THEN b ELSE Op(it[d \ {Max(d)}], s[Max(d)])]
           jt == CHOOSE it : Fold(it)
<1>1. Output(s) = jt[DOMAIN s]
  BY DEF Output, FoldLeft, MapThenFoldSet
<1>2. f \in [S \X E -> S] /\ (\A r \in S, x \in E : f[<<r, x>>] = Op(r, x)) /\ b \in S
  BY DepayloadIn DEF Unpacks
<1> HIDE DEF Op, f, S, E, b
<1>3. PICK it : it \in FoldTables(S, f, b, s)
  <2>1. FoldTables(S, f, b, s) # {}
    BY <1>2, FoldExists DEF E
  <2> QED  BY <2>1
<1>4. Fold(it)
  <2>1. \A d \in SUBSET (1 .. n) :
          it[d] = IF d = {} THEN b ELSE Op(it[d \ {Max(d)}], s[Max(d)])
    BY <1>2, <1>3, FoldIndices DEF FoldTables, E
  <2>2. it \in [SUBSET (DOMAIN s) -> S]
    BY <1>3, FoldIndices DEF FoldTables
  <2>3. DOMAIN s = 1 .. n
    BY FoldIndices
  <2> HIDE DEF n
  <2> QED  BY <2>1, <2>2, <2>3
<1>5. Fold(jt)
  BY <1>4
<1> HIDE DEF jt
<1>6. jt[{}] = b
  BY <1>5, FoldIndices
<1>7. ASSUME NEW k \in 0 .. n - 1, jt[1 .. k] \in S PROVE jt[1 .. k + 1] = f[<<jt[1 .. k], s[k + 1]>>]
  <2>1. /\ 1 .. k + 1 \in SUBSET (DOMAIN s) /\ 1 .. k + 1 # {} /\ s[k + 1] \in E
        /\ Max(1 .. k + 1) = k + 1 /\ (1 .. k + 1) \ {k + 1} = 1 .. k
    BY FoldIndices DEF E
  <2>2. jt[1 .. k + 1] = Op(jt[1 .. k], s[k + 1])
    BY <1>5, <2>1
  <2> QED  BY <1>2, <1>7, <2>1, <2>2
<1>8. IsFolded(S, f, b, s, jt[DOMAIN s])
  BY <1>2, <1>6, <1>7, FoldedFrom DEF E
<1> QED  BY <1>1, <1>8 DEF S, f, b, IsFolded

LEMMA BufferAppends ==
  ASSUME NEW code \in Seq(Byte), NEW s \in Seq(Unit), NEW u \in Unit
  PROVE  Buffer(code, <<>>) = <<>> /\ Buffer(code, Append(s, u)) = Buffer(code, s) \o code \o u
<1> DEFINE S == Seq(Byte)
           f == Extends(code)
           b == <<>>
           Joint(r, x) == r \o code \o x
<1>1. \A r \in S, x \in Unit : Joint(r, x) \in S
  BY DEF Unit
<1>2. f = [y \in S \X Unit |-> Joint(y[1], y[2])] /\ b \in S
  BY DEF Extends
<1>3. <<>> \in Seq(Unit) /\ Append(s, u) \in Seq(Unit)
  OBVIOUS
<1>4. /\ Buffer(code, <<>>) = Folded(S, f, b, <<>>)
      /\ Buffer(code, s) = Folded(S, f, b, s)
      /\ Buffer(code, Append(s, u)) = Folded(S, f, b, Append(s, u))
  BY <1>3, BufferFolds
<1> HIDE DEF f, S, b, Joint
<1>5. f \in [S \X Unit -> S]
  BY <1>1, <1>2
<1>6. IsFolded(S, f, b, <<>>, b)
  BY <1>2, <1>5, FoldedEmpty
<1>7. Advances(S, f, b, s, u)
  BY <1>2, <1>5, FoldedAppend
<1>8. Folded(S, f, b, s) \in S
  BY <1>2, <1>5, FoldedIn
<1>9. f[<<Folded(S, f, b, s), u>>] = Joint(Folded(S, f, b, s), u)
  BY <1>2, <1>8
<1> QED  BY <1>4, <1>6, <1>7, <1>9 DEF b, Joint, Advances, IsFolded

LEMMA ShownAppends ==
  ASSUME NEW s \in Seq(Unit), NEW u \in Unit
  PROVE  /\ Shown(<<>>) = <<>> /\ Shown(s) \in Seq(Unit)
         /\ Shown(Append(s, u)) = IF IsSei(u) THEN Shown(s) ELSE Append(Shown(s), u)
<1> DEFINE S == Seq(Unit)
           f == Shows
           b == <<>>
<1>1. f \in [S \X Unit -> S] /\ b \in S /\ \A r \in S : f[<<r, u>>] = IF IsSei(u) THEN r ELSE Append(r, u)
  BY DEF Shows
<1>2. <<>> \in Seq(Unit) /\ Append(s, u) \in Seq(Unit)
  OBVIOUS
<1>3. /\ Shown(<<>>) = Folded(S, f, b, <<>>)
      /\ Shown(s) = Folded(S, f, b, s)
      /\ Shown(Append(s, u)) = Folded(S, f, b, Append(s, u))
  BY <1>2, ShownFolds
<1> HIDE DEF f, S, b
<1>4. IsFolded(S, f, b, <<>>, b)
  BY <1>1, FoldedEmpty DEF S
<1>5. Advances(S, f, b, s, u)
  BY <1>1, FoldedAppend DEF S
<1>6. Folded(S, f, b, s) \in S
  BY <1>1, FoldedIn DEF S
<1>7. f[<<Folded(S, f, b, s), u>>] = IF IsSei(u) THEN Folded(S, f, b, s) ELSE Append(Folded(S, f, b, s), u)
  BY <1>1, <1>6
<1> QED  BY <1>3, <1>4, <1>5, <1>6, <1>7 DEF b, S, Advances, IsFolded

LEMMA SizesAppends ==
  ASSUME NEW s \in Seq(Seq(Byte)), NEW u \in Seq(Byte)
  PROVE  Sizes(<<>>) = 0 /\ Sizes(s) \in Nat /\ Sizes(Append(s, u)) = Sizes(s) + 2 + Len(u)
<1> DEFINE S == Nat
           E == Seq(Byte)
           f == Measures
           b == 0
<1>1. f \in [S \X E -> S] /\ b \in S /\ \A r \in S : f[<<r, u>>] = r + 2 + Len(u)
  BY DEF Measures
<1>2. <<>> \in Seq(E) /\ Append(s, u) \in Seq(E)
  OBVIOUS
<1>3. /\ Sizes(<<>>) = Folded(S, f, b, <<>>)
      /\ Sizes(s) = Folded(S, f, b, s)
      /\ Sizes(Append(s, u)) = Folded(S, f, b, Append(s, u))
  BY <1>2, SizesFolds
<1> HIDE DEF f, S, b
<1>4. IsFolded(S, f, b, <<>>, b)
  BY <1>1, FoldedEmpty
<1>5. Advances(S, f, b, s, u)
  BY <1>1, FoldedAppend
<1>6. Folded(S, f, b, s) \in S
  BY <1>1, FoldedIn
<1>7. f[<<Folded(S, f, b, s), u>>] = Folded(S, f, b, s) + 2 + Len(u)
  BY <1>1, <1>6
<1> QED  BY <1>3, <1>4, <1>5, <1>6, <1>7 DEF b, S, Advances, IsFolded

LEMMA OutputAppends ==
  ASSUME NEW s \in Seq(Packet), NEW p \in Packet
  PROVE  Output(<<>>) = <<>> /\ Output(s) \in Seq(Seq(Byte)) /\ Output(Append(s, p)) = Depayload(Output(s), p)
<1> DEFINE S == Seq(Seq(Byte))
           f == Unpacks
           b == <<>>
<1>1. f \in [S \X Packet -> S] /\ b \in S /\ \A r \in S : f[<<r, p>>] = Depayload(r, p)
  <2>1. \A r \in S, q \in Packet : Depayload(r, q) \in S
    BY DepayloadIn
  <2>2. f = [y \in S \X Packet |-> Depayload(y[1], y[2])] /\ b \in S
    BY DEF Unpacks
  <2> HIDE DEF f, S, b
  <2>3. f \in [S \X Packet -> S]
    BY <2>1, <2>2
  <2>4. \A r \in S : f[<<r, p>>] = Depayload(r, p)
    BY <2>2
  <2> QED  BY <2>2, <2>3, <2>4
<1>2. <<>> \in Seq(Packet) /\ Append(s, p) \in Seq(Packet)
  OBVIOUS
<1>3. /\ Output(<<>>) = Folded(S, f, b, <<>>)
      /\ Output(s) = Folded(S, f, b, s)
      /\ Output(Append(s, p)) = Folded(S, f, b, Append(s, p))
  BY <1>2, OutputFolds
<1> HIDE DEF f, S, b
<1>4. IsFolded(S, f, b, <<>>, b)
  BY <1>1, FoldedEmpty
<1>5. Advances(S, f, b, s, p)
  BY <1>1, FoldedAppend
<1>6. Folded(S, f, b, s) \in S
  BY <1>1, FoldedIn
<1>7. f[<<Folded(S, f, b, s), p>>] = Depayload(Folded(S, f, b, s), p)
  BY <1>1, <1>6
<1> QED  BY <1>3, <1>4, <1>5, <1>6, <1>7 DEF b, S, Advances, IsFolded

(* Where the units lie in the buffer: the first k, with their start codes, *)
(* take up l[k] bytes.                                                     *)
Laid(b, units, code, l) ==
  /\ b \in Seq(Byte) /\ l \in [0 .. Len(units) -> 0 .. Len(b)]
  /\ l[0] = 0 /\ l[Len(units)] = Len(b)
  /\ \A k \in 0 .. Len(units) - 1 :
       /\ l[k + 1] = l[k] + Len(code) + Len(units[k + 1])
       /\ \A p \in 1 .. Len(code) : b[l[k] + p] = code[p]
       /\ \A p \in 1 .. Len(units[k + 1]) : b[l[k] + Len(code) + p] = units[k + 1][p]

LEMMA LaidAppends ==
  ASSUME NEW b, NEW s \in Seq(Unit), NEW code \in Seq(Byte), NEW u \in Unit, NEW l, Laid(b, s, code, l)
  PROVE  \E m : Laid(b \o code \o u, Append(s, u), code, m)
<1> DEFINE n == Len(s)
           t == Append(s, u)
           d == b \o code \o u
           x == Len(b)
           c == Len(code)
           y == Len(u)
           m == [k \in 0 .. n + 1 |-> IF k = n + 1 THEN x + c + y ELSE l[k]]
<1>1. b \in Seq(Byte) /\ u \in Seq(Byte)
  BY DEF Laid, Unit
<1>2. /\ d \in Seq(Byte) /\ Len(d) = x + c + y
      /\ \A i \in 1 .. x : d[i] = b[i]
      /\ \A i \in 1 .. c : d[x + i] = code[i]
      /\ \A i \in 1 .. y : d[x + c + i] = u[i]
  BY <1>1, InsertedIs
<1>3. n \in Nat /\ x \in Nat /\ c \in Nat /\ y \in Nat
  BY <1>1
<1>4. Len(t) = n + 1 /\ t[n + 1] = u /\ \A i \in 1 .. n : t[i] = s[i]
  OBVIOUS
<1>5. /\ l \in [0 .. n -> 0 .. x] /\ l[0] = 0 /\ l[n] = x
      /\ \A k \in 0 .. n - 1 :
           /\ l[k + 1] = l[k] + c + Len(s[k + 1])
           /\ \A p \in 1 .. c : b[l[k] + p] = code[p]
           /\ \A p \in 1 .. Len(s[k + 1]) : b[l[k] + c + p] = s[k + 1][p]
  BY DEF Laid
<1>6. \A i \in 1 .. n : s[i] \in Seq(Byte) /\ Len(s[i]) \in Nat
  <2> SUFFICES ASSUME NEW i \in 1 .. n PROVE s[i] \in Seq(Byte)
    OBVIOUS
  <2>1. s[i] \in Unit
    OBVIOUS
  <2> QED  BY <2>1 DEF Unit
<1> HIDE DEF n, t, d, x, c, y
<1>7. /\ \A k \in 0 .. n : m[k] = l[k] /\ l[k] \in 0 .. x /\ k \in 0 .. n + 1 /\ k # n + 1
      /\ m[n + 1] = x + c + y
  BY <1>3, <1>5
<1>8. m \in [0 .. n + 1 -> 0 .. x + c + y]
  <2>1. \A k \in 0 .. n + 1 : k # n + 1 => k \in 0 .. n
    BY <1>3
  <2>2. \A i \in 0 .. x : i \in 0 .. x + c + y
    BY <1>3
  <2>3. x + c + y \in 0 .. x + c + y
    BY <1>3
  <2> QED  BY <1>7, <2>1, <2>2, <2>3
<1> HIDE DEF m
<1>9. ASSUME NEW k \in 0 .. n
      PROVE  /\ m[k + 1] = m[k] + c + Len(t[k + 1])
             /\ \A p \in 1 .. c : d[m[k] + p] = code[p]
             /\ \A p \in 1 .. Len(t[k + 1]) : d[m[k] + c + p] = t[k + 1][p]
  <2>1. CASE k = n
    BY <1>2, <1>4, <1>5, <1>7, <2>1 DEF y
  <2>2. CASE k # n
    <3>1. k \in 0 .. n - 1 /\ k + 1 \in 1 .. n /\ k + 1 \in 0 .. n
      BY <1>3, <2>2
    <3> DEFINE a == l[k]
               v == s[k + 1]
               w == Len(v)
    <3>2. /\ a \in 0 .. x /\ w \in Nat /\ l[k + 1] = a + c + w /\ l[k + 1] \in 0 .. x
          /\ m[k] = a /\ m[k + 1] = l[k + 1] /\ t[k + 1] = v
          /\ \A p \in 1 .. c : b[a + p] = code[p]
          /\ \A p \in 1 .. w : b[a + c + p] = v[p]
      BY <1>4, <1>5, <1>6, <1>7, <3>1
    <3> HIDE DEF a, v
    <3>3. \A p \in 1 .. c : a + p \in 1 .. x
      <4> HIDE DEF w
      <4> QED  BY <1>3, <3>2
    <3>4. \A p \in 1 .. w : a + c + p \in 1 .. x
      <4> HIDE DEF w
      <4> QED  BY <1>3, <3>2
    <3> QED  BY <1>2, <3>2, <3>3, <3>4
  <2> QED  BY <2>1, <2>2
<1>10. m[0] = 0 /\ m[Len(t)] = Len(d)
  BY <1>2, <1>3, <1>4, <1>5, <1>7
<1>11. Laid(d, t, code, m)
  <2>1. Len(t) - 1 = n
    BY <1>3, <1>4
  <2> QED  BY <1>2, <1>4, <1>8, <1>9, <1>10, <2>1 DEF Laid, c
<1> QED  BY <1>11 DEF d, t

LEMMA BufferLaid ==
  ASSUME NEW units \in Seq(Unit), NEW code \in Seq(Byte)
  PROVE  \E l : Laid(Buffer(code, units), units, code, l)
<1> DEFINE n == Len(units)
           Part(k) == SubSeq(units, 1, k)
           T == {k \in 0 .. n : \E l : Laid(Buffer(code, Part(k)), Part(k), code, l)}
<1>1. /\ n \in Nat /\ Part(0) = <<>> /\ Part(n) = units
      /\ \A k \in 0 .. n : Part(k) \in Seq(Unit)
      /\ \A k \in 0 .. n - 1 : Part(k + 1) = Append(Part(k), units[k + 1]) /\ units[k + 1] \in Unit /\ k + 1 \in 0 .. n /\ k \in 0 .. n
  <2>1. \A k \in 0 .. n : Part(k) \in Seq(Unit) /\ Len(Part(k)) = k /\ \A i \in 1 .. k : Part(k)[i] = units[i]
    OBVIOUS
  <2>2. ASSUME NEW k \in 0 .. n - 1 PROVE Part(k + 1) = Append(Part(k), units[k + 1]) /\ units[k + 1] \in Unit
    OBVIOUS
  <2> QED  BY <2>1, <2>2
<1> HIDE DEF n, Part
<1>2. 0 \in T
  <2>1. Buffer(code, <<>>) = <<>>
    <3>1. \E u : u \in Unit
      <4> DEFINE u == <<1, 1>>
      <4>1. u \in Seq(Byte)
        BY DEF Byte
      <4>2. u \in Unit
        BY <4>1 DEF Unit
      <4> QED  BY <4>2
    <3>2. <<>> \in Seq(Unit)
      OBVIOUS
    <3> QED  BY <3>1, <3>2, BufferAppends
  <2> DEFINE l == [k \in 0 .. 0 |-> 0]
             e == <<>>
  <2>2. Laid(e, e, code, l)
    <3>1. e \in Seq(Byte) /\ Len(e) = 0 /\ l \in [0 .. 0 -> 0 .. 0] /\ l[0] = 0 /\ 0 .. 0 - 1 = {}
      OBVIOUS
    <3> HIDE DEF e, l
    <3> QED  BY <3>1 DEF Laid
  <2>3. 0 \in 0 .. n
    BY <1>1
  <2> QED  BY <1>1, <2>1, <2>2, <2>3
<1>3. ASSUME NEW k \in 0 .. n - 1, k \in T PROVE k + 1 \in T
  <2>1. PICK l : Laid(Buffer(code, Part(k)), Part(k), code, l)
    BY <1>3
  <2> DEFINE u == units[k + 1]
  <2>2. /\ Part(k) \in Seq(Unit) /\ u \in Unit /\ Part(k + 1) = Append(Part(k), u) /\ k + 1 \in 0 .. n
    BY <1>1
  <2> HIDE DEF u
  <2>3. Buffer(code, Part(k + 1)) = Buffer(code, Part(k)) \o code \o u
    BY <2>2, BufferAppends
  <2>4. \E m : Laid(Buffer(code, Part(k)) \o code \o u, Append(Part(k), u), code, m)
    BY <2>1, <2>2, LaidAppends
  <2> QED  BY <2>2, <2>3, <2>4
<1>4. n \in T
  <2> HIDE DEF T
  <2>1. n \in 0 .. n
    BY <1>1
  <2> QED  BY <1>1, <1>2, <1>3, <2>1, Interval
<1> QED  BY <1>1, <1>4

(* The bytes that the loops of _split_bitstream compare.                   *)
LEMMA BytesAre ==
  ASSUME NEW b \in Seq(Byte), NEW i \in Nat, NEW n \in Nat
  PROVE  /\ i + n <= Len(b) => /\ Bytes(b, i, n) \in Seq(Byte) /\ Len(Bytes(b, i, n)) = n
                               /\ \A p \in 1 .. n : Bytes(b, i, n)[p] = b[i + p]
         /\ i + n > Len(b) /\ n > 0 => Len(Bytes(b, i, n)) < n
<1>1. CASE i + n <= Len(b)
  <2>1. IF i + n < Len(b) THEN Bytes(b, i, n) = SubSeq(b, i + 1, i + n) ELSE Bytes(b, i, n) = SubSeq(b, i + 1, i + n)
    BY <1>1 DEF Bytes
  <2>2. Bytes(b, i, n) = SubSeq(b, i + 1, i + n)
    BY <2>1
  <2>3. \A j \in i + 1 .. i + n : b[j] \in Byte
    BY <1>1
  <2>4. /\ SubSeq(b, i + 1, i + n) \in Seq(Byte) /\ Len(SubSeq(b, i + 1, i + n)) = n
        /\ \A p \in 1 .. n : SubSeq(b, i + 1, i + n)[p] = b[i + p]
    BY <1>1, <2>3
  <2>5. /\ Bytes(b, i, n) \in Seq(Byte) /\ Len(Bytes(b, i, n)) = n
        /\ \A p \in 1 .. n : Bytes(b, i, n)[p] = b[i + p]
    BY <2>2, <2>4
  <2>6. ~(i + n > Len(b))
    BY <1>1
  <2> QED  BY <2>5, <2>6
<1>2. CASE i + n > Len(b)
  <2>1. Bytes(b, i, n) = SubSeq(b, i + 1, Len(b))
    BY <1>2 DEF Bytes
  <2>2. Len(SubSeq(b, i + 1, Len(b))) = IF i + 1 <= Len(b) THEN Len(b) - i ELSE 0
    OBVIOUS
  <2> QED  BY <1>2, <2>1, <2>2
<1> QED  BY <1>1, <1>2

Three(b, i, x, y, z) == Bytes(b, i, 3) = <<x, y, z>>

LEMMA ThreeBytes ==
  ASSUME NEW b \in Seq(Byte), NEW i \in Nat, NEW x, NEW y, NEW z
  PROVE  Three(b, i, x, y, z) <=> i + 3 <= Len(b) /\ b[i + 1] = x /\ b[i + 2] = y /\ b[i + 3] = z
<1> DEFINE t == Bytes(b, i, 3)
           d == <<x, y, z>>
<1>1. Len(d) = 3 /\ d[1] = x /\ d[2] = y /\ d[3] = z /\ d = [p \in 1 .. 3 |-> d[p]]
  OBVIOUS
<1>2. /\ i + 3 <= Len(b) => /\ t \in Seq(Byte) /\ Len(t) = 3
                            /\ \A p \in 1 .. 3 : t[p] = b[i + p]
      /\ i + 3 > Len(b) => Len(t) < 3
  <2> HIDE DEF d
  <2>1. ASSUME NEW n \in Nat, n > 0
        PROVE  /\ i + n <= Len(b) => /\ Bytes(b, i, n) \in Seq(Byte) /\ Len(Bytes(b, i, n)) = n
                                     /\ \A p \in 1 .. n : Bytes(b, i, n)[p] = b[i + p]
               /\ i + n > Len(b) => Len(Bytes(b, i, n)) < n
    BY <2>1, BytesAre
  <2>2. 3 \in Nat /\ 3 > 0
    OBVIOUS
  <2> QED  BY <2>1, <2>2
<1> HIDE DEF t, d
<1>3. CASE i + 3 <= Len(b)
  <2>1. t[1] = b[i + 1] /\ t[2] = b[i + 2] /\ t[3] = b[i + 3]
    BY <1>2, <1>3
  <2>2. t = [p \in 1 .. 3 |-> t[p]]
    BY <1>2, <1>3
  <2>3. b[i + 1] = x /\ b[i + 2] = y /\ b[i + 3] = z => \A p \in 1 .. 3 : t[p] = d[p]
    BY <1>1, <2>1
  <2>4. b[i + 1] = x /\ b[i + 2] = y /\ b[i + 3] = z => t = d
    BY <1>1, <2>2, <2>3
  <2>5. t = d => b[i + 1] = x /\ b[i + 2] = y /\ b[i + 3] = z
    BY <1>1, <2>1
  <2> QED  BY <1>3, <2>4, <2>5 DEF t, d, Three
<1>4. CASE i + 3 > Len(b)
  <2>1. t # d
    <3> SUFFICES ASSUME t = d PROVE FALSE
      OBVIOUS
    <3>1. Len(t) = 3 /\ Len(t) < 3
      BY <1>1, <1>2, <1>4
    <3> QED  BY <3>1
  <2> QED  BY <1>4, <2>1 DEF t, d, Three
<1> QED  BY <1>3, <1>4

LEMMA FourBytes ==
  ASSUME NEW b \in Seq(Byte), NEW i \in Nat, i + 4 <= Len(b),
         b[i + 1] = 0, b[i + 2] = 0, b[i + 3] = 0, b[i + 4] = 1
  PROVE  Bytes(b, i, 4) = StartCode4
<1> DEFINE t == Bytes(b, i, 4)
<1>1. t \in Seq(Byte) /\ Len(t) = 4 /\ \A p \in 1 .. 4 : t[p] = b[i + p]
  <2>1. ASSUME NEW n \in Nat, i + n <= Len(b)
        PROVE  /\ Bytes(b, i, n) \in Seq(Byte) /\ Len(Bytes(b, i, n)) = n
               /\ \A p \in 1 .. n : Bytes(b, i, n)[p] = b[i + p]
    BY <2>1, BytesAre
  <2>2. 4 \in Nat /\ i + 4 <= Len(b)
    OBVIOUS
  <2> QED  BY <2>1, <2>2
<1>2. t[1] = 0 /\ t[2] = 0 /\ t[3] = 0 /\ t[4] = 1
  <2> HIDE DEF t
  <2> QED  BY <1>1
<1>3. Len(StartCode4) = 4 /\ StartCode4 \in Seq(Byte) /\ StartCode4[1] = 0 /\ StartCode4[2] = 0 /\ StartCode4[3] = 0 /\ StartCode4[4] = 1
  BY DEF StartCode4, Byte
<1> HIDE DEF t
<1>4. \A p \in 1 .. 4 : t[p] = StartCode4[p]
  BY <1>2, <1>3
<1>5. t = StartCode4
  <2> DEFINE d == StartCode4
  <2>1. d \in Seq(Byte) /\ Len(d) = 4 /\ \A p \in 1 .. 4 : t[p] = d[p]
    BY <1>3, <1>4
  <2> HIDE DEF d
  <2>2. t = [p \in 1 .. 4 |-> t[p]] /\ d = [p \in 1 .. 4 |-> d[p]]
    BY <1>1, <2>1
  <2>3. t = d
    BY <2>1, <2>2
  <2> QED  BY <2>3 DEF d
<1> QED  BY <1>5 DEF t

LEMMA LeastIs ==
  ASSUME NEW S \in SUBSET Int, NEW m \in S, \A j \in S : m <= j
  PROVE  Least(S) = m
<1>1. \E i \in S : \A j \in S : i <= j
  OBVIOUS
<1>2. Least(S) \in S /\ \A j \in S : Least(S) <= j
  BY <1>1 DEF Least
<1>3. Least(S) <= m /\ m <= Least(S) /\ Least(S) \in Int /\ m \in Int
  BY <1>2
<1> QED  BY <1>3

Codes == {StartCode3, StartCode4}

LEMMA CodesAre ==
  ASSUME NEW code \in Codes
  PROVE  /\ code \in Seq(Byte) /\ Len(code) \in {3, 4} /\ code[1] = 0 /\ code[2] = 0
         /\ Len(code) = 3 => code = StartCode3 /\ code[3] = 1
         /\ Len(code) = 4 => code = StartCode4 /\ code[3] = 0 /\ code[4] = 1
<1>1. /\ StartCode3 \in Seq(Byte) /\ Len(StartCode3) = 3 /\ StartCode3[1] = 0 /\ StartCode3[2] = 0
      /\ StartCode3[3] = 1
  BY DEF StartCode3, Byte
<1>2. /\ StartCode4 \in Seq(Byte) /\ Len(StartCode4) = 4 /\ StartCode4[1] = 0 /\ StartCode4[2] = 0
      /\ StartCode4[3] = 0 /\ StartCode4[4] = 1
  BY DEF StartCode4, Byte
<1>3. CASE code = StartCode3
  BY <1>1, <1>3
<1>4. CASE code = StartCode4
  BY <1>2, <1>4
<1> QED  BY <1>3, <1>4 DEF Codes

(* The kth unit in the buffer, from byte i to byte e, with its start code. *)
Lies(b, code, u, i, e) ==
  /\ i \in Nat /\ e \in Nat /\ e = i + Len(code) + Len(u) /\ e <= Len(b)
  /\ \A p \in 1 .. Len(code) : b[i + p] = code[p]
  /\ \A p \in 1 .. Len(u) : b[i + Len(code) + p] = u[p]

LEMMA UnitsLie ==
  ASSUME NEW b, NEW units \in Seq(Unit), NEW code \in Codes, NEW l, Laid(b, units, code, l),
         NEW k \in 0 .. Len(units) - 1
  PROVE  /\ b \in Seq(Byte) /\ units[k + 1] \in Unit /\ Lies(b, code, units[k + 1], l[k], l[k + 1])
         /\ l[k] \in 0 .. Len(b) - 1 /\ l[k + 1] \in 0 .. Len(b)
<1> DEFINE n == Len(units)
           u == units[k + 1]
           i == l[k]
           e == l[k + 1]
<1>1. n \in Nat /\ k \in 0 .. n /\ k + 1 \in 0 .. n /\ k + 1 \in 1 .. n /\ u \in Unit
  OBVIOUS
<1>2. b \in Seq(Byte) /\ i \in 0 .. Len(b) /\ e \in 0 .. Len(b)
  BY <1>1 DEF Laid
<1>3. /\ e = i + Len(code) + Len(u)
      /\ \A p \in 1 .. Len(code) : b[i + p] = code[p]
      /\ \A p \in 1 .. Len(u) : b[i + Len(code) + p] = u[p]
  BY DEF Laid
<1>4. Len(u) \in Nat /\ Len(u) > 1
  <2> HIDE DEF u
  <2> QED  BY <1>1 DEF Unit
<1> HIDE DEF u, i, e
<1>5. i \in 0 .. Len(b) - 1
  BY <1>2, <1>3, <1>4, CodesAre
<1>6. Lies(b, code, u, i, e)
  BY <1>2, <1>3 DEF Lies
<1> QED  BY <1>1, <1>2, <1>5, <1>6 DEF u, i, e

LEMMA CodeIs ==
  ASSUME NEW b \in Seq(Byte), NEW code \in Codes, NEW u \in Unit, NEW i, NEW e, Lies(b, code, u, i, e)
  PROVE  /\ i \in Nat /\ i + Len(code) + 1 < Len(b) /\ b[i + 1] = 0 /\ b[i + 2] = 0
         /\ Len(code) = 3 => b[i + 3] = 1
         /\ Len(code) = 4 => b[i + 3] = 0 /\ b[i + 4] = 1
<1>1. Len(u) \in Nat /\ Len(u) > 1
  BY DEF Unit
<1>2. Len(code) \in {3, 4} /\ \A p \in 1 .. Len(code) : b[i + p] = code[p]
  BY CodesAre DEF Lies
<1>3. b[i + 1] = code[1] /\ b[i + 2] = code[2] /\ b[i + 3] = code[3] /\ (Len(code) = 4 => b[i + 4] = code[4])
  <2>1. 1 \in 1 .. Len(code) /\ 2 \in 1 .. Len(code) /\ 3 \in 1 .. Len(code) /\ (Len(code) = 4 => 4 \in 1 .. Len(code))
    <3> DEFINE c == Len(code)
    <3>1. c \in {3, 4}
      BY <1>2
    <3> HIDE DEF c
    <3>2. 1 \in 1 .. c /\ 2 \in 1 .. c /\ 3 \in 1 .. c /\ (c = 4 => 4 \in 1 .. c)
      BY <3>1
    <3> QED  BY <3>2 DEF c
  <2> QED  BY <1>2, <2>1
<1>4. i \in Nat /\ e = i + Len(code) + Len(u) /\ e <= Len(b)
  BY DEF Lies
<1> QED  BY <1>1, <1>2, <1>3, <1>4, CodesAre

LEMMA StartFound ==
  ASSUME NEW b \in Seq(Byte), NEW code \in Codes, NEW u \in Unit, NEW i, NEW e, Lies(b, code, u, i, e)
  PROVE  Starts(b, i) # {} /\ Least(Starts(b, i)) = i /\ UnitStart(b, i) = i + Len(code)
<1>1. /\ i \in Nat /\ i + Len(code) + 1 < Len(b) /\ b[i + 1] = 0 /\ b[i + 2] = 0
      /\ Len(code) = 3 => b[i + 3] = 1
      /\ Len(code) = 4 => b[i + 3] = 0 /\ b[i + 4] = 1
  BY CodeIs
<1>2. Len(code) \in {3, 4} /\ i + 3 <= Len(b)
  BY <1>1, CodesAre
<1>3. Bytes(b, i, 3) = StartCode3 <=> Len(code) = 3
  <2>1. Three(b, i, 0, 0, 1) <=> Len(code) = 3
    BY <1>1, <1>2, ThreeBytes
  <2> QED  BY <2>1 DEF Three, StartCode3
<1>4. Len(code) = 4 => Bytes(b, i, 4) = StartCode4
  BY <1>1, <1>2, FourBytes
<1>5. i \in Starts(b, i)
  BY <1>2, <1>3, <1>4 DEF Starts, Looks
<1>6. Starts(b, i) \in SUBSET Int /\ \A j \in Starts(b, i) : i <= j
  <2>1. \A j \in Looks(b, i, 4) : j \in Int /\ i <= j
    BY <1>1 DEF Looks
  <2> QED  BY <2>1 DEF Starts
<1>7. Least(Starts(b, i)) = i
  BY <1>5, <1>6, LeastIs
<1>8. UnitStart(b, i) = i + Len(code)
  BY <1>2, <1>3 DEF UnitStart
<1> QED  BY <1>5, <1>7, <1>8

(* No unit ends before its end.                                            *)
LEMMA NoEarlyEnd ==
  ASSUME NEW b \in Seq(Byte), NEW code \in Codes, NEW u \in Unit, NEW i, NEW e, Lies(b, code, u, i, e),
         NEW j \in Ends(b, i + Len(code))
  PROVE  j \in Nat /\ j >= e /\ j + 3 <= Len(b)
<1> DEFINE s == i + Len(code)
           n == Len(u)
<1>1. /\ i \in Nat /\ n \in Nat /\ n > 1 /\ s \in Nat /\ e = s + n /\ e <= Len(b) /\ e \in Nat
      /\ \A p \in 1 .. n : b[s + p] = u[p]
  BY CodesAre DEF Lies, Unit
<1>2. /\ u[1] # 0 /\ u[n] # 0
      /\ \A p \in 2 .. n - 1 : u[p] = 0 => u[p + 1] \notin {0, 1}
  BY DEF Unit
<1> HIDE DEF s, n
<1>3. j \in Looks(b, s, 3) /\ Bytes(b, j, 3) \in {StartCode3, <<0, 0, 0>>}
  BY DEF Ends, s
<1>4. j \in Nat /\ s <= j
  BY <1>1, <1>3 DEF Looks
<1>5. j + 3 <= Len(b) /\ b[j + 1] = 0 /\ b[j + 2] = 0
  <2>1. Three(b, j, 0, 0, 0) \/ Three(b, j, 0, 0, 1)
    BY <1>3 DEF Three, StartCode3
  <2> QED  BY <1>4, <2>1, ThreeBytes
<1>6. ASSUME j < e PROVE FALSE
  <2> DEFINE p == j - s + 1
  <2>1. p \in 1 .. n /\ s + p = j + 1
    BY <1>1, <1>4, <1>6
  <2>2. u[p] = 0
    BY <1>1, <1>5, <2>1
  <2>3. p \in 2 .. n - 1 /\ p + 1 \in 1 .. n /\ s + (p + 1) = j + 2
    <3> HIDE DEF p
    <3>1. p # 1 /\ p # n
      BY <1>2, <2>2
    <3> QED  BY <1>1, <1>4, <2>1, <3>1
  <2> HIDE DEF p
  <2>4. u[p + 1] = 0
    BY <1>1, <1>5, <2>3
  <2> QED  BY <1>2, <2>2, <2>3, <2>4
<1>7. j >= e
  BY <1>1, <1>4, <1>6
<1> QED  BY <1>4, <1>5, <1>7

(* The end that is found is where the next start code lies, or the end of  *)
(* the buffer.                                                             *)
EndsAt(b, i, e) == UnitEnd(b, i) = e

LEMMA EndFound ==
  ASSUME NEW b, NEW units \in Seq(Unit), NEW code \in Codes, NEW l, Laid(b, units, code, l),
         NEW k \in 0 .. Len(units) - 1
  PROVE  EndsAt(b, l[k] + Len(code), l[k + 1])
<1> DEFINE u == units[k + 1]
           i == l[k]
           e == l[k + 1]
           s == i + Len(code)
<1>1. b \in Seq(Byte) /\ u \in Unit /\ Lies(b, code, u, i, e) /\ i \in 0 .. Len(b) - 1 /\ e \in 0 .. Len(b)
  BY UnitsLie
<1>3. CASE k + 1 = Len(units)
  <2>1. e = Len(b)
    BY <1>3 DEF Laid
  <2> HIDE DEF u, i, e
  <2>2. Ends(b, s) = {}
    <3> SUFFICES ASSUME NEW j \in Ends(b, s) PROVE FALSE
      OBVIOUS
    <3>1. j \in Nat /\ j >= e /\ j + 3 <= Len(b)
      BY <1>1, NoEarlyEnd
    <3> QED  BY <1>1, <2>1, <3>1
  <2> QED  BY <2>1, <2>2 DEF UnitEnd, EndsAt, i, e
<1>4. CASE k + 1 # Len(units)
  <2>1. k + 1 \in 0 .. Len(units) - 1
    BY <1>4
  <2> DEFINE v == units[k + 1 + 1]
             f == l[k + 1 + 1]
  <2>2. v \in Unit /\ Lies(b, code, v, e, f)
    BY <2>1, UnitsLie
  <2> HIDE DEF u, i, e, v, f
  <2>3. e \in Nat /\ e + Len(code) + 1 < Len(b) /\ b[e + 1] = 0 /\ b[e + 2] = 0 /\ b[e + 3] \in {0, 1} /\ Len(code) \in {3, 4}
    <3>1. Len(code) \in {3, 4}
      BY CodesAre
    <3>2. /\ e \in Nat /\ e + Len(code) + 1 < Len(b) /\ b[e + 1] = 0 /\ b[e + 2] = 0
          /\ Len(code) = 3 => b[e + 3] = 1
          /\ Len(code) = 4 => b[e + 3] = 0
      BY <1>1, <2>2, CodeIs
    <3> QED  BY <3>1, <3>2
  <2>4. s \in Nat /\ Len(b) \in Nat /\ e >= s
    BY <1>1, CodesAre DEF Lies, Unit
  <2> HIDE DEF s
  <2>5. Bytes(b, e, 3) \in {StartCode3, <<0, 0, 0>>}
    <3>1. e + 3 <= Len(b)
      <4> DEFINE c == Len(code)
                 x == Len(b)
      <4>1. e \in Nat /\ x \in Nat /\ c \in {3, 4} /\ e + c + 1 < x
        BY <2>3, <2>4
      <4> HIDE DEF c, x
      <4>2. e + 3 <= x
        BY <4>1
      <4> QED  BY <4>2 DEF x
    <3>2. Three(b, e, 0, 0, 0) \/ Three(b, e, 0, 0, 1)
      BY <1>1, <2>3, <3>1, ThreeBytes
    <3> QED  BY <3>2 DEF Three, StartCode3
  <2>6. e \in Looks(b, s, 3)
    <3>1. s \in Nat /\ e \in s .. Len(b) - 1 /\ e + 3 < Len(b)
      <4> DEFINE c == Len(code)
                 x == Len(b)
      <4>1. e \in Nat /\ x \in Nat /\ c \in {3, 4} /\ e + c + 1 < x /\ s \in Nat /\ e >= s
        BY <2>3, <2>4
      <4> HIDE DEF c, x
      <4>2. e \in s .. x - 1 /\ e + 3 < x
        BY <4>1
      <4> QED  BY <4>1, <4>2 DEF x
    <3> QED  BY <3>1 DEF Looks
  <2>7. e \in Ends(b, s)
    BY <2>5, <2>6 DEF Ends
  <2>8. \A j \in Ends(b, s) : j \in Int /\ e <= j
    <3> SUFFICES ASSUME NEW j \in Ends(b, s) PROVE j \in Int /\ e <= j
      OBVIOUS
    <3>1. j \in Nat /\ j >= e
      BY <1>1, NoEarlyEnd DEF s
    <3> QED  BY <1>1, <3>1
  <2>9. Least(Ends(b, s)) = e
    BY <2>7, <2>8, LeastIs
  <2> QED  BY <2>7, <2>9 DEF UnitEnd, EndsAt, i, e, s
<1> QED  BY <1>3, <1>4

LEMMA UnitFound ==
  ASSUME NEW b \in Seq(Byte), NEW code \in Codes, NEW u \in Unit, NEW i, NEW e, Lies(b, code, u, i, e)
  PROVE  Bytes(b, i + Len(code), e - (i + Len(code))) = u
<1> DEFINE s == i + Len(code)
           n == Len(u)
           t == Bytes(b, s, n)
<1>1. /\ n \in Nat /\ s \in Nat /\ e = s + n /\ e <= Len(b) /\ e - s = n
      /\ \A p \in 1 .. n : b[s + p] = u[p]
  BY CodesAre DEF Lies, Unit
<1>2. u \in Seq(Byte)
  BY DEF Unit
<1> HIDE DEF s, n
<1>3. t \in Seq(Byte) /\ Len(t) = n /\ \A p \in 1 .. n : t[p] = b[s + p]
  BY <1>1, BytesAre
<1> HIDE DEF t
<1>4. t = u
  <2>1. t = [p \in 1 .. n |-> t[p]] /\ u = [p \in 1 .. n |-> u[p]]
    BY <1>2, <1>3 DEF n
  <2>2. \A p \in 1 .. n : t[p] = u[p]
    BY <1>1, <1>3
  <2> QED  BY <2>1, <2>2
<1> QED  BY <1>1, <1>4 DEF t, s

(* The fragments of a unit: where the ith begins, from 0.                  *)
Begin(size, i) ==
  LET count == FragmentCount(size)
  IN 1 + i * (size \div count) + (IF i < size % count THEN i ELSE size % count)

LEMMA FragmentsFill ==
  ASSUME NEW size \in Nat \ {0}
  PROVE  LET count == FragmentCount(size)
         IN /\ count \in Nat \ {0} /\ Begin(size, 0) = 1 /\ Begin(size, count) = size + 1
            /\ \A i \in 0 .. count : Begin(size, i) \in 1 .. size + 1
            /\ \A i \in 0 .. count - 1 : Begin(size, i + 1) - Begin(size, i) \in 1 .. FuRoom
<1> DEFINE c == FragmentCount(size)
           room == FuRoom
           q == size \div c
           r == size % c
           x == size + room - 1
           m == x % room
<1>1. room \in Nat /\ room > 1 /\ x \in Nat /\ x = size + room - 1
  BY H264Assumption DEF H264Assumption, FuRoom
<1>2. c = x \div room
  BY DEF FragmentCount
<1> HIDE DEF room, x
<1>3. c \in Int /\ m \in 0 .. room - 1 /\ x = room * c + m
  <2>1. /\ x \div room \in Int /\ x % room \in 0 .. room - 1
        /\ x = room * (x \div room) + (x % room)
    <3>1. x \in Int /\ room \in Nat \ {0}
      BY <1>1
    <3> QED  BY <3>1, DivMod
  <2> QED  BY <1>2, <2>1
<1> HIDE DEF c, m
<1>4. room * c >= size /\ room * (c - 1) < size /\ room * c \in Int
  <2>1. room * (c - 1) = room * c - room /\ room * c \in Int
    BY <1>1, <1>3
  <2> QED  BY <1>1, <1>3, <2>1
<1>5. c \in Nat \ {0}
  <2>1. c <= 0 => room * c <= room * 0
    BY <1>1, <1>3, Products
  <2>2. room * 0 = 0
    BY <1>1
  <2> QED  BY <1>3, <1>4, <2>1, <2>2
<1>6. c <= size
  <2>1. c - 1 \in Nat
    BY <1>5
  <2>2. (c - 1) * 1 <= (c - 1) * room
    BY <1>1, <2>1, Products
  <2>3. (c - 1) * room = room * (c - 1) /\ (c - 1) * 1 = c - 1
    BY <1>1, <2>1
  <2>4. room * (c - 1) \in Int
    BY <1>1, <2>1
  <2> QED  BY <1>4, <1>5, <2>2, <2>3, <2>4
<1>7. q \in Int /\ r \in 0 .. c - 1 /\ size = c * q + r /\ c * q \in Int
  BY <1>5, DivMod
<1> DEFINE Where(i) == 1 + i * q + (IF i < r THEN i ELSE r)
<1>8. /\ Begin(size, 0) = Where(0) /\ Begin(size, c) = Where(c)
      /\ \A i \in Int : Begin(size, i) = Where(i) /\ Begin(size, i + 1) = Where(i + 1)
  BY DEF Begin, c, q, r
<1> HIDE DEF q, r
<1>9. q >= 1
  <2>1. q <= 0 => c * q <= c * 0
    BY <1>5, <1>7, Products
  <2>2. c * 0 = 0
    BY <1>5
  <2> QED  BY <1>5, <1>6, <1>7, <2>1, <2>2
<1>10. q <= room /\ (r > 0 => q < room)
  <2>1. c * q <= c * room /\ (r > 0 => c * q < c * room)
    <3>1. c * room = room * c
      BY <1>1, <1>5
    <3> QED  BY <1>4, <1>7, <3>1
  <2> QED  BY <1>1, <1>5, <1>7, <2>1, Products
<1>11. Begin(size, 0) = 1
  <2>1. 0 * q = 0
    BY <1>7
  <2>2. Where(0) = 1
    BY <1>7, <2>1
  <2> QED  BY <1>8, <2>2
<1>12. Begin(size, c) = size + 1
  <2>1. Where(c) = size + 1
    BY <1>5, <1>7
  <2> QED  BY <1>8, <2>1
<1>13. ASSUME NEW i \in 0 .. c PROVE Begin(size, i) \in 1 .. size + 1
  <2>1. i * q \in Int /\ i * q >= 0 /\ i * q <= c * q
    <3>1. q * i >= q * 0 /\ q * i <= q * c /\ q * 0 = 0 /\ q * i = i * q /\ q * c = c * q
      BY <1>5, <1>7, <1>9, Products
    <3> QED  BY <1>7, <3>1
  <2>2. Where(i) \in 1 .. size + 1
    <3> DEFINE z == i * q
               v == c * q
    <3>1. z \in Int /\ z >= 0 /\ z <= v /\ v \in Int /\ size = v + r
      BY <1>7, <2>1
    <3> HIDE DEF z, v
    <3>2. 1 + z + (IF i < r THEN i ELSE r) \in 1 .. size + 1
      BY <1>5, <1>7, <3>1
    <3> QED  BY <3>2 DEF z
  <2> HIDE DEF Where
  <2>3. i \in Int
    BY <1>5
  <2>4. Begin(size, i) = Where(i)
    BY <1>8, <2>3
  <2> QED  BY <2>2, <2>4
<1>14. ASSUME NEW i \in 0 .. c - 1 PROVE Begin(size, i + 1) - Begin(size, i) \in 1 .. room
  <2>1. (i + 1) * q = i * q + q /\ i * q \in Int
    BY <1>5, <1>7
  <2>2. Begin(size, i + 1) - Begin(size, i) = q + (IF i < r THEN 1 ELSE 0)
    <3>1. Where(i + 1) - Where(i) = q + (IF i < r THEN 1 ELSE 0)
      <4> DEFINE z == i * q
      <4>1. Where(i + 1) = 1 + (z + q) + (IF i + 1 < r THEN i + 1 ELSE r)
        BY <2>1
      <4>2. Where(i) = 1 + z + (IF i < r THEN i ELSE r) /\ z \in Int
        BY <2>1
      <4> HIDE DEF Where, z
      <4> QED  BY <1>5, <1>7, <4>1, <4>2
    <3> HIDE DEF Where
    <3>2. i \in Int
      BY <1>5
    <3>3. Begin(size, i) = Where(i) /\ Begin(size, i + 1) = Where(i + 1)
      BY <1>8, <3>2
    <3> QED  BY <3>1, <3>3
  <2> QED  BY <1>1, <1>5, <1>7, <1>9, <1>10, <2>2
<1> QED  BY <1>5, <1>11, <1>12, <1>13, <1>14 DEF c, room

(* What one fragment is: small enough, not empty, and of the bytes from    *)
(* where it begins to where the next one does.                             *)
LEMMA FragmentsAre ==
  ASSUME NEW u \in Unit
  PROVE  LET size == Len(u) - 1
             count == FragmentCount(size)
             fs == Fragments(u)
         IN /\ fs \in Seq(Packet) /\ Len(fs) = count
            /\ \A i \in 1 .. count :
                 /\ fs[i].kind = "fragment" /\ fs[i].header = u[1] /\ (fs[i].first <=> i = 1)
                 /\ fs[i].data[1] = SubSeq(u, Begin(size, i - 1) + 1, Begin(size, i))
                 /\ Size(fs[i]) <= PacketMax /\ fs[i].data[1] # <<>>
<1> DEFINE size == Len(u) - 1
           count == FragmentCount(size)
           fs == Fragments(u)
           Data(i) == Bytes(u, Begin(size, i - 1), Begin(size, i) - Begin(size, i - 1))
           Fragment(i) == [kind |-> "fragment", header |-> u[1], first |-> i = 1, last |-> i = count, data |-> <<Data(i)>>]
<1>1. u \in Seq(Byte) /\ Len(u) \in Nat /\ size \in Nat \ {0} /\ Len(u) = size + 1 /\ u[1] \in Byte
  BY DEF Unit
<1>2. fs = [i \in 1 .. count |-> Fragment(i)]
  BY DEF Fragments, Begin
<1> HIDE DEF size, count, fs
<1>3. /\ count \in Nat \ {0}
      /\ \A i \in 0 .. count : Begin(size, i) \in 1 .. size + 1
      /\ \A i \in 0 .. count - 1 : Begin(size, i + 1) - Begin(size, i) \in 1 .. FuRoom
  BY <1>1, FragmentsFill DEF count
<1>4. ASSUME NEW i \in 1 .. count
      PROVE  /\ Data(i) \in Seq(Byte) /\ Len(Data(i)) \in 1 .. FuRoom
             /\ Data(i) = SubSeq(u, Begin(size, i - 1) + 1, Begin(size, i))
  <2> DEFINE x == Begin(size, i - 1)
             y == Begin(size, i)
  <2>1. i \in 0 .. count /\ i - 1 \in 0 .. count /\ i - 1 \in 0 .. count - 1 /\ i - 1 + 1 = i
    BY <1>3
  <2>2. x \in 1 .. size + 1 /\ y \in 1 .. size + 1 /\ y - x \in 1 .. FuRoom
    BY <1>3, <2>1
  <2> HIDE DEF x, y
  <2>3. x \in Nat /\ y - x \in Nat /\ x + (y - x) = y /\ y <= Len(u) /\ y \in Nat
    BY <1>1, <2>2, H264Assumption DEF H264Assumption, FuRoom
  <2>4. Bytes(u, x, y - x) = SubSeq(u, x + 1, y)
    BY <1>1, <2>3 DEF Bytes
  <2>5. Bytes(u, x, y - x) \in Seq(Byte) /\ Len(Bytes(u, x, y - x)) = y - x
    <3> DEFINE n == y - x
    <3>1. n \in Nat /\ x + n <= Len(u)
      BY <2>3
    <3> HIDE DEF n
    <3>2. Bytes(u, x, n) \in Seq(Byte) /\ Len(Bytes(u, x, n)) = n
      BY <1>1, <2>3, <3>1, BytesAre
    <3> QED  BY <3>2 DEF n
  <2> QED  BY <2>2, <2>4, <2>5 DEF x, y
<1>5. ASSUME NEW i \in 1 .. count
      PROVE  /\ Fragment(i) \in Packet /\ Fragment(i).kind = "fragment" /\ Fragment(i).header = u[1]
             /\ (Fragment(i).first <=> i = 1) /\ Fragment(i).data[1] = Data(i)
  <2> HIDE DEF Data
  <2>1. <<Data(i)>> \in Seq(Seq(Byte)) /\ <<Data(i)>> # <<>> /\ <<Data(i)>>[1] = Data(i)
    BY <1>4
  <2> QED  BY <1>1, <2>1 DEF Packet
<1>6. ASSUME NEW i \in 1 .. count PROVE Size(Fragment(i)) <= PacketMax /\ Data(i) # <<>>
  <2> HIDE DEF Data
  <2> DEFINE f == Fragment(i)
             n == Len(Data(i))
  <2>1. f.kind = "fragment" /\ f.data[1] = Data(i)
    BY <1>5
  <2> HIDE DEF f
  <2>2. Size(f) = 2 + n
    BY <2>1 DEF Size
  <2>3. n \in 1 .. FuRoom
    BY <1>4
  <2>4. Data(i) # <<>>
    BY <2>3
  <2> HIDE DEF n
  <2>5. 2 + n <= PacketMax
    BY <2>3, H264Assumption DEF H264Assumption, FuRoom
  <2> QED  BY <2>2, <2>4, <2>5 DEF f
<1> HIDE DEF Data, Fragment
<1>7. fs \in Seq(Packet) /\ Len(fs) = count /\ \A i \in 1 .. count : fs[i] = Fragment(i)
  <2>1. \A i \in 1 .. count : Fragment(i) \in Packet
    BY <1>5
  <2>2. count \in Nat
    BY <1>3
  <2>3. [i \in 1 .. count |-> Fragment(i)] \in Seq(Packet)
    BY <2>1, <2>2
  <2>4. fs \in Seq(Packet) /\ DOMAIN fs = 1 .. count /\ \A i \in 1 .. count : fs[i] = Fragment(i)
    BY <1>2, <2>3
  <2>5. Len(fs) = count
    BY <2>2, <2>4
  <2> QED  BY <2>4, <2>5
<1> QED  BY <1>4, <1>5, <1>6, <1>7 DEF size, count, fs

(* The receiver puts the fragments together again: after i of them it has  *)
(* the unit up to where the next one begins.                               *)
LEMMA FragmentsRestore ==
  ASSUME NEW packets \in Seq(Packet), NEW u \in Unit
  PROVE  Output(packets \o Fragments(u)) = Append(Output(packets), u)
<1> DEFINE size == Len(u) - 1
           n == FragmentCount(size)
           fs == Fragments(u)
           O == Output(packets)
           Mark(i) == Begin(size, i)
           Upto(i) == SubSeq(u, 1, Mark(i))
           Sent(i) == packets \o SubSeq(fs, 1, i)
           T == {i \in 0 .. n : i > 0 => Output(Sent(i)) = Append(O, Upto(i))}
<1>1. u \in Seq(Byte) /\ Len(u) \in Nat /\ size \in Nat \ {0} /\ Len(u) = size + 1 /\ u[1] \in Byte
  BY DEF Unit
<1>2. /\ fs \in Seq(Packet) /\ Len(fs) = n
      /\ \A i \in 1 .. n :
           /\ fs[i].kind = "fragment" /\ fs[i].header = u[1] /\ (fs[i].first <=> i = 1)
           /\ fs[i].data[1] = SubSeq(u, Mark(i - 1) + 1, Mark(i))
  BY FragmentsAre
<1>3. /\ n \in Nat \ {0} /\ Mark(0) = 1 /\ Mark(n) = Len(u)
      /\ \A i \in 0 .. n : Mark(i) \in 1 .. Len(u)
      /\ \A i \in 0 .. n - 1 : Mark(i) < Mark(i + 1)
  <2> HIDE DEF size
  <2>1. /\ n \in Nat \ {0} /\ Begin(size, 0) = 1 /\ Begin(size, n) = size + 1
        /\ \A i \in 0 .. n : Begin(size, i) \in 1 .. size + 1
        /\ \A i \in 0 .. n - 1 : Begin(size, i + 1) - Begin(size, i) \in 1 .. FuRoom
    BY <1>1, FragmentsFill
  <2> HIDE DEF n
  <2>2. \A i \in 0 .. n - 1 : i \in 0 .. n /\ i + 1 \in 0 .. n
    BY <2>1
  <2>3. ASSUME NEW i \in 0 .. n - 1 PROVE Mark(i) < Mark(i + 1)
    BY <1>1, <2>1, <2>2, H264Assumption DEF H264Assumption, FuRoom
  <2> QED  BY <1>1, <2>1, <2>3
<1>4. O \in Seq(Seq(Byte))
  <2>1. \E p : p \in Packet
    BY <1>2, <1>3
  <2> QED  BY <2>1, OutputAppends
<1> HIDE DEF size, n, fs, O, Mark
<1>5. Sent(n) = packets \o fs
  <2>1. SubSeq(fs, 1, n) = fs
    BY <1>2, <1>3
  <2> QED  BY <2>1
<1>6. ASSUME NEW i \in 0 .. n - 1
      PROVE  /\ Sent(i) \in Seq(Packet) /\ fs[i + 1] \in Packet
             /\ Sent(i + 1) = Append(Sent(i), fs[i + 1])
  <2> DEFINE s == SubSeq(fs, 1, i)
             t == SubSeq(fs, 1, i + 1)
  <2>1. s \in Seq(Packet) /\ t = Append(s, fs[i + 1]) /\ fs[i + 1] \in Packet
    <3>1. i \in 0 .. Len(fs) - 1
      BY <1>2
    <3> QED  BY <1>2, <3>1, OneLonger
  <2> HIDE DEF s, t
  <2>2. packets \o Append(s, fs[i + 1]) = Append(packets \o s, fs[i + 1])
    BY <2>1
  <2> QED  BY <2>1, <2>2 DEF s, t
<1>7. Sent(0) = packets
  <2>1. SubSeq(fs, 1, 0) = <<>>
    BY <1>2
  <2>2. packets \o <<>> = packets
    OBVIOUS
  <2> QED  BY <2>1, <2>2
<1> HIDE DEF Sent
<1>8. \A i \in 0 .. n : Upto(i) \in Seq(Byte)
  BY <1>1, <1>3
<1>9. 0 \in T
  BY <1>3
<1>10. ASSUME NEW i \in 0 .. n - 1, i \in T PROVE i + 1 \in T
  <2> DEFINE f == fs[i + 1]
  <2>1. i + 1 \in 1 .. n /\ i \in 0 .. n /\ i + 1 \in 0 .. n /\ i + 1 - 1 = i
    BY <1>3
  <2>2. /\ f.kind = "fragment" /\ f.header = u[1] /\ (f.first <=> i + 1 = 1)
        /\ f.data[1] = SubSeq(u, Mark(i) + 1, Mark(i + 1)) /\ f \in Packet
    BY <1>2, <1>6, <2>1
  <2> HIDE DEF f
  <2>3. Output(Sent(i + 1)) = Depayload(Output(Sent(i)), f)
    BY <1>6, <2>2, OutputAppends DEF f
  <2>4. CASE i = 0
    <3>1. f.first /\ Mark(i) = 1
      BY <1>3, <2>2, <2>4
    <3>2. Depayload(O, f) = Append(O, <<u[1]>> \o SubSeq(u, 2, Mark(1)))
      <4>1. f.data[1] = SubSeq(u, 2, Mark(1))
        <5>1. Mark(i) + 1 = 2 /\ i + 1 = 1
          BY <2>4, <3>1
        <5> QED  BY <2>2, <5>1
      <4>2. Depayload(O, f) = Append(O, <<f.header>> \o f.data[1])
        BY <2>2, <3>1 DEF Depayload
      <4> QED  BY <2>2, <4>1, <4>2
    <3>3. <<u[1]>> \o SubSeq(u, 2, Mark(1)) = SubSeq(u, 1, Mark(1))
      <4>1. 1 \in 0 .. Len(u) /\ Mark(1) \in 1 .. Len(u)
        BY <1>1, <1>3, <2>1, <2>4
      <4>2. SubSeq(u, 1, 1) \o SubSeq(u, 1 + 1, Mark(1)) = SubSeq(u, 1, Mark(1))
        BY <1>1, <4>1, Pieces
      <4>3. SubSeq(u, 1, 1) = <<u[1]>>
        <5>1. /\ SubSeq(u, 1, 1) \in Seq(Byte) /\ Len(SubSeq(u, 1, 1)) = 1
              /\ SubSeq(u, 1, 1)[1] = u[1]
          BY <1>1, <4>1
        <5> DEFINE t == SubSeq(u, 1, 1)
        <5> HIDE DEF t
        <5>2. t \in Seq(Byte) /\ Len(t) = 1 /\ t[1] = u[1]
          BY <5>1 DEF t
        <5>3. t = <<u[1]>>
          BY <5>2
        <5> QED  BY <5>3 DEF t
      <4> DEFINE v == SubSeq(u, 1, 1)
      <4> HIDE DEF v
      <4>4. v \o SubSeq(u, 2, Mark(1)) = SubSeq(u, 1, Mark(1))
        <5>1. 1 + 1 = 2
          OBVIOUS
        <5> QED  BY <4>2, <5>1 DEF v
      <4>5. v = <<u[1]>>
        BY <4>3 DEF v
      <4> QED  BY <4>4, <4>5
    <3>4. i + 1 = 1
      BY <2>4
    <3>5. Output(Sent(0)) = O
      BY <1>7 DEF O
    <3>6. Output(Sent(i + 1)) = Append(O, <<u[1]>> \o SubSeq(u, 2, Mark(1)))
      BY <2>3, <2>4, <3>2, <3>5
    <3>7. Output(Sent(i + 1)) = Append(O, Upto(i + 1))
      BY <3>3, <3>4, <3>6
    <3> HIDE DEF Upto
    <3> QED  BY <2>1, <3>7
  <2>5. CASE i # 0
    <3> DEFINE a == Upto(i)
               d == SubSeq(u, Mark(i) + 1, Mark(i + 1))
               x == Append(O, a)
    <3>1. Output(Sent(i)) = x /\ ~f.first
      <4> HIDE DEF Upto
      <4>1. i > 0 /\ i + 1 # 1
        BY <1>3, <2>5
      <4> QED  BY <1>10, <2>2, <4>1
    <3>2. Depayload(x, f) = [x EXCEPT ![Len(x)] = @ \o d]
      BY <2>2, <3>1 DEF Depayload
    <3>3. a \in Seq(Byte)
      BY <1>8, <2>1
    <3>4. a \o d = Upto(i + 1)
      <4>1. Mark(i) \in 1 .. Len(u) /\ Mark(i + 1) \in 1 .. Len(u) /\ Mark(i) < Mark(i + 1)
        BY <1>3, <2>1
      <4>2. Mark(i) \in 0 .. Len(u) /\ Mark(i + 1) \in Mark(i) .. Len(u)
        BY <1>1, <4>1
      <4> QED  BY <1>1, <4>2, Pieces
    <3>6. d \in Seq(Byte)
      <4>1. \A j \in Mark(i) + 1 .. Mark(i + 1) : u[j] \in Byte
        BY <1>1, <1>3, <2>1
      <4> QED  BY <1>1, <1>3, <2>1, <4>1
    <3> HIDE DEF a, d
    <3>5. [x EXCEPT ![Len(x)] = @ \o d] = Append(O, a \o d)
      BY <1>4, <3>3, <3>6, LastGrows
    <3> HIDE DEF Upto, x
    <3> QED  BY <2>1, <2>3, <3>1, <3>2, <3>4, <3>5
  <2> QED  BY <2>4, <2>5
<1>11. n \in T
  <2> HIDE DEF T
  <2>1. n \in 0 .. n
    BY <1>3
  <2> QED  BY <1>3, <1>9, <1>10, <2>1, Interval
<1>12. Upto(n) = u
  BY <1>1, <1>3
<1> HIDE DEF Upto
<1>13. Output(Sent(n)) = Append(O, Upto(n))
  BY <1>3, <1>11
<1> QED  BY <1>5, <1>12, <1>13 DEF fs, O

LEMMA DownClosed ==
  ASSUME NEW n \in Nat, NEW A \in SUBSET (1 .. n), \A x \in A : \A y \in 1 .. x : y \in A
  PROVE  Cardinality(A) \in 0 .. n /\ A = 1 .. Cardinality(A)
<1>1. CASE A = {}
  <2>1. Cardinality({}) = 0 /\ 1 .. 0 = {}
    BY FS_EmptySet
  <2> QED  BY <1>1, <2>1
<1>2. CASE A # {}
  <2>1. Max(A) \in A /\ \A y \in A : y <= Max(A)
    BY <1>2, MaxIn
  <2>2. A = 1 .. Max(A) /\ Max(A) \in 1 .. n
    <3>1. \A y \in A : y \in 1 .. Max(A)
      BY <2>1
    <3> QED  BY <2>1, <3>1
  <2>3. Cardinality(1 .. Max(A)) = Max(A)
    <3>1. 1 \in Int /\ Max(A) \in Int
      BY <2>2
    <3>2. Cardinality(1 .. Max(A)) = IF 1 > Max(A) THEN 0 ELSE Max(A) - 1 + 1
      BY <3>1, FS_Interval
    <3> QED  BY <2>2, <3>2
  <2> QED  BY <2>2, <2>3
<1> QED  BY <1>1, <1>2

(* What one payload is that is not a fragment: small enough, and of the    *)
(* first units.                                                            *)
LEMMA TogetherIs ==
  ASSUME NEW units \in Seq(Unit), units # <<>>, Len(units[1]) <= PacketMax
  PROVE  LET t == Together(units)
             n == Count(units)
         IN /\ n \in 1 .. Len(units) /\ t \in Packet /\ t.kind # "fragment"
            /\ t.data = SubSeq(units, 1, n) /\ t.data[1] # <<>>
            /\ Size(t) <= PacketMax
<1> DEFINE x == Len(units)
           t == Together(units)
           n == Count(units)
           A == Aggregated(units)
           Part(i) == SubSeq(units, 1, i)
<1>1. /\ x \in Nat /\ x > 0 /\ DOMAIN units = 1 .. x
      /\ \A i \in 1 .. x : units[i] \in Unit /\ units[i] \in Seq(Byte) /\ Len(units[i]) \in Nat /\ Len(units[i]) > 1
  <2>1. x \in Nat /\ x > 0 /\ DOMAIN units = 1 .. x /\ \A i \in 1 .. x : units[i] \in Unit
    OBVIOUS
  <2>2. ASSUME NEW u \in Unit PROVE u \in Seq(Byte) /\ Len(u) \in Nat /\ Len(u) > 1
    BY DEF Unit
  <2> QED  BY <2>1, <2>2
<1>2. units \in Seq(Seq(Byte)) /\ \A i \in 0 .. x : Part(i) \in Seq(Seq(Byte))
  BY <1>1
<1>3. A \in SUBSET (1 .. x) /\ \A y \in A : \A z \in 1 .. y : z \in A
  BY <1>1, H264Assumption DEF Aggregated, H264Assumption
<1>4. Cardinality(A) \in 0 .. x /\ A = 1 .. Cardinality(A)
  <2> HIDE DEF A, x
  <2> QED  BY <1>1, <1>3, DownClosed
<1>5. n = IF A = {} THEN 1 ELSE Cardinality(A)
  BY DEF Count
<1> HIDE DEF A, n
<1>6. n \in 1 .. x /\ (n > 1 => n \in A)
  BY <1>1, <1>4, <1>5
<1>7. t = [kind |-> IF n = 1 THEN "single" ELSE "aggregate", header |-> 0,
           first |-> TRUE, last |-> TRUE, data |-> Part(n)]
  BY DEF Together, n
<1>8. Part(n) \in Seq(Seq(Byte)) /\ Len(Part(n)) = n /\ Part(n)[1] = units[1]
  BY <1>1, <1>2, <1>6
<1> HIDE DEF Part, t, x
<1>9. t \in Packet /\ t.kind # "fragment" /\ t.data = Part(n)
  <2>1. Part(n) # <<>>
    BY <1>6, <1>8
  <2>2. 0 \in Byte
    BY DEF Byte
  <2> QED  BY <1>7, <1>8, <2>1, <2>2 DEF Packet
<1>10. t.data[1] # <<>> /\ t.data[1] = units[1]
  <2>1. 1 \in 1 .. x
    BY <1>1
  <2>2. Len(units[1]) > 1
    BY <1>1, <2>1
  <2> DEFINE u == units[1]
  <2> HIDE DEF u
  <2>3. u # <<>>
    BY <2>2 DEF u
  <2> QED  BY <1>8, <1>9, <2>3 DEF u
<1>11. Size(t) <= PacketMax
  <2>1. CASE n = 1
    <3>1. Size(t) = Len(t.data[1])
      BY <1>7, <2>1 DEF Size
    <3> QED  BY <1>10, <3>1
  <2>2. CASE n # 1
    <3>1. t.kind = "aggregate"
      BY <1>7, <2>2
    <3>2. Size(t) = 1 + Sizes(Part(n))
      BY <1>9, <3>1 DEF Size
    <3>3. n > 1 /\ n \in 1 .. x /\ n - 1 \in 0 .. x - 1 /\ n - 1 + 1 = n
      BY <1>1, <1>6, <2>2
    <3>4. Len(units[n]) <= StapRoom - Sizes(Part(n - 1))
      BY <1>6, <3>3 DEF A, Aggregated, Part
    <3>5. /\ Part(n - 1) \in Seq(Seq(Byte)) /\ units[n] \in Seq(Byte)
          /\ Part(n) = Append(Part(n - 1), units[n])
      <4>1. n - 1 \in 0 .. Len(units) - 1
        BY <3>3 DEF x
      <4> DEFINE S == Seq(Byte)
                 m == n - 1
      <4>2. units \in Seq(S) /\ m \in 0 .. Len(units) - 1
        BY <1>2, <4>1
      <4> HIDE DEF S, m
      <4>3. /\ SubSeq(units, 1, m) \in Seq(S) /\ units[m + 1] \in S
            /\ SubSeq(units, 1, m + 1) = Append(SubSeq(units, 1, m), units[m + 1])
        BY <4>2, OneLonger
      <4>4. m + 1 = n
        BY <3>3 DEF m
      <4> QED  BY <4>3, <4>4 DEF Part, S, m
    <3>6. Sizes(Part(n - 1)) \in Nat /\ Sizes(Append(Part(n - 1), units[n])) = Sizes(Part(n - 1)) + 2 + Len(units[n])
      BY <3>5, SizesAppends
    <3>7. Len(units[n]) \in Nat
      BY <1>1, <3>3
    <3>8. Sizes(Part(n)) <= StapRoom + 2
      <4> DEFINE a == Sizes(Part(n - 1))
                 v == Len(units[n])
                 w == Sizes(Part(n))
      <4>1. a \in Nat /\ v \in Nat /\ w = a + 2 + v /\ v <= StapRoom - a /\ StapRoom \in Int
        BY <3>4, <3>5, <3>6, <3>7, H264Assumption DEF StapRoom, H264Assumption
      <4> HIDE DEF a, v, w
      <4>2. w <= StapRoom + 2
        BY <4>1
      <4> QED  BY <4>2 DEF w
    <3>9. Sizes(Part(n)) \in Nat
      BY <3>5, <3>6, <3>7
    <3> QED  BY <3>2, <3>8, <3>9, H264Assumption DEF StapRoom, H264Assumption
  <2> QED  BY <2>1, <2>2
<1> QED  BY <1>6, <1>9, <1>10, <1>11 DEF t, n, x, Part

LEMMA TogetherRestores ==
  ASSUME NEW packets \in Seq(Packet), NEW units \in Seq(Unit), units # <<>>,
         Len(units[1]) <= PacketMax
  PROVE  Output(Append(packets, Together(units))) = Output(packets) \o SubSeq(units, 1, Count(units))
<1> DEFINE t == Together(units)
<1>1. t \in Packet /\ t.kind # "fragment" /\ t.data = SubSeq(units, 1, Count(units))
  BY TogetherIs
<1> HIDE DEF t
<1>2. Output(Append(packets, t)) = Depayload(Output(packets), t)
  BY <1>1, OutputAppends
<1>3. Depayload(Output(packets), t) = Output(packets) \o t.data
  BY <1>1 DEF Depayload
<1> QED  BY <1>1, <1>2, <1>3 DEF t

-----------------------------------------------------------------------------
(* The H.264 packets: the invariant.                                       *)
Stages == {"split", "packetize", "sent"}

CodingTypeOK ==
  coding \in [source : Seq(Unit), stage : Stages, at : Nat, units : Seq(Unit), packets : Seq(Packet), buffer : Seq(Byte)]

(* The splitting is at the end of a unit, and has yielded those before.    *)
SplitsAtUnits ==
  \E code \in Codes : \E l :
    /\ Laid(coding.buffer, coding.source, code, l)
    /\ coding.stage = "split" =>
         \E k \in 0 .. Len(coding.source) : coding.at = l[k] /\ coding.units = Shown(SubSeq(coding.source, 1, k))

(* The payloads restore the units that are packed so far.                  *)
PacksWhole ==
  /\ coding.stage = "split" => coding.packets = <<>>
  /\ coding.stage # "split" =>
       coding.at \in 0 .. Len(coding.units) /\ Output(coding.packets) = SubSeq(coding.units, 1, coding.at)
  /\ coding.stage = "sent" => coding.at = Len(coding.units)
  /\ \A i \in 1 .. Len(coding.packets) :
       Size(coding.packets[i]) <= PacketMax /\ coding.packets[i].data[1] # <<>>

CodingInv == CodingTypeOK /\ SplitsAtUnits /\ FindsEveryUnit /\ PacksWhole

LEMMA SomePacket == \E p : p \in Packet
<1> DEFINE d == <<<<>>>>
           p == [kind |-> "single", header |-> 0, first |-> TRUE, last |-> TRUE, data |-> d]
<1>1. d \in Seq(Seq(Byte)) /\ d # <<>> /\ 0 \in Byte
  BY DEF Byte
<1> HIDE DEF d
<1>2. p \in Packet
  BY <1>1 DEF Packet
<1> QED  BY <1>2

LEMMA SomeUnit == \E u : u \in Unit
<1> DEFINE u == <<1, 1>>
<1>1. u \in Seq(Byte)
  BY DEF Byte
<1>2. u \in Unit
  BY <1>1 DEF Unit
<1> QED  BY <1>2

LEMMA NothingYet ==
  /\ Output(<<>>) = <<>> /\ Shown(<<>>) = <<>>
  /\ \A s \in Seq(Unit) : Shown(s) \in Seq(Unit)
<1>1. <<>> \in Seq(Packet) /\ <<>> \in Seq(Unit)
  OBVIOUS
<1>2. Output(<<>>) = <<>>
  BY <1>1, SomePacket, OutputAppends
<1>3. Shown(<<>>) = <<>> /\ \A s \in Seq(Unit) : Shown(s) \in Seq(Unit)
  BY <1>1, SomeUnit, ShownAppends
<1> QED  BY <1>2, <1>3

LEMMA CodingInitInv ==
  ASSUME H264Init
  PROVE  CodingInv
<1>1. PICK source \in Sources, code \in Codes :
        coding = [source |-> source, stage |-> "split", at |-> 0, units |-> <<>>, packets |-> <<>>,
                  buffer |-> Buffer(code, source)]
  BY DEF H264Init, Codes
<1>2. source \in Seq(Unit) /\ code \in Seq(Byte)
  BY CodesAre, H264Assumption DEF H264Assumption
<1>3. PICK l : Laid(Buffer(code, source), source, code, l)
  BY <1>2, BufferLaid
<1> DEFINE b == Buffer(code, source)
<1>4. b \in Seq(Byte) /\ l[0] = 0
  BY <1>3 DEF Laid
<1> HIDE DEF b
<1> DEFINE e == <<>>
<1>5. e \in Seq(Unit) /\ e \in Seq(Packet) /\ Len(e) = 0
  OBVIOUS
<1>6. SubSeq(source, 1, 0) = e /\ Shown(e) = e
  BY <1>2, NothingYet
<1>7. coding = [source |-> source, stage |-> "split", at |-> 0, units |-> e, packets |-> e, buffer |-> b]
  BY <1>1 DEF b
<1> HIDE DEF e
<1>8. /\ coding.source = source /\ coding.stage = "split" /\ coding.at = 0 /\ coding.units = e
      /\ coding.packets = e /\ coding.buffer = b
  BY <1>7
<1>9. CodingTypeOK
  BY <1>2, <1>4, <1>5, <1>7 DEF CodingTypeOK, Stages
<1>10. SplitsAtUnits
  <2>1. 0 \in 0 .. Len(source)
    BY <1>2
  <2>2. Laid(b, source, code, l)
    BY <1>3 DEF b
  <2> QED  BY <1>4, <1>6, <1>8, <2>1, <2>2 DEF SplitsAtUnits
<1>11. FindsEveryUnit
  BY <1>8 DEF FindsEveryUnit
<1>12. PacksWhole
  BY <1>5, <1>8 DEF PacksWhole, e
<1> QED  BY <1>9, <1>10, <1>11, <1>12 DEF CodingInv

(* A turn of _split_bitstream's loop takes the next unit.                  *)
LEMMA SplitKeepsInv ==
  ASSUME CodingInv, SplitNext
  PROVE  CodingInv'
<1> DEFINE b == coding.buffer
           source == coding.source
           n == Len(source)
<1>1. PICK code \in Codes : \E l :
        /\ Laid(b, source, code, l)
        /\ \E k \in 0 .. n : coding.at = l[k] /\ coding.units = Shown(SubSeq(source, 1, k))
  BY DEF CodingInv, SplitsAtUnits, SplitNext
<1>2. PICK l : /\ Laid(b, source, code, l)
               /\ \E k \in 0 .. n : coding.at = l[k] /\ coding.units = Shown(SubSeq(source, 1, k))
  BY <1>1
<1>3. PICK k \in 0 .. n : coding.at = l[k] /\ coding.units = Shown(SubSeq(source, 1, k))
  BY <1>2
<1>4. /\ source \in Seq(Unit) /\ b \in Seq(Byte) /\ coding.stage = "split" /\ coding.packets = <<>>
      /\ coding.units \in Seq(Unit) /\ coding.packets \in Seq(Packet) /\ n \in Nat
  BY DEF CodingInv, CodingTypeOK, PacksWhole, SplitNext
<1>5. l[n] = Len(b)
  BY <1>2 DEF Laid
<1>6. CASE k = n
  <2>1. SubSeq(source, 1, n) = source
    BY <1>4
  <2>2. coding.at = Len(b) /\ coding.units = Shown(source)
    BY <1>3, <1>5, <1>6, <2>1
  <2>3. coding' = [coding EXCEPT !.stage = "packetize", !.at = 0]
    BY <2>2 DEF SplitNext
  <2>4. /\ coding'.source = source /\ coding'.buffer = b /\ coding'.units = coding.units
        /\ coding'.packets = coding.packets /\ coding'.stage = "packetize" /\ coding'.at = 0
        /\ CodingTypeOK'
    BY <2>3 DEF CodingInv, CodingTypeOK, Stages
  <2>5. SplitsAtUnits'
    BY <1>2, <2>4 DEF SplitsAtUnits
  <2>6. FindsEveryUnit'
    BY <2>2, <2>4 DEF FindsEveryUnit
  <2>7. PacksWhole'
    <3>1. SubSeq(coding.units, 1, 0) = <<>> /\ 0 \in 0 .. Len(coding.units)
      BY <1>4
    <3>2. Output(coding.packets) = <<>>
      BY <1>4, NothingYet
    <3>3. \A i \in 1 .. Len(coding.packets) :
            Size(coding.packets[i]) <= PacketMax /\ coding.packets[i].data[1] # <<>>
      BY DEF CodingInv, PacksWhole
    <3> QED  BY <2>4, <3>1, <3>2, <3>3 DEF PacksWhole
  <2> QED  BY <2>4, <2>5, <2>6, <2>7 DEF CodingInv
<1>7. CASE k # n
  <2>0. k \in 0 .. n - 1 /\ k + 1 \in 0 .. n
    BY <1>4, <1>7
  <2> DEFINE u == source[k + 1]
             i == l[k]
             e == l[k + 1]
             s == i + Len(code)
  <2>1. u \in Unit /\ Lies(b, code, u, i, e) /\ i \in 0 .. Len(b) - 1 /\ e \in 0 .. Len(b)
    BY <1>2, <1>4, <2>0, UnitsLie
  <2>2. UnitEnd(b, s) = e
    <3>1. EndsAt(b, s, e)
      BY <1>2, <1>4, <2>0, EndFound
    <3> QED  BY <3>1 DEF EndsAt
  <2> HIDE DEF i, e, u
  <2>3. Starts(b, i) # {} /\ Least(Starts(b, i)) = i /\ UnitStart(b, i) = s
    BY <1>4, <2>1, StartFound
  <2>4. Bytes(b, s, e - s) = u
    BY <1>4, <2>1, UnitFound
  <2>5. coding.at = i /\ i # Len(b)
    BY <1>3, <1>4, <2>1 DEF i
  <2> HIDE DEF s
  <2>6. coding' = [coding EXCEPT !.at = e, !.units = IF IsSei(u) THEN @ ELSE Append(@, u)]
    BY <2>2, <2>3, <2>4, <2>5 DEF SplitNext
  <2> DEFINE v == IF IsSei(u) THEN coding.units ELSE Append(coding.units, u)
  <2>7. v \in Seq(Unit) /\ e \in Nat
    BY <1>4, <2>1
  <2>8. coding' = [coding EXCEPT !.at = e, !.units = v]
    BY <2>6
  <2> HIDE DEF v
  <2>9. /\ coding'.source = source /\ coding'.buffer = b /\ coding'.units = v
        /\ coding'.packets = coding.packets /\ coding'.stage = "split" /\ coding'.at = e
        /\ CodingTypeOK'
    BY <1>4, <2>7, <2>8 DEF CodingInv, CodingTypeOK, Stages
  <2>10. v = Shown(SubSeq(source, 1, k + 1))
    <3> DEFINE t == SubSeq(source, 1, k)
    <3>1. t \in Seq(Unit) /\ SubSeq(source, 1, k + 1) = Append(t, u)
      BY <1>4, <2>0, OneLonger DEF u
    <3> HIDE DEF t
    <3>2. Shown(Append(t, u)) = IF IsSei(u) THEN Shown(t) ELSE Append(Shown(t), u)
      BY <2>1, <3>1, ShownAppends
    <3>3. coding.units = Shown(t)
      BY <1>3 DEF t
    <3> QED  BY <3>1, <3>2, <3>3 DEF v
  <2>11. SplitsAtUnits'
    BY <1>2, <2>0, <2>9, <2>10 DEF SplitsAtUnits, e
  <2>12. FindsEveryUnit'
    BY <2>9 DEF FindsEveryUnit
  <2>13. PacksWhole'
    BY <1>4, <2>9 DEF PacksWhole, CodingInv
  <2> QED  BY <2>9, <2>11, <2>12, <2>13 DEF CodingInv
<1> QED  BY <1>6, <1>7

(* A turn of _packetize's loop packs the next units, or one in fragments.  *)
LEMMA PacketizeKeepsInv ==
  ASSUME CodingInv, PacketizeNext
  PROVE  CodingInv'
<1> DEFINE U == coding.units
           x == Len(U)
           a == coding.at
           P == coding.packets
           rest == SubSeq(U, a + 1, x)
           Small(s) == \A i \in 1 .. Len(s) : Size(s[i]) <= PacketMax /\ s[i].data[1] # <<>>
<1>1. /\ U \in Seq(Unit) /\ P \in Seq(Packet) /\ x \in Nat /\ a \in 0 .. x /\ coding.stage = "packetize"
      /\ Output(P) = SubSeq(U, 1, a) /\ Small(P)
  BY DEF CodingInv, CodingTypeOK, PacksWhole, PacketizeNext
<1>2. /\ rest \in Seq(Unit) /\ Len(rest) = x - a /\ \A i \in 1 .. x - a : rest[i] = U[a + i]
  <2>1. a \in 0 .. Len(U) /\ Len(U) \in a .. Len(U)
    BY <1>1
  <2> QED  BY <1>1, <2>1, Middle
<1>3. coding' = IF rest = <<>> THEN [coding EXCEPT !.stage = "sent"]
                ELSE IF Len(rest[1]) > PacketMax
                THEN [coding EXCEPT !.at = @ + 1, !.packets = @ \o Fragments(rest[1])]
                ELSE [coding EXCEPT !.at = @ + Count(rest), !.packets = Append(@, Together(rest))]
  BY DEF PacketizeNext
<1> HIDE DEF rest
<1>4. CASE rest = <<>>
  <2>1. a = x
    BY <1>1, <1>2, <1>4
  <2>2. coding' = [coding EXCEPT !.stage = "sent"]
    BY <1>3, <1>4
  <2>3. /\ coding'.source = coding.source /\ coding'.buffer = coding.buffer /\ coding'.units = U
        /\ coding'.packets = P /\ coding'.stage = "sent" /\ coding'.at = a /\ CodingTypeOK'
    BY <2>2 DEF CodingInv, CodingTypeOK, Stages
  <2>4. SplitsAtUnits' /\ FindsEveryUnit'
    BY <1>1, <2>3 DEF CodingInv, SplitsAtUnits, FindsEveryUnit
  <2>5. PacksWhole'
    BY <1>1, <2>1, <2>3 DEF PacksWhole
  <2> QED  BY <2>3, <2>4, <2>5 DEF CodingInv
<1>5. ASSUME NEW m \in 1 .. x - a, NEW Q \in Seq(Packet),
             coding' = [coding EXCEPT !.at = @ + m, !.packets = Q],
             Output(Q) = Output(P) \o SubSeq(rest, 1, m), Small(Q)
      PROVE  CodingInv'
  <2>1. a + m \in 0 .. x /\ a + m \in Nat
    BY <1>1
  <2>2. /\ coding'.source = coding.source /\ coding'.buffer = coding.buffer /\ coding'.units = U
        /\ coding'.packets = Q /\ coding'.stage = "packetize" /\ coding'.at = a + m /\ CodingTypeOK'
    BY <1>1, <1>5, <2>1 DEF CodingInv, CodingTypeOK, Stages
  <2>3. SplitsAtUnits' /\ FindsEveryUnit'
    BY <1>1, <2>2 DEF CodingInv, SplitsAtUnits, FindsEveryUnit
  <2>4. SubSeq(rest, 1, m) = SubSeq(U, a + 1, a + m)
    <3> DEFINE s == SubSeq(rest, 1, m)
               t == SubSeq(U, a + 1, a + m)
    <3>1. s \in Seq(Unit) /\ Len(s) = m /\ \A i \in 1 .. m : s[i] = U[a + i]
      BY <1>1, <1>2
    <3>2. t \in Seq(Unit) /\ Len(t) = m /\ \A i \in 1 .. m : t[i] = U[a + i]
      <4> DEFINE z == a + m
      <4>1. a \in 0 .. Len(U) /\ z \in a .. Len(U) /\ z - a = m
        BY <1>1
      <4> HIDE DEF z
      <4>2. /\ SubSeq(U, a + 1, z) \in Seq(Unit) /\ Len(SubSeq(U, a + 1, z)) = z - a
            /\ \A i \in 1 .. z - a : SubSeq(U, a + 1, z)[i] = U[a + i]
        BY <1>1, <4>1, Middle
      <4> QED  BY <4>1, <4>2 DEF z
    <3> HIDE DEF s, t
    <3>3. s = [i \in 1 .. m |-> s[i]] /\ t = [i \in 1 .. m |-> t[i]]
      BY <3>1, <3>2
    <3>4. \A i \in 1 .. m : s[i] = t[i]
      BY <3>1, <3>2
    <3>5. s = t
      BY <3>3, <3>4
    <3> QED  BY <3>5 DEF s, t
  <2>5. SubSeq(U, 1, a) \o SubSeq(U, a + 1, a + m) = SubSeq(U, 1, a + m)
    <3> DEFINE z == a + m
    <3>1. a \in 0 .. Len(U) /\ z \in a .. Len(U)
      BY <1>1
    <3> HIDE DEF z
    <3> QED  BY <1>1, <3>1, Pieces DEF z
  <2>6. Output(Q) = SubSeq(U, 1, a + m)
    BY <1>1, <1>5, <2>4, <2>5
  <2>7. PacksWhole'
    BY <1>5, <2>1, <2>2, <2>6 DEF PacksWhole
  <2> QED  BY <2>2, <2>3, <2>7 DEF CodingInv
<1>6. CASE rest # <<>> /\ Len(rest[1]) > PacketMax
  <2> DEFINE u == rest[1]
             fs == Fragments(u)
             Q == P \o fs
  <2>1. 1 \in 1 .. x - a /\ u \in Unit /\ SubSeq(rest, 1, 1) = <<u>>
    <3>1. Len(rest) > 0
      BY <1>2, <1>6
    <3>2. 1 \in 1 .. x - a
      BY <1>1, <1>2, <3>1
    <3>3. u \in Unit
      BY <1>2, <3>1
    <3>4. SubSeq(rest, 1, 1) \in Seq(Unit) /\ Len(SubSeq(rest, 1, 1)) = 1 /\ SubSeq(rest, 1, 1)[1] = u
      BY <1>2, <3>1
    <3> DEFINE t == SubSeq(rest, 1, 1)
    <3> HIDE DEF t, u
    <3>5. t \in Seq(Unit) /\ Len(t) = 1 /\ t[1] = u
      BY <3>4 DEF t
    <3>6. t = <<u>>
      BY <3>5
    <3> QED  BY <3>2, <3>3, <3>6 DEF t
  <2>2. coding' = [coding EXCEPT !.at = @ + 1, !.packets = Q]
    BY <1>3, <1>6
  <2> HIDE DEF u
  <2>3. /\ fs \in Seq(Packet)
        /\ \A i \in 1 .. Len(fs) : Size(fs[i]) <= PacketMax /\ fs[i].data[1] # <<>>
    BY <2>1, FragmentsAre
  <2>4. Output(Q) = Append(Output(P), u)
    BY <1>1, <2>1, FragmentsRestore
  <2> HIDE DEF fs
  <2>5. /\ Q \in Seq(Packet) /\ Len(Q) = Len(P) + Len(fs)
        /\ \A i \in 1 .. Len(P) : Q[i] = P[i]
        /\ \A i \in 1 .. Len(fs) : Q[Len(P) + i] = fs[i]
    BY <1>1, <2>3, ConcatIs
  <2> HIDE DEF Q
  <2>6. Small(Q)
    <3> SUFFICES ASSUME NEW i \in 1 .. Len(Q) PROVE Size(Q[i]) <= PacketMax /\ Q[i].data[1] # <<>>
      OBVIOUS
    <3>1. Len(P) \in Nat /\ Len(fs) \in Nat
      BY <1>1, <2>3
    <3>2. CASE i <= Len(P)
      <4>1. i \in 1 .. Len(P)
        BY <3>1, <3>2
      <4> QED  BY <1>1, <2>5, <4>1
    <3>3. CASE i > Len(P)
      <4> DEFINE j == i - Len(P)
      <4>1. j \in 1 .. Len(fs) /\ Len(P) + j = i
        BY <2>5, <3>1, <3>3
      <4> HIDE DEF j
      <4> QED  BY <2>3, <2>5, <4>1
    <3> QED  BY <2>5, <3>1, <3>2, <3>3
  <2>7. Output(Q) = Output(P) \o SubSeq(rest, 1, 1)
    <3>1. Output(P) \in Seq(Unit)
      BY <1>1
    <3>2. Append(Output(P), u) = Output(P) \o <<u>>
      BY <2>1, <3>1
    <3> QED  BY <2>1, <2>4, <3>2
  <2> QED  BY <1>5, <2>1, <2>2, <2>5, <2>6, <2>7
<1>7. CASE rest # <<>> /\ ~(Len(rest[1]) > PacketMax)
  <2> DEFINE t == Together(rest)
             m == Count(rest)
             Q == Append(P, t)
  <2>1. Len(rest[1]) <= PacketMax
    <3>1. Len(rest) > 0
      BY <1>2, <1>7
    <3>2. rest[1] \in Unit
      BY <1>2, <3>1
    <3> DEFINE n == Len(rest[1])
    <3>3. n \in Nat
      BY <3>2 DEF Unit
    <3> HIDE DEF n
    <3>4. PacketMax \in Nat /\ ~(n > PacketMax)
      BY <1>7, H264Assumption DEF H264Assumption, n
    <3>5. n <= PacketMax
      BY <3>3, <3>4
    <3> QED  BY <3>5 DEF n
  <2>2. coding' = [coding EXCEPT !.at = @ + m, !.packets = Q]
    BY <1>3, <1>7
  <2>3. m \in 1 .. Len(rest) /\ t \in Packet /\ t.data[1] # <<>> /\ Size(t) <= PacketMax
    BY <1>2, <1>7, <2>1, TogetherIs
  <2>4. Output(Q) = Output(P) \o SubSeq(rest, 1, m)
    BY <1>1, <1>2, <1>7, <2>1, TogetherRestores
  <2> HIDE DEF t, m
  <2>5. Q \in Seq(Packet) /\ Len(Q) = Len(P) + 1 /\ Q[Len(P) + 1] = t /\ \A i \in 1 .. Len(P) : Q[i] = P[i]
    BY <1>1, <2>3
  <2> HIDE DEF Q
  <2>6. Small(Q)
    <3> SUFFICES ASSUME NEW i \in 1 .. Len(Q) PROVE Size(Q[i]) <= PacketMax /\ Q[i].data[1] # <<>>
      OBVIOUS
    <3>1. i \in 1 .. Len(P) \/ i = Len(P) + 1
      BY <1>1, <2>5
    <3> QED  BY <1>1, <2>3, <2>5, <3>1
  <2>7. m \in 1 .. x - a
    BY <1>2, <2>3
  <2> QED  BY <1>5, <2>2, <2>4, <2>5, <2>6, <2>7
<1> QED  BY <1>4, <1>6, <1>7

LEMMA CodingInvHolds == H264Spec => []CodingInv
<1>1. H264Init => CodingInv
  BY CodingInitInv
<1>2. CodingInv /\ [H264Next]_codingVars => CodingInv'
  <2> SUFFICES ASSUME CodingInv, [H264Next]_codingVars PROVE CodingInv'
    OBVIOUS
  <2>1. CASE SplitNext
    BY <2>1, SplitKeepsInv
  <2>2. CASE PacketizeNext
    BY <2>2, PacketizeKeepsInv
  <2>3. CASE UNCHANGED codingVars
    <3>1. coding' = coding
      BY <2>3 DEF codingVars
    <3> QED  BY <3>1 DEF CodingInv, CodingTypeOK, SplitsAtUnits, FindsEveryUnit, PacksWhole
  <2> QED  BY <2>1, <2>2, <2>3 DEF H264Next
<1> QED  BY <1>1, <1>2, PTL DEF H264Spec

(* _split_bitstream finds the units between the start codes, whatever the  *)
(* player sends: each but the SEI ones, whole and in order, also the one   *)
(* that ends with the buffer.                                              *)
THEOREM UnitsFound == H264Spec => []FindsEveryUnit
<1>1. CodingInv => FindsEveryUnit
  BY DEF CodingInv
<1> QED  BY <1>1, CodingInvHolds, PTL

(* For every PACKET_MAX and every number and sizes of the units, no payload *)
(* of _packetize is larger than PACKET_MAX or empty, and the depayloader    *)
(* gives the units back.                                                    *)
THEOREM UnitsRestored == H264Spec => []PayloadsRestoreUnits
<1>1. CodingInv => PayloadsRestoreUnits
  <2> SUFFICES ASSUME CodingInv, coding.stage = "sent"
               PROVE  /\ \A i \in 1 .. Len(coding.packets) :
                           Size(coding.packets[i]) <= PacketMax /\ coding.packets[i].data[1] # <<>>
                      /\ Output(coding.packets) = coding.units
    BY DEF PayloadsRestoreUnits
  <2>1. coding.units \in Seq(Unit)
    BY DEF CodingInv, CodingTypeOK
  <2>2. SubSeq(coding.units, 1, Len(coding.units)) = coding.units
    BY <2>1
  <2> QED  BY <2>2 DEF CodingInv, PacksWhole
<1> QED  BY <1>1, CodingInvHolds, PTL
=============================================================================
