---------------------------- MODULE DataChannels ----------------------------
(***************************************************************************)
(* Data channels over one SCTP association: src/aiortc/rtcdatachannel.py   *)
(* and the _data_channel_ and _reconfig_ methods of rtcsctptransport.py.   *)
(* A channel is opened with a DCEP message on its stream, acknowledged by  *)
(* another, and closed by resetting the stream in each direction with      *)
(* RECONFIG requests, of which an end has one outstanding at a time.       *)
(*                                                                         *)
(* DCEP messages arrive once and in order within a stream, as SctpTransfer *)
(* shows; RECONFIG chunks are lost and reordered like any packet and never *)
(* sent again.  The association is up and down as SctpAssociation has it.  *)
(***************************************************************************)
EXTENDS Integers, Sequences, SequencesExt, FiniteSets, TLC

CONSTANTS
  Odd, Even,      \* the ends: client (odd stream ids) and server (even ones)
  Channels,       \* channels that the application may ever create
  Owner,          \* the end that creates each channel with a DCEP message
  Negotiated,     \* channels that both ends create, with an agreed id
  AgreedId,       \* that id of each
  MaxId,          \* bound on stream ids
  Hasty,          \* bound: channels that may be closed before they have opened
  MaxKinds        \* bound: kinds of disturbance in one behaviour, see spoiled

Ends == {Odd, Even}
Other(e) == CHOOSE x \in Ends : x # e
Ids == 0 .. MaxId
NoId == -1
NoChannel == "no channel"

ASSUME ChannelAssumption ==
  /\ Odd # Even
  /\ Negotiated \subseteq Channels /\ Hasty \subseteq Channels
  /\ Owner \in [Channels -> Ends]
  /\ AgreedId \in [Negotiated -> Ids]
  /\ \A c, d \in Negotiated : AgreedId[c] = AgreedId[d] => c = d
  /\ {MaxId, MaxKinds} \subseteq Nat
  /\ NoChannel \notin Channels

VARIABLES
  end,        \* per end: association, channels and queues, see NewEnd
  stream,     \* stream[e][i]: DCEP messages on their way to e on stream i
  control,    \* RECONFIG chunks on their way
  spoiled     \* history: what has happened that breaks the promises below

channelVars == <<end, stream, control, spoiled>>

(* table is _data_channels, queue _data_channel_queue, resets and request  *)
(* _reconfig_queue and _reconfig_request (its streams), requestNo the      *)
(* number of requests made; tasks are coroutines not run yet.  An end      *)
(* whose receive loop ended by an exception is deaf: DTLS is closed then,  *)
(* and nothing is sent either.  out is emptied into the wire at each step. *)
NewEnd ==
  [assoc     |-> "connecting",
   chan      |-> [c \in Channels |-> "none"],
   id        |-> [c \in Channels |-> IF c \in Negotiated THEN AgreedId[c] ELSE NoId],
   table     |-> [i \in Ids |-> NoChannel],
   queue     |-> <<>>,
   resets    |-> <<>>,
   request   |-> <<>>,
   requestNo |-> 0,
   tasks     |-> {},
   deaf      |-> FALSE,
   out       |-> <<>>,
   control   |-> {}]

ChannelInit ==
  /\ end = [e \in Ends |-> NewEnd]
  /\ stream = [e \in Ends |-> [i \in Ids |-> <<>>]]
  /\ control = {}
  /\ spoiled = {}

-----------------------------------------------------------------------------
(* Methods of the transport, from the state of an end to its next.         *)

Raise(p) == [p EXCEPT !.deaf = TRUE]

(* Mutant of FirstId: both ends count from 0.                              *)
FromZero(e) == 0

(* start(): one side uses even ids, the other odd ones.                    *)
FirstId(e) == IF e = Odd THEN 1 ELSE 0

(* MaxId does not get in the way: each end has enough ids of its own.      *)
ASSUME EnoughIds ==
  /\ IsFiniteSet(Channels)
  /\ \A e \in Ends :
       Cardinality(Negotiated \cup {c \in Channels : Owner[c] = e})
         <= Cardinality({i \in Ids : i % 2 = FirstId(e)})

FreeId(e, p) ==
  CHOOSE i \in Ids :
    /\ i % 2 = FirstId(e) % 2 /\ p.table[i] = NoChannel
    /\ \A j \in Ids : j % 2 = i % 2 /\ j < i => p.table[j] # NoChannel

Assign(e, p, c) ==
  IF p.id[c] # NoId THEN p
  ELSE LET i == FreeId(e, p) IN [p EXCEPT !.table[i] = c, !.id[c] = i]

(* One round of _data_channel_flush: the channel gets its id only now.     *)
FlushOne(e, p, item) ==
  LET q == Assign(e, p, item.chan)
      m == [id |-> q.id[item.chan], chan |-> item.chan, kind |-> item.kind]
  IN  [q EXCEPT !.out = Append(@, m)]

FlushQueue(e, p) ==
  IF p.assoc # "established" THEN p
  ELSE FoldLeft(LAMBDA q, item : FlushOne(e, q, item), [p EXCEPT !.queue = <<>>], p.queue)

(* _transmit_reconfig: the request is noted before it is serialised, which *)
(* raises an exception if a stream has no id yet.                          *)
TransmitReconfig(e, p) ==
  LET ids == p.resets
      q   == [p EXCEPT !.resets = <<>>, !.request = ids, !.requestNo = @ + 1]
  IN  IF p.assoc # "established" \/ p.resets = <<>> \/ p.request # <<>> THEN p
      ELSE IF NoId \in Range(ids) THEN q
      ELSE [q EXCEPT !.control = @ \cup
             {[to |-> Other(e), kind |-> "request", no |-> p.requestNo, ids |-> ids]}]

(* Mutant of CloseChannel: a reset is queued for each close, also the      *)
(* peer's.                                                                 *)
CloseAgain(p, c) ==
  [p EXCEPT !.chan[c] = "closing", !.resets = Append(@, p.id[c]),
            !.tasks = @ \cup {"reconfig"}]

(* The elements of s that are in S, in their order.                        *)
Keep(s, S) == FoldLeft(LAMBDA r, x : IF x \in S THEN Append(r, x) ELSE r, <<>>, s)

(* _data_channel_close.                                                    *)
CloseChannel(p, c) ==
  LET q == [p EXCEPT !.chan[c] = "closing", !.resets = Append(@, p.id[c])]
  IN  IF p.chan[c] \in {"closing", "closed"} THEN p
      ELSE IF p.assoc = "established"
        THEN IF Len(q.resets) = 1 THEN [q EXCEPT !.tasks = @ \cup {"reconfig"}] ELSE q
      ELSE [p EXCEPT !.chan[c] = "closed",
                     !.queue = Keep(@, {item \in Range(@) : item.chan # c}),
                     !.table = [i \in Ids |-> IF @[i] = c THEN NoChannel ELSE @[i]]]

(* Mutant of ChannelClosed: the channel stays in the table.                *)
ClosedStaysListed(p, i) ==
  IF i = NoId \/ p.table[i] = NoChannel THEN Raise(p)
  ELSE [p EXCEPT !.chan[p.table[i]] = "closed"]

(* _data_channel_closed, which raises KeyError if the id is not there.     *)
ChannelClosed(p, i) ==
  IF i = NoId \/ p.table[i] = NoChannel THEN Raise(p)
  ELSE [p EXCEPT !.chan[p.table[i]] = "closed", !.table[i] = NoChannel]

(* Mutant of CompleteRequest: what was queued meanwhile is left there.     *)
CompleteOnly(e, p) ==
  [FoldLeft(ChannelClosed, p, p.request) EXCEPT !.request = <<>>]

(* _receive_reconfig_param: the response completes our own request.        *)
CompleteRequest(e, p) ==
  LET q == FoldLeft(ChannelClosed, p, p.request)
      r == TransmitReconfig(e, [q EXCEPT !.request = <<>>])
  IN  IF q.deaf \/ NoId \in Range(r.request) THEN Raise(q) ELSE r

-----------------------------------------------------------------------------
(* End e becomes p.  The head of stream i (if i is an id) and the chunks m *)
(* have been taken; what p sent is on its way.  A deaf end sends nothing.  *)
EndGoesOn(e, p, i, m) ==
  LET sent == IF p.deaf THEN <<>> ELSE p.out
  IN  /\ end' = [end EXCEPT ![e] = [p EXCEPT !.out = <<>>, !.control = {}]]
      /\ stream' = [x \in Ends |-> [k \in Ids |->
            IF x # e THEN stream[x][k] \o Keep(sent, {o \in Range(sent) : o.id = k})
            ELSE IF k = i THEN Tail(stream[x][k]) ELSE stream[x][k]]]
      /\ control' = (control \ m) \cup (IF p.deaf THEN {} ELSE p.control)

Spoils(kinds) ==
  /\ spoiled' = spoiled \cup kinds
  /\ Cardinality(spoiled') <= MaxKinds

(* createDataChannel, and the channel's constructor.                       *)
Create(e, c) ==
  LET p == [end[e] EXCEPT !.chan[c] = "connecting"]
  IN  /\ end[e].chan[c] = "none" /\ end[e].assoc # "closed"
      /\ IF c \in Negotiated
           THEN /\ p.table[AgreedId[c]] = NoChannel
                /\ EndGoesOn(e, [p EXCEPT !.table[AgreedId[c]] = c,
                         !.chan[c] = IF p.assoc = "established" THEN "open" ELSE @],
                       NoId, {})
           ELSE /\ Owner[c] = e
                /\ EndGoesOn(e, [p EXCEPT !.tasks = @ \cup {"flush"},
                         !.queue = Append(@, [chan |-> c, kind |-> "OPEN"])], NoId, {})
      /\ UNCHANGED spoiled

(* Not open yet at both ends: the reset may overtake OPEN or ACK.          *)
ClosedEarly(e, c) ==
  \E x \in {e, Other(e)} : end[x].chan[c] \in {"none", "connecting"}

Close(e, c) ==
  LET p == end[e]
  IN  /\ p.chan[c] \in {"connecting", "open"}
      /\ ClosedEarly(e, c) => c \in Hasty
      /\ EndGoesOn(e, CloseChannel(p, c), NoId, {})
      /\ Spoils(IF p.assoc = "established" /\ ClosedEarly(e, c) THEN {"early"} ELSE {})

(* An id that was some channel's before is given to another.               *)
Reuses(p, q) ==
  \E c, d \in Channels : c # d /\ p.id[c] = NoId /\ q.id[c] # NoId /\ q.id[c] = p.id[d]

RunFlush(e) ==
  LET p == [end[e] EXCEPT !.tasks = @ \ {"flush"}]
      q == FlushQueue(e, p)
  IN  /\ "flush" \in end[e].tasks
      /\ EndGoesOn(e, q, NoId, {})
      /\ Spoils(IF Reuses(p, q) THEN {"reused"} ELSE {})

RunReconfig(e) ==
  /\ "reconfig" \in end[e].tasks
  /\ EndGoesOn(e, TransmitReconfig(e, [end[e] EXCEPT !.tasks = @ \ {"reconfig"}]), NoId, {})
  /\ UNCHANGED spoiled

(* _set_state(ESTABLISHED): negotiated channels open, queued ones go out.  *)
(* The client is never established first (ClientIsNotAlone).               *)
Up(e) ==
  LET p == end[e]
  IN  /\ p.assoc = "connecting"
      /\ e = Odd => end[Even].assoc # "connecting"
      /\ EndGoesOn(e, [p EXCEPT !.assoc = "established", !.tasks = @ \cup {"flush"},
            !.chan = [c \in Channels |->
              IF c \in Negotiated /\ c \in Range(p.table) THEN "open" ELSE @[c]]],
           NoId, {})
      /\ UNCHANGED spoiled

(* _set_state(CLOSED): every registered channel is closed.                 *)
Down(e) ==
  LET p == end[e]
  IN  /\ p.assoc = "established"
      /\ EndGoesOn(e, [p EXCEPT !.assoc = "closed",
            !.table = [i \in Ids |-> NoChannel],
            !.chan = [c \in Channels |-> IF c \in Range(p.table) THEN "closed" ELSE @[c]]],
           NoId, {})
      /\ Spoils({"down"})

-----------------------------------------------------------------------------
(* What is received.                                                       *)

(* _data_channel_receive, DATA_CHANNEL_OPEN: the code asserts that the     *)
(* stream has no channel, makes one, and answers at once if it can.        *)
ReceiveOpen(e, p, i, c) ==
  IF p.table[i] # NoChannel THEN Raise(p)
  ELSE FlushQueue(e, [p EXCEPT !.chan[c] = "open", !.id[c] = i, !.table[i] = c,
                               !.queue = Append(@, [chan |-> c, kind |-> "ACK"])])

(* Mutant of ReceiveAck: the channel is remembered, not looked up.         *)
AckOpens(p, i, c) == [p EXCEPT !.chan[c] = "open"]

(* DATA_CHANNEL_ACK: the code asserts that the stream has a channel.       *)
ReceiveAck(p, i, c) ==
  IF p.table[i] = NoChannel THEN Raise(p)
  ELSE [p EXCEPT !.chan[p.table[i]] = "open"]

ReceiveStream(e, i) ==
  /\ ~ end[e].deaf /\ stream[e][i] # <<>>
  /\ LET m == Head(stream[e][i])
         p == end[e]
         q == IF m.kind = "OPEN" THEN ReceiveOpen(e, p, i, m.chan)
                                 ELSE ReceiveAck(p, i, m.chan)
     IN  /\ EndGoesOn(e, q, i, {})
         /\ Spoils(IF Reuses(p, q) THEN {"reused"} ELSE {})

(* RECONFIG is heeded in the established state only.  A request closes the *)
(* channels it names from this side too; a response ends our own request.  *)
ReceiveReconfig(e, m) ==
  LET p == end[e]
      Closing(q, i) == IF q.table[i] = NoChannel THEN q ELSE CloseChannel(q, q.table[i])
      closing == FoldLeft(Closing, p, m.ids)
  IN  /\ ~ p.deaf /\ m.to = e
      /\ EndGoesOn(e,
           IF p.assoc # "established" THEN p
           ELSE IF m.kind = "request"
             THEN [closing EXCEPT !.control =
                    {[to |-> Other(e), kind |-> "response", no |-> m.no, ids |-> <<>>]}]
           ELSE IF p.request # <<>> /\ m.no + 1 = p.requestNo THEN CompleteRequest(e, p)
           ELSE p, NoId, {m})
      /\ Spoils(IF p.assoc # "established" THEN {"lost"} ELSE {})

LoseReconfig(m) ==
  /\ control' = control \ {m}
  /\ Spoils({"lost"})
  /\ UNCHANGED <<end, stream>>

ReceiveControl(e) == \E m \in control : ReceiveReconfig(e, m)

ChannelNext ==
  \/ \E e \in Ends :
       \/ \E c \in Channels : Create(e, c) \/ Close(e, c)
       \/ RunFlush(e) \/ RunReconfig(e) \/ Up(e) \/ Down(e)
       \/ \E i \in Ids : ReceiveStream(e, i)
       \/ ReceiveControl(e)
  \/ \E m \in control : LoseReconfig(m)

(* The event loop runs what is scheduled; packets that are not lost arrive.*)
(* Weak fairness, with what ENABLED amounts to written out for TLC.        *)
ChannelFairness ==
  \A e \in Ends :
    /\ <>[]("flush" \in end[e].tasks) => []<><<RunFlush(e)>>_channelVars
    /\ <>[]("reconfig" \in end[e].tasks) => []<><<RunReconfig(e)>>_channelVars
    /\ \A i \in Ids : <>[](~ end[e].deaf /\ stream[e][i] # <<>>) =>
                       []<><<ReceiveStream(e, i)>>_channelVars
    /\ <>[](~ end[e].deaf /\ \E m \in control : m.to = e) =>
         []<><<ReceiveControl(e)>>_channelVars

ChannelSpec == ChannelInit /\ [][ChannelNext]_channelVars /\ ChannelFairness

-----------------------------------------------------------------------------
(* The table and the channels agree, whatever is lost, closed or raised: a *)
(* channel that has an id and is not closed is what its id stands for, and *)
(* the table holds no other (_data_channels, _setId, _setReadyState).      *)
TableIsTrue ==
  \A e \in Ends, c \in Channels :
    LET p == end[e]
    IN  (p.chan[c] \notin {"none", "closed"} /\ p.id[c] # NoId)
          <=> (\E i \in Ids : p.table[i] = c /\ p.id[c] = i)

(* A stream means the same channel to both ends: two channels opened at    *)
(* the same time from both sides never share an id (start, even and odd),  *)
(* unless an id is given out again after a close.                          *)
StreamMeansOneChannel ==
  \A i \in Ids :
    LET c == end[Odd].table[i]
        d == end[Even].table[i]
    IN  c # NoChannel /\ d # NoChannel /\ c # d => "reused" \in spoiled

(* readyState never leaves "closed": an acknowledgement or a reset that    *)
(* comes late finds no channel to change (_data_channel_receive).          *)
ClosedIsFinal ==
  [][\A e \in Ends, c \in Channels :
       end[e].chan[c] = "closed" => end'[e].chan[c] = "closed"]_channelVars

(* What the assertions of _data_channel_receive and the pops of            *)
(* _data_channel_closed take for granted holds as long as no channel is    *)
(* closed before it opened, no id is used again, no reset is lost and the  *)
(* association stays up.  (If one fails, the receive loop of DTLS ends.)   *)
AssertionsHold == spoiled = {} => \A e \in Ends : ~ end[e].deaf

(* Under the same conditions a close() completes: both ends' channels get  *)
(* closed by the exchange of resets, whoever closes first, or both.        *)
CloseCompletes ==
  \A c \in Channels :
    (\E e \in Ends : end[e].chan[c] = "closing") ~>
      (spoiled # {} \/ \A e \in Ends : end[e].chan[c] \in {"none", "closed"})
=============================================================================
