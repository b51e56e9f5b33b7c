----------------------------- MODULE RtpRouter -----------------------------
(***************************************************************************)
(* The RtpRouter of src/aiortc/rtcdtlstransport.py: which of the receivers *)
(* and senders that share a bundled transport gets an RTP or RTCP packet.  *)
(*                                                                         *)
(* Receivers register one after the other while packets already arrive:    *)
(* one whose SSRC nobody has declared is given to the only receiver that   *)
(* takes its payload type, and the router learns that.                     *)
(***************************************************************************)
CONSTANTS
  Receivers, Senders, Nobody,
  Ssrcs, PayloadTypes,
  Declared,     \* [Receivers -> SUBSET Ssrcs]: of the encodings in its parameters
  Accepted,     \* [Receivers -> SUBSET PayloadTypes]: of the codecs in them
  OwnSsrc       \* [Senders -> Ssrcs]

(* SSRCs are drawn at random from 2^32, and are taken for different.       *)
ASSUME RouterAssumption ==
  /\ Nobody \notin Receivers \cup Senders /\ Receivers \cap Senders = {}
  /\ Declared \in [Receivers -> SUBSET Ssrcs]
  /\ \A r, x \in Receivers : r # x => Declared[r] \cap Declared[x] = {}
  /\ Accepted \in [Receivers -> SUBSET PayloadTypes]
  /\ OwnSsrc \in [Senders -> Ssrcs]
  /\ \A x, y \in Senders : x # y => OwnSsrc[x] # OwnSsrc[y]

VARIABLES
  started,        \* the receivers and senders that are registered
  stopped,        \* those that were: nobody is started twice
  ssrcTable,      \* ssrc_table
  payloadTable,   \* payload_type_table
  senderTable     \* senders

routerVars == <<started, stopped, ssrcTable, payloadTable, senderTable>>

RouterInit ==
  /\ started = {} /\ stopped = {}
  /\ ssrcTable = [s \in Ssrcs |-> Nobody]
  /\ payloadTable = [t \in PayloadTypes |-> {}]
  /\ senderTable = [s \in Ssrcs |-> Nobody]

(* receive() and send() of a transceiver's receiver and sender.            *)
Enters(x) ==
  /\ x \notin started \cup stopped
  /\ started' = started \cup {x} /\ UNCHANGED stopped

(* Mutant of RegisterReceiver: what was learned before stays.              *)
KeepsLearned(r) ==
  /\ Enters(r)
  /\ ssrcTable' = [s \in Ssrcs |-> IF s \in Declared[r] /\ ssrcTable[s] = Nobody THEN r ELSE ssrcTable[s]]
  /\ payloadTable' = [t \in PayloadTypes |->
                        IF t \in Accepted[r] THEN payloadTable[t] \cup {r} ELSE payloadTable[t]]
  /\ UNCHANGED senderTable

RegisterReceiver(r) ==
  /\ Enters(r)
  /\ ssrcTable' = [s \in Ssrcs |-> IF s \in Declared[r] THEN r ELSE ssrcTable[s]]
  /\ payloadTable' = [t \in PayloadTypes |->
                        IF t \in Accepted[r] THEN payloadTable[t] \cup {r} ELSE payloadTable[t]]
  /\ UNCHANGED senderTable

RegisterSender(x) ==
  /\ Enters(x)
  /\ senderTable' = [senderTable EXCEPT ![OwnSsrc[x]] = x]
  /\ UNCHANGED <<ssrcTable, payloadTable>>

(* stop(), which does nothing to what was never started.                   *)
Leaves(x) ==
  /\ x \in started
  /\ started' = started \ {x} /\ stopped' = stopped \cup {x}

Without(table, x) == [s \in Ssrcs |-> IF table[s] = x THEN Nobody ELSE table[s]]

UnregisterReceiver(r) ==
  /\ Leaves(r)
  /\ ssrcTable' = Without(ssrcTable, r)
  /\ payloadTable' = [t \in PayloadTypes |-> payloadTable[t] \ {r}]
  /\ UNCHANGED senderTable

UnregisterSender(x) ==
  /\ Leaves(x)
  /\ senderTable' = Without(senderTable, x)
  /\ UNCHANGED <<ssrcTable, payloadTable>>

(* The only receiver of a payload type, when there is one.                 *)
Only(t) == {r \in Receivers : payloadTable[t] = {r}}

RouteRtp(s, t) ==
  IF ssrcTable[s] # Nobody
  THEN IF ssrcTable[s] \in payloadTable[t] THEN ssrcTable[s] ELSE Nobody
  ELSE IF Only(t) # {} THEN CHOOSE r \in Only(t) : TRUE ELSE Nobody

ReceiveRtp(s, t) ==
  /\ ssrcTable' = [ssrcTable EXCEPT ![s] = IF @ = Nobody THEN RouteRtp(s, t) ELSE @]
  /\ UNCHANGED <<started, stopped, payloadTable, senderTable>>

(* An RTCP packet from some sources (SR, BYE), with reports on, or         *)
(* feedback to, some of our streams.                                       *)
RouteRtcp(sources, onStreams) ==
  ({ssrcTable[s] : s \in sources} \cup {senderTable[s] : s \in onStreams}) \ {Nobody}

RouterNext ==
  \/ \E r \in Receivers : RegisterReceiver(r) \/ UnregisterReceiver(r)
  \/ \E x \in Senders : RegisterSender(x) \/ UnregisterSender(x)
  \/ \E s \in Ssrcs, t \in PayloadTypes : ReceiveRtp(s, t)

RouterSpec == RouterInit /\ [][RouterNext]_routerVars

-----------------------------------------------------------------------------
(* Whatever was learned from the packets that came before a receiver was   *)
(* started, and whoever else was stopped since: the packets of a stream it *)
(* declared are its own, those of its own payload types reach it, and      *)
(* reports reach the sender they are about.  Nothing reaches what has been *)
(* stopped (register_receiver, route_rtp, route_rtcp, unregister_receiver).*)
RoutesAreTrue ==
  /\ \A s \in Ssrcs, t \in PayloadTypes :
       /\ RouteRtp(s, t) # Nobody => RouteRtp(s, t) \in started /\ t \in Accepted[RouteRtp(s, t)]
       /\ \A r \in Receivers \cap started :
            s \in Declared[r] => RouteRtp(s, t) = (IF t \in Accepted[r] THEN r ELSE Nobody)
  /\ \A sources, streams \in SUBSET Ssrcs : RouteRtcp(sources, streams) \subseteq started
  /\ \A r \in Receivers \cap started : \A s \in Declared[r] : RouteRtcp({s}, {}) = {r}
  /\ \A x \in Senders : RouteRtcp({}, {OwnSsrc[x]}) = {x} \cap started
=============================================================================
