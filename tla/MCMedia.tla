------------------------------ MODULE MCMedia ------------------------------
(***************************************************************************)
(* The instance that TLC checks of a peer connection, of the routing of    *)
(* packets on its transport, of an RTP stream and of the H.264 packets it  *)
(* carries.  They share no variable, so a behaviour is one of a single of  *)
(* them, that of part, while the others stay as they were at first.        *)
(***************************************************************************)
EXTENDS PeerConnection, RtpRouter, RtpStream, H264Packets

VARIABLE part

vars == <<part, peerVars, routerVars, rtpVars, codingVars>>

(* Only when H.264 is packed does it matter what there is to pack.         *)
NoPacket == [source |-> <<>>, stage |-> "split", at |-> 0, units |-> <<>>, packets |-> <<>>, buffer |-> <<>>]

Init ==
  /\ part \in {"peer", "router", "rtp", "h264"}
  /\ PeerInit /\ RouterInit /\ RtpInit
  /\ IF part = "h264" THEN H264Init ELSE coding = NoPacket

PeerStep == part = "peer" /\ PeerNext /\ UNCHANGED <<part, routerVars, rtpVars, codingVars>>

RouterStep == part = "router" /\ RouterNext /\ UNCHANGED <<part, peerVars, rtpVars, codingVars>>

RtpStep == part = "rtp" /\ RtpNext /\ UNCHANGED <<part, peerVars, routerVars, codingVars>>

H264Step == part = "h264" /\ H264Next /\ UNCHANGED <<part, peerVars, routerVars, rtpVars>>

Next == PeerStep \/ RouterStep \/ RtpStep \/ H264Step

Spec == Init /\ [][Next]_vars

-----------------------------------------------------------------------------
(* The values of the constants.                                            *)

VideoAndData == <<"video", "data">>

BothWays == [m \in {"video", "data"} |-> {"send", "receive"}]

(* Receivers that share a payload type, and one with its own; SSRC 3 is    *)
(* declared by nobody.                                                     *)
SsrcsOf == [r \in {"screen", "camera", "microphone"} |->
              CASE r = "screen" -> {1} [] r = "camera" -> {2} [] OTHER -> {}]
TypesOf == [r \in {"screen", "camera", "microphone"} |->
              IF r = "microphone" THEN {"opus"} ELSE {"h264"}]
SenderSsrc == [x \in {"sender"} |-> 1]

(* Frames of one, of two and of three packets.                             *)
FrameStarts == {0, 1, 3, 6, 8, 9, 11, 14}
UnevenFrames == [s \in 0 .. 15 |-> Cardinality({x \in FrameStarts \ {0} : x <= s})]

(* Units of a few bytes with zeros at every place, SEI units among them,   *)
(* and units of every size around those where the packing changes.         *)
ShortUnits ==
  {<<x, y>> : x, y \in {1, 6}} \cup {<<x, y, 6>> : x \in {1, 6}, y \in {0, 1}} \cup {<<1, 0, 6, 0, 6>>}

UnitOf(size, number) == [i \in 1 .. size |-> IF i = 1 THEN 65 ELSE 50 + 20 * number + i]
UnitSizes == {2, 3, 4, 5, 8, 10, 11, 17, 18, 20}

PlayedPackets ==
  {<<u>> : u \in ShortUnits} \cup {<<u, v>> : u, v \in ShortUnits}
    \cup {<<UnitOf(k, 1)>> : k \in UnitSizes}
    \cup {<<UnitOf(k, 1), UnitOf(l, 2)>> : k, l \in UnitSizes}
    \cup {<<UnitOf(k, 1), UnitOf(l, 2), UnitOf(n, 3)>> : k, l, n \in UnitSizes}

-----------------------------------------------------------------------------
(* A promise that a module makes of its behaviours is one of those of its  *)
(* part, under the fairness that the module states.                        *)

(* PeerConnection: close() returns.                                        *)
PeerCloseReturns == part = "peer" /\ PeerFairness => CloseReturns

(* PeerConnection: the loss of the path reaches application and tracks.    *)
PeerLossIsTold == part = "peer" /\ PeerFairness => LossIsTold

(* RtpStream: frames keep coming.                                          *)
PictureNeverFreezes == part = "rtp" /\ RtpFairness => NeverFreezes
=============================================================================
