---------------------------- MODULE H264Packets ----------------------------
(***************************************************************************)
(* How h264track.py sends a packet of the player: _split_bitstream finds   *)
(* the NAL units between start codes, _packetize puts them in RTP payloads *)
(* of PACKET_MAX bytes at most, several in one (STAP-A) or one in several  *)
(* (FU-A), and the depayloader of src/aiortc/codecs/h264.py undoes it.     *)
(*                                                                         *)
(* An action is one turn of the loop of each.  The buffers are well        *)
(* formed: units of two bytes or more that begin with a header that is not *)
(* 0, end with a byte that is not 0 and hold no start code.                *)
(***************************************************************************)
EXTENDS Integers, Sequences, FiniteSets, SequencesExt

CONSTANTS
  PacketMax,        \* PACKET_MAX, at least 4
  MaxAggregated,    \* 9: units in one STAP-A
  Sources           \* the sequences of units that are read from the player

Byte == 0 .. 255

(* A well-formed unit: begin and end are told from the zeros around them.  *)
Unit ==
  {u \in Seq(Byte) : /\ Len(u) > 1 /\ u[1] # 0 /\ u[Len(u)] # 0
                     /\ \A j \in 2 .. Len(u) - 1 : u[j] = 0 => u[j + 1] \notin {0, 1}}

ASSUME H264Assumption ==
  /\ PacketMax \in Nat /\ PacketMax > 3 /\ MaxAggregated \in Nat \ {0}
  /\ Sources \subseteq Seq(Unit)

VARIABLE coding     \* one packet of the player on its way

codingVars == <<coding>>

StartCode3 == <<0, 0, 1>>
StartCode4 == <<0, 0, 0, 1>>

Buffer(code, units) == FoldLeft(LAMBDA b, u : b \o code \o u, <<>>, units)

H264Init ==
  \E source \in Sources, code \in {StartCode3, StartCode4} :
    coding = [source |-> source, stage |-> "split", at |-> 0, units |-> <<>>, packets |-> <<>>,
              buffer |-> Buffer(code, source)]

-----------------------------------------------------------------------------
(* _split_bitstream, with positions from 0.                                *)

Bytes(b, i, n) == SubSeq(b, i + 1, IF i + n < Len(b) THEN i + n ELSE Len(b))
Least(S) == CHOOSE i \in S : \A j \in S : i <= j

IsSei(unit) == unit[1] % 32 = 6

(* The positions that either loop looks at: the first, and then as long as *)
(* that many bytes more are there.                                         *)
Looks(b, i, more) == {i} \cup {j \in i .. Len(b) - 1 : j + more < Len(b)}

Starts(b, i) ==
  {j \in Looks(b, i, 4) : Bytes(b, j, 3) = StartCode3 \/ Bytes(b, j, 4) = StartCode4}

UnitStart(b, i) == IF Bytes(b, i, 3) = StartCode3 THEN i + 3 ELSE i + 4

(* Mutant of Ends: a unit ends at a start code of three bytes only.        *)
EndsAtCode3(b, i) == {j \in Looks(b, i, 3) : Bytes(b, j, 3) = StartCode3}

Ends(b, i) == {j \in Looks(b, i, 3) : Bytes(b, j, 3) \in {StartCode3, <<0, 0, 0>>}}

UnitEnd(b, i) == IF Ends(b, i) = {} THEN Len(b) ELSE Least(Ends(b, i))

SplitNext ==
  LET b == coding.buffer
      start == UnitStart(b, Least(Starts(b, coding.at)))
      end == UnitEnd(b, start)
      unit == Bytes(b, start, end - start)
  IN /\ coding.stage = "split"
     /\ coding' = IF coding.at = Len(b) \/ Starts(b, coding.at) = {}
                  THEN [coding EXCEPT !.stage = "packetize", !.at = 0]
                  ELSE [coding EXCEPT !.at = end, !.units = IF IsSei(unit) THEN @ ELSE Append(@, unit)]

-----------------------------------------------------------------------------
(* _packetize                                                              *)

FuRoom == PacketMax - 2
StapRoom == PacketMax - 3

(* Mutant of FragmentCount: the room is that of a whole payload.           *)
FragmentsTooFew(size) == (size + PacketMax - 1) \div PacketMax

FragmentCount(size) == (size + FuRoom - 1) \div FuRoom

(* The first size % count fragments are longer by one.                     *)
Fragments(unit) ==
  LET size == Len(unit) - 1
      count == FragmentCount(size)
      begin(i) == 1 + i * (size \div count) + (IF i < size % count THEN i ELSE size % count)
  IN [i \in 1 .. count |->
        [kind |-> "fragment", header |-> unit[1], first |-> i = 1, last |-> i = count,
         data |-> <<Bytes(unit, begin(i - 1), begin(i) - begin(i - 1))>>]]

Sizes(units) == FoldLeft(LAMBDA sum, u : sum + 2 + Len(u), 0, units)

Aggregated(units) ==
  {n \in 1 .. Len(units) : /\ n <= MaxAggregated
                           /\ \A i \in 1 .. n : Len(units[i]) <= StapRoom - Sizes(SubSeq(units, 1, i - 1))}

Count(units) == IF Aggregated(units) = {} THEN 1 ELSE Cardinality(Aggregated(units))

Together(units) ==
  [kind |-> IF Count(units) = 1 THEN "single" ELSE "aggregate", header |-> 0,
   first |-> TRUE, last |-> TRUE, data |-> SubSeq(units, 1, Count(units))]

PacketizeNext ==
  LET units == SubSeq(coding.units, coding.at + 1, Len(coding.units))
  IN /\ coding.stage = "packetize"
     /\ coding' = IF units = <<>> THEN [coding EXCEPT !.stage = "sent"]
                  ELSE IF Len(units[1]) > PacketMax
                  THEN [coding EXCEPT !.at = @ + 1, !.packets = @ \o Fragments(units[1])]
                  ELSE [coding EXCEPT !.at = @ + Count(units), !.packets = Append(@, Together(units))]

H264Next == SplitNext \/ PacketizeNext

H264Spec == H264Init /\ [][H264Next]_codingVars

-----------------------------------------------------------------------------
(* H264PayloadDescriptor.parse, with the units of the output apart.        *)
Depayload(out, packet) ==
  IF packet.kind # "fragment" THEN out \o packet.data
  ELSE IF packet.first THEN Append(out, <<packet.header>> \o packet.data[1])
  ELSE [out EXCEPT ![Len(out)] = @ \o packet.data[1]]

Output(packets) == FoldLeft(Depayload, <<>>, packets)

Size(packet) ==
  CASE packet.kind = "single" -> Len(packet.data[1])
    [] packet.kind = "aggregate" -> 1 + Sizes(packet.data)
    [] packet.kind = "fragment" -> 2 + Len(packet.data[1])

Shown(units) == FoldLeft(LAMBDA t, u : IF IsSei(u) THEN t ELSE Append(t, u), <<>>, units)

(* What was found between the start codes, of three or of four bytes, is   *)
(* the units that were there without the SEI ones, to the last byte, also  *)
(* where a unit ends with the buffer (the FIXME in _split_bitstream).      *)
FindsEveryUnit == coding.stage # "split" => coding.units = Shown(coding.source)

(* However large the units are and however many fit in one payload, no     *)
(* payload is larger than PACKET_MAX or an empty fragment, and the         *)
(* receiver gets back the units, each once, in order and whole.            *)
PayloadsRestoreUnits ==
  coding.stage = "sent" =>
    /\ \A i \in 1 .. Len(coding.packets) :
         LET packet == coding.packets[i]
         IN Size(packet) <= PacketMax /\ packet.data[1] # <<>>
    /\ Output(coding.packets) = coding.units
=============================================================================
