----------------------------- MODULE RtpStream -----------------------------
(***************************************************************************)
(* A video stream from an RTCRtpSender to an RTCRtpReceiver of             *)
(* src/aiortc: sequence numbers that wrap, the history that answers NACKs, *)
(* NackGenerator, JitterBuffer and the picture loss indication (PLI).      *)
(*                                                                         *)
(* The network loses, delays and reorders packets and NACKs.  The data of  *)
(* a packet is its sequence number; its timestamp is that of its frame.    *)
(***************************************************************************)
EXTENDS Integers, Sequences, FiniteSets, FiniteSetsExt

CONSTANTS
  Wrap,           \* 2^16: sequence numbers are counted modulo Wrap
  FrameOf,        \* [0 .. Wrap - 1 -> Nat]: the frame a packet belongs to
  Capacity,       \* of the jitter buffer, a power of 2
  Prefetch,       \* frames that must be complete before one is released
  MaxMisorder,    \* MAX_MISORDER
  HistorySize,    \* RTP_HISTORY_SIZE
  MaxFlight,      \* bound: packets on their way at once
  MaxDelay,       \* bound: how many packets later an original one still arrives
  MaxLosses       \* bound: packets and NACKs lost in a behaviour

ASSUME RtpAssumption ==
  /\ {Wrap, Capacity, HistorySize, MaxMisorder} \subseteq Nat \ {0}
  /\ {Prefetch, MaxFlight, MaxDelay, MaxLosses} \subseteq Nat
  /\ Wrap % Capacity = 0 /\ Wrap % HistorySize = 0
  /\ Capacity < Wrap \div 2 /\ MaxMisorder < Wrap \div 2 /\ MaxDelay < Wrap \div 2
  /\ FrameOf \in [0 .. Wrap - 1 -> Nat]

Numbers16 == 0 .. Wrap - 1
None == -1

Plus(a, b) == (a + b) % Wrap
After(a, b) == a # b /\ Plus(a, -b) < Wrap \div 2

(* The packets of a frame are numbered one after the other (_run_rtp).     *)
UpTo(a, b) == {Plus(a, i) : i \in 0 .. Plus(b, -a)}

ASSUME FrameAssumption ==
  \A a, b \in Numbers16 : FrameOf[a] = FrameOf[b] =>
    \/ \A s \in UpTo(a, b) : FrameOf[s] = FrameOf[a]
    \/ \A s \in UpTo(b, a) : FrameOf[s] = FrameOf[a]

VARIABLES
  sending,    \* the sender: its next number and __rtp_history
  flight,     \* sequence numbers of the packets on their way
  nack,       \* numbers in the RTCP NACK on its way, {} when there is none
  receiving,  \* the receiver: NackGenerator and JitterBuffer
  decoder,    \* history: the last frame put in the decoder's queue, and
              \* whether a PLI was sent since
  lossesLeft  \* losses that may still happen

rtpVars == <<sending, flight, nack, receiving, decoder, lossesLeft>>

RtpInit ==
  /\ sending = [next |-> 0, history |-> [i \in 0 .. HistorySize - 1 |-> None]]
  /\ flight = {} /\ nack = {}
  /\ receiving = [max |-> None, missing |-> {}, origin |-> None,
                  slot |-> [i \in 0 .. Capacity - 1 |-> None]]
  /\ decoder = [frame |-> <<>>, told |-> FALSE]
  /\ lossesLeft = MaxLosses

-----------------------------------------------------------------------------
(* NackGenerator.add: what is missing, and whether this packet tells.      *)

Gap(r, s) == {x \in Numbers16 : After(s, x) /\ After(x, r.max)}

Counted(r, s) ==
  IF r.max = None THEN [r EXCEPT !.max = s]
  ELSE IF After(s, r.max) THEN [r EXCEPT !.max = s, !.missing = @ \cup Gap(r, s)]
  ELSE [r EXCEPT !.missing = @ \ {s}]

Missed(r, s) == r.max # None /\ After(s, r.max) /\ Gap(r, s) # {}

-----------------------------------------------------------------------------
(* JitterBuffer.                                                           *)

At(r, i) == r.slot[(r.origin + i) % Capacity]
Present(r, i) == At(r, i) # None

(* Mutant of RemoveSlots: the origin moves on, the packets stay.           *)
RemoveNothing(r, n) == [r EXCEPT !.origin = Plus(@, n)]

(* remove: the first n slots are emptied.                                  *)
RemoveSlots(r, n) ==
  [r EXCEPT !.origin = Plus(@, n),
            !.slot = [k \in DOMAIN @ |-> IF (k - r.origin) % Capacity < n THEN None ELSE @[k]]]

(* smart_remove: at least n slots, and then up to the first packet of      *)
(* another frame than the last one removed; all of them if there is none.  *)
Boundaries(r, n) ==
  {i \in n .. Capacity - 1 :
     /\ Present(r, i)
     /\ LET before == {j \in 0 .. i - 1 : Present(r, j)}
        IN before = {} \/ FrameOf[At(r, Max(before))] # FrameOf[At(r, i)]}

SmartRemove(r, n, s) ==
  IF Boundaries(r, n) = {} THEN [RemoveSlots(r, Capacity) EXCEPT !.origin = s]
  ELSE RemoveSlots(r, Min(Boundaries(r, n)))

Delta(r, s) == Plus(s, -r.origin)
Misorder(r, s) == Plus(r.origin, -s)

Late(r, s) == r.origin # None /\ Misorder(r, s) < Delta(r, s)

Resets(r, s) == Late(r, s) /\ Misorder(r, s) >= MaxMisorder

(* Mutant of Overflows: a jump of exactly the capacity is not noticed.     *)
OverflowsLater(r, s) == r.origin # None /\ ~Late(r, s) /\ Delta(r, s) > Capacity

Overflows(r, s) == r.origin # None /\ ~Late(r, s) /\ Delta(r, s) >= Capacity

(* Mutant of MadeRoom: a jump of more than the capacity empties the buffer *)
(* but leaves its origin behind.                                           *)
StaysBehind(r, s) ==
  IF r.origin = None THEN [r EXCEPT !.origin = s]
  ELSE IF Resets(r, s) THEN [RemoveSlots(r, Capacity) EXCEPT !.origin = s]
  ELSE IF Overflows(r, s) THEN [RemoveSlots(r, Capacity) EXCEPT !.origin = r.origin]
  ELSE r

MadeRoom(r, s) ==
  IF r.origin = None THEN [r EXCEPT !.origin = s]
  ELSE IF Resets(r, s) THEN [RemoveSlots(r, Capacity) EXCEPT !.origin = s]
  ELSE IF Overflows(r, s) THEN SmartRemove(r, Delta(r, s) - Capacity + 1, s)
  ELSE r

(* _remove_frame: the first frame, once as many more as Prefetch have begun *)
(* after it without a hole.                                                *)
Run(r) == {i \in 0 .. Capacity - 1 : \A j \in 0 .. i : Present(r, j)}
Changes(r) == {i \in Run(r) \ {0} : FrameOf[At(r, i)] # FrameOf[At(r, i - 1)]}
Releases(r) == Changes(r) # {} /\ Cardinality(Changes(r)) >= Prefetch
FrontFrame(r) == [i \in 1 .. Min(Changes(r)) |-> At(r, i - 1)]

-----------------------------------------------------------------------------
MaySend ==
  Cardinality(flight) < MaxFlight /\ \A s \in flight : Plus(sending.next, -s) < MaxDelay

SendPacket ==
  /\ MaySend
  /\ sending' = [sending EXCEPT !.next = Plus(@, 1),
                                !.history[sending.next % HistorySize] = sending.next]
  /\ flight' = flight \cup {sending.next}
  /\ UNCHANGED <<nack, receiving, decoder, lossesLeft>>

InHistory(s) == sending.history[s % HistorySize] = s

ReceiveNack ==
  /\ nack # {} /\ nack' = {}
  /\ flight' = flight \cup {s \in nack : InHistory(s)}
  /\ UNCHANGED <<sending, receiving, decoder, lossesLeft>>

(* _handle_rtp_packet: NACK, jitter buffer, PLI, decoder.  Bound: the next *)
(* packet arrives after the last NACK did, or was lost.                    *)
ReceivePacket(s) ==
  LET r == Counted(receiving, s)
      dropped == Late(r, s) /\ ~Resets(r, s)
      stored == [MadeRoom(r, s) EXCEPT !.slot[s % Capacity] = s]
      released == ~dropped /\ Releases(stored)
      pli == Resets(r, s) \/ Overflows(r, s)
  IN /\ nack = {}
     /\ nack' = IF Missed(receiving, s) THEN r.missing ELSE {}
     /\ flight' = flight \ {s}
     /\ receiving' = IF dropped THEN r
                     ELSE IF released THEN RemoveSlots(stored, Min(Changes(stored)))
                     ELSE stored
     /\ decoder' = IF released THEN [frame |-> FrontFrame(stored), told |-> pli]
                   ELSE [decoder EXCEPT !.told = @ \/ pli]
     /\ UNCHANGED <<sending, lossesLeft>>

LosePacket(s) ==
  /\ lossesLeft > 0 /\ lossesLeft' = lossesLeft - 1
  /\ flight' = flight \ {s}
  /\ UNCHANGED <<sending, nack, receiving, decoder>>

LoseNack ==
  /\ lossesLeft > 0 /\ lossesLeft' = lossesLeft - 1
  /\ nack # {} /\ nack' = {}
  /\ UNCHANGED <<sending, flight, receiving, decoder>>

RtpNext ==
  \/ SendPacket \/ ReceiveNack \/ LoseNack
  \/ \E s \in flight : ReceivePacket(s) \/ LosePacket(s)

(* The track goes on, and the network delivers what it does not lose.      *)
RtpFairness ==
  /\ <>[]MaySend => []<><<SendPacket>>_rtpVars
  /\ <>[](nack # {}) => []<><<ReceiveNack>>_rtpVars
  /\ <>[](flight # {} /\ nack = {}) => []<><<\E s \in flight : ReceivePacket(s)>>_rtpVars

RtpSpec == RtpInit /\ [][RtpNext]_rtpVars /\ RtpFairness

-----------------------------------------------------------------------------
PacketsOf(f) == {s \in Numbers16 : FrameOf[s] = f}

(* No silent gap: the decoder gets the frames of the track one after the   *)
(* other and whole, through loss, reordering, retransmission and the wrap  *)
(* of the numbers, unless a PLI asked for a key frame in between (add,     *)
(* smart_remove, _remove_frame).                                           *)
NoSilentGap ==
  [][decoder'.frame # decoder.frame /\ decoder.frame # <<>> /\ ~decoder'.told /\ ~decoder.told =>
       LET first == Plus(decoder.frame[Len(decoder.frame)], 1)
       IN /\ decoder'.frame[1] = first
          /\ {decoder'.frame[i] : i \in DOMAIN decoder'.frame} = PacketsOf(FrameOf[first])]_rtpVars

(* Whatever was lost, the packets of a frame reach the decoder in order    *)
(* and without a hole, the last one of the frame among them.               *)
FramesHaveNoHole ==
  \A i \in DOMAIN decoder.frame :
    LET s == decoder.frame[i]
    IN IF i < Len(decoder.frame) THEN decoder.frame[i + 1] = Plus(s, 1) /\ FrameOf[Plus(s, 1)] = FrameOf[s]
       ELSE FrameOf[Plus(s, 1)] # FrameOf[s]

(* The picture never freezes for good: as long as the track goes on,       *)
(* frames keep reaching the decoder, whatever was lost before.             *)
NeverFreezes == []<><<decoder'.frame # decoder.frame>>_rtpVars
=============================================================================
