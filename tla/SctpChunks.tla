----------------------------- MODULE SctpChunks -----------------------------
(***************************************************************************)
(* Messages and the DATA chunks that carry them, as both halves of         *)
(* RTCSctpTransport (src/aiortc/rtcsctptransport.py) know them.            *)
(***************************************************************************)
EXTENDS Integers, Sequences, SequencesExt

CONSTANTS
  Messages,      \* the messages to send, in order; see SctpAssumption
  Stream,        \* ids of the streams they are sent on
  Mtu,           \* USERDATA_MAX_LENGTH: fragments are up to this long
  Rwnd,          \* the remote advertised_rwnd, the first ssthresh
  TsnModulo,     \* SCTP_TSN_MODULO: 2^32 in the code
  SsnModulo,     \* stream sequence numbers: 2^16 in the code
  InitialTsn     \* random32() in the code

NoLimit == -1

Message == 1..Len(Messages)

ASSUME SctpAssumption ==
  /\ Messages \in Seq([stream  : Stream,
                       ordered : BOOLEAN,
                       limit   : Nat \cup {NoLimit},      \* maxRetransmits
                       timed   : BOOLEAN,                 \* has a maxPacketLifeTime
                       sizes   : Seq(1..Mtu) \ {<<>>}])   \* of its fragments
  /\ \A n \in {TsnModulo, SsnModulo} : n \in Nat \ {0} /\ n % 2 = 0
  /\ InitialTsn \in 0..TsnModulo - 1
  /\ Mtu \in Nat \ {0} /\ Rwnd \in Nat

Tsn == INSTANCE Serial WITH Modulo <- TsnModulo
Ssn == INSTANCE Serial WITH Modulo <- SsnModulo

(* A DATA chunk is a part of a message with its numbers.                   *)
StreamOf(c) == Messages[c.msg].stream
Ordered(c) == Messages[c.msg].ordered
Size(c) == Messages[c.msg].sizes[c.part]
FirstFrag(c) == c.part = 1
LastFrag(c) == c.part = Len(Messages[c.msg].sizes)

(* How many leading elements of a sequence satisfy Test.                   *)
Leading(seq, Test(_)) ==
  CHOOSE n \in 0..Len(seq) :
    /\ \A i \in 1..n : Test(seq[i])
    /\ n < Len(seq) => ~Test(seq[n + 1])

Drop(seq, n) == SubSeq(seq, n + 1, Len(seq))
Positions(seq) == [i \in 1..Len(seq) |-> i]
=============================================================================
