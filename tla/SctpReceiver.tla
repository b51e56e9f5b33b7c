---------------------------- MODULE SctpReceiver ----------------------------
(***************************************************************************)
(* The receiving half of RTCSctpTransport and its InboundStream            *)
(* (src/aiortc/rtcsctptransport.py): what DATA and FORWARD TSN chunks do to*)
(* the received TSNs and to the reassembly of each stream.  As in          *)
(* SctpSender, an operator returns the record the method leaves behind.    *)
(***************************************************************************)
EXTENDS SctpChunks

ReceiverInit ==
  [ last       |-> Tsn!Plus(InitialTsn, TsnModulo - 1),   \* _last_received_tsn
    misordered |-> {},                        \* received beyond a gap
    reassembly |-> [x \in Stream |-> <<>>],   \* chunks in the order of TSNs
    expected   |-> [x \in Stream |-> 0],      \* InboundStream.sequence_number
    delivered  |-> [x \in Stream |-> <<>>],   \* history: given to the application
    got        |-> {} ]                       \* history: DATA chunks received

(* Advance over TSNs received out of order, which the code sorts as        *)
(* integers and scans up to the first that is not the next one: it does not*)
(* get past the wrap, nor anywhere if one is less than the next.           *)
Consolidate(r) ==
  LET next == Tsn!Plus(r.last, 1)
      n == IF \E t \in r.misordered : t < next THEN 0
           ELSE CHOOSE k \in 0..TsnModulo - next :
                  /\ next + k \notin r.misordered
                  /\ \A i \in 0..k - 1 : next + i \in r.misordered
      last == Tsn!Plus(r.last, n)
  IN [r EXCEPT !.last = last,
               !.misordered = {t \in @ : Tsn!Gt(t, last)}]

(* A slip in Received: TSNs beyond a gap are not remembered.               *)
InSequence(r, tsn) == Tsn!Gte(r.last, tsn)

Received(r, tsn) == Tsn!Gte(r.last, tsn) \/ tsn \in r.misordered

(* A slip in MarkReceived: a TSN beyond a gap covers the gap.              *)
CoverGap(r, tsn) == Consolidate([r EXCEPT !.last = tsn])

MarkReceived(r, tsn) == Consolidate([r EXCEPT !.misordered = @ \cup {tsn}])

-----------------------------------------------------------------------------
(* InboundStream                                                           *)

AddChunk(r, c) ==
  LET x == StreamOf(c)
      n == Leading(r.reassembly[x], LAMBDA d : ~Tsn!Gt(d.tsn, c.tsn))
  IN [r EXCEPT !.reassembly[x] = InsertAt(@, n + 1, c)]

(* pop_messages scans the reassembly queue q.  From the first fragment of a*)
(* message on it takes every whole message as long as the TSNs are         *)
(* consecutive.  What follows a gap is not looked at in an ordered stream; *)
(* in an unordered one the chunk after the gap is skipped and the scan goes*)
(* on.  An ordered message must not be ahead of its turn.                  *)
RunEnd(q, p) ==
  CHOOSE e \in p..Len(q) :
    /\ \A i \in p..e : q[i].tsn = Tsn!Plus(q[p].tsn, i - p)
    /\ e < Len(q) => q[e + 1].tsn # Tsn!Plus(q[e].tsn, 1)

Whole(q, p) ==
  {i \in p..RunEnd(q, p) : \E e \in i..RunEnd(q, p) : LastFrag(q[e])}

(* A slip in InTurn: whatever has come is delivered.                       *)
AnyTurn(c, expected) == TRUE

(* Another: what is in turn has to wait.                                   *)
PastTurn(c, expected) == ~Ssn!Gte(c.seq, expected)

InTurn(c, expected) == ~Ssn!Gt(c.seq, expected)

RunStarts(q, expected) ==
  LET starts[p \in 1..Len(q) + 2] ==
        IF p > Len(q) THEN {}
        ELSE IF Ordered(q[p])
        THEN IF FirstFrag(q[p]) /\ InTurn(q[p], expected) THEN {p} ELSE {}
        ELSE IF FirstFrag(q[p]) THEN {p} \cup starts[RunEnd(q, p) + 2]
        ELSE starts[p + 1]
  IN starts[1]

(* Delivered in the order of the queue; the sequence number moves on with  *)
(* each message that has it, in a run that began with an ordered one.      *)
PopMessages(r, x) ==
  LET q       == r.reassembly[x]
      starts  == RunStarts(q, r.expected[x])
      ordered == {p \in starts : Ordered(q[p])}
      taken(S) == UNION {Whole(q, p) : p \in S}
      Pick(S) == FoldLeft(LAMBDA t, i : IF i \in S THEN Append(t, q[i]) ELSE t, <<>>,
                          Positions(q))
      LastOf(S) == Pick({i \in taken(S) : LastFrag(q[i])})
  IN [r EXCEPT
       !.reassembly[x] = Pick(DOMAIN q \ taken(starts)),
       !.expected[x] = FoldLeft(LAMBDA n, c : IF c.seq = n THEN Ssn!Plus(n, 1) ELSE n,
                                @, LastOf(ordered)),
       !.delivered[x] = @ \o [i \in DOMAIN LastOf(starts) |-> LastOf(starts)[i].msg]]

PruneChunks(q, tsn) == Drop(q, Leading(q, LAMBDA c : Tsn!Gte(tsn, c.tsn)))

-----------------------------------------------------------------------------
(* _receive_data_chunk and _receive_forward_tsn_chunk                      *)

ReceiveData(r, c) ==
  IF Received(r, c.tsn) THEN r
  ELSE PopMessages([AddChunk(MarkReceived(r, c.tsn), c) EXCEPT !.got = @ \cup {c}], StreamOf(c))

(* Each stream named by the chunk goes on after the sequence number given  *)
(* up, and every stream drops what the advanced TSN covers.                *)
ReceiveForward(r, f) ==
  LET ahead == Consolidate([r EXCEPT !.last = f.tsn,
                                     !.misordered = {t \in @ : Tsn!Gt(t, f.tsn)}])
      Skip(x) == IF x \in DOMAIN f.streams
                 THEN PopMessages([ahead EXCEPT !.expected[x] = Ssn!Plus(f.streams[x], 1)], x)
                 ELSE ahead
  IN IF Tsn!Gte(r.last, f.tsn) THEN r
     ELSE [ahead EXCEPT
            !.expected   = [x \in Stream |-> Skip(x).expected[x]],
            !.delivered  = [x \in Stream |-> Skip(x).delivered[x]],
            !.reassembly = [x \in Stream |-> PruneChunks(Skip(x).reassembly[x], ahead.last)]]

Sack(r) == [type |-> "sack", tsn |-> r.last, gaps |-> r.misordered]
=============================================================================
