----------------------------- MODULE SctpSender -----------------------------
(***************************************************************************)
(* The sending half of RTCSctpTransport (src/aiortc/rtcsctptransport.py):  *)
(* what its coroutines and its T3 timer do to the queues, to the congestion*)
(* window and to the acknowledged TSNs.                                    *)
(*                                                                         *)
(* The state is one record, and an operator named for a method returns the *)
(* record that method leaves behind; "packets" collects what it gives to   *)
(* the network.  A method runs to its end without letting another run: none*)
(* of its awaits suspends.                                                 *)
(***************************************************************************)
EXTENDS SctpChunks

NoTsn == -1
NoForward == {}

Larger(a, b) == IF a > b THEN a ELSE b
Smaller(a, b) == IF a < b THEN a ELSE b

SenderInit ==
  [ given    |-> 0,            \* messages passed to _send so far
    localTsn |-> InitialTsn,
    ssn      |-> [x \in Stream |-> 0],
    outbound |-> <<>>,         \* chunks not sent yet
    sent     |-> <<>>,         \* chunks sent and not cumulatively acked
    flight   |-> 0,
    cwnd     |-> 3 * Mtu,
    ssthresh |-> Rwnd,
    partial  |-> 0,            \* _partial_bytes_acked
    exit     |-> NoTsn,        \* _fast_recovery_exit
    boost    |-> FALSE,        \* _fast_recovery_transmit
    sacked   |-> Tsn!Plus(InitialTsn, TsnModulo - 1),
    forward  |-> NoForward,    \* {the FORWARD-TSN chunk to be sent}
    t3       |-> FALSE,        \* is T3 running?
    packets  |-> {} ]

-----------------------------------------------------------------------------
(* Sending                                                                 *)

Increase(s, c) == [s EXCEPT !.flight = @ + Size(c)]
Decrease(s, c) == [s EXCEPT !.flight = Larger(0, @ - Size(c))]

SendChunk(s, p) == [s EXCEPT !.packets = @ \cup {p}]

(* _sent_count matters up to one more than the limit.                      *)
CountSent(x) ==
  [x EXCEPT !.count = Smaller(@ + 1, Larger(Messages[x.chunk.msg].limit + 1, 1))]

(* T3 runs while a FORWARD TSN is on its way.                              *)
SendForward(s) ==
  IF s.forward = NoForward THEN s
  ELSE [s EXCEPT !.packets = @ \cup s.forward, !.forward = NoForward, !.t3 = TRUE]

(* Chunk i is sent again, unless that exceeds the window; fast recovery may*)
(* exceed it once.  T3 is restarted for the earliest chunk.                *)
Retransmit(s, i, window) ==
  IF s.sent[i].retransmit /\ (s.boost \/ s.flight < window)
  THEN [SendChunk(Increase(s, s.sent[i].chunk), [type |-> "data", chunk |-> s.sent[i].chunk])
         EXCEPT !.boost = FALSE,
                !.sent[i] = CountSent([@ EXCEPT !.misses = 0, !.retransmit = FALSE]),
                !.t3 = @ \/ i = 1]
  ELSE s

SendNew(s, window) ==
  LET c == Head(s.outbound) IN
  IF s.outbound # <<>> /\ s.flight < window
  THEN [SendChunk(Increase(s, c), [type |-> "data", chunk |-> c])
         EXCEPT !.outbound = Tail(@),
                !.sent = Append(@, [chunk |-> c, acked |-> FALSE, abandoned |-> FALSE,
                                    retransmit |-> FALSE, misses |-> 0, count |-> 1]),
                !.t3 = TRUE]
  ELSE s

(* Once the flight has reached the window nothing more is sent, new chunks *)
(* included: the early return needs no case.                               *)
Transmit(s) ==
  LET burst  == IF s.exit = NoTsn THEN 4 * Mtu ELSE 2 * Mtu
      window == Smaller(s.flight + burst, s.cwnd)
      again  == FoldLeft(LAMBDA t, i : Retransmit(t, i, window), SendForward(s), Positions(s.sent))
  IN FoldLeft(LAMBDA t, i : SendNew(t, window), again, Positions(s.outbound))

(* _send: the message in fragments; T3 will see to them if it is running.  *)
Send(s) ==
  LET m   == s.given + 1
      msg == Messages[m]
      n   == Len(msg.sizes)
      seq == IF msg.ordered THEN s.ssn[msg.stream] ELSE 0
      t   == [s EXCEPT
               !.given = m,
               !.localTsn = Tsn!Plus(@, n),
               !.outbound = @ \o [i \in 1..n |-> [tsn  |-> Tsn!Plus(s.localTsn, i - 1),
                                                  msg  |-> m, part |-> i, seq |-> seq]],
               !.ssn[msg.stream] = IF msg.ordered THEN Ssn!Plus(@, 1) ELSE @]
  IN IF t.t3 THEN t ELSE Transmit(t)

(* _data_channel_flush of an established association with "queued" messages*)
(* handed over by the application.                                         *)
Flush(s, queued) ==
  FoldLeft(LAMBDA t, m : IF t.given < queued /\ t.outbound = <<>> THEN Send(t) ELSE t,
           s, Positions(Messages))

-----------------------------------------------------------------------------
(* Giving up and advancing                                                 *)

(* _maybe_abandon: has chunk x used up its retransmissions or its lifetime?*)
Abandons(x, expired) ==
  \/ x.abandoned
  \/ Messages[x.chunk.msg].limit # NoLimit /\ x.count > Messages[x.chunk.msg].limit
  \/ x.chunk.msg \in expired

(* It takes the rest of its message along, as far as it has been sent.     *)
Abandon(s, i) ==
  IF s.sent[i].abandoned THEN s
  ELSE [s EXCEPT !.sent =
         [j \in DOMAIN @ |-> IF @[j].chunk.msg = @[i].chunk.msg
                             THEN [@[j] EXCEPT !.abandoned = TRUE, !.retransmit = FALSE]
                             ELSE @[j]]]

AbandonOrRetransmit(s, i, expired) ==
  IF Abandons(s.sent[i], expired) THEN Abandon(s, i)
  ELSE [s EXCEPT !.sent[i].retransmit = TRUE]

(* _update_advanced_peer_ack_point: the FORWARD TSN names the last sequence*)
(* number given up on each ordered stream.                                 *)
UpdateAdvancedPeerAckPoint(s) ==
  LET n      == Leading(s.sent, LAMBDA x : x.abandoned)
      gone   == {i \in 1..n : Ordered(s.sent[i].chunk)}
      on(x)  == {i \in gone : StreamOf(s.sent[i].chunk) = x}
      latest(x) == CHOOSE i \in on(x) : \A j \in on(x) : j <= i
  IN IF n = 0 THEN s
     ELSE [s EXCEPT
            !.sent = Drop(@, n),
            !.forward = {[type    |-> "forward",
                          tsn     |-> s.sent[n].chunk.tsn,
                          streams |-> [x \in {y \in Stream : on(y) # {}} |->
                                         s.sent[latest(x)].chunk.seq]]}]

(* A slip in T3Expired: what was in flight is still counted.               *)
StillInFlight(s, expired) ==
  [UpdateAdvancedPeerAckPoint(FoldLeft(LAMBDA t, i : AbandonOrRetransmit(t, i, expired),
                                       [s EXCEPT !.t3 = FALSE], Positions(s.sent)))
    EXCEPT !.exit = NoTsn, !.partial = 0, !.ssthresh = Larger(s.cwnd \div 2, 4 * Mtu),
           !.cwnd = Mtu]

(* _t3_expired, but for the transmission it schedules.                     *)
T3Expired(s, expired) ==
  LET marked == FoldLeft(LAMBDA t, i : AbandonOrRetransmit(t, i, expired),
                         [s EXCEPT !.t3 = FALSE], Positions(s.sent))
  IN [UpdateAdvancedPeerAckPoint(marked) EXCEPT
       !.exit = NoTsn, !.flight = 0, !.partial = 0,
       !.ssthresh = Larger(s.cwnd \div 2, 4 * Mtu),
       !.cwnd = Mtu]

-----------------------------------------------------------------------------
(* _receive_sack_chunk                                                     *)

Unacked(x) == IF x.acked THEN 0 ELSE Size(x.chunk)

(* Handled: how many chunks were acked, the bytes newly acked, the last    *)
(* chunk newly acked by a gap block, and whether a loss was seen.          *)
AckCumulative(s, cum) ==
  LET n == Leading(s.sent, LAMBDA x : Tsn!Gte(cum, x.chunk.tsn))
      bytes == FoldLeft(LAMBDA b, x : b + Unacked(x), 0, SubSeq(s.sent, 1, n))
  IN [s |-> [s EXCEPT !.sent = Drop(@, n), !.flight = Larger(0, @ - bytes), !.sacked = cum],
      done |-> n, bytes |-> bytes, newest |-> cum, loss |-> FALSE]

AckGaps(h, gaps) ==
  LET highest == CHOOSE t \in gaps : \A u \in gaps : u <= t   \* last in the sorted blocks
      n == Leading(h.s.sent, LAMBDA x : ~Tsn!Gt(x.chunk.tsn, highest))
      Ack(g, i) ==
        LET x == g.s.sent[i] IN
        IF x.chunk.tsn \in gaps /\ ~x.acked
        THEN [g EXCEPT !.s = [Decrease(@, x.chunk) EXCEPT !.sent[i].acked = TRUE],
                       !.bytes = @ + Size(x.chunk),
                       !.newest = x.chunk.tsn]
        ELSE g
  IN FoldLeft(Ack, h, [i \in 1..n |-> i])

(* A chunk reported missing for the third time is lost.                    *)
StrikeMissing(h, gaps, expired) ==
  LET n == Leading(h.s.sent, LAMBDA x : ~Tsn!Gt(x.chunk.tsn, h.newest))
      Strike(g, i) ==
        LET x == g.s.sent[i]
            lost == AbandonOrRetransmit([g.s EXCEPT !.sent[i].misses = 0], i, expired)
        IN CASE x.chunk.tsn \in gaps -> g
             [] x.chunk.tsn \notin gaps /\ x.misses < 2 ->
                  [g EXCEPT !.s.sent[i].misses = @ + 1]
             [] OTHER ->
                  [g EXCEPT !.s = [Decrease(lost, x.chunk) EXCEPT !.sent[i].acked = FALSE],
                            !.loss = TRUE]
  IN FoldLeft(Strike, h, [i \in 1..n |-> i])

(* Slow start or congestion avoidance when the window was used up; half of *)
(* it and fast recovery after a loss.                                      *)
AdjustWindow(h, full) ==
  LET s == h.s
      grown ==
        IF ~(h.done > 0 /\ full) THEN s
        ELSE IF s.cwnd <= s.ssthresh THEN [s EXCEPT !.cwnd = @ + Smaller(h.bytes, Mtu)]
        ELSE IF s.partial + h.bytes >= s.cwnd
        THEN [s EXCEPT !.partial = @ + h.bytes - s.cwnd, !.cwnd = @ + Mtu]
        ELSE [s EXCEPT !.partial = @ + h.bytes]
      half == Larger(grown.cwnd \div 2, 4 * Mtu)
  IN IF s.exit # NoTsn
     THEN IF Tsn!Gte(s.sacked, s.exit) THEN [s EXCEPT !.exit = NoTsn] ELSE s
     ELSE IF h.loss
     THEN [grown EXCEPT !.ssthresh = half, !.cwnd = half, !.partial = 0, !.boost = TRUE,
                        !.exit = grown.sent[Len(grown.sent)].chunk.tsn]
     ELSE grown

(* A slip in UpdateT3: cancelled, and not started again.                   *)
StopT3(s, done) == [s EXCEPT !.t3 = s.sent # <<>> /\ @ /\ done = 0]

(* T3 stops when nothing is outstanding and starts again when the earliest *)
(* outstanding chunk was acked.                                            *)
UpdateT3(s, done) ==
  [s EXCEPT !.t3 = s.sent # <<>> /\ (@ \/ done > 0)]

ReceiveSack(s, sack, queued, expired) ==
  LET acked  == AckCumulative(s, sack.tsn)
      struck == IF sack.gaps = {} THEN acked
                ELSE StrikeMissing(AckGaps(acked, sack.gaps), sack.gaps, expired)
      timed  == UpdateT3(AdjustWindow(struck, s.flight >= s.cwnd), struck.done)
  IN IF Tsn!Gt(s.sacked, sack.tsn) THEN s
     ELSE Transmit(Flush(UpdateAdvancedPeerAckPoint(timed), queued))
=============================================================================
