---------------------------- MODULE SctpTransfer ----------------------------
(***************************************************************************)
(* Messages sent over an established SCTP association, one way: the sender *)
(* and the receiver of src/aiortc/rtcsctptransport.py with a network that  *)
(* loses and reorders packets between them.                                *)
(*                                                                         *)
(* Everything happens on an asyncio event loop.  A packet is handled at    *)
(* once, but what the application's send() and the T3 timer want done is   *)
(* put off with ensure_future, and other packets may be handled first.     *)
(***************************************************************************)
EXTENDS SctpSender, SctpReceiver

VARIABLES
  sender,     \* the state of SctpSender
  receiver,   \* the state of SctpReceiver
  net,        \* packets on their way; of equal ones just one
  queued,     \* messages in, or already out of, _data_channel_queue
  tasks,      \* coroutines scheduled but not run: "flush", "transmit"
  expired     \* messages whose lifetime has ended

vars == <<sender, receiver, net, queued, tasks, expired>>

Init ==
  /\ sender = SenderInit
  /\ receiver = ReceiverInit
  /\ net = {}
  /\ queued = 0
  /\ tasks = {}
  /\ expired = {}

(* The sender goes on to state s, what it sent is on its way and packet p, *)
(* if any, has been taken off the network.                                 *)
SenderGoesOn(s, taken) ==
  /\ sender' = [s EXCEPT !.packets = {}]
  /\ net' = (net \ taken) \cup s.packets
  /\ UNCHANGED <<receiver, queued, expired>>

ReceiverGoesOn(r, p) ==
  /\ receiver' = r
  /\ net' = (net \ {p}) \cup {Sack(r)}
  /\ UNCHANGED <<sender, queued, tasks, expired>>

DataChannelSend ==
  /\ queued < Len(Messages)
  /\ queued' = queued + 1
  /\ tasks' = tasks \cup {"flush"}
  /\ UNCHANGED <<sender, receiver, net, expired>>

RunFlush ==
  /\ "flush" \in tasks
  /\ tasks' = tasks \ {"flush"}
  /\ SenderGoesOn(Flush(sender, queued), {})

T3Expires ==
  /\ sender.t3
  /\ tasks' = tasks \cup {"transmit"}
  /\ SenderGoesOn(T3Expired(sender, expired), {})

RunTransmit ==
  /\ "transmit" \in tasks
  /\ tasks' = tasks \ {"transmit"}
  /\ SenderGoesOn(Transmit(sender), {})

(* maxPacketLifeTime has passed since the message was flushed.             *)
LifetimeEnds(m) ==
  /\ Messages[m].timed /\ m <= sender.given /\ m \notin expired
  /\ expired' = expired \cup {m}
  /\ UNCHANGED <<sender, receiver, net, queued, tasks>>

Data(p) ==
  /\ p.type = "data"
  /\ ReceiverGoesOn(ReceiveData(receiver, p.chunk), p)

ForwardTsn(p) ==
  /\ p.type = "forward"
  /\ ReceiverGoesOn(ReceiveForward(receiver, p), p)

SackArrives(p) ==
  /\ p.type = "sack"
  /\ SenderGoesOn(ReceiveSack(sender, p, queued, expired), {p})
  /\ UNCHANGED tasks

Lose(p) ==
  /\ net' = net \ {p}
  /\ UNCHANGED <<sender, receiver, queued, tasks, expired>>

Next ==
  \/ DataChannelSend \/ RunFlush \/ T3Expires \/ RunTransmit
  \/ \E m \in Message : LifetimeEnds(m)
  \/ \E p \in net : Data(p) \/ ForwardTsn(p) \/ SackArrives(p) \/ Lose(p)

(* The event loop and its timers run; what is sent again and again gets    *)
(* through at last: the earliest outstanding chunk, and a SACK that tells  *)
(* all there is to tell.  This is weak fairness of the tasks and the timer *)
(* and strong fairness of the network, written out with what enables each, *)
(* which is quicker to evaluate than ENABLED.                              *)
Earliest == IF sender.sent = <<>> THEN {} ELSE {[type |-> "data", chunk |-> sender.sent[1].chunk]}

Fairness ==
  /\ <>[]("flush" \in tasks) => []<><<RunFlush>>_vars
  /\ <>[]("transmit" \in tasks) => []<><<RunTransmit>>_vars
  /\ <>[](sender.t3) => []<><<T3Expires>>_vars
  /\ []<>(Earliest \cap net # {}) => []<><<\E p \in Earliest \cap net : Data(p)>>_vars
  /\ []<>(Sack(receiver) \in net) => []<><<\E p \in {Sack(receiver)} \cap net : SackArrives(p)>>_vars

Spec == Init /\ [][Next]_vars /\ Fairness

-----------------------------------------------------------------------------
Service == INSTANCE MessageService WITH delivered <- receiver.delivered

(* Whatever the network does to chunks, SACKs and FORWARD TSNs, a channel  *)
(* delivers a message at most once, in order if it is ordered, and leaves  *)
(* out none but a limited one (InboundStream, _mark_received).             *)
ImplementsService == Service!Spec

(* An ordered message of which every fragment is here, and whose turn it   *)
(* is, has been delivered: nothing is left to wait for (pop_messages).     *)
Here(m, x) == \A i \in DOMAIN Messages[m].sizes :
                \E c \in Range(receiver.reassembly[x]) : c.msg = m /\ c.part = i
DeliveredInTurn ==
  \A x \in Stream : \A c \in Range(receiver.reassembly[x]) :
    Ordered(c) /\ c.seq = receiver.expected[x] => ~Here(c.msg, x)

(* The sender forgets a chunk of a reliable message only once the receiver *)
(* has received it, whatever was reported in gap blocks, given up or lost  *)
(* in between (_mark_received, _receive_sack_chunk).                       *)
Kept == Range(sender.outbound) \cup {x.chunk : x \in Range(sender.sent)}
ForgottenOnlyIfReceived ==
  \A m \in 1..sender.given :
    Messages[m].limit = NoLimit /\ ~Messages[m].timed =>
      \A i \in DOMAIN Messages[m].sizes :
        \E c \in Kept \cup receiver.got : c.msg = m /\ c.part = i

(* A sender with anything left to send has its timer running or a          *)
(* transmission scheduled: it never waits for something that will not come.*)
NeverStalled ==
  sender.sent # <<>> \/ sender.outbound # <<>> \/ sender.forward # NoForward
    => sender.t3 \/ "transmit" \in tasks

(* On reliable channels all that is sent is delivered in the end.          *)
AllDelivered ==
  \A m \in Message : m \in Range(receiver.delivered[Messages[m].stream])
EverythingDelivered == queued = Len(Messages) ~> AllDelivered
=============================================================================
