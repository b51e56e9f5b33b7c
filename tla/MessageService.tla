--------------------------- MODULE MessageService ---------------------------
(***************************************************************************)
(* What the users of data channels rely on: a channel delivers messages    *)
(* that were sent on it, each at most once; an ordered one delivers them in*)
(* the order they were sent; and only a message whose retransmissions or   *)
(* lifetime are limited is ever left out of that order.                    *)
(***************************************************************************)
EXTENDS Naturals, Sequences, SequencesExt

CONSTANTS Messages, Stream, NoLimit

VARIABLES
  queued,     \* how many messages have been sent
  delivered   \* the messages each channel has delivered, in order

vars == <<queued, delivered>>

Init ==
  /\ queued = 0
  /\ delivered = [x \in Stream |-> <<>>]

Send ==
  /\ queued < Len(Messages)
  /\ queued' = queued + 1
  /\ UNCHANGED delivered

Ordered(x) == {m \in 1..Len(Messages) : Messages[m].stream = x /\ Messages[m].ordered}
Limited(m) == Messages[m].limit # NoLimit \/ Messages[m].timed

(* A channel that has delivered d has done no wrong.                       *)
Proper(x, d) ==
  /\ \A i \in DOMAIN d : Messages[d[i]].stream = x
  /\ \A i, j \in DOMAIN d : i < j => d[i] # d[j]
  /\ \A i \in DOMAIN d : d[i] \in Ordered(x) =>
       \A m \in Ordered(x) :
         /\ m < d[i] /\ ~Limited(m) => \E j \in 1..i - 1 : d[j] = m
         /\ m > d[i] => \A j \in 1..i - 1 : d[j] # m

(* One chunk may end the wait of messages of several channels.             *)
Deliver ==
  /\ delivered' \in [Stream -> Seq(1..queued)]
  /\ \A x \in Stream : IsPrefix(delivered[x], delivered'[x]) /\ Proper(x, delivered'[x])
  /\ UNCHANGED queued

Next == Send \/ Deliver

Spec == Init /\ [][Next]_vars
=============================================================================
