------------------------------- MODULE MCSctp -------------------------------
(* The instances of SctpTransfer that TLC checks.  A channel keeps the     *)
(* settings it was opened with, so all messages of a stream are alike.     *)
EXTENDS SctpTransfer

Reliable(x, sizes) ==
  [stream |-> x, ordered |-> TRUE, limit |-> NoLimit, timed |-> FALSE, sizes |-> sizes]
NeverAgain(x, sizes) == [Reliable(x, sizes) EXCEPT !.limit = 0]
Hasty(x, sizes) == [Reliable(x, sizes) EXCEPT !.ordered = FALSE, !.timed = TRUE]

OneChannel == <<Reliable("a", <<1, 1>>), Reliable("a", <<1>>), Reliable("a", <<1>>)>>

MixedChannels == <<NeverAgain("a", <<1, 1>>), Reliable("b", <<1>>), Hasty("c", <<1>>)>>

TwoChannels == <<Reliable("a", <<1, 1>>), Reliable("b", <<1>>), Reliable("a", <<1>>)>>

SmallChunks ==
  <<Reliable("a", <<1>>), Reliable("a", <<1>>), Reliable("a", <<3>>), Reliable("a", <<1>>)>>
=============================================================================
