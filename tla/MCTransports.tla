---------------------------- MODULE MCTransports ----------------------------
(***************************************************************************)
(* The instance that TLC checks of the four protocols under a data         *)
(* channel: ICE, TURN, the SCTP association and data channels.  They share *)
(* no variable, so a behaviour is one of a single protocol, that of part,  *)
(* while the others stay as they were at first.                            *)
(***************************************************************************)
EXTENDS IceAgent, TurnClient, SctpAssociation, DataChannels

VARIABLE part

vars == <<part, iceVars, turnVars, assocVars, channelVars>>

Init ==
  /\ part \in {"ice", "turn", "association", "channels"}
  /\ IceInit /\ TurnInit /\ AssocInit /\ ChannelInit
  /\ part # "ice" => \A e \in Agents : ~IsLite(e)

IceStep == part = "ice" /\ IceNext /\ UNCHANGED <<part, turnVars, assocVars, channelVars>>

TurnStep == part = "turn" /\ TurnNext /\ UNCHANGED <<part, iceVars, assocVars, channelVars>>

AssocStep ==
  part = "association" /\ AssocNext /\ UNCHANGED <<part, iceVars, turnVars, channelVars>>

ChannelStep ==
  part = "channels" /\ ChannelNext /\ UNCHANGED <<part, iceVars, turnVars, assocVars>>

Next == IceStep \/ TurnStep \/ AssocStep \/ ChannelStep

Spec == Init /\ [][Next]_vars

-----------------------------------------------------------------------------
(* The values of the constants.                                            *)

(* A path that works both ways, and one of a higher priority that is not   *)
(* signalled to Bob and by which nothing comes back.                       *)
BothPaths == {"p", "q"}
Ranks == [p \in BothPaths |-> IF p = "p" THEN 1 ELSE 2]
OneFoundation == [e \in Agents |-> [p \in BothPaths |-> "host"]]
OneWay == [e \in Agents |-> IF e = Alice THEN BothPaths ELSE {"p"}]
HiddenFromBob == [e \in Agents |-> IF e = Bob THEN {"q"} ELSE {}]

TwoCalls == <<"first", "second">>

NoAgreement == [c \in {} |-> 0]

FirstIsOdd == [c \in Channels |-> IF c = "a" THEN Odd ELSE Even]

-----------------------------------------------------------------------------
(* A promise that a module makes of its fair behaviours is one of those of *)
(* its part, under the fairness that the module states.                    *)

(* IceAgent: both connect() calls succeed when some path works.            *)
IceConnects == part = "ice" /\ IceFairness => BothConnect

(* IceAgent: consent is not kept up for ever when the other end is gone.   *)
IceNoticesLoss == part = "ice" /\ IceFairness => LossNoticed

(* TurnClient: every operation ends, and close() is told.                  *)
TurnOperationsEnd == part = "turn" /\ TurnFairness => EverythingEnds

(* SctpAssociation: no end waits for the other for good.                   *)
AssocWaitsEnd == part = "association" /\ AssocFairness => NobodyWaitsForGood

(* DataChannels: a close completes at both ends.                           *)
ChannelClosesComplete == part = "channels" /\ ChannelFairness => CloseCompletes
=============================================================================
