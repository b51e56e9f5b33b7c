---------------------------- MODULE MCSupervisor ----------------------------
(* The instances of Supervisor that TLC checks; their constants are in the *)
(* configurations.                                                         *)
EXTENDS Supervisor, TLC

(* Publishers are interchangeable when every id, or none, is in Rtsp.      *)
Symmetry == Permutations(Publisher)
=============================================================================
