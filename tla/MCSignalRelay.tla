--------------------------- MODULE MCSignalRelay ---------------------------
(* Bounds for TLC: the first peer renegotiates, the second one interferes. *)
EXTENDS SignalRelay, TLC

CONSTANTS p1, p2

TwoPeers == {p1, p2}
OneAndTwo == p1 :> 2 @@ p2 :> 1
OneEach == p1 :> 1 @@ p2 :> 1
=============================================================================
