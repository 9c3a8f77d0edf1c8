-------------------------- MODULE MCDataDirectory --------------------------
(***************************************************************************)
(* A small instance of DataDirectory for TLC: one code each of two peers,  *)
(* and a third that the user may have typed in.                            *)
(***************************************************************************)
EXTENDS DataDirectory, TLC

CONSTANTS t1, t2, pa, pb, pc, ca, cb

PeerOfCode == (ca :> pa) @@ (cb :> pb)

Terminals == Permutations(Process)

=============================================================================
