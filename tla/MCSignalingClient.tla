---------------------------- MODULE MCSignalingClient ----------------------------
(***************************************************************************)
(* Small instances of SignalingClient for TLC.                             *)
(***************************************************************************)
EXTENDS SignalingClientProperties, TLC

CONSTANTS c1, c2, c3

\* Two calls wait for the same type of response, one for another.
Types3 == (c1 :> "invite_result") @@ (c2 :> "invite_result") @@ (c3 :> "lookup_result")
NoTypes == [c \in {} |-> ""]

=============================================================================
