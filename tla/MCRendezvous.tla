------------------------------ MODULE MCRendezvous ------------------------------
(***************************************************************************)
(* Small instances of Rendezvous for TLC.                                  *)
(***************************************************************************)
EXTENDS RendezvousProperties, TLC

CONSTANTS p1, p2, s1, s2, s3, s4, c1, c2, i1

\* p1 reconnects: it has all connections but one.
Owner3 == (s1 :> p1) @@ (s2 :> p1) @@ (s3 :> p2)
Owner4 == (s1 :> p1) @@ (s2 :> p1) @@ (s3 :> p1) @@ (s4 :> p2)
\* All from one address.
OneIp == [s \in Socket |-> i1]

=============================================================================
