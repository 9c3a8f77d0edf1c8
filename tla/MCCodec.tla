------------------------------ MODULE MCCodec ------------------------------
(***************************************************************************)
(* An instance of Codec for TLC, with keys of the real length: constant    *)
(* ones and ones that count in steps, so that every alignment of a byte to *)
(* the groups of five bits occurs with many values.                        *)
(***************************************************************************)
EXTENDS Codec

SomeKeys == {[n \in 1 .. 32 |-> (a * n + b) % 256] : a \in {0, 1, 37, 128}, b \in {0, 1, 31, 255}}

SomeBytes == {0, 1, 31, 32, 165, 255}
SomeCodes == {[wordIndices |-> <<a, b, b, a>>, nonceBytes |-> n] :
                a \in SomeBytes, b \in SomeBytes, n \in [1 .. 2 -> SomeBytes]}

=============================================================================
