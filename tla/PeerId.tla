------------------------------- MODULE PeerId -------------------------------
(***************************************************************************)
(* Peer ids: a public key in base32 with a Luhn mod 32 check character     *)
(* (packages/protocol/src/peer-id.ts).                                     *)
(*                                                                         *)
(* A base32 character is its value, 0 .. 31, in either case.  Hyphens      *)
(* between groups are left out: the decoder drops them wherever they are.  *)
(***************************************************************************)
EXTENDS Integers, SequencesExt

CONSTANTS KeyLength,  \* bytes of a public key; 32 in the code
          Rejected    \* the decoder throws

Char == 0 .. 31
\* The accumulators of the bit loops are 32 bits wide; no more than 12 of the
\* bits are read.  Here 16 are kept.
Low(value) == value % 65536

\* The groups of five bits that are complete, the oldest first.
Groups(value, bits) == [n \in 1 .. bits \div 5 |-> (value \div 2 ^ (bits - 5 * n)) % 32]

\* A byte is shifted in, then every group that is complete is written.
EncodeByte(acc, byte) ==
  LET value == Low(acc.value * 256 + byte)
      bits == acc.bits + 8 IN
  [value |-> value, bits |-> bits % 5, out |-> acc.out \o Groups(value, bits)]

EncodeBase32(bytes) ==
  LET acc == FoldLeft(EncodeByte, [value |-> 0, bits |-> 0, out |-> <<>>], bytes) IN
  IF acc.bits = 0 THEN acc.out ELSE Append(acc.out, (acc.value * 2 ^ (5 - acc.bits)) % 32)

\* The byte above the bits that stay.
ByteAbove(value, bits) == (value \div 2 ^ bits) % 256

DecodeChar(acc, char) ==
  LET value == Low(acc.value * 32 + char)
      bits == acc.bits + 5 IN
  IF bits < 8 THEN [value |-> value, bits |-> bits, out |-> acc.out]
  ELSE [value |-> value, bits |-> bits - 8,
        out |-> Append(acc.out, ByteAbove(value, bits - 8))]

\* Bits that do not make a byte are dropped, whatever they are.
DecodeBase32(chars) == FoldLeft(DecodeChar, [value |-> 0, bits |-> 0, out |-> <<>>], chars).out

\* Mutant: the digit that overflows is dropped.
DoubledMod32(char) == (2 * char) % 32
\* The digits of twice a character, added up: a permutation of Char.
Doubled(char) == (2 * char) \div 32 + ((2 * char) % 32)

\* Every second character is doubled, the last one first.
Addend(chars, n) == IF (Len(chars) - n) % 2 = 0 THEN Doubled(chars[n]) ELSE chars[n]

LuhnMod32Checksum(chars) ==
  LET sum == FoldLeftDomain(LAMBDA total, n : total + Addend(chars, n), 0, chars) IN
  (32 - (sum % 32)) % 32

BodyLength == (8 * KeyLength + 4) \div 5

VerifyLuhnMod32(full) ==
  /\ Len(full) = BodyLength + 1
  /\ LuhnMod32Checksum(Front(full)) = Last(full)

\* What a user types: the prefix, if any, and the characters.  Only "PB-" is
\* taken off, and that before the text is put in upper case: in "pb-" the two
\* letters are characters of the id.
Stripped(text) == (IF text.prefix = "pb-" THEN <<15, 1>> ELSE <<>>) \o text.chars

EncodePeerId(key) ==
  LET body == EncodeBase32(key) IN
  [prefix |-> "PB-", chars |-> Append(body, LuhnMod32Checksum(body))]

DecodePeerId(text) ==
  IF VerifyLuhnMod32(Stripped(text)) THEN DecodeBase32(Front(Stripped(text))) ELSE Rejected

=============================================================================
