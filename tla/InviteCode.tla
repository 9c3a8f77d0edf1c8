----------------------------- MODULE InviteCode -----------------------------
(***************************************************************************)
(* Invite codes: four words, one per byte, and two bytes in hexadecimal    *)
(* (packages/protocol/src/invite.ts).  A word is the first index at which  *)
(* the list has it.                                                        *)
(***************************************************************************)
EXTENDS Naturals, SequencesExt

CONSTANT Null  \* the decoder's answer to a malformed code

\* 482 entries.  The first 256 are different words, and so are 13 after them;
\* most of the others repeat earlier ones.
PGP_WORD_LIST ==
  [n \in 0 .. 481 |-> CASE n \in 269 .. 272 -> n - 238
                        [] n \in 275 .. 481 -> n - 236
                        [] OTHER -> n]

IndexOf(word) == CHOOSE n \in 0 .. 481 : /\ PGP_WORD_LIST[n] = word
                                         /\ \A i \in 0 .. n - 1 : PGP_WORD_LIST[i] # word

Hex(bytes) == FlattenSeq([n \in DOMAIN bytes |-> <<bytes[n] \div 16, bytes[n] % 16>>])

GenerateInviteCode(wordBytes, nonceBytes) ==
  [words |-> [n \in 1 .. 4 |-> PGP_WORD_LIST[wordBytes[n]]], nonce |-> Hex(nonceBytes)]

DecodeInviteCode(code) ==
  IF Len(code.nonce) # 4 \/ ~(Range(code.words) \subseteq Range(PGP_WORD_LIST)) THEN Null
  ELSE [wordIndices |-> [n \in 1 .. 4 |-> IndexOf(code.words[n])],
        nonceBytes |-> [n \in 1 .. 2 |-> 16 * code.nonce[2 * n - 1] + code.nonce[2 * n]]]

=============================================================================
