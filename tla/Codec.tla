------------------------------- MODULE Codec -------------------------------
(***************************************************************************)
(* What the protocol encodes, on its way to who decodes it: a peer id or   *)
(* an invite code that a person copies, a frame that a channel delivers.   *)
(***************************************************************************)
EXTENDS Integers, SequencesExt, FiniteSets

CONSTANTS KeyLength,  \* bytes of a public key
          Keys,       \* public keys
          Codes,      \* what invite codes are made of: four bytes, and two
          Rejected, Undefined

ASSUME CodecAssumption ==
  /\ KeyLength \in Nat \ {0}
  /\ Keys \subseteq [1 .. KeyLength -> 0 .. 255]
  /\ Codes \subseteq [wordIndices : [1 .. 4 -> 0 .. 255], nonceBytes : [1 .. 2 -> 0 .. 255]]

Ids == INSTANCE PeerId
Frames == INSTANCE FrameCodec
Invites == INSTANCE InviteCode WITH Null <- Rejected

VARIABLES
  kind,   \* "peer id", "frame" or "code"
  value,  \* what was encoded
  wire,   \* the encoding as it arrives
  change  \* what has happened to it

vars == <<kind, value, wire, change>>

\* A message has a value of its own in every field, so that a field that lands
\* in another is seen; the note may be absent or empty.
Message(t, note, k) == [f \in Frames!FieldsOf(t) |-> CASE f = "type" -> t
                                                       [] f = "note" -> note
                                                       [] f = "kind" -> k
                                                       [] OTHER -> f]

Notes == {Undefined, "", "a note"}
Kinds == {"text", "system"}
Messages == {Message(t, note, k) : t \in Frames!Types, note \in Notes, k \in Kinds}

PeerIdEncoded == kind = "peer id" /\ value \in Keys /\ wire = Ids!EncodePeerId(value)

FrameEncoded == kind = "frame" /\ value \in Messages /\ wire = Frames!EncodeFrame(value)

CodeEncoded == /\ kind = "code" /\ value \in Codes
               /\ wire = Invites!GenerateInviteCode(value.wordIndices, value.nonceBytes)

Encoded == PeerIdEncoded \/ FrameEncoded \/ CodeEncoded

Init == change = "none" /\ Encoded

Changed(how) == change = "none" /\ change' = how /\ UNCHANGED <<kind, value>>

\* One character of a peer id is copied as another.
Substitute ==
  /\ kind = "peer id"
  /\ \E n \in DOMAIN wire.chars, char \in Ids!Char :
       /\ char # wire.chars[n]
       /\ wire' = [wire EXCEPT !.chars[n] = char]
  /\ Changed("character")

\* Two neighbours are exchanged.  A and 7 are the one pair for which the sum
\* stays the same.
Transpose ==
  /\ kind = "peer id"
  /\ \E n \in 1 .. Len(wire.chars) - 1 :
       LET x == wire.chars[n]  y == wire.chars[n + 1] IN
       /\ x # y
       /\ wire' = [wire EXCEPT !.chars = [@ EXCEPT ![n] = y, ![n + 1] = x]]
       /\ Changed(IF {x, y} = {0, 31} THEN "A and 7" ELSE "character")

DropPrefix ==
  /\ kind = "peer id"
  /\ wire' = [wire EXCEPT !.prefix = ""]
  /\ Changed("prefix")

\* The prefix is typed in lower case.
LowerPrefix ==
  /\ kind = "peer id"
  /\ wire' = [wire EXCEPT !.prefix = "pb-"]
  /\ Changed("lowered")

\* The frame is cut short, or something follows it in the buffer.
CutFrame ==
  /\ kind = "frame"
  /\ \E n \in 0 .. wire.bytes - 1 : wire' = [wire EXCEPT !.bytes = n]
  /\ Changed("cut")

PadFrame ==
  /\ kind = "frame"
  /\ wire' = [wire EXCEPT !.bytes = @ + 1]
  /\ Changed("padded")

\* A message type that this version does not have.
NewType ==
  /\ kind = "frame"
  /\ wire' = [wire EXCEPT !.map[0] = "resync_request"]
  /\ Changed("type")

Next == Substitute \/ Transpose \/ DropPrefix \/ LowerPrefix \/ CutFrame \/ PadFrame \/ NewType

Spec == Init /\ [][Next]_vars

-----------------------------------------------------------------------------
Decoded == CASE kind = "peer id" -> Ids!DecodePeerId(wire)
             [] kind = "frame" -> Frames!DecodeFrame(wire)
             [] kind = "code" -> Invites!DecodeInviteCode(wire)

\* An empty note arrives as none; everything else as it was sent.
Arrives == IF kind = "frame" /\ "note" \in DOMAIN value /\ value.note = ""
             THEN [value EXCEPT !.note = Undefined] ELSE value

\* Every key, message and code is decoded to what was encoded (peer-id.ts,
\* frame.ts, invite.ts), though fields share one space of integer keys, the
\* last base32 character has bits that are not the key's, and the word list has
\* words twice.
DecodeInvertsEncode ==
  change \in {"none", "prefix", "padded"} => Decoded = Arrives

\* One wrong character in a peer id, and two neighbours exchanged unless they
\* are A and 7, never give another peer's key: the check character finds them
\* (peer-id-encoding.md).  A prefix in lower case, which is taken for characters,
\* gives no key either.  Part of a frame never gives a message.
ErrorsAreDetected ==
  change \in {"character", "lowered", "cut", "type"} => Decoded = Rejected

=============================================================================
