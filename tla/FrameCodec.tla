----------------------------- MODULE FrameCodec -----------------------------
(***************************************************************************)
(* Frames of the DataChannels: a length and a CBOR map with integer keys   *)
(* (packages/protocol/src/frame.ts, types.ts).                             *)
(*                                                                         *)
(* CBOR itself (cbor-x) is a bijection between maps and payloads; the      *)
(* length of a payload counts the entries of its map.                      *)
(***************************************************************************)
EXTENDS Naturals, FiniteSets, SequencesExt

CONSTANTS Undefined,  \* a field that is not there
          Rejected    \* the decoder throws

CBOR_KEYS ==
  [type |-> 0, room_id |-> 1, sender_peer_id |-> 2, body |-> 3, kind |-> 4, seq |-> 5,
   sha256 |-> 6, note |-> 7, version |-> 8, capabilities |-> 9, file_id |-> 10,
   name |-> 11, size |-> 12, data |-> 13, reason |-> 14, ts |-> 99]

\* Mutant: the allocation before unique-cbor-keys-not-message-scoped.md.
KeyOfScoped(field) == CASE field = "file_id" -> CBOR_KEYS.sender_peer_id
                        [] field = "seq_num" -> CBOR_KEYS.seq
                        [] OTHER -> CBOR_KEYS[field]

\* seq_num of a chunk travels under the key of seq.
KeyOf(field) == IF field = "seq_num" THEN CBOR_KEYS.seq ELSE CBOR_KEYS[field]

\* The fields of a message, in the order in which they are put into the map.
Layout ==
  [hello |-> <<"type", "version", "capabilities", "ts">>,
   ping |-> <<"type", "ts">>,
   pong |-> <<"type", "ts">>,
   msg |-> <<"type", "room_id", "sender_peer_id", "body", "kind", "seq", "ts">>,
   file_offer |-> <<"type", "room_id", "file_id", "sender_peer_id", "name", "size", "sha256",
                    "note", "seq", "ts">>,
   file_accept |-> <<"type", "room_id", "file_id", "ts">>,
   file_reject |-> <<"type", "room_id", "file_id", "reason", "ts">>,
   file_chunk |-> <<"type", "file_id", "seq_num", "data">>,
   file_done |-> <<"type", "file_id", "ts">>,
   file_abort |-> <<"type", "room_id", "file_id", "reason", "ts">>]

Types == DOMAIN Layout
FieldsOf(type) == Range(Layout[type])

\* An empty note is not sent.
Falsy == {Undefined, ""}

Put(msg, map, field) ==
  IF field = "note" /\ msg.note \in Falsy THEN map
  ELSE [key \in DOMAIN map \union {KeyOf(field)} |->
          IF key = KeyOf(field) THEN msg[field] ELSE map[key]]

MessageToCBORMap(msg) ==
  FoldLeft(LAMBDA map, field : Put(msg, map, field), << >>, Layout[msg.type])

EncodeFrame(msg) ==
  LET map == MessageToCBORMap(msg) IN
  [length |-> Cardinality(DOMAIN map), bytes |-> 4 + Cardinality(DOMAIN map), map |-> map]

\* What a missing entry becomes.
Default(field) == CASE field = "kind" -> "text"
                    [] field = "capabilities" -> "{}"
                    [] OTHER -> Undefined

CborMapToMessage(map) ==
  LET type == map[KeyOf("type")]
      get(field) == IF KeyOf(field) \in DOMAIN map THEN map[KeyOf(field)] ELSE Default(field) IN
  IF type \in Types THEN [field \in FieldsOf(type) |-> get(field)] ELSE Rejected

\* bytes: how much of the frame there is.  What follows the payload is ignored.
DecodeFrame(frame) ==
  IF frame.bytes < 4 \/ frame.bytes < 4 + frame.length THEN Rejected
  ELSE CborMapToMessage(frame.map)

=============================================================================
