# A model of peer-bridge

peer-bridge connects two peers: each registers with a rendezvous server over a
WebSocket, they find each other there with an invite code, exchange SDP and ICE
through it, and then talk and send files over WebRTC DataChannels. This
directory holds TLA+ models of that program, the TLC instances that check them,
and theorems that TLAPS proves about them. The models are written from the
TypeScript sources; the documents in `.telos/` and the comments are used only
as the statement of what the code should do.

## Inventory

| Component | State | Operations | What is hard | What makes it correct |
| --- | --- | --- | --- | --- |
| Rendezvous server (`packages/rendezvous/src/server.ts`, `state.ts`, `handlers/`) | two maps peer → socket and socket → peer, invite records, offline queues, all in memory | `register`, `lookup`, `invite_create`, `invite_redeem`, `signal`, `notify`; socket `close` and `error`; the sweep; a restart | events of several connections of one peer in any order; an `error` before a `close`; a notification against a registration; writes to a closing socket | no ghost registrations; only the current connection speaks for a peer; stored mail first, in order, once; a code redeemed once |
| Rate limiter (`rate-limit.ts`) | a counter and a window start per address | `check`, with its cleanup | the boundaries of the windows | a bound on every interval; no undeserved refusal |
| Message authentication (`auth.ts`) | none | check of signature and time | - | an unsigned or stale message is refused |
| Signaling client (`packages/core/src/signaling.ts`) | state machine, current socket, reconnect timer, register in flight, FIFO of requests | `connect`, `disconnect`, `lookup`, `inviteCreate`, `inviteRedeem`, handlers of `message` and `close`, timers | `disconnect` against timers and handshakes, losses during a reconnect, responses without request ids | an answer reaches its call; every call settles; no socket after `disconnect` |
| File transfer (`packages/p2p/src/file-sender.ts`, `file-receiver.ts`) | a state machine on each side, promises, the wrapped message callback, the `.part` file | offer, decision, chunks with backpressure, done, abort | awaits against messages; two channels without a common order; files that change; lost sessions | both sides agree on how it ended; nothing hangs; no file left behind |
| Peer session (`peer-session.ts`, `peer-connection-manager.ts`) | state, pending connect promise, two DataChannels | `startOffer`, `waitForConnected`, `fail`, `close`, channel and connection callbacks | callbacks after `fail` or `close`, the connect timeout | the state is final; the promise settles |
| Room session (`room-session.ts`) | `ready` promise, hello timer | hello handshake, `send`, `sendBulkWithBackpressure` | a hello before the session is listened to, no hello at all | both sides ready or both failed |
| Signal relay (`rendezvous-relay.ts`) | candidates buffered until a description is accepted | outbound signing, inbound verification | verification is asynchronous | nothing unverified reaches the session; no candidate before a description |
| Identity, known peers, invite and accept commands (`packages/cli`, `core/src/identity.ts`, `invite.ts`, `known-peers.ts`) | `identity.key`, `identity.pub`, `config.toml`, `known_peers.toml` in one directory | `init` with `--force`, `invite`, `accept` | a kill or a failing disk between any two file operations, commands in two terminals, shared `.tmp` names, redeem before the prompt | no half identity, nothing replaced unasked, no lost entry, trust only after confirmation |
| Frame codec (`packages/protocol/src/frame.ts`, `types.ts`) | none | `encodeFrame`, `decodeFrame` | one space of integer keys for all messages, lengths, defaults | decode inverts encode; part of a frame is no message |
| Peer ids, invite codes (`peer-id.ts`, `protocol/src/invite.ts`) | none | encode, decode, check digit, words | bits that cross bytes, carries, a list with repeated words | decode inverts encode; one wrong character is found |
| CLI shell (`router.ts`, `index.ts`, `config.ts`) | none of its own | arguments, exit codes, `config.toml` | what ends a command, and when | - |
| Wrappers over libsodium, server configuration, health and entry point, WebRTC probe | none that changes | - | - | not modelled: pure I/O, parsing or a library |
| `daemon`, `pi-bridge` | - | - | - | packages without code |

How they interact: the client and the server exchange frames over a WebSocket;
the relay listens to the client's `signal_in` and feeds the peer session; the
room session decodes what the peer session's channels deliver and hands it to
one callback, which the file sender and the file receiver wrap. Everything runs
on one Node.js event loop per process, so a handler is never interrupted except
at an `await`: this is what decides where the actions of the models end. The
commands of the CLI are processes that share a directory, and there every file
operation is an action.

## Modules

| Module | Models |
| --- | --- |
| `Rendezvous` | the server: one action per message handler, per socket event, the sweep and a restart |
| `RendezvousProperties` | its properties, and the mapping to `Directory` |
| `Directory` | what the server promises, without connections: who is online, one mailbox per absent peer, codes that are claimed once |
| `RateLimit`, `RateLimitWindow` | `RateLimiter.check`; the limiter alone with a history of what it granted |
| `SignalingClient`, `SignalingClientProperties` | `RendezvousClient`, its socket, timers and requests, with the server as environment |
| `PeerSession`, `PeerSessionProperties` | two linked `PeerSession`s, the control channel between them and the hello of the `RoomSession` around each |
| `SignalRelay` | the relays that one process puts between its sessions and its client, with their properties |
| `FileTransfer`, `FileTransferProperties` | a `FileSender` and a `FileReceiver` over the channels of a session |
| `DataDirectory` | the commands `init`, `invite` and `accept` in several terminals, over the file system that they share, with their properties |
| `PeerId`, `FrameCodec`, `InviteCode` | the encodings as pure operators |
| `Codec` | what is encoded, damaged on its way and decoded, with the properties of the three encodings |
| `MCRendezvous`, `MCSignalingClient`, `MCSignalRelay`, `MCDataDirectory`, `MCCodec` | values of the constants for TLC |
| `RendezvousProofs`, `RateLimitProofs`, `SignalingClientProofs`, `PeerSessionProofs`, `SignalRelayProofs`, `FileTransferProofs`, `DataDirectoryProofs`, `CodecProofs` | the theorems |

`Rendezvous` instantiates `RateLimit`, so that the counters are part of the
server's state and a call of `Limiter!Check` is part of the invite handlers.
`RendezvousProperties` instantiates `Directory` with the refinement mapping:
the registered peers are `online`, the queues are the mailboxes, the stored
records are the open codes.

### Rendezvous

`peer_registrations`, `socket_to_peer`, `invite_records` and
`offline_notifications` are the maps of `state.ts`; `counters` those of the
limiter. A connection is `idle`, `open`, `closing` (the server has called
`close()`, frames still arrive), `ending` (the other end is gone, the `close`
event is to come) or `closed`. `Sent` models `ws.send`: it writes to an open
connection and is silent on any other. A handler is one action, with its early
returns as guards or as actions of their own (`RefuseRegister`,
`InviteRateLimited`, `Reject`). `Reject` stands for every refusal of the
validation code, which depends on data the model does not have. `written`,
`issued`, `claims`, `lastNote` are history. Every connection is opened by the
client of one peer (`Owner`), as `RendezvousClient` does; a client that
registers two identities on one connection is not in the model. Codes are
hashes of fresh random numbers, so a code is created once.

### RateLimit

`Check` is one call of `RateLimiter.check`, which opens a window, counts or
refuses, and drops the counters whose window is over. `RateLimitWindow` runs it
against a clock: `granted[ip][t]` is the number of requests let through before
`t`, so what an interval saw is a difference of two values. `answer` is the
last call and its result.

### SignalingClient

`state`, `ws`, `explicit`, `attempt`, `timer`, `resolver`, `pending` and
`queue` are fields of `RendezvousClient`. `cycle` tells whether `connect()` or
`_doReconnect()` owns the current socket, which the code tells by its call
stack. All promise continuations run between two macrotasks, so a handler and
the awaits it releases are one action: `SendNext` releases the next call of the
FIFO, `FailRequests` drains it when the socket has closed. `Serve` is a server
that answers in order, `Drop` the end of a connection. The handlers of a socket
are installed after it has opened (signaling.ts:218), hence the socket state
`dead`: a socket that failed to open and whose `close` nobody hears. Listeners
do not call back into the client.

### PeerSession

`state`, `controlDc`, `autoHello`, `helloTimer` and `helloReceived` are fields
of the two classes. `slot` is the call whose callbacks are in `#connectResolve`
and `#connectReject`: a later call overwrites them, and `timer` keeps the
timeouts of all calls. `pc`, `link` and `frames` are the native side. An event
is queued before its callback runs (`link = "queued"`, `pc = "broken"`), so a
`close()` or a `fail()` may come between, which is what makes `OnOpen`
interesting: it asks for no state. `OnOpenThrows` is the same callback when the
hello inside it cannot be sent. `Fail` is called by timers, by `PcFailed`, by
the relay (`SignalRefused`) and by the handshake, and does nothing in a state
that is over. `Described` says when the other end can have a description on its
way; the order of signals is the subject of `SignalRelay`. `startOffer()` is
called once, on a fresh session, as every caller does. The native library
reports a channel as open before it delivers the channel's first message.

### SignalRelay

The state is named by the peer that a session is for. `verifying` holds the
descriptions whose asynchronous verification has started, oldest first;
`remoteDescSet` and `pendingIceCandidates` are the variables of the closure.
`DescriptionIn` is the inbound handler up to the start of the verification,
with every relay of the process called for one frame; `Accept`,
`VerificationFails` and `AcceptThrows` are its continuations; `CandidateIn` and
`CandidateThrows` are the handler for a candidate. A description has a grade:
what the synchronous checks refuse, what verification refuses, and what is
genuine. `SessionFails` (a timer or a native event, a macrotask) waits until
the verifications are done, `Close` (a continuation of the owner) does not.
`crashed` marks an exception that no handler catches.

### FileTransfer

`step` is the `await` in which `send()` or `#startChunking()` is suspended;
what may happen there (a message, a lost session) are other actions. `Continue`
is the head of the chunk loop, `Finish` the code after it, `Catch` its `catch`
block. The file is opened before the `try` (file-sender.ts:217): `OpenFails`
leaves the sender `unopened`, with its promise pending and its callback in
place, and may end its process, which depends on what the host does with an
unhandled rejection. `listener` is what `onRoomMessage` of the session is set to, `original`
the saved callback: `Cleanup` restores it. On the other side `opening`, `part`,
`partPath` and `unlinking` follow the `.part` file through the asynchronous
`createWriteStream`, `unlink` and `rename`. A chunk is its `seq_num` and
whether it is what was hashed; the hash matches when all chunks arrived as
hashed. `buffered` is the channel's `bufferedAmount` in chunks. The disk of the
receiver may fail at any time (`StreamFails`): before `file_done` the `error`
event of the write stream has no listener, so the process ends (`crashed`);
after it the callback of `end()` resolves, and `streamFailed` says that the
`.part` file may be shorter than what was hashed. `Written` is what `Keep` then
renames. There is one transfer between one sender and one receiver, and nobody
else listens to the session.

### DataDirectory

A path names an inode, a rename moves it, and a process that holds a
descriptor (`fd`) writes to its inode whatever it is called by then. `proc` has,
for each terminal, the place of its command (`at`) and the command's variables:
`init` goes `identity` → `open` → `write` → `rename` for `identity.key`, then
for `identity.pub`, then `access` and the same for `config.toml`; `invite` and
`accept` go `identity` → `config` → `server`, and `accept` on to `confirm` →
`alias` → `truncate` → `save`. `Stop` is a kill or a file operation that
rejects, at any of these places. A key is the number of its pair.

`known_peers.toml` is a text: a sequence of sections, each a sequence of the
lines that decide whether it parses and what it says (`peer_id`, `trust`,
`home_rendezvous`; alias and time of addition say nothing here). The parser
takes the last line with a key, a missing `trust` as `tofu`, and refuses the
whole text for a section without `peer_id` or `home_rendezvous` or for another
`trust`. `Cuts` gives what a full disk leaves of a text: it may end after a
line or inside its value. `Overlaid` gives the outcomes of `writeFileSync` on a
file that another process has written since it was truncated: the tail of a
longer text stays, and if it begins inside a section, the lines that are left
of that section join the last one written. `"torn" \in raced` records that an
overlap met a list that was cut short (`WriteKnownPeers` over a text that does
not parse, `WriteFails` over one that is not empty). What ends inside a line
may also take the rest of an old line; that happens only to a torn list, and
those mixtures are not enumerated.

The server is the set of codes that are `open`; an answer may be lost
(`InviteRedeem(p, FALSE)`), and the code is gone nevertheless. The user edits
`config.toml` between commands; `Init` is an empty directory or one that is set
up, with or without an entry typed by hand.

### PeerId, FrameCodec, InviteCode, Codec

A base32 character is its value. `EncodeBase32` and `DecodeBase32` are the two
bit loops, as folds over their accumulators, with 16 of the 32 bits kept (at
most 12 are ever read); `Groups` is the inner loop, which writes what is
complete. `Doubled` is the digit sum of `peer-id.ts:82`.
A frame is its map from integer keys to values and the number of bytes that are
there; CBOR is a library and a bijection, so a payload has one byte per entry.
`Layout` is the order in which `messageToCBORMap` puts the fields (`Put`),
which matters as soon as two fields have one key. `PGP_WORD_LIST` has, for each of the
482 places of the list, the first place that has the same word: `indexOf` finds
that one. `Codec` chooses what is encoded in `Init` (`Keys`, `Codes` and the
length of a key are constants; a message is one of every type, with a value of
its own in every field) and damages it once: a character replaced, two
neighbours exchanged, a prefix dropped or typed in lower case, a frame cut or
followed by something, a type that this version does not know.

## Runs

| Run | Asks | Bounds |
| --- | --- | --- |
| `rate_limit` | does a fixed window bound every interval, and is a refusal deserved? | two addresses, two requests per window of three ticks, six ticks: two full windows and cleanup between |
| `presence` | does authentication follow the connections, and does mail come first, in order and once? | two connections of one peer, one of another, `max_peers` 1, three notifications, one clock tick that expires them, a restart, streams with up to two actions unread: a registration, its replacement, and what is written behind an unread `register_ok` |
| `refinement` | does the server implement `Directory`, without ghosts, and do invites outlive connections? | all message types, two connections of one peer and one of another, a connection that may emit `error`, one code, lifetimes 0 and 1, a restart |
| `client` | do calls settle with their own answers; does the state machine obey `connect` and `disconnect`? | three calls, two of the same response type (a wrong match needs two), two `connect()`s, two reconnects |
| `session` | timers, promises and the handshake, whatever fails or closes and when | two sessions, each with or without the hello, two versions and one that cannot be read, one connect call and one application message each |
| `relay` | what reaches a connection, and is a candidate lost? | two sessions on one client; one peer makes two descriptions (the second may fail a live session) and two candidates (an order to lose), the other one of each |
| `file` | do both ends agree, and does everything settle? | three chunks and a threshold of one: below, at and above the threshold; a chunk lost first, in the middle, last; a file that cannot be opened or read; one failure of the receiver's disk of each kind |
| `data_directory` | do keys, configuration and known peers survive, and who is trusted? | two terminals, which are symmetric, three commands, one code each of two peers, a third peer that is only typed in: an init, an edit and a second init; or three accepts, two of which overlap, over an entry of any of the peers |
| `codec` | does every decoder invert its encoder, and are errors found? | 16 keys of the real length, every single wrong character and every exchange of neighbours, the prefix dropped or in lower case; a message of each type in frames of every length; codes of six byte values, which include words in the repeated part |
| `orphan` | "Subsequent messages on the old socket fail authentication" (reconnect-requires-reregister.md): with an `error` before the `close`, no | four connections |
| `client_stall` | does a reconnect end? Not when its socket does not open | no calls |
| `file_overtaking` | does an intact file arrive? Not if `file_done` overtakes a chunk | two chunks, nothing lost or changed |

The `session` run has one connect call per session; that a later call, which
overwrites the callbacks of an earlier one, leaves the safety properties intact
is proved for any number of calls.

Each component's state has few parts that interact at a time, which is why
small bounds suffice: a replaced connection is affected by its replacement and
by at most one more registration; a response can only be taken by another call
of the same type; the loop of the sender does the same in every round but the
first and the last; what a command finds was left by the one before it, and
two that overlap need at most one more that set the directory up. For the
codecs the carry into the next character or byte depends on at most two
neighbours, whose alignments all occur in a key of 32 bytes. `CHECK_DEADLOCK
FALSE` is everywhere because the systems may stop: bounds are used up,
transfers end, clients are idle. `MaxStream` lets a server action write only
while fewer frames are unread on the connection; what the action writes is
written whole. With 2, as in `presence`, a notification is written while the
`register_ok` before it is unread, and a greeting behind a notification; the
theorem `StoredFirst` has no such bound. The refinement does not look at the
streams, and `refinement` has 1.

### Fairness

- Client: timers fire; an opening socket opens or fails; an event that has
  happened is dispatched; a server that is connected answers. The last is an
  assumption about the server, since a request has no timeout
  (signaling.ts:377). Calls, `disconnect()` and lost connections are never
  forced.
- Peer session: the connect timeouts and the hello timer fire. Nothing is
  assumed of signaling, the native connection or the owner.
- Server, rate limiter, signal relay, data directory, codecs: safety only.
- File transfer: file operations and timers end, and frames arrive at a
  connected session. Nobody has to answer an offer, and a disk need not fail.
  A receiver whose process has ended takes no step; the liveness properties
  about its promise and its `.part` file except it.

## What the code does that its documents do not say

The three violation runs are described above and, with the lines, in
`PROJECT.json`. Further observations made while modelling, which no run checks:

- `NotifyOnline`: `ws.send()` does not throw on a closing socket, so the
  fallback "Socket write failed — queue for later" (notify.ts:49) never runs
  and such a notification is lost.
- rate-limit.ts:1 speaks of a sliding window; the windows are fixed, and up to
  twice the limit fits into less than an hour. `AtMostTwicePerInterval` is the
  bound that does hold.
- `disconnect()` while the first socket opens leaves the client in
  `connecting` (signaling.ts:241), where signaling-client-fsm.md:50 says that
  it always ends in `disconnected`. So does a first open that fails
  (signaling.ts:203, fsm.md:71), after which `connect()` throws
  `invalid_state`. After a register timeout of `connect()` the state stays
  `registering`.
- The `reconnect` event is emitted before the timer is set
  (signaling.ts:627), so a `disconnect()` in its listener cancels nothing.
- The sender's state goes from `failed` to `done` when an abort arrives during
  its last chunk; the promise stays rejected.
- `_reconnectAttempt` is reset only by `connect()`: recoveries add up, and
  after `maxAttempts` of them a loss in `ready` is not followed by a reconnect
  (signaling.ts:617, signaling-client-fsm.md:69).
- The sender's second `#cleanup()` sets the session's callback to null
  (file-sender.ts:310); so it is when an abort is followed by the `catch` of
  the chunk loop.
- The sender resolves and stops listening with `file_done`
  (file-sender.ts:263), so it never hears of a hash mismatch, which
  datachannel-error-protocol.md:64 has both ends report.
- A file that cannot be opened after the accept is an unhandled rejection, and
  `send()` settles only if a `file_abort` still comes (`OpenFails`;
  `SendingEnds` excepts it, and nothing tells the receiver); it stays pending
  when the session is lost while the offer is unanswered. A read error sends no `file_abort`, and the receiver waits.
- A receiver without `onFileOffer` does not settle `waitForDone()`; one whose
  callback throws tells the sender nothing; a `.part` file stays if it is
  deleted before the stream created it or if the accept cannot be sent.

- `ready` "rejected on failure" (room-session.ts:111) stays pending if the
  session ends before the hello is sent: nothing tells the `RoomSession`.
- `waitForConnected()` on a failed session never settles (its timer calls
  `fail()`, which does nothing), `close()` settles no pending call, and a call
  overwritten by a later one keeps its timer, which then fails the session, a
  connected one too.
- `onOpen` makes `connected` of any state (peer-session.ts:392), although
  `failed` is a state without return (peerconnection-lifecycle.md:39). The
  session is not usable then; only its state says otherwise. `RejectedIsDown`
  is what does hold.
- `acceptSignal()` and `acceptCandidate()` may throw on a closed connection,
  outside every `try` (rendezvous-relay.ts:278, 299), where the flush of the
  buffer has one (rendezvous-relay.ts:148). `crashed` is the outcome.
- A description from another peer fails a session with `peer_id_mismatch`, as
  every relay hears every frame: two sessions cannot be negotiated on one
  client at a time. A candidate of another peer is applied, although
  rendezvous-relay.ts:72 says "from the same peer" (rendezvous-relay.ts:293).
- room-session.ts:132 and 150 call `decodeFrame` without a `try`: an unknown
  type throws inside a native callback, where datachannel-error-protocol.md:38
  says to log it and go on.
- file-receiver.ts:125 says that `waitForDone()` resolves "when a complete file
  lands on disk". The hash is that of the chunks in memory: when the disk fails
  after `file_done`, a truncated file is renamed and reported as done
  (file-receiver.ts:304). `SuccessIsMutual` excepts `streamFailed` for this.
  When it fails before, or when the rename does, the process ends.

Commands and files:

- Two inits at once share the names of the `.tmp` files: one may rename what
  the other has just truncated. `identity.key` is then empty, and even
  `init --force` fails, because reading the identity throws before `--force`
  is looked at (init.ts:49).
- An init killed after `identity.pub` leaves a directory without
  `config.toml` that a plain init refuses to complete.
- An `init --force` that is killed after its first rename has already
  destroyed the old identity; it also overwrites an edited `config.toml`, and
  invites printed before it name an identity that is gone.
- `known_peers.toml` is written in place, without a lock (known-peers.ts:138):
  overlapping accepts lose entries, and a kill leaves an empty or a half list.
- When both happen to one list, a peer can become `verified` that nobody
  confirmed: one accept has truncated the file, another loads it as empty,
  confirms Q and truncates it too; the first writes and runs out of space
  between the `peer_id` and the `trust` line of a `tofu` entry; the second
  writes the shorter list with Q over it. The tail that stays begins with the
  `peer_id` of the cut entry, and the parser, for which the last line with a
  key counts, replaces Q's by it and keeps `verified` (known-peers.ts:46-83,
  136-138). `TrustIsEarned` holds for overlaps and for cuts and excepts both
  together (`"torn"`); without the exception TLC finds this behaviour.
- `config.toml` that is edited after init has looked for it (init.ts:75) is
  overwritten by the rename; in the model the user edits only while no init
  runs.
- A `tofu` entry whose fingerprint is confirmed in a later `accept` stays
  `tofu`: the peer is a duplicate, and the code is consumed all the same.
- Input that ends at the prompt ends the process with the code consumed.

Encodings:

- peer-id-encoding.md:61 says that ids are read in either case; the prefix
  `pb-` is not taken off (peer-id.ts:135) and such an id is refused.
  DESIGN.md:114 has a hyphen every 5 characters, the code every 6.
- Of two neighbours that are exchanged, A and 7 are not noticed: the usual gap
  of a Luhn sum. The decoder ignores the four bits of padding.
- The word list has 482 entries, 271 of them different, where its comment says
  256; a code can be read to an index above 255. `parseInt` accepts nonces that
  are not hexadecimal throughout. The encoder uses the first 256 words only,
  which are different, so its own codes are read back as they were.
- An empty note of an offer arrives as no note.

## Proofs

All theorems hold for every value of the constants that satisfies the `ASSUME`
of the module (`ConstantsAssumption`, `LimitAssumption`, `WindowAssumption`,
`ClientAssumption`, `SessionAssumption`, `RelayAssumption`,
`TransferAssumption`, `DirectoryAssumption`, `CodecAssumption`: limits are
positive, as `validateConfig` enforces, the sets are disjoint from the null
values, the terminals are finitely many, what is left of a peer id that is cut
off is no peer id, and keys and codes consist of bytes). They use no bound: the bounds of the guards are
constants like the others. The inductive invariants are worth a run of TLC
after a change of a model, before the proofs: make one an INVARIANT of the
component's configuration, with the module of the proofs instead of that of
the properties.

**Server.** `RegistryInv` is inductive: the types of the two maps, that a
mapping names the owner of the connection (`OwnIdentity`), and `NoGhost`.
Without `OwnIdentity` a close could delete another peer's registration.
`TypesPreserved` adds the stores. `NoBacklog` needs the types only: every
action that registers a peer empties its queue, and only an unregistered
peer's queue grows. `Capacity` is a cardinality argument: `Register` adds one
peer and only below the limit. `OnlyCurrentSpeaks` and `OldCloseIsHarmless`
need `MappedIsCurrent`, stronger than the property: a mapped connection that
has not closed is its peer's current one, authenticated or not. They are
stated for `Faulty = {}`, and the run `orphan` shows why.
`MailOrdered` rests on `MailInv`: for each peer, what was written to its
connections, followed by what waits in its queue, is in the order of
acceptance. The queue must be in it, or nothing is known of the notifications
that a registration hands over; and so must `NoBacklog`, or a notification
written at once could overtake one that waits. `StoredFirst` rests on
`StreamInv`, about the unread frames of a connection: a `register_ok` is older
than everything that waits for its owner, so what comes after it is new.
Both need what `Active` leaves of a queue, a recursive function over the queue.
The library's induction theorems cannot be used (they take an operator), so
`InductionOnSet` states induction for a set of numbers and is proved from the
well-foundedness of `<`; `ActiveSelects` uses it to show that the recursion
defines a function and that its value is the queue without the expired
entries, in order. `ServerTypes` puts the types of the stores, the mail and the
streams together.
`ImplementsDirectory` shows step by step that what the server does to the
registry, the queues and the records is a step of `Directory` or a stutter; it
uses `NoBacklog` (a peer that re-registers has an empty mailbox) and the types.
`InvitesSurvive` is an action property from the same cases.

**Rate limiter.** The invariant is about the counter of one address: it is
exactly what was let through since its window opened, all of it before the
window's end, and the window's length before its start saw at most one
allowance (`CounterExact`); for an address without a counter the same holds of
the present (`ForgottenSafely`), which is why cleanup may drop what it drops.
An interval of one window therefore meets two allowances at most
(`NeverMoreThanTwice`), and a refusal is a full counter in a running window
(`RefusalsDeserved`).

**Client.** `Consistent`, which relates timer, resolver, socket, pending call
and state, is inductive with the types. `DisconnectIsRespected` follows from
one of its conjuncts, `timer => ~explicit`; `LateRegister` needs
`ConnectPending` (while the socket of `connect()` opens or registers, its
promise is open). For the requests the invariant is `WireInv`: every frame of a
request or response on the wire belongs to the pending call and there is at
most one of them, in one of the two directions; `register` and `register_ok`
may be there as well. From it follow `OneInFlight` and `AnswersMatch`.
`RequestsInOrder` needs the queue in its invariant: the calls sent, followed by
those queued, stand in the order in which they were made, none twice. The order
is that of a rank, the place of a call in the history `called`; a new call has
the last one and leaves the others alone (`RankAppend`).

**Peer session.** `SettledCallsHaveNoTimer` is inductive with the types.
`LinkInv` follows a session to `connected`: the channel exists and both ends
are described before the open event, and the hello, its timer and a rejection
come after it. It holds `RejectedIsDown`, which needs it because the open event
is the only thing that leaves `failed`, and it comes once. `WireInv` relates
the two ends over the channel: frames come from an end that is open, a hello
from an end that performs the handshake, and as long as an end has not taken
the hello, the hello is at the head of what is on its way or the connection is
down (`HelloAhead`). `ReadyIsAgreed` and `HelloComesFirst` follow.

**Signal relay.** `RelayInv` has one conjunct for each place a frame can be:
descriptions being verified come from the right peer and passed the synchronous
checks; those applied are genuine; the flag, the buffer and the connection
agree (`BufferFits`, which includes that a flag without a description means
that the session is over); and what arrived is what was applied followed by
what is buffered. The last needs that concatenation is associative, once for
the append and once for the flush.

**File transfer.** Steps of the sender's loop are reduced to three forms (goes
on, fails, ends with `file_done`), those of the receiver to what they do to its
verdict and to the frames. `SenderInv` says that the sender listens only while
`send()` is pending; `MutualInv` that a refusal or an abort is on its way only
from a receiver that has failed for good, and that `file_done` is on its way,
or has been taken, only when the sender's loop is over and reported success or
was aborted. `AbortIsFinal` and `SuccessAgrees` follow. The latter needs that
writing the `.part` file can fail only while the receiver verifies, and stays
failed (`streamFailed` is never reset); `WholeFile` says that otherwise what is
renamed is what was received. `TransferTypes` needs one fact more: the sender
reads only while chunks are left (`LoopInBounds`).

**Data directory.** One inductive invariant holds all four properties, whose
parts need one another. `NoAlias` is the ground: no two names reach one inode,
and a file that is open for writing is not another file of the directory.
Without it a write to a `.tmp` could change `identity.key`. It needs that a new
file gets an inode that nothing has, and that one is always free: the names
and the open files are fewer than the inodes (`FreshInode`, a cardinality
argument for any number of terminals). `Phases` relates the place of a command
to its name and arguments, `KeyTexts` says that `identity.key` and its `.tmp`
are empty or have a key even when inits race. `IdentityInv` follows an init
through its three files: it runs alone unless `raced`, what it is about to
rename is what it wrote, and once past the key the key is its own.
`UnforcedInv` adds that without `--force` an init that saves the key found
none. It is what `OnlyForceReplaces` needs of an init that was killed and run
again. `TrustInv` holds for the lists in memory (`draft`) as well as for the
file, and says that the last entry of a list about to be saved is that of a
confirmed peer. When two saves overlap, the tail of the other list follows, and
the only section that may be mixed of the two is this last one
(`OverlaidText`). It takes the `peer_id` of the other only with the whole rest
of its lines, hence with the `trust` that belongs to it, and its `trust` alone
only for a peer that is confirmed (`OverlaidIsSound`). That needs that the
other list has all its lines after the `peer_id`, which a list that was cut
short need not have: hence `"torn"`. A cut alone leaves sections of the list
and a last one that is refused or says no more than the whole one
(`CutsAreSound`). `StayInv`
says where the peers that were reported are while the file is truncated: in
the one list that is about to be written. For every operation one lemma says
what it does to the names and contents (`OpenTmpContents` to `SaveContents`);
the steps that leave a part alone are dealt with together (`InitsNothing`,
`AcceptsNothing`).

**Encodings.** Nothing is left of a loop that can be evaluated once the length
of a key is a constant, so the proofs follow the loops. A fold is a recursive
function over sets of positions, and what it computes is known only if there is
such a function: `FoldExists` proves that by induction on the largest position
(`InductionOnSet`), and `RunOfFold` turns it into a run, the accumulator after
each element. For base32 the encoder's and the decoder's run go side by side:
`InStep` says, after every byte of the key, that the decoder has read all bytes
before it from the characters written so far, and which bits of this one it
holds while the encoder still has the others (five alignments, `Sync`). `Base32RoundTrip` is its end, with the padding of the last
character. The check character is a sum modulo 32 of addends that are all
below 32, and `Doubled` is a permutation of them: a sum with one addend changed
is another sum (`OneChanged`), and so is one with two neighbours exchanged
unless doubling adds the same to both, which is so for A and 7 alone (`NeighboursExchanged`, and `LastExchanged` for the check character
itself). For frames `MapIs` describes the map as the fields are put into it one
after another; it needs that no message has two fields with one key
(`KeysDiffer`), which fails for the earlier allocation of the keys. For codes,
the first place of a word among those that repeat is found again
(`WordIsFound`). `IInv` adds to the two properties that what has not been
damaged is `Encoded`; `DecodersInvert` and `ErrorsDetected` are the results for
keys of every length, while TLC evaluates chosen keys of 32 bytes.

**Model-checked only.** The liveness properties, which rest on fairness:
`CallsSettle`, `ConnectSettles`, `DisconnectEndsSession`,
`ReconnectEndsIfOpened`, `ConnectCallsSettle`, `HelloSettles`, `SendingEnds`,
`ReceivingEnds`, `PartRemoved` and `WaitSettles`. Every other property of a
passing run is stated by a theorem.

## Not modelled, and the plan

Left out for good: cryptography (a signature is genuine or not, a hash is
equal or not), SDP text, the bytes of CBOR and TOML, logging, prompts and
their wording, the HTTP health endpoint, process signals, the settings of
`config.toml` that no command uses, and the native WebRTC library, of which
only the callbacks that the code installs are actions.

Left out so far, in the order in which it would be added:

1. The composition of `SignalingClient` with `Rendezvous`, the client's
   environment replaced by the server, and of `SignalRelay` with
   `PeerSession`. Each environment was written to allow whatever the component
   does that it stands for; no run checks that it does, and nothing is said of
   both together, for instance that a reconnected client finds its mail.
2. A listener of the `reconnect` event that calls back, a connection that
   registers two identities, and two transfers on one session.
3. Proofs: every safety property of a passing run is a theorem. Theorems about
   the compositions of item 1 would come with them.
