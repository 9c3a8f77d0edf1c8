------------------------------- MODULE Rendezvous -------------------------------
(***************************************************************************)
(* The rendezvous server (packages/rendezvous/src): WebSocket connections, *)
(* the registry of online peers, invite records, offline notifications.    *)
(* Every handler runs to completion on the Node.js event loop, so it is    *)
(* one action; what interleaves are the events of the connections.         *)
(*                                                                         *)
(* A connection goes idle -> open -> (closing | ending) -> closed:         *)
(*   closing  the server called close(); frames of the client still arrive *)
(*   ending   the client closed it, its network failed or its stream broke;*)
(*            no more frames arrive, the 'close' event is still to come    *)
(*   closed   the 'close' event has been handled.                          *)
(* What is written to a connection that is not open is dropped silently,   *)
(* which is what the ws library does.                                      *)
(***************************************************************************)
EXTENDS Naturals, Sequences, FiniteSets

CONSTANTS
  Peer,              \* peer ids
  Socket,            \* connections; a connection is never reused
  Code,              \* hashes of invite codes; each is generated for one invite
  Ip,                \* remote addresses
  None,              \* an absent map entry
  Owner,             \* [Socket -> Peer]: the identity whose client opened it
  IpOf,              \* [Socket -> Ip]
  Faulty,            \* connections that may emit 'error' before 'close'
  Kinds,             \* message types the clients of this instance send
  Lifetimes,         \* expires_at minus now, in invite_create payloads
  MaxPeers,          \* limits.max_peers
  NotifyTTL,         \* limits.offline_notify_ttl_hours
  MaxInvites,        \* limits.max_invites_per_ip_per_hour
  Hour,              \* the window of the rate limiter
  MaxNotes,          \* bound: notifications sent
  MaxClock,          \* bound: the clock
  MaxStream,         \* bound: frames waiting on a connection when one is sent
  MaxRestarts        \* bound: restarts of the server

\* The limits are positive (config.ts, validateConfig).
ASSUME ConstantsAssumption ==
  /\ IsFiniteSet(Peer)
  /\ None \notin Peer \cup Socket \cup [peer : Peer, expires_at : Nat]
  /\ Owner \in [Socket -> Peer] /\ IpOf \in [Socket -> Ip]
  /\ Faulty \subseteq Socket
  /\ Lifetimes \subseteq Nat
  /\ {MaxPeers, NotifyTTL, MaxInvites, Hour} \subseteq Nat \ {0}
  /\ {MaxNotes, MaxClock, MaxStream, MaxRestarts} \subseteq Nat

VARIABLES
  conn,                    \* [Socket -> state of the connection]
  peer_registrations,      \* [Peer -> Socket or None]: the ws of a registration
  socket_to_peer,          \* [Socket -> Peer or None]
  invite_records,          \* [Code -> [peer, expires_at] or None]
  offline_notifications,   \* [Peer -> Seq([note, queued_at])]
  counters,                \* the rate limiter
  now,                     \* Date.now()
  outbox,                  \* [Socket -> Seq(Frame)]: written, not yet read
  lastNote,                \* history: number of notifications accepted
  written,                 \* history: [Peer -> Seq(note)] written to open connections
  issued,                  \* history: codes an invite was stored for
  claims,                  \* history: [Code -> successful redeems]
  restarts                 \* number of restarts

registry == <<peer_registrations, socket_to_peer>>
invites  == <<invite_records, counters, issued, claims>>
mail     == <<offline_notifications, lastNote, written>>
vars     == <<conn, registry, invites, mail, now, outbox, restarts>>

Limiter == INSTANCE RateLimit
             WITH MaxRequests <- MaxInvites, WindowMs <- Hour, NoEntry <- None

-----------------------------------------------------------------------------

ConnState == {"idle", "open", "closing", "ending", "closed"}

Stored == [note : Nat, queued_at : Nat]

\* `after' is history: the notifications accepted when register_ok was written.
Frame ==
  [type : {"register_ok"}, after : Nat] \cup
  [type : {"notify_in"}, note : Nat, queued_at : Nat] \cup
  [type : {"lookup_result"}, found : BOOLEAN] \cup
  [type : {"invite_result"}, peer : Peer \cup {None}] \cup
  [type : {"signal_in"}, from : Peer]

RegisterOk      == [type |-> "register_ok", after |-> lastNote]
NotifyIn(n)     == [type |-> "notify_in", note |-> n.note, queued_at |-> n.queued_at]
LookupResult(q) == [type |-> "lookup_result", found |-> peer_registrations[q] # None]
InviteResult(p) == [type |-> "invite_result", peer |-> p]   \* None: an error
SignalIn(p)     == [type |-> "signal_in", from |-> p]

RegistryTypeOK ==
  /\ conn \in [Socket -> ConnState]
  /\ peer_registrations \in [Peer -> Socket \cup {None}]
  /\ socket_to_peer \in [Socket -> Peer \cup {None}]

StoreTypeOK ==
  /\ invite_records \in [Code -> [peer : Peer, expires_at : Nat] \cup {None}]
  /\ offline_notifications \in [Peer -> Seq(Stored)]
  /\ counters \in [Ip -> Limiter!Entry \cup {None}]
  /\ now \in 0..MaxClock
  /\ lastNote \in 0..MaxNotes
  /\ issued \subseteq Code
  /\ claims \in [Code -> Nat]
  /\ restarts \in Nat

StreamTypeOK ==
  /\ outbox \in [Socket -> Seq(Frame)]
  /\ written \in [Peer -> Seq(Nat)]

TypeOK == RegistryTypeOK /\ StoreTypeOK /\ StreamTypeOK

Init ==
  /\ conn = [s \in Socket |-> "idle"]
  /\ peer_registrations = [p \in Peer |-> None]
  /\ socket_to_peer = [s \in Socket |-> None]
  /\ invite_records = [c \in Code |-> None]
  /\ offline_notifications = [p \in Peer |-> <<>>]
  /\ counters = [ip \in Ip |-> None]
  /\ now = 0
  /\ outbox = [s \in Socket |-> <<>>]
  /\ lastNote = 0
  /\ written = [p \in Peer |-> <<>>]
  /\ issued = {}
  /\ claims = [c \in Code |-> 0]
  /\ restarts = 0

-----------------------------------------------------------------------------
(* Connections.                                                            *)

\* Frames of the client still reach the message handler.
Alive(s) == conn[s] \in {"open", "closing"}

\* ws.send(): dropped, without an exception, unless the connection is open.
Sent(s, frames) ==
  [outbox EXCEPT ![s] = IF conn[s] = "open" THEN @ \o frames ELSE @]

Room(s) == Len(outbox[s]) < MaxStream

Online == {p \in Peer : peer_registrations[p] # None}

Connect(s) ==
  /\ conn[s] = "idle"
  /\ conn' = [conn EXCEPT ![s] = "open"]
  /\ UNCHANGED <<registry, invites, mail, now, outbox, restarts>>

\* The client, or the network, ends the connection.
End(s) ==
  /\ Alive(s)
  /\ conn' = [conn EXCEPT ![s] = "ending"]
  /\ UNCHANGED <<registry, invites, mail, now, outbox, restarts>>

\* What the 'close' and the 'error' handler do: the registration of the peer
\* the connection is mapped to goes, the mapping itself stays.
Evict(s) ==
  peer_registrations' =
    [p \in Peer |-> IF p = socket_to_peer[s] THEN None ELSE peer_registrations[p]]

\* The stream of the connection breaks: 'error' now, 'close' later.
SocketError(s) ==
  /\ s \in Faulty /\ Alive(s)
  /\ conn' = [conn EXCEPT ![s] = "ending"]
  /\ Evict(s)
  /\ UNCHANGED <<socket_to_peer, invites, mail, now, outbox, restarts>>

\* Mutant of SocketClose: the peer's invites go with its connection.
CloseDropsInvites(s) ==
  /\ conn[s] \in {"closing", "ending"}
  /\ conn' = [conn EXCEPT ![s] = "closed"]
  /\ Evict(s)
  /\ invite_records' = [c \in Code |->
                          IF invite_records[c] # None /\ invite_records[c].peer = socket_to_peer[s]
                          THEN None ELSE invite_records[c]]
  /\ outbox' = [outbox EXCEPT ![s] = <<>>]
  /\ UNCHANGED <<socket_to_peer, counters, issued, claims, mail, now, restarts>>

\* The 'close' event.  What the client had not read by then it never reads.
SocketClose(s) ==
  /\ conn[s] \in {"closing", "ending"}
  /\ conn' = [conn EXCEPT ![s] = "closed"]
  /\ Evict(s)
  /\ outbox' = [outbox EXCEPT ![s] = <<>>]
  /\ UNCHANGED <<socket_to_peer, invites, mail, now, restarts>>

\* The client reads the next frame.
Read(s) ==
  /\ outbox[s] # <<>>
  /\ outbox' = [outbox EXCEPT ![s] = Tail(@)]
  /\ UNCHANGED <<conn, registry, invites, mail, now, restarts>>

\* A message that is malformed, unsigned, stale, or sent by a connection that
\* is not registered (or no longer): close(1008).  A client whose clock is
\* off by more than five minutes is refused this way too.
Reject(s) ==
  /\ conn[s] = "open"
  /\ conn' = [conn EXCEPT ![s] = "closing"]
  /\ UNCHANGED <<registry, invites, mail, now, outbox, restarts>>

-----------------------------------------------------------------------------
(* register                                                                *)

Fresh(n) == n.queued_at + NotifyTTL > now

\* The entries that have not expired, in their order: kept[i] of the first i.
Active(queue) ==
  LET kept[i \in 0..Len(queue)] ==
        IF i = 0 THEN <<>>
        ELSE IF Fresh(queue[i]) THEN Append(kept[i - 1], queue[i]) ELSE kept[i - 1]
  IN kept[Len(queue)]

NoteIds(queue) == [i \in DOMAIN queue |-> queue[i].note]

Admitted(p) ==
  peer_registrations[p] = None => Cardinality(Online) < MaxPeers

\* Mutant of Remapped: the new mapping is written before the old is deleted.
RemappedTooEarly(s) ==
  [t \in Socket |-> CASE t = peer_registrations[Owner[s]]                -> None
                      [] t # peer_registrations[Owner[s]] /\ t = s -> Owner[s]
                      [] OTHER                                    -> socket_to_peer[t]]

\* Mutant of Remapped: the replaced connection keeps its mapping.
RemappedKeepingOld(s) == [socket_to_peer EXCEPT ![s] = Owner[s]]

\* The mapping of the replaced connection goes, then s gets its own.
Remapped(s) ==
  [t \in Socket |-> CASE t = s                                           -> Owner[s]
                      [] t # s /\ t = peer_registrations[Owner[s]] -> None
                      [] OTHER                                    -> socket_to_peer[t]]

\* Mutant of Emptied: the stored notifications stay stored.
Undeleted(p) == offline_notifications

Emptied(p) == [offline_notifications EXCEPT ![p] = <<>>]

\* The stored notifications, then register_ok.
Greeting(pending) ==
  Append([i \in DOMAIN pending |-> NotifyIn(pending[i])], RegisterOk)

Register(s) ==
  LET p == Owner[s]
      pending == Active(offline_notifications[p])
  IN
  /\ Alive(s) /\ Room(s)
  /\ Admitted(p)
  /\ socket_to_peer' = Remapped(s)
  /\ peer_registrations' = [peer_registrations EXCEPT ![p] = s]
  /\ offline_notifications' = Emptied(p)
  /\ outbox' = Sent(s, Greeting(pending))
  /\ written' = [written EXCEPT ![p] = IF conn[s] = "open" THEN @ \o NoteIds(pending) ELSE @]
  /\ UNCHANGED <<conn, invites, lastNote, now, restarts>>

\* close(1013, 'Server full')
RefuseRegister(s) ==
  /\ conn[s] = "open"
  /\ ~Admitted(Owner[s])
  /\ conn' = [conn EXCEPT ![s] = "closing"]
  /\ UNCHANGED <<registry, invites, mail, now, outbox, restarts>>

-----------------------------------------------------------------------------
(* The other messages.                                                     *)

\* The connection is mapped to a peer and that peer has a registration: this
\* one's or, if the code let it happen, another connection's.
Authenticated(s) ==
  /\ Alive(s)
  /\ socket_to_peer[s] # None
  /\ peer_registrations[socket_to_peer[s]] # None

Lookup(s, q) ==
  /\ "lookup" \in Kinds
  /\ Authenticated(s) /\ Room(s)
  /\ outbox' = Sent(s, <<LookupResult(q)>>)
  /\ UNCHANGED <<conn, registry, invites, mail, now, restarts>>

\* An invite whose expiry has come is answered with an error.  Codes are fresh
\* random numbers of the client: no record is ever replaced.
InviteCreate(s, c, lifetime) ==
  /\ "invite" \in Kinds
  /\ Authenticated(s) /\ Room(s)
  /\ c \notin issued
  /\ Limiter!Check(IpOf[s], TRUE)
  /\ IF lifetime > 0
     THEN /\ invite_records' = [invite_records EXCEPT
                                  ![c] = [peer |-> Owner[s], expires_at |-> now + lifetime]]
          /\ issued' = issued \cup {c}
          /\ outbox' = Sent(s, <<InviteResult(Owner[s])>>)
     ELSE /\ outbox' = Sent(s, <<InviteResult(None)>>)
          /\ UNCHANGED <<invite_records, issued>>
  /\ UNCHANGED <<conn, registry, mail, now, claims, restarts>>

\* close(1013, 'Rate limited')
InviteRateLimited(s) ==
  /\ "invite" \in Kinds
  /\ Authenticated(s)
  /\ Limiter!Check(IpOf[s], FALSE)
  /\ conn' = [conn EXCEPT ![s] = "closing"]
  /\ UNCHANGED <<registry, invite_records, issued, claims, mail, now, outbox, restarts>>

\* Mutant of Consumed: a redeemed code stays redeemable.
KeptRecord(c) == invite_records

Consumed(c) == [invite_records EXCEPT ![c] = None]

InviteRedeem(s, c) ==
  LET record == invite_records[c]
      found  == record # None /\ record.expires_at > now
  IN
  /\ "invite" \in Kinds
  /\ Authenticated(s) /\ Room(s)
  /\ invite_records' = Consumed(c)
  /\ claims' = IF found THEN [claims EXCEPT ![c] = @ + 1] ELSE claims
  /\ outbox' = Sent(s, <<InviteResult(IF found THEN record.peer ELSE None)>>)
  /\ UNCHANGED <<conn, registry, counters, issued, mail, now, restarts>>

\* Fire and forget: dropped when the target is not registered.
Signal(s, q) ==
  /\ "signal" \in Kinds
  /\ Authenticated(s)
  /\ peer_registrations[q] # None
  /\ Room(peer_registrations[q])
  /\ outbox' = Sent(peer_registrations[q], <<SignalIn(socket_to_peer[s])>>)
  /\ UNCHANGED <<conn, registry, invites, mail, now, restarts>>

NextNote == [note |-> lastNote + 1, queued_at |-> now]

\* Mutant of Queued: the new entry in front.
QueuedInFront(q) == [offline_notifications EXCEPT ![q] = <<NextNote>> \o @]

Queued(q) == [offline_notifications EXCEPT ![q] = Append(@, NextNote)]

Notifies(s) ==
  /\ "notify" \in Kinds
  /\ Authenticated(s)
  /\ lastNote < MaxNotes
  /\ lastNote' = lastNote + 1

\* The target is registered: the notification is written to its connection.
\* send() does not throw, so the handler's fallback to the queue never runs.
NotifyOnline(s, q) ==
  LET target == peer_registrations[q] IN
  /\ Notifies(s)
  /\ target # None
  /\ Room(target)
  /\ outbox' = Sent(target, <<NotifyIn(NextNote)>>)
  /\ written' = [written EXCEPT ![q] =
                   IF conn[target] = "open" THEN Append(@, NextNote.note) ELSE @]
  /\ UNCHANGED <<conn, registry, invites, offline_notifications, now, restarts>>

NotifyOffline(s, q) ==
  /\ Notifies(s)
  /\ peer_registrations[q] = None
  /\ offline_notifications' = Queued(q)
  /\ UNCHANGED <<conn, registry, invites, written, now, outbox, restarts>>

-----------------------------------------------------------------------------
(* Time, and the server's own life.                                        *)

Expired(c) == invite_records[c] # None /\ invite_records[c].expires_at <= now

\* The interval timer.
Sweep ==
  /\ \E c \in Code : Expired(c)
  /\ invite_records' = [c \in Code |-> IF Expired(c) THEN None ELSE invite_records[c]]
  /\ UNCHANGED <<conn, registry, counters, issued, claims, mail, now, outbox, restarts>>

Tick ==
  /\ now < MaxClock
  /\ now' = now + 1
  /\ UNCHANGED <<conn, registry, invites, mail, outbox, restarts>>

\* The process dies or is stopped and starts again: everything is in memory.
Restart ==
  /\ restarts < MaxRestarts
  /\ restarts' = restarts + 1
  /\ conn' = [s \in Socket |-> IF conn[s] = "idle" THEN "idle" ELSE "closed"]
  /\ peer_registrations' = [p \in Peer |-> None]
  /\ socket_to_peer' = [s \in Socket |-> None]
  /\ invite_records' = [c \in Code |-> None]
  /\ offline_notifications' = [p \in Peer |-> <<>>]
  /\ counters' = [ip \in Ip |-> None]
  /\ outbox' = [s \in Socket |-> <<>>]
  /\ UNCHANGED <<lastNote, written, issued, claims, now>>

-----------------------------------------------------------------------------

Request(s) ==
  \/ \E q \in Peer : Lookup(s, q) \/ Signal(s, q)
  \/ \E q \in Peer : NotifyOnline(s, q) \/ NotifyOffline(s, q)
  \/ \E c \in Code, d \in Lifetimes : InviteCreate(s, c, d)
  \/ \E c \in Code : InviteRedeem(s, c)
  \/ InviteRateLimited(s)

Event(s) ==
  \/ Connect(s) \/ End(s) \/ SocketError(s) \/ SocketClose(s) \/ Read(s)
  \/ Reject(s) \/ Register(s) \/ RefuseRegister(s)
  \/ Request(s)

Next ==
  \/ \E s \in Socket : Event(s)
  \/ Sweep \/ Tick \/ Restart

Spec == Init /\ [][Next]_vars

=============================================================================
