-------------------------- MODULE RendezvousProperties --------------------------
(***************************************************************************)
(* What makes the rendezvous server correct.                               *)
(***************************************************************************)
EXTENDS Rendezvous

-----------------------------------------------------------------------------
(* Presence: decisions D1 (disconnect-immediate-offline) and D3            *)
(* (reconnect-requires-reregister).                                        *)

\* No ghosts (D1): the connection of a registration has not had its 'close'
\* event and is mapped back to the registered peer, so that its own close
\* will find the registration.  Otherwise lookup would report a peer nobody
\* can reach, for ever.
NoGhost ==
  \A p \in Peer :
    LET s == peer_registrations[p] IN
    s # None => conn[s] # "closed" /\ socket_to_peer[s] = p

\* Only the current connection speaks for a peer (D3, the orphaned socket): a
\* live connection that is mapped to a peer is the one the peer is registered
\* on, whatever was registered, replaced and closed before.
OrphanFailsAuth ==
  \A s \in Socket :
    (Alive(s) /\ Authenticated(s)) => peer_registrations[socket_to_peer[s]] = s

\* A connection that goes away takes no one offline who has registered on
\* another connection since (D3: the new registration replaces the old one).
CloseEvictsOwnOnly ==
  [][\A p \in Peer, s \in Socket :
       (conn[s] # "closed" /\ conn'[s] = "closed" /\ restarts' = restarts
          /\ peer_registrations[p] \notin {None, s})
       => peer_registrations'[p] = peer_registrations[p]]_vars

\* The registry never outgrows limits.max_peers, however re-registrations,
\* replacements and evictions interleave.
WithinCapacity == Cardinality(Online) <= MaxPeers

-----------------------------------------------------------------------------
(* Offline notifications.                                                  *)

\* Nothing waits for a peer that is online: a notification accepted while
\* its target is registered would otherwise stay in the queue until the
\* target happens to register again.
NoBacklogWhileOnline ==
  \A p \in Online : offline_notifications[p] = <<>>

\* Notifications reach a peer's connections in the order the server accepted
\* them and none is written twice, across queueing, direct delivery,
\* replacement of connections and restarts; what is queued is newer than all
\* that was written.
OrderedNoDuplicates ==
  \A p \in Peer :
    LET all == written[p] \o NoteIds(offline_notifications[p]) IN
    \A i, j \in DOMAIN all : i < j => all[i] < all[j]

\* The stored notifications come before register_ok (handleRegister's comment:
\* a client that acts on register_ok must not miss one): on a connection, a
\* notification accepted before a registration never follows its register_ok.
StoredBeforeOk ==
  \A s \in Socket : \A i, j \in DOMAIN outbox[s] :
    (i < j /\ outbox[s][i].type = "register_ok" /\ outbox[s][j].type = "notify_in")
      => outbox[s][j].note > outbox[s][i].after

-----------------------------------------------------------------------------
(* Invites.                                                                *)

\* An invite lives until it is redeemed, has expired or the server restarts:
\* its creator's disconnection, re-registration or eviction does not touch it
\* (D1, D3), and neither does the sweep before its time.
InviteOutlivesConnections ==
  [][\A c \in Code :
       (invite_records[c] # None /\ invite_records'[c] = None) =>
         \/ claims'[c] > claims[c]
         \/ invite_records[c].expires_at <= now
         \/ restarts' # restarts]_vars

-----------------------------------------------------------------------------
(* Refinement.                                                             *)

\* The server implements Directory: a registration is presence, a stored
\* invite record an open code.
Notes == [note : 1..MaxNotes, queued_at : 0..MaxClock]

Dir == INSTANCE Directory
         WITH Note    <- Notes,
              online  <- Online,
              mailbox <- offline_notifications,
              open    <- {c \in Code : invite_records[c] # None}

\* Every step of the server is a step of the directory or changes nothing it
\* sees: mailboxes grow only while their owner is away and are emptied when
\* it arrives, and a code is claimed at most once.
Refinement == Dir!Spec

=============================================================================
