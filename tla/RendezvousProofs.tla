---------------------------- MODULE RendezvousProofs ----------------------------
(***************************************************************************)
(* Theorems about the rendezvous server, for every set of peers,           *)
(* connections and codes and every value of the limits.                    *)
(***************************************************************************)
EXTENDS RendezvousProperties, FiniteSetTheorems, WellFoundedInduction, TLAPS

USE ConstantsAssumption

-----------------------------------------------------------------------------
(* The registry.                                                           *)

\* A connection is mapped to nobody or to the identity of its client.
OwnIdentity == \A s \in Socket : socket_to_peer[s] \in {None, Owner[s]}

\* NoGhost is inductive together with the types and OwnIdentity: when the
\* registration of one peer is replaced, the mappings of the other registered
\* peers' connections must survive.
RegistryInv == RegistryTypeOK /\ OwnIdentity /\ NoGhost

LEMMA RegistryInit == Init => RegistryInv
BY DEF Init, RegistryInv, RegistryTypeOK, OwnIdentity, NoGhost, ConnState

LEMMA RegistryRegister ==
  ASSUME RegistryInv, NEW s \in Socket, Register(s)
  PROVE  RegistryInv'
<1> DEFINE p == Owner[s]
<1>1. /\ p \in Peer
      /\ p # None
      /\ conn' = conn
      /\ conn[s] \in {"open", "closing"}
  BY DEF Register, Alive
<1>2. peer_registrations' = [peer_registrations EXCEPT ![p] = s]
  BY DEF Register
<1>3. \A t \in Socket :
        socket_to_peer'[t] = IF t = s THEN p
                             ELSE IF t = peer_registrations[p] THEN None
                             ELSE socket_to_peer[t]
  BY DEF Register, Remapped
<1>4. RegistryTypeOK'
  <2>1. socket_to_peer' \in [Socket -> Peer \cup {None}]
    <3>1. socket_to_peer' = [t \in Socket |-> socket_to_peer'[t]]
      BY DEF Register, Remapped
    <3>2. \A t \in Socket : socket_to_peer'[t] \in Peer \cup {None}
      BY <1>1, <1>3 DEF RegistryInv, RegistryTypeOK
    <3>3. QED
      BY <3>1, <3>2
  <2>2. QED
    BY <1>1, <1>2, <2>1 DEF RegistryInv, RegistryTypeOK
<1>5. OwnIdentity'
  BY <1>3 DEF RegistryInv, OwnIdentity
<1>6. NoGhost'
  <2> SUFFICES ASSUME NEW q \in Peer, peer_registrations'[q] # None
               PROVE  /\ conn'[peer_registrations'[q]] # "closed"
                      /\ socket_to_peer'[peer_registrations'[q]] = q
    BY DEF NoGhost
  <2>1. CASE q = p
    BY <1>1, <1>2, <1>3, <2>1 DEF RegistryInv, RegistryTypeOK
  <2>2. CASE q # p
    <3> DEFINE t == peer_registrations[q]
    <3>1. peer_registrations'[q] = t /\ t \in Socket
      BY <1>2, <2>2 DEF RegistryInv, RegistryTypeOK
    <3>2. conn[t] # "closed" /\ socket_to_peer[t] = q
      BY <3>1 DEF RegistryInv, NoGhost
    <3>3. t # s
      BY <1>1, <2>2, <3>1, <3>2 DEF RegistryInv, OwnIdentity
    <3>4. t # peer_registrations[p]
      BY <1>1, <2>2, <3>1, <3>2 DEF RegistryInv, NoGhost
    <3>5. QED
      BY <1>1, <1>3, <3>1, <3>2, <3>3, <3>4
  <2>3. QED
    BY <2>1, <2>2
<1>7. QED
  BY <1>4, <1>5, <1>6 DEF RegistryInv

\* The two handlers that evict: 'error' and 'close'.
LEMMA RegistryEvict ==
  ASSUME RegistryInv, NEW s \in Socket, SocketError(s) \/ SocketClose(s)
  PROVE  RegistryInv'
<1>1. /\ Evict(s)
      /\ socket_to_peer' = socket_to_peer
      /\ conn' \in [Socket -> ConnState]
      /\ \A t \in Socket \ {s} : conn'[t] = conn[t]
  BY DEF SocketError, SocketClose, RegistryInv, RegistryTypeOK, ConnState
<1>2. \A p \in Peer : peer_registrations'[p] =
                        IF p = socket_to_peer[s] THEN None ELSE peer_registrations[p]
  BY <1>1 DEF Evict
<1>3. RegistryTypeOK'
  BY <1>1 DEF Evict, RegistryInv, RegistryTypeOK
<1>4. OwnIdentity'
  BY <1>1 DEF RegistryInv, OwnIdentity
<1>5. NoGhost'
  <2> SUFFICES ASSUME NEW p \in Peer, peer_registrations'[p] # None
               PROVE  /\ conn'[peer_registrations'[p]] # "closed"
                      /\ socket_to_peer'[peer_registrations'[p]] = p
    BY DEF NoGhost
  <2>1. /\ peer_registrations'[p] = peer_registrations[p]
        /\ p # socket_to_peer[s]
        /\ peer_registrations[p] \in Socket
    BY <1>2 DEF RegistryInv, RegistryTypeOK
  <2>2. /\ conn[peer_registrations[p]] # "closed"
        /\ socket_to_peer[peer_registrations[p]] = p
    BY <2>1 DEF RegistryInv, NoGhost
  <2>3. QED
    BY <1>1, <2>1, <2>2
<1>6. QED
  BY <1>3, <1>4, <1>5 DEF RegistryInv

\* Handlers that leave the registry alone may only move a live connection on
\* to a state before "closed".
LEMMA RegistryKept ==
  ASSUME RegistryInv, UNCHANGED registry, NEW s \in Socket,
         conn' = conn \/ \E c \in {"open", "closing", "ending"} : conn' = [conn EXCEPT ![s] = c]
  PROVE  RegistryInv'
<1>1. /\ peer_registrations' = peer_registrations
      /\ socket_to_peer' = socket_to_peer
  BY DEF registry
<1>2. /\ conn' \in [Socket -> ConnState]
      /\ \A t \in Socket : conn'[t] = "closed" => conn[t] = "closed"
  BY DEF RegistryInv, RegistryTypeOK, ConnState
<1>3. QED
  BY <1>1, <1>2 DEF RegistryInv, RegistryTypeOK, OwnIdentity, NoGhost

LEMMA RegistryEvent ==
  ASSUME RegistryInv, NEW s \in Socket, Event(s)
  PROVE  RegistryInv'
<1>1. CASE Register(s)
  BY <1>1, RegistryRegister
<1>2. CASE SocketError(s) \/ SocketClose(s)
  BY <1>2, RegistryEvict
<1>3. CASE Connect(s) \/ End(s) \/ Read(s) \/ Reject(s) \/ RefuseRegister(s)
  BY <1>3, RegistryKept DEF Connect, End, Read, Reject, RefuseRegister
<1>4. CASE Request(s)
  <2>1. CASE InviteRateLimited(s)
    BY <2>1, RegistryKept DEF InviteRateLimited
  <2>2. CASE \E q \in Peer : Lookup(s, q) \/ Signal(s, q)
    BY <2>2, RegistryKept DEF Lookup, Signal
  <2>3. CASE \E q \in Peer : NotifyOnline(s, q) \/ NotifyOffline(s, q)
    BY <2>3, RegistryKept DEF NotifyOnline, NotifyOffline
  <2>4. CASE \E c \in Code, d \in Lifetimes : InviteCreate(s, c, d)
    BY <2>4, RegistryKept DEF InviteCreate
  <2>5. CASE \E c \in Code : InviteRedeem(s, c)
    BY <2>5, RegistryKept DEF InviteRedeem
  <2>6. QED
    BY <1>4, <2>1, <2>2, <2>3, <2>4, <2>5 DEF Request
<1>5. QED
  BY <1>1, <1>2, <1>3, <1>4 DEF Event

LEMMA RegistryStep == RegistryInv /\ [Next]_vars => RegistryInv'
<1> SUFFICES ASSUME RegistryInv, [Next]_vars
             PROVE  RegistryInv'
  OBVIOUS
<1>1. ASSUME NEW s \in Socket, Event(s)
      PROVE  RegistryInv'
  BY <1>1, RegistryEvent
<1>2. CASE Restart
  BY <1>2 DEF Restart, RegistryInv, RegistryTypeOK, OwnIdentity, NoGhost, ConnState
<1>3. CASE Sweep \/ Tick \/ UNCHANGED vars
  BY <1>3 DEF Sweep, Tick, vars, registry, RegistryInv, RegistryTypeOK, OwnIdentity, NoGhost
<1>4. QED
  BY <1>1, <1>2, <1>3 DEF Next

\* The registry never holds a registration whose connection is gone or would
\* not find it: what lookup reports is, at that moment, somebody's connection.
THEOREM NoGhostAlways == Spec => []NoGhost
<1>1. Spec => []RegistryInv
  BY RegistryInit, RegistryStep, PTL DEF Spec
<1>2. RegistryInv => NoGhost
  BY DEF RegistryInv
<1>3. QED
  BY <1>1, <1>2, PTL

-----------------------------------------------------------------------------
(* Types of what the server keeps in memory; its streams are typed below.  *)

StateTypeOK == RegistryTypeOK /\ StoreTypeOK

LEMMA CheckType ==
  ASSUME counters \in [Ip -> Limiter!Entry \cup {None}], now \in Nat,
         NEW ip \in Ip, NEW allowed \in BOOLEAN, Limiter!Check(ip, allowed)
  PROVE  counters' \in [Ip -> Limiter!Entry \cup {None}]
<1>1. ASSUME NEW swept \in SUBSET Ip, Limiter!OpenWindow(ip, swept)
      PROVE  counters' \in [Ip -> Limiter!Entry \cup {None}]
  <2>1. \A i \in Ip : (CASE i = ip -> [windowStart |-> now, count |-> 1]
                         [] i \in swept -> None
                         [] OTHER -> counters[i]) \in Limiter!Entry \cup {None}
    BY DEF Limiter!Entry
  <2>2. QED
    BY <1>1, <2>1 DEF Limiter!OpenWindow
<1>2. ASSUME ~Limiter!NewWindow(ip),
             counters' = [counters EXCEPT ![ip].count = @ + 1]
      PROVE  counters' \in [Ip -> Limiter!Entry \cup {None}]
  <2>1. counters[ip] \in Limiter!Entry
    BY <1>2 DEF Limiter!NewWindow
  <2>2. [counters[ip] EXCEPT !.count = @ + 1] \in Limiter!Entry
    BY <2>1 DEF Limiter!Entry
  <2>3. QED
    BY <1>2, <2>2
<1>3. QED
  BY <1>1, <1>2 DEF Limiter!Check

LEMMA StoreInit == Init => StoreTypeOK
BY DEF Init, StoreTypeOK

LEMMA StoreEvent ==
  ASSUME RegistryTypeOK, StoreTypeOK, NEW s \in Socket, Event(s)
  PROVE  StoreTypeOK'
<1>0. /\ now \in Nat /\ IpOf[s] \in Ip /\ Owner[s] \in Peer
      /\ counters \in [Ip -> Limiter!Entry \cup {None}]
  BY DEF StoreTypeOK
<1> USE DEF StoreTypeOK
<1>1. CASE Connect(s) \/ End(s) \/ SocketError(s) \/ SocketClose(s) \/ Read(s)
             \/ Reject(s) \/ RefuseRegister(s)
  BY <1>1 DEF Connect, End, SocketError, SocketClose, Read, Reject, RefuseRegister,
              invites, mail
<1>2. CASE Register(s)
  BY <1>2 DEF Register, Emptied, invites
<1>3. CASE \E q \in Peer : Lookup(s, q) \/ Signal(s, q)
  BY <1>3 DEF Lookup, Signal, invites, mail
<1>4. ASSUME NEW q \in Peer, NotifyOnline(s, q) \/ NotifyOffline(s, q)
      PROVE  StoreTypeOK'
  <2>1. NextNote \in Stored /\ lastNote' \in 0..MaxNotes
    BY <1>4 DEF NotifyOnline, NotifyOffline, Notifies, NextNote, Stored
  <2>2. offline_notifications' \in [Peer -> Seq(Stored)]
    <3>1. CASE offline_notifications' = offline_notifications
      BY <3>1
    <3>2. CASE offline_notifications' =
                 [offline_notifications EXCEPT ![q] = Append(@, NextNote)]
      <4>1. Append(offline_notifications[q], NextNote) \in Seq(Stored)
        BY <2>1
      <4>2. QED
        BY <3>2, <4>1
    <3>3. QED
      BY <1>4, <3>1, <3>2 DEF NotifyOnline, NotifyOffline, Queued
  <2>3. QED
    BY <1>4, <2>1, <2>2 DEF NotifyOnline, NotifyOffline, invites
<1>5. ASSUME NEW c \in Code, NEW d \in Lifetimes, InviteCreate(s, c, d)
      PROVE  StoreTypeOK'
  <2>1. counters' \in [Ip -> Limiter!Entry \cup {None}]
    <3>1. Limiter!Check(IpOf[s], TRUE)
      BY <1>5 DEF InviteCreate
    <3> HIDE DEF StoreTypeOK
    <3>2. TRUE \in BOOLEAN /\ FALSE \in BOOLEAN
      OBVIOUS
    <3>3. QED
      BY <1>0, <3>1, <3>2, CheckType
  <2>2. [peer |-> Owner[s], expires_at |-> now + d] \in [peer : Peer, expires_at : Nat]
    <3>1. now + d \in Nat
      BY <1>0
    <3>2. QED
      BY <1>0, <3>1
  <2>3. /\ invite_records' \in [Code -> [peer : Peer, expires_at : Nat] \cup {None}]
        /\ issued' \subseteq Code
    <3>1. CASE d > 0
      <4>1. /\ invite_records' = [invite_records EXCEPT
                  ![c] = [peer |-> Owner[s], expires_at |-> now + d]]
            /\ issued' = issued \cup {c}
        BY <1>5, <3>1 DEF InviteCreate
      <4>2. QED
        BY <2>2, <4>1
    <3>2. CASE ~(d > 0)
      BY <1>5, <3>2 DEF InviteCreate
    <3>3. QED
      BY <3>1, <3>2
  <2>4. QED
    BY <1>5, <2>1, <2>3 DEF InviteCreate, mail
<1>6. CASE InviteRateLimited(s)
  <2>1. counters' \in [Ip -> Limiter!Entry \cup {None}]
    <3>1. Limiter!Check(IpOf[s], FALSE)
      BY <1>6 DEF InviteRateLimited
    <3> HIDE DEF StoreTypeOK
    <3>2. TRUE \in BOOLEAN /\ FALSE \in BOOLEAN
      OBVIOUS
    <3>3. QED
      BY <1>0, <3>1, <3>2, CheckType
  <2>2. QED
    BY <1>6, <2>1 DEF InviteRateLimited, mail
<1>7. ASSUME NEW c \in Code, InviteRedeem(s, c)
      PROVE  StoreTypeOK'
  <2>1. invite_records' = [invite_records EXCEPT ![c] = None]
    BY <1>7 DEF InviteRedeem, Consumed
  <2>2. claims' = claims \/ claims' = [claims EXCEPT ![c] = @ + 1]
    BY <1>7 DEF InviteRedeem
  <2>3. claims' \in [Code -> Nat]
    BY <2>2
  <2>4. QED
    BY <1>7, <2>1, <2>3 DEF InviteRedeem, mail
<1>8. QED
  BY <1>1, <1>2, <1>3, <1>4, <1>5, <1>6, <1>7 DEF Event, Request

LEMMA StoreStep == RegistryTypeOK /\ StoreTypeOK /\ [Next]_vars => StoreTypeOK'
<1> SUFFICES ASSUME RegistryTypeOK, StoreTypeOK, [Next]_vars
             PROVE  StoreTypeOK'
  OBVIOUS
<1>1. ASSUME NEW s \in Socket, Event(s)
      PROVE  StoreTypeOK'
  BY <1>1, StoreEvent
<1>2. CASE Sweep
  BY <1>2 DEF Sweep, StoreTypeOK, mail
<1>3. CASE Tick
  BY <1>3 DEF Tick, StoreTypeOK, invites, mail
<1>4. CASE Restart
  <2>1. \A p \in Peer : <<>> \in Seq(Stored)
    OBVIOUS
  <2>2. QED
    BY <1>4, <2>1 DEF Restart, StoreTypeOK
<1>5. CASE UNCHANGED vars
  BY <1>5 DEF vars, invites, mail, StoreTypeOK
<1>6. QED
  BY <1>1, <1>2, <1>3, <1>4, <1>5 DEF Next

\* Type correctness of everything the server keeps in memory.
THEOREM TypesPreserved == Spec => []StateTypeOK
<1>1. Init => RegistryInv /\ StoreTypeOK
  BY RegistryInit, StoreInit
<1>2. RegistryInv /\ StoreTypeOK /\ [Next]_vars => (RegistryInv /\ StoreTypeOK)'
  BY RegistryStep, StoreStep DEF RegistryInv
<1>3. RegistryInv /\ StoreTypeOK => StateTypeOK
  BY DEF RegistryInv, StateTypeOK
<1>4. QED
  BY <1>1, <1>2, <1>3, PTL DEF Spec

-----------------------------------------------------------------------------
(* The mailboxes and the size of the registry.                             *)

\* Whatever is not one of the four actions below leaves the registry and
\* the queues alone.
LEMMA QuietMail ==
  ASSUME NEW s \in Socket, Event(s),
         ~Register(s), ~SocketError(s), ~SocketClose(s),
         ~ \E q \in Peer : NotifyOffline(s, q)
  PROVE  UNCHANGED <<peer_registrations, offline_notifications>>
<1>1. CASE Connect(s) \/ End(s) \/ Read(s) \/ Reject(s) \/ RefuseRegister(s)
  BY <1>1 DEF Connect, End, Read, Reject, RefuseRegister, registry, mail
<1>2. CASE InviteRateLimited(s)
  BY <1>2 DEF InviteRateLimited, registry, mail
<1>3. CASE \E q \in Peer : Lookup(s, q) \/ Signal(s, q) \/ NotifyOnline(s, q)
  BY <1>3 DEF Lookup, Signal, NotifyOnline, registry, mail
<1>4. CASE \E c \in Code : InviteRedeem(s, c) \/ \E d \in Lifetimes : InviteCreate(s, c, d)
  BY <1>4 DEF InviteCreate, InviteRedeem, registry, mail
<1>5. QED
  BY <1>1, <1>2, <1>3, <1>4 DEF Event, Request

\* What the four of them, and Restart, do to presence and to the queues.
LEMMA OnlineAfterRegister ==
  ASSUME RegistryTypeOK, NEW s \in Socket, Register(s)
  PROVE  /\ Online' = Online \cup {Owner[s]}
         /\ Owner[s] \in Peer
         /\ Owner[s] \in Online \/ Cardinality(Online) < MaxPeers
<1>1. peer_registrations' = [peer_registrations EXCEPT ![Owner[s]] = s] /\ s # None
  BY DEF Register
<1>2. Online' = Online \cup {Owner[s]}
  BY <1>1 DEF RegistryTypeOK, Online
<1>3. QED
  BY <1>2 DEF Register, Admitted, Online

LEMMA OnlineAfterEvict ==
  ASSUME RegistryTypeOK, NEW s \in Socket, SocketError(s) \/ SocketClose(s)
  PROVE  /\ Online' = Online \ {socket_to_peer[s]}
         /\ offline_notifications' = offline_notifications
<1>1. Evict(s)
  BY DEF SocketError, SocketClose
<1>2. Online' = Online \ {socket_to_peer[s]}
  BY <1>1 DEF Evict, Online
<1>3. QED
  BY <1>2 DEF SocketError, SocketClose, mail

LEMMA BacklogStep ==
  StateTypeOK /\ NoBacklogWhileOnline /\ [Next]_vars => NoBacklogWhileOnline'
<1> SUFFICES ASSUME StateTypeOK, NoBacklogWhileOnline, [Next]_vars
             PROVE  NoBacklogWhileOnline'
  OBVIOUS
<1>0. RegistryTypeOK /\ offline_notifications \in [Peer -> Seq(Stored)]
  BY DEF StateTypeOK, StoreTypeOK
<1>1. ASSUME NEW s \in Socket, Event(s)
      PROVE  NoBacklogWhileOnline'
  <2>1. CASE Register(s)
    <3>1. offline_notifications' = [offline_notifications EXCEPT ![Owner[s]] = <<>>]
      BY <2>1 DEF Register, Emptied
    <3>2. Online' = Online \cup {Owner[s]}
      BY <1>0, <2>1, OnlineAfterRegister
    <3>3. QED
      BY <1>0, <3>1, <3>2 DEF NoBacklogWhileOnline, Online
  <2>2. CASE SocketError(s) \/ SocketClose(s)
    BY <1>0, <2>2, OnlineAfterEvict DEF NoBacklogWhileOnline
  <2>3. ASSUME NEW q \in Peer, NotifyOffline(s, q)
        PROVE  NoBacklogWhileOnline'
    <3>1. /\ peer_registrations[q] = None
          /\ peer_registrations' = peer_registrations
          /\ offline_notifications' =
               [offline_notifications EXCEPT ![q] = Append(@, NextNote)]
      BY <2>3 DEF NotifyOffline, Queued, registry
    <3>2. QED
      BY <1>0, <3>1 DEF NoBacklogWhileOnline, Online
  <2>4. CASE /\ ~Register(s) /\ ~SocketError(s) /\ ~SocketClose(s)
             /\ ~ \E q \in Peer : NotifyOffline(s, q)
    BY <1>1, <2>4, QuietMail DEF NoBacklogWhileOnline, Online
  <2>5. QED
    BY <2>1, <2>2, <2>3, <2>4
<1>2. CASE Restart
  BY <1>2 DEF Restart, NoBacklogWhileOnline, Online
<1>3. CASE Sweep \/ Tick \/ UNCHANGED vars
  BY <1>3 DEF Sweep, Tick, vars, registry, mail, NoBacklogWhileOnline, Online
<1>4. QED
  BY <1>1, <1>2, <1>3 DEF Next

\* A peer that is online has nothing waiting: a registration always hands the
\* queue over, and nothing is queued for a registered peer.
THEOREM NoBacklog == Spec => []NoBacklogWhileOnline
<1>1. Init => NoBacklogWhileOnline
  BY DEF Init, NoBacklogWhileOnline, Online
<1>2. QED
  BY <1>1, BacklogStep, TypesPreserved, PTL DEF Spec

LEMMA OnlineFinite == IsFiniteSet(Online)
<1>1. Online \subseteq Peer
  BY DEF Online
<1>2. QED
  BY <1>1, FS_Subset

LEMMA CapacityStep ==
  RegistryTypeOK /\ WithinCapacity /\ [Next]_vars => WithinCapacity'
<1> SUFFICES ASSUME RegistryTypeOK, WithinCapacity, [Next]_vars
             PROVE  Cardinality(Online') <= MaxPeers
  BY DEF WithinCapacity
<1>0. /\ IsFiniteSet(Online) /\ Cardinality(Online) \in Nat
      /\ Cardinality(Online) <= MaxPeers /\ MaxPeers \in Nat
  BY OnlineFinite, FS_CardinalityType DEF WithinCapacity
<1>1. ASSUME NEW s \in Socket, Event(s)
      PROVE  Cardinality(Online') <= MaxPeers
  <2>1. CASE Register(s)
    <3>1. /\ Online' = Online \cup {Owner[s]}
          /\ Owner[s] \in Online \/ Cardinality(Online) < MaxPeers
      BY <2>1, OnlineAfterRegister
    <3>2. CASE Owner[s] \in Online
      <4>1. Online' = Online
        BY <3>1, <3>2
      <4>2. QED
        BY <1>0, <4>1
    <3>3. CASE Owner[s] \notin Online
      <4>1. Cardinality(Online') = Cardinality(Online) + 1
        BY <1>0, <3>1, <3>3, FS_AddElement
      <4>2. QED
        BY <1>0, <3>1, <3>3, <4>1
    <3>4. QED
      BY <3>2, <3>3
  <2>2. CASE SocketError(s) \/ SocketClose(s)
    <3>1. Online' \subseteq Online
      BY <2>2, OnlineAfterEvict
    <3>2. Cardinality(Online') <= Cardinality(Online) /\ Cardinality(Online') \in Nat
      BY <1>0, <3>1, FS_Subset, FS_CardinalityType
    <3>3. QED
      BY <1>0, <3>2
  <2>3. CASE ~Register(s) /\ ~SocketError(s) /\ ~SocketClose(s)
    <3>1. peer_registrations' = peer_registrations
      BY <1>1, <2>3, QuietMail DEF NotifyOffline, registry
    <3>2. Online' = Online
      BY <3>1 DEF Online
    <3>3. QED
      BY <1>0, <3>2
  <2>4. QED
    BY <2>1, <2>2, <2>3
<1>2. CASE Restart
  <2>1. Online' = {}
    BY <1>2 DEF Restart, Online
  <2>2. QED
    BY <1>0, <2>1, FS_EmptySet
<1>3. CASE Sweep \/ Tick \/ UNCHANGED vars
  <2>1. Online' = Online
    BY <1>3 DEF Sweep, Tick, vars, registry, Online
  <2>2. QED
    BY <1>0, <2>1
<1>4. QED
  BY <1>1, <1>2, <1>3 DEF Next

\* The registry stays within limits.max_peers, for every limit.
THEOREM Capacity == Spec => []WithinCapacity
<1>1. Init => WithinCapacity
  <2>1. Init => Online = {}
    BY DEF Init, Online
  <2>2. QED
    BY <2>1, FS_EmptySet DEF WithinCapacity
<1>2. StateTypeOK => RegistryTypeOK
  BY DEF StateTypeOK
<1>3. QED
  BY <1>1, <1>2, CapacityStep, TypesPreserved, PTL DEF Spec

-----------------------------------------------------------------------------
(* Who speaks for a peer.  The two results need connections that only      *)
(* close: after an 'error' a mapping outlives its registration.            *)

\* Strengthening of OrphanFailsAuth: a mapped connection that has not closed
\* is the one its peer is registered on.
MappedIsCurrent ==
  \A s \in Socket :
    (socket_to_peer[s] # None /\ conn[s] # "closed")
      => peer_registrations[socket_to_peer[s]] = s

SpeakerInv == RegistryInv /\ MappedIsCurrent

LEMMA SpeakerInit == Init => SpeakerInv
BY RegistryInit DEF Init, SpeakerInv, MappedIsCurrent

LEMMA SpeakerRegister ==
  ASSUME SpeakerInv, NEW s \in Socket, Register(s)
  PROVE  MappedIsCurrent'
<1> DEFINE p == Owner[s]
<1>1. /\ p \in Peer
      /\ conn' = conn
      /\ peer_registrations' = [peer_registrations EXCEPT ![p] = s]
  BY DEF Register
<1>2. \A t \in Socket :
        socket_to_peer'[t] = IF t = s THEN p
                             ELSE IF t = peer_registrations[p] THEN None
                             ELSE socket_to_peer[t]
  BY DEF Register, Remapped
<1> SUFFICES ASSUME NEW t \in Socket, socket_to_peer'[t] # None, conn'[t] # "closed"
             PROVE  peer_registrations'[socket_to_peer'[t]] = t
  BY DEF MappedIsCurrent
<1>3. CASE t = s
  BY <1>1, <1>2, <1>3 DEF SpeakerInv, RegistryInv, RegistryTypeOK
<1>4. CASE t # s
  <2>1. socket_to_peer'[t] = socket_to_peer[t] /\ t # peer_registrations[p]
    BY <1>2, <1>4
  <2>2. peer_registrations[socket_to_peer[t]] = t
    BY <1>1, <2>1 DEF SpeakerInv, MappedIsCurrent
  <2>3. socket_to_peer[t] # p
    BY <2>1, <2>2
  <2>4. QED
    BY <1>1, <2>1, <2>2, <2>3 DEF SpeakerInv, RegistryInv, RegistryTypeOK
<1>5. QED
  BY <1>3, <1>4

LEMMA SpeakerClose ==
  ASSUME SpeakerInv, NEW s \in Socket, SocketClose(s)
  PROVE  MappedIsCurrent'
<1>1. /\ Evict(s)
      /\ socket_to_peer' = socket_to_peer
      /\ conn' = [conn EXCEPT ![s] = "closed"]
      /\ conn[s] # "closed"
  BY DEF SocketClose
<1> SUFFICES ASSUME NEW t \in Socket, socket_to_peer[t] # None, conn'[t] # "closed"
             PROVE  peer_registrations'[socket_to_peer[t]] = t
  BY <1>1 DEF MappedIsCurrent
<1>2. t # s /\ conn[t] # "closed"
  BY <1>1 DEF SpeakerInv, RegistryInv, RegistryTypeOK
<1>3. peer_registrations[socket_to_peer[t]] = t
  BY <1>2 DEF SpeakerInv, MappedIsCurrent
<1>4. socket_to_peer[t] # socket_to_peer[s]
  BY <1>1, <1>2, <1>3 DEF SpeakerInv, MappedIsCurrent
<1>5. QED
  BY <1>1, <1>3, <1>4 DEF Evict, SpeakerInv, RegistryInv, RegistryTypeOK

\* Apart from Register, SocketError and SocketClose, an event leaves the
\* registry alone and no closed connection is revived.
LEMMA QuietEvent ==
  ASSUME RegistryInv, NEW s \in Socket, Event(s),
         ~Register(s), ~SocketError(s), ~SocketClose(s)
  PROVE  /\ UNCHANGED registry
         /\ restarts' = restarts
         /\ \A t \in Socket : conn'[t] = "closed" <=> conn[t] = "closed"
<1>1. CASE Connect(s) \/ End(s) \/ Read(s) \/ Reject(s) \/ RefuseRegister(s)
  BY <1>1 DEF Connect, End, Read, Reject, RefuseRegister, Alive, RegistryInv, RegistryTypeOK
<1>2. CASE InviteRateLimited(s)
  BY <1>2 DEF InviteRateLimited, Authenticated, Alive, RegistryInv, RegistryTypeOK
<1>3. CASE \E q \in Peer : Lookup(s, q) \/ Signal(s, q) \/ NotifyOnline(s, q) \/ NotifyOffline(s, q)
  BY <1>3 DEF Lookup, Signal, NotifyOnline, NotifyOffline
<1>4. CASE \E c \in Code : InviteRedeem(s, c) \/ \E d \in Lifetimes : InviteCreate(s, c, d)
  BY <1>4 DEF InviteCreate, InviteRedeem
<1>5. QED
  BY <1>1, <1>2, <1>3, <1>4 DEF Event, Request

LEMMA SpeakerStep ==
  ASSUME Faulty = {}
  PROVE  SpeakerInv /\ [Next]_vars => SpeakerInv'
<1> SUFFICES ASSUME SpeakerInv, [Next]_vars
             PROVE  MappedIsCurrent'
  BY RegistryStep DEF SpeakerInv
<1>1. ASSUME NEW s \in Socket, Event(s)
      PROVE  MappedIsCurrent'
  <2>1. CASE Register(s)
    BY <2>1, SpeakerRegister
  <2>2. CASE SocketClose(s)
    BY <2>2, SpeakerClose
  <2>3. ~SocketError(s)
    BY DEF SocketError
  <2>4. CASE ~Register(s) /\ ~SocketClose(s)
    BY <1>1, <2>3, <2>4, QuietEvent DEF SpeakerInv, MappedIsCurrent, registry
  <2>5. QED
    BY <2>1, <2>2, <2>4
<1>2. CASE Restart
  BY <1>2 DEF Restart, MappedIsCurrent
<1>3. CASE Sweep \/ Tick \/ UNCHANGED vars
  BY <1>3 DEF Sweep, Tick, vars, registry, SpeakerInv, MappedIsCurrent
<1>4. QED
  BY <1>1, <1>2, <1>3 DEF Next

\* When no connection breaks with an 'error', requests are only ever served
\* for the connection the peer is currently registered on.
THEOREM OnlyCurrentSpeaks == Faulty = {} => (Spec => []OrphanFailsAuth)
<1> SUFFICES ASSUME Faulty = {}
             PROVE  Spec => []OrphanFailsAuth
  OBVIOUS
<1>1. Spec => []SpeakerInv
  BY SpeakerInit, SpeakerStep, PTL DEF Spec
<1>2. SpeakerInv => OrphanFailsAuth
  BY DEF SpeakerInv, MappedIsCurrent, OrphanFailsAuth, Authenticated, Alive
<1>3. QED
  BY <1>1, <1>2, PTL

\* Under the same condition the close of a replaced connection never evicts
\* the registration that replaced it.
THEOREM OldCloseIsHarmless == Faulty = {} => (Spec => CloseEvictsOwnOnly)
<1> SUFFICES ASSUME Faulty = {}
             PROVE  Spec => CloseEvictsOwnOnly
  OBVIOUS
<1> DEFINE Step ==
      \A p \in Peer, s \in Socket :
        (conn[s] # "closed" /\ conn'[s] = "closed" /\ restarts' = restarts
           /\ peer_registrations[p] \notin {None, s})
        => peer_registrations'[p] = peer_registrations[p]
<1>1. SpeakerInv /\ StateTypeOK /\ [Next]_vars => [Step]_vars
  <2> SUFFICES ASSUME SpeakerInv, StateTypeOK, Next,
                      NEW p \in Peer, NEW s \in Socket,
                      conn[s] # "closed", conn'[s] = "closed", restarts' = restarts,
                      peer_registrations[p] \notin {None, s}
               PROVE  peer_registrations'[p] = peer_registrations[p]
    BY DEF vars
  <2>1. ASSUME NEW t \in Socket, Event(t)
        PROVE  peer_registrations'[p] = peer_registrations[p]
    <3>1. CASE SocketClose(t)
      <4>1. t = s
        BY <3>1 DEF SocketClose, SpeakerInv, RegistryInv, RegistryTypeOK
      <4>2. p # socket_to_peer[s]
        BY <4>1 DEF SpeakerInv, MappedIsCurrent, RegistryInv, RegistryTypeOK
      <4>3. QED
        BY <3>1, <4>1, <4>2 DEF SocketClose, Evict
    <3>2. CASE Register(t)
      BY <3>2 DEF Register
    <3>3. ~SocketError(t)
      BY DEF SocketError
    <3>4. CASE ~SocketClose(t) /\ ~Register(t)
      BY <2>1, <3>3, <3>4, QuietEvent DEF SpeakerInv
    <3>5. QED
      BY <3>1, <3>2, <3>4
  <2>2. CASE Restart
    <3>1. restarts' = restarts + 1 /\ restarts \in Nat
      BY <2>2 DEF Restart, StateTypeOK, StoreTypeOK
    <3>2. QED
      BY <3>1
  <2>3. CASE Sweep \/ Tick
    BY <2>3 DEF Sweep, Tick, registry
  <2>4. QED
    BY <2>1, <2>2, <2>3 DEF Next
<1>2. Spec => []SpeakerInv
  BY SpeakerInit, SpeakerStep, PTL DEF Spec
<1>3. Spec => [][Step]_vars
  BY <1>1, <1>2, TypesPreserved, PTL DEF Spec
<1>4. QED
  BY <1>3 DEF CloseEvictsOwnOnly

-----------------------------------------------------------------------------
(* What is left of a queue when its owner registers.  Active is defined by *)
(* recursion over the queue: that the recursion defines a function, and    *)
(* what that function returns, is proved by induction over its length.     *)
(* From here on the assumption on the constants is cited where it is used. *)

HIDE ConstantsAssumption

\* Induction over the naturals, in terms of a set.
LEMMA InductionOnSet ==
  ASSUME NEW S, 0 \in S, \A n \in Nat : n \in S => n + 1 \in S
  PROVE  Nat \subseteq S
<1> DEFINE T == Nat \ S
           R == OpToRel(<, Nat)
<1>1. SUFFICES ASSUME T # {} PROVE FALSE
  OBVIOUS
<1>2. PICK m \in T : \A n \in T : ~(<<n, m>> \in R)
  <2>1. IsWellFoundedOn(R, Nat)
    BY NatLessThanWellFounded
  <2>2. T \subseteq Nat
    OBVIOUS
  <2> HIDE DEF T, R
  <2>3. QED
    BY <1>1, <2>1, <2>2, WFMin
<1>3. m # 0 /\ m - 1 \in Nat
  OBVIOUS
<1>4. m - 1 \in T
  OBVIOUS
<1>5. <<m - 1, m>> \in R
  BY <1>3, <1>4 DEF OpToRel
<1>6. QED
  BY <1>2, <1>4, <1>5

\* The recursive function in Active.
KeptStep(q, f, i) ==
  IF i = 0 THEN <<>>
  ELSE IF Fresh(q[i]) THEN Append(f[i - 1], q[i]) ELSE f[i - 1]

Kept(q) == CHOOSE f : f = [i \in 0..Len(q) |-> KeptStep(q, f, i)]

LEMMA ActiveIsKept == ASSUME NEW q PROVE Active(q) = Kept(q)[Len(q)]
BY DEF Active, Kept, KeptStep

\* There is such a function, for every prefix of the queue.
LEMMA KeptExists ==
  ASSUME NEW q \in Seq(Stored)
  PROVE  \A n \in Nat : \E f : f = [i \in 0..n |-> KeptStep(q, f, i)]
<1> DEFINE S == {n \in Nat : \E f : f = [i \in 0..n |-> KeptStep(q, f, i)]}
<1>1. 0 \in S
  <2> DEFINE g == [i \in 0..0 |-> <<>>]
  <2>1. g = [i \in 0..0 |-> KeptStep(q, g, i)]
    BY DEF KeptStep
  <2>2. QED
    BY <2>1
<1>2. ASSUME NEW n \in Nat, n \in S
      PROVE  n + 1 \in S
  <2>1. PICK f : f = [i \in 0..n |-> KeptStep(q, f, i)]
    BY <1>2
  <2> DEFINE g == [i \in 0..(n + 1) |-> IF i = n + 1 THEN KeptStep(q, f, n + 1) ELSE f[i]]
  <2>2. \A i \in 0..n : g[i] = f[i]
    OBVIOUS
  <2>3. \A i \in 0..(n + 1) : g[i] = KeptStep(q, g, i)
    <3> SUFFICES ASSUME NEW i \in 0..(n + 1)
                 PROVE  g[i] = KeptStep(q, g, i)
      OBVIOUS
    <3>1. KeptStep(q, g, i) = KeptStep(q, f, i)
      <4>1. CASE i = 0
        BY <4>1 DEF KeptStep
      <4>2. CASE i # 0
        <5>1. g[i - 1] = f[i - 1]
          BY <2>2, <4>2
        <5> HIDE DEF g
        <5>2. QED
          BY <5>1, <4>2 DEF KeptStep
      <4>3. QED
        BY <4>1, <4>2
    <3>2. CASE i = n + 1
      BY <3>1, <3>2
    <3>3. CASE i \in 0..n
      <4>1. f[i] = KeptStep(q, f, i)
        BY <2>1, <3>3
      <4>2. QED
        BY <2>2, <3>1, <3>3, <4>1
    <3>4. QED
      BY <3>2, <3>3
  <2>4. g = [i \in 0..(n + 1) |-> KeptStep(q, g, i)]
    BY <2>3
  <2> HIDE DEF g
  <2>5. \E h : h = [i \in 0..(n + 1) |-> KeptStep(q, h, i)]
    BY <2>4, Zenon
  <2>6. QED
    BY <2>5
<1>3. Nat \subseteq S
  <2> HIDE DEF S
  <2>1. \A n \in Nat : n \in S => n + 1 \in S
    BY <1>2
  <2>2. QED
    BY <1>1, <2>1, InductionOnSet, Zenon
<1>4. QED
  BY <1>3

LEMMA KeptUnfolds ==
  ASSUME NEW q \in Seq(Stored), NEW i \in 0..Len(q)
  PROVE  Kept(q)[i] = KeptStep(q, Kept(q), i)
<1>1. \E f : f = [k \in 0..Len(q) |-> KeptStep(q, f, k)]
  <2>1. Len(q) \in Nat
    OBVIOUS
  <2>2. QED
    BY <2>1, KeptExists, Zenon
<1>2. Kept(q) = [k \in 0..Len(q) |-> KeptStep(q, Kept(q), k)]
  BY <1>1, Zenon DEF Kept
<1>3. QED
  BY <1>2

\* r consists of entries among the first n of q, in their order.
Selection(q, n, r) ==
  /\ r \in Seq(Stored)
  /\ \E f \in [DOMAIN r -> 1..n] :
       /\ \A i, j \in DOMAIN r : i < j => f[i] < f[j]
       /\ \A i \in DOMAIN r : r[i] = q[f[i]]

LEMMA SelectionGrows ==
  ASSUME NEW q \in Seq(Stored), NEW n \in Nat, n + 1 <= Len(q), NEW r, Selection(q, n, r)
  PROVE  /\ Selection(q, n + 1, r)
         /\ Selection(q, n + 1, Append(r, q[n + 1]))
<1>1. PICK f \in [DOMAIN r -> 1..n] :
        /\ \A i, j \in DOMAIN r : i < j => f[i] < f[j]
        /\ \A i \in DOMAIN r : r[i] = q[f[i]]
  BY DEF Selection
<1>2. r \in Seq(Stored) /\ q[n + 1] \in Stored
  BY DEF Selection
<1>3. Selection(q, n + 1, r)
  <2>1. f \in [DOMAIN r -> 1..(n + 1)]
    OBVIOUS
  <2>2. QED
    BY <1>1, <1>2, <2>1 DEF Selection
<1> DEFINE a == Append(r, q[n + 1])
           g == [i \in DOMAIN a |-> IF i = Len(r) + 1 THEN n + 1 ELSE f[i]]
<1>4. a \in Seq(Stored)
  BY <1>2
<1>5. \A i \in DOMAIN a : \/ i \in DOMAIN r /\ i # Len(r) + 1 /\ i < Len(r) + 1 /\ a[i] = r[i]
                          \/ i = Len(r) + 1 /\ a[i] = q[n + 1]
  BY <1>2
<1> HIDE DEF a
<1>6. g \in [DOMAIN a -> 1..(n + 1)]
  <2> SUFFICES ASSUME NEW i \in DOMAIN a PROVE g[i] \in 1..(n + 1)
    OBVIOUS
  <2>1. CASE i \in DOMAIN r /\ i # Len(r) + 1
    <3>1. f[i] \in 1..n
      BY <2>1
    <3>2. QED
      BY <2>1, <3>1
  <2>2. CASE i = Len(r) + 1
    BY <2>2
  <2>3. QED
    BY <1>5, <2>1, <2>2
<1>7. \A i, j \in DOMAIN a : i < j => g[i] < g[j]
  <2> SUFFICES ASSUME NEW i \in DOMAIN a, NEW j \in DOMAIN a, i < j
               PROVE  g[i] < g[j]
    OBVIOUS
  <2>0. r \in Seq(Stored) /\ Len(r) \in Nat /\ i \in DOMAIN r
    BY <1>2, <1>5
  <2>1. i # Len(r) + 1 /\ g[i] = f[i] /\ f[i] \in 1..n
    BY <1>2, <1>5, <2>0
  <2>2. CASE j = Len(r) + 1
    BY <2>1, <2>2
  <2>3. CASE j \in DOMAIN r /\ j # Len(r) + 1
    <3>1. g[j] = f[j] /\ f[i] < f[j]
      BY <1>1, <2>0, <2>3
    <3>2. QED
      BY <2>1, <3>1
  <2>4. QED
    BY <1>5, <2>2, <2>3
<1>8. \A i \in DOMAIN a : a[i] = q[g[i]]
  BY <1>1, <1>5
<1>9. Selection(q, n + 1, a)
  <2> HIDE DEF g
  <2>1. QED
    BY <1>4, <1>6, <1>7, <1>8 DEF Selection
<1>10. QED
  BY <1>3, <1>9 DEF a

\* What is left of a queue keeps its order (handleRegister: filter).
LEMMA ActiveSelects ==
  ASSUME NEW q \in Seq(Stored)
  PROVE  Selection(q, Len(q), Active(q))
<1> DEFINE S == {n \in Nat : n <= Len(q) => Selection(q, n, Kept(q)[n])}
<1>1. 0 \in S
  <2>1. Kept(q)[0] = <<>>
    <3>1. 0 \in 0..Len(q)
      OBVIOUS
    <3>2. KeptStep(q, Kept(q), 0) = <<>>
      BY DEF KeptStep
    <3>3. QED
      BY <3>1, <3>2, KeptUnfolds
  <2>2. <<>> \in Seq(Stored) /\ DOMAIN <<>> = {} /\ <<>> \in [{} -> 1..0]
    OBVIOUS
  <2>3. Selection(q, 0, <<>>)
    BY <2>2 DEF Selection
  <2>4. QED
    BY <2>1, <2>3
<1>2. ASSUME NEW n \in Nat, n \in S
      PROVE  n + 1 \in S
  <2> SUFFICES ASSUME n + 1 <= Len(q)
               PROVE  Selection(q, n + 1, Kept(q)[n + 1])
    OBVIOUS
  <2>1. Selection(q, n, Kept(q)[n])
    BY <1>2
  <2>2. Kept(q)[n + 1] \in {Kept(q)[n], Append(Kept(q)[n], q[n + 1])}
    <3>1. n + 1 \in 0..Len(q) /\ n + 1 # 0 /\ (n + 1) - 1 = n
      OBVIOUS
    <3>2. QED
      BY <3>1, KeptUnfolds DEF KeptStep
  <2>3. QED
    BY <2>1, <2>2, SelectionGrows
<1>3. Nat \subseteq S
  <2> HIDE DEF S
  <2>1. \A n \in Nat : n \in S => n + 1 \in S
    BY <1>2
  <2>2. QED
    BY <1>1, <2>1, InductionOnSet, Zenon
<1>4. Selection(q, Len(q), Kept(q)[Len(q)])
  <2>1. Len(q) \in Nat /\ Len(q) <= Len(q)
    OBVIOUS
  <2>2. QED
    BY <1>3, <2>1, Zenon
<1>5. QED
  BY <1>4, ActiveIsKept, Zenon

-----------------------------------------------------------------------------
(* The order of notifications: in the queue of a peer, and in what was     *)
(* written to its connections.                                             *)

\* w was written, q waits, n notifications have been accepted.
MailInOrder(w, q, n) ==
  /\ w \in Seq(Nat) /\ q \in Seq(Stored)
  /\ \A i, j \in DOMAIN w : i < j => w[i] < w[j]
  /\ \A i, j \in DOMAIN q : i < j => q[i].note < q[j].note
  /\ \A i \in DOMAIN w, j \in DOMAIN q : w[i] < q[j].note
  /\ \A i \in DOMAIN w : w[i] <= n
  /\ \A j \in DOMAIN q : q[j].note <= n

MailInv ==
  /\ written \in [Peer -> Seq(Nat)]
  /\ offline_notifications \in [Peer -> Seq(Stored)]
  /\ lastNote \in Nat
  /\ \A p \in Peer : MailInOrder(written[p], offline_notifications[p], lastNote)

LEMMA StoredNote == ASSUME NEW q \in Seq(Stored), NEW i \in DOMAIN q PROVE q[i].note \in Nat
<1>1. q[i] \in Stored
  OBVIOUS
<1>2. QED
  BY <1>1 DEF Stored

\* The queue is handed over: what is left of it follows what was written.
LEMMA HandOver ==
  ASSUME NEW w, NEW q, NEW n \in Nat, MailInOrder(w, q, n)
  PROVE  /\ MailInOrder(w, <<>>, n)
         /\ MailInOrder(w \o NoteIds(Active(q)), <<>>, n)
<1> DEFINE r == Active(q)
           v == NoteIds(r)
           u == w \o v
<1>1. w \in Seq(Nat) /\ q \in Seq(Stored)
  BY DEF MailInOrder
<1>2. PICK f \in [DOMAIN r -> 1..Len(q)] :
        /\ \A i, j \in DOMAIN r : i < j => f[i] < f[j]
        /\ \A i \in DOMAIN r : r[i] = q[f[i]]
  BY <1>1, ActiveSelects DEF Selection
<1>3. r \in Seq(Stored)
  BY <1>1, ActiveSelects DEF Selection
<1> HIDE DEF r
<1>4. v \in Seq(Nat) /\ DOMAIN v = DOMAIN r /\ \A i \in DOMAIN r : v[i] = r[i].note
  <2>1. \A i \in DOMAIN r : r[i].note \in Nat
    BY <1>3, StoredNote
  <2>2. DOMAIN r = 1..Len(r) /\ Len(r) \in Nat
    BY <1>3
  <2>3. v = [i \in 1..Len(r) |-> r[i].note]
    BY <2>2 DEF NoteIds
  <2>4. QED
    BY <2>1, <2>2, <2>3
<1>5. \A i \in DOMAIN v : f[i] \in DOMAIN q /\ v[i] = q[f[i]].note
  BY <1>1, <1>2, <1>4
<1> HIDE DEF v
<1>6. /\ \A i, j \in DOMAIN v : i < j => v[i] < v[j]
      /\ \A i \in DOMAIN w, j \in DOMAIN v : w[i] < v[j]
      /\ \A j \in DOMAIN v : v[j] <= n
  BY <1>2, <1>4, <1>5 DEF MailInOrder
<1>7. u \in Seq(Nat) /\ \A i \in DOMAIN u :
        \/ i \in DOMAIN w /\ u[i] = w[i]
        \/ i - Len(w) \in DOMAIN v /\ i > Len(w) /\ u[i] = v[i - Len(w)]
  BY <1>1, <1>4
<1>8. \A i, j \in DOMAIN u : i < j => u[i] < u[j]
  <2> SUFFICES ASSUME NEW i \in DOMAIN u, NEW j \in DOMAIN u, i < j
               PROVE  u[i] < u[j]
    OBVIOUS
  <2>0. i \in Nat /\ j \in Nat /\ Len(w) \in Nat /\ \A k \in DOMAIN w : k <= Len(w)
    BY <1>1, <1>7
  <2> HIDE DEF u
  <2>1. CASE j \in DOMAIN w /\ u[j] = w[j]
    <3>1. i \in DOMAIN w /\ u[i] = w[i]
      BY <1>7, <2>0, <2>1
    <3>2. QED
      BY <2>1, <3>1 DEF MailInOrder
  <2>2. CASE j - Len(w) \in DOMAIN v /\ j > Len(w) /\ u[j] = v[j - Len(w)]
    BY <1>6, <1>7, <2>0, <2>2
  <2>3. QED
    BY <1>7, <2>1, <2>2
<1>9. \A i \in DOMAIN u : u[i] <= n
  BY <1>6, <1>7 DEF MailInOrder
<1> HIDE DEF u
<1>10. MailInOrder(u, <<>>, n)
  BY <1>7, <1>8, <1>9 DEF MailInOrder
<1>11. QED
  BY <1>10 DEF MailInOrder, u, v, r

\* The next notification is written, or queued.
LEMMA NextInMail ==
  ASSUME NEW w, NEW q, NEW n \in Nat, MailInOrder(w, q, n),
         NEW e \in Stored, e.note = n + 1
  PROVE  /\ MailInOrder(w, q, n + 1)
         /\ MailInOrder(w, Append(q, e), n + 1)
         /\ q = <<>> => MailInOrder(Append(w, n + 1), q, n + 1)
<1>1. w \in Seq(Nat) /\ q \in Seq(Stored)
  BY DEF MailInOrder
<1>2. \A j \in DOMAIN q : q[j].note \in Nat
  BY <1>1, StoredNote
<1>3. MailInOrder(w, q, n + 1)
  BY <1>1, <1>2 DEF MailInOrder
<1> DEFINE a == Append(q, e)
           b == Append(w, n + 1)
<1>4. /\ a \in Seq(Stored)
      /\ \A i \in DOMAIN a : \/ i \in DOMAIN q /\ i < Len(q) + 1 /\ a[i] = q[i]
                             \/ i = Len(q) + 1 /\ a[i] = e
  BY <1>1
<1>5. /\ b \in Seq(Nat)
      /\ \A i \in DOMAIN b : \/ i \in DOMAIN w /\ i < Len(w) + 1 /\ b[i] = w[i]
                             \/ i = Len(w) + 1 /\ b[i] = n + 1
  BY <1>1
<1> HIDE DEF a, b
<1>6. MailInOrder(w, a, n + 1)
  <2>1. \A i \in DOMAIN a : a[i].note \in Nat /\ a[i].note <= n + 1
    BY <1>2, <1>4 DEF MailInOrder
  <2>2. \A i, j \in DOMAIN a : i < j => a[i].note < a[j].note
    <3> SUFFICES ASSUME NEW i \in DOMAIN a, NEW j \in DOMAIN a, i < j
                 PROVE  a[i].note < a[j].note
      OBVIOUS
    <3>1. i \in Nat /\ j \in Nat /\ Len(q) \in Nat
      BY <1>1, <1>4
    <3>2. i \in DOMAIN q /\ a[i] = q[i]
      BY <1>4, <3>1
    <3>3. CASE j \in DOMAIN q /\ a[j] = q[j]
      BY <3>2, <3>3 DEF MailInOrder
    <3>4. CASE a[j] = e
      BY <1>2, <3>2, <3>4 DEF MailInOrder
    <3>5. QED
      BY <1>4, <3>3, <3>4
  <2>3. \A i \in DOMAIN w, j \in DOMAIN a : w[i] < a[j].note
    <3> SUFFICES ASSUME NEW i \in DOMAIN w, NEW j \in DOMAIN a
                 PROVE  w[i] < a[j].note
      OBVIOUS
    <3>1. w[i] \in Nat
      BY <1>1
    <3>2. CASE j \in DOMAIN q /\ a[j] = q[j]
      BY <3>2 DEF MailInOrder
    <3>3. CASE a[j] = e
      BY <3>1, <3>3 DEF MailInOrder
    <3>4. QED
      BY <1>4, <3>2, <3>3
  <2>4. QED
    BY <1>3, <1>4, <2>1, <2>2, <2>3 DEF MailInOrder
<1>7. ASSUME q = <<>>
      PROVE  MailInOrder(b, q, n + 1)
  <2>1. DOMAIN q = {}
    BY <1>7
  <2>2. \A i \in DOMAIN w : w[i] \in Nat /\ w[i] <= n
    BY <1>1 DEF MailInOrder
  <2>3. \A i \in DOMAIN b : b[i] <= n + 1
    BY <1>5, <2>2
  <2>4. \A i, j \in DOMAIN b : i < j => b[i] < b[j]
    <3> SUFFICES ASSUME NEW i \in DOMAIN b, NEW j \in DOMAIN b, i < j
                 PROVE  b[i] < b[j]
      OBVIOUS
    <3>1. i \in Nat /\ j \in Nat /\ Len(w) \in Nat
      BY <1>1, <1>5
    <3>2. i \in DOMAIN w /\ b[i] = w[i]
      BY <1>5, <3>1
    <3>3. CASE j \in DOMAIN w /\ b[j] = w[j]
      BY <3>2, <3>3 DEF MailInOrder
    <3>4. CASE b[j] = n + 1
      BY <2>2, <3>2, <3>4
    <3>5. QED
      BY <1>5, <3>3, <3>4
  <2>5. QED
    BY <1>1, <1>5, <2>1, <2>3, <2>4 DEF MailInOrder
<1>8. QED
  BY <1>3, <1>6, <1>7 DEF a, b

LEMMA NextIsStored ==
  ASSUME StateTypeOK
  PROVE  NextNote \in Stored /\ NextNote.note = lastNote + 1
BY DEF StateTypeOK, StoreTypeOK, NextNote, Stored

\* Events that neither hand a queue over nor accept a notification.
LEMMA MailKept ==
  ASSUME NEW s \in Socket, Event(s), ~Register(s),
         ~ \E q \in Peer : NotifyOnline(s, q) \/ NotifyOffline(s, q)
  PROVE  UNCHANGED mail
<1>1. CASE Connect(s) \/ End(s) \/ Read(s) \/ Reject(s) \/ RefuseRegister(s)
  BY <1>1 DEF Connect, End, Read, Reject, RefuseRegister
<1>2. CASE SocketError(s) \/ SocketClose(s) \/ InviteRateLimited(s)
  BY <1>2 DEF SocketError, SocketClose, InviteRateLimited
<1>3. CASE \E q \in Peer : Lookup(s, q) \/ Signal(s, q)
  BY <1>3 DEF Lookup, Signal
<1>4. CASE \E c \in Code : InviteRedeem(s, c) \/ \E d \in Lifetimes : InviteCreate(s, c, d)
  BY <1>4 DEF InviteCreate, InviteRedeem
<1>5. QED
  BY <1>1, <1>2, <1>3, <1>4 DEF Event, Request

LEMMA MailStep ==
  StateTypeOK /\ NoBacklogWhileOnline /\ MailInv /\ [Next]_vars => MailInv'
<1> SUFFICES ASSUME StateTypeOK, NoBacklogWhileOnline, MailInv, [Next]_vars
             PROVE  MailInv'
  OBVIOUS
<1>0. NextNote \in Stored /\ NextNote.note = lastNote + 1
  BY NextIsStored
<1>1. ASSUME NEW s \in Socket, Register(s)
      PROVE  MailInv'
  <2> DEFINE p == Owner[s]
             q == offline_notifications[p]
  <2>0. p \in Peer
    BY ConstantsAssumption
  <2>1. /\ offline_notifications' = [offline_notifications EXCEPT ![p] = <<>>]
        /\ lastNote' = lastNote
    BY <1>1, Zenon DEF Register, Emptied
  <2>4. \/ written' = [written EXCEPT ![p] = @ \o NoteIds(Active(q))]
        \/ written' = written
    <3>1. written' = [written EXCEPT ![p] =
                        IF conn[s] = "open" THEN @ \o NoteIds(Active(q)) ELSE @]
      BY <1>1, Zenon DEF Register
    <3>2. QED
      BY <3>1 DEF MailInv
  <2>2. /\ MailInOrder(written[p], <<>>, lastNote)
        /\ MailInOrder(written[p] \o NoteIds(Active(q)), <<>>, lastNote)
    BY <2>0, HandOver DEF MailInv
  <2>3. written[p] \o NoteIds(Active(q)) \in Seq(Nat) /\ <<>> \in Seq(Stored)
    BY <2>2 DEF MailInOrder
  <2> HIDE DEF p, q
  <2>5. QED
    BY <2>0, <2>1, <2>2, <2>3, <2>4 DEF MailInv
<1>2. ASSUME NEW s \in Socket, NEW q \in Peer, NotifyOnline(s, q)
      PROVE  MailInv'
  <2>1. /\ lastNote' = lastNote + 1
        /\ offline_notifications' = offline_notifications
        /\ q \in Online
    BY <1>2 DEF NotifyOnline, Notifies, Online
  <2>2. \/ written' = [written EXCEPT ![q] = Append(@, lastNote + 1)]
        \/ written' = written
    <3>1. written' = [written EXCEPT ![q] =
                        IF conn[peer_registrations[q]] = "open"
                        THEN Append(@, NextNote.note) ELSE @]
      BY <1>2, Zenon DEF NotifyOnline
    <3>2. QED
      BY <1>0, <3>1 DEF MailInv
  <2>3. offline_notifications[q] = <<>>
    BY <2>1 DEF NoBacklogWhileOnline
  <2>4. MailInOrder(Append(written[q], lastNote + 1), offline_notifications[q], lastNote + 1)
    BY <1>0, <2>3, NextInMail DEF MailInv
  <2>5. \A p \in Peer : MailInOrder(written[p], offline_notifications[p], lastNote + 1)
    BY <1>0, NextInMail DEF MailInv
  <2>6. Append(written[q], lastNote + 1) \in Seq(Nat)
    BY DEF MailInv
  <2>7. QED
    <3>1. \A p \in Peer : MailInOrder(written'[p], offline_notifications[p], lastNote + 1)
      BY <2>4, <2>5, <2>2 DEF MailInv
    <3>2. written' \in [Peer -> Seq(Nat)]
      BY <2>6, <2>2 DEF MailInv
    <3>3. QED
      BY <2>1, <3>1, <3>2 DEF MailInv
<1>3. ASSUME NEW s \in Socket, NEW q \in Peer, NotifyOffline(s, q)
      PROVE  MailInv'
  <2>1. /\ lastNote' = lastNote + 1
        /\ offline_notifications' =
             [offline_notifications EXCEPT ![q] = Append(@, NextNote)]
        /\ written' = written
    BY <1>3 DEF NotifyOffline, Notifies, Queued
  <2>2. MailInOrder(written[q], Append(offline_notifications[q], NextNote), lastNote + 1)
    BY <1>0, NextInMail DEF MailInv
  <2>3. \A p \in Peer : MailInOrder(written[p], offline_notifications[p], lastNote + 1)
    BY <1>0, NextInMail DEF MailInv
  <2>4. Append(offline_notifications[q], NextNote) \in Seq(Stored)
    BY <1>0 DEF MailInv
  <2>5. QED
    BY <2>1, <2>2, <2>3, <2>4 DEF MailInv
<1>4. CASE Restart
  <2>1. \A p \in Peer : MailInOrder(written[p], <<>>, lastNote)
    BY HandOver DEF MailInv
  <2>2. QED
    BY <1>4, <2>1 DEF Restart, MailInv
<1>5. ASSUME UNCHANGED mail
      PROVE  MailInv'
  BY <1>5 DEF mail, MailInv
<1>6. CASE Sweep \/ Tick \/ UNCHANGED vars
  BY <1>5, <1>6 DEF Sweep, Tick, vars
<1>7. QED
  BY <1>1, <1>2, <1>3, <1>4, <1>5, <1>6, MailKept DEF Next

LEMMA MailInvariant == Spec => []MailInv
<1>1. Init => MailInv
  BY DEF Init, MailInv, MailInOrder
<1>2. QED
  BY <1>1, MailStep, TypesPreserved, NoBacklog, PTL DEF Spec

\* Notifications reach a peer in the order in which they were accepted and
\* none is written twice; what waits is newer than what was written.
THEOREM MailOrdered == Spec => []OrderedNoDuplicates
<1>1. ASSUME MailInv
      PROVE  OrderedNoDuplicates
  <2> SUFFICES ASSUME NEW p \in Peer
               PROVE  LET all == written[p] \o NoteIds(offline_notifications[p])
                      IN \A i, j \in DOMAIN all : i < j => all[i] < all[j]
    BY DEF OrderedNoDuplicates
  <2> DEFINE w == written[p]
             q == offline_notifications[p]
             v == NoteIds(q)
             all == w \o v
  <2>1. MailInOrder(w, q, lastNote) /\ w \in Seq(Nat) /\ q \in Seq(Stored)
    BY <1>1 DEF MailInv, MailInOrder
  <2>2. v \in Seq(Nat) /\ DOMAIN v = DOMAIN q /\ \A i \in DOMAIN q : v[i] = q[i].note
    <3>1. \A i \in DOMAIN q : q[i].note \in Nat
      BY <2>1, StoredNote
    <3>2. DOMAIN q = 1..Len(q) /\ Len(q) \in Nat
      BY <2>1
    <3>3. v = [i \in 1..Len(q) |-> q[i].note]
      BY <3>2 DEF NoteIds
    <3>4. QED
      BY <3>1, <3>2, <3>3
  <2> HIDE DEF w, q, v
  <2>3. \A i \in DOMAIN all :
          /\ i \in Nat
          /\ \/ i \in DOMAIN w /\ all[i] = w[i] /\ i <= Len(w)
             \/ i - Len(w) \in DOMAIN v /\ i > Len(w) /\ all[i] = v[i - Len(w)]
    BY <2>1, <2>2
  <2>4. /\ \A i, j \in DOMAIN v : i < j => v[i] < v[j]
        /\ \A i \in DOMAIN w, j \in DOMAIN v : w[i] < v[j]
        /\ \A i, j \in DOMAIN w : i < j => w[i] < w[j]
    BY <2>1, <2>2 DEF MailInOrder
  <2>5. Len(w) \in Nat
    BY <2>1
  <2> HIDE DEF all
  <2>6. \A i, j \in DOMAIN all : i < j => all[i] < all[j]
    <3> SUFFICES ASSUME NEW i \in DOMAIN all, NEW j \in DOMAIN all, i < j
                 PROVE  all[i] < all[j]
      OBVIOUS
    <3>1. CASE j \in DOMAIN w /\ all[j] = w[j] /\ j <= Len(w)
      BY <2>3, <2>4, <2>5, <3>1
    <3>2. CASE j - Len(w) \in DOMAIN v /\ j > Len(w) /\ all[j] = v[j - Len(w)]
      BY <2>3, <2>4, <2>5, <3>2
    <3>3. QED
      BY <2>3, <3>1, <3>2
  <2>7. QED
    BY <2>6 DEF all, v, w, q
<1>2. QED
  BY <1>1, MailInvariant, PTL

-----------------------------------------------------------------------------
(* The stream of a connection.  x is what is written and not yet read, q   *)
(* the queue of the connection's owner, n the notifications accepted.      *)

\* A notification after a register_ok is newer than it.
OkFirst(x) ==
  \A i, j \in DOMAIN x :
    (i < j /\ x[i].type = "register_ok" /\ x[j].type = "notify_in") => x[j].note > x[i].after

\* A register_ok is not older than what has been accepted, and older than
\* what waits.
OkCurrent(x, q, n) ==
  \A i \in DOMAIN x : x[i].type = "register_ok" =>
    /\ x[i].after \in Nat /\ x[i].after <= n
    /\ \A k \in DOMAIN q : x[i].after < q[k].note

GoodStream(x, q, n) == x \in Seq(Frame) /\ OkFirst(x) /\ OkCurrent(x, q, n)

StreamInv ==
  /\ outbox \in [Socket -> Seq(Frame)]
  /\ \A s \in Socket : GoodStream(outbox[s], offline_notifications[Owner[s]], lastNote)

LEMMA GoodEmpty == ASSUME NEW q, NEW n PROVE GoodStream(<<>>, q, n)
BY DEF GoodStream, OkFirst, OkCurrent

\* The client reads a frame.
LEMMA GoodTail ==
  ASSUME NEW x, NEW q, NEW n, GoodStream(x, q, n), x # <<>>
  PROVE  GoodStream(Tail(x), q, n)
<1> DEFINE t == Tail(x)
<1>1. x \in Seq(Frame)
  BY DEF GoodStream
<1>2. t \in Seq(Frame) /\ \A i \in DOMAIN t : i \in Nat /\ i + 1 \in DOMAIN x /\ t[i] = x[i + 1]
  BY <1>1
<1> HIDE DEF t
<1>3. OkFirst(t)
  <2>1. \A i, j \in DOMAIN t : i < j => i + 1 < j + 1
    BY <1>2
  <2>2. QED
    BY <1>2, <2>1 DEF GoodStream, OkFirst
<1>4. OkCurrent(t, q, n)
  BY <1>2 DEF GoodStream, OkCurrent
<1>5. QED
  BY <1>2, <1>3, <1>4 DEF GoodStream, t

\* The queue is emptied, or more is accepted.
LEMMA GoodLater ==
  ASSUME NEW x, NEW q, NEW n \in Nat, GoodStream(x, q, n)
  PROVE  /\ GoodStream(x, <<>>, n)
         /\ GoodStream(x, q, n + 1)
BY DEF GoodStream, OkCurrent

\* The next notification is queued for the owner.
LEMMA GoodQueued ==
  ASSUME NEW x, NEW q \in Seq(Stored), NEW n \in Nat, GoodStream(x, q, n),
         NEW e \in Stored, e.note = n + 1
  PROVE  GoodStream(x, Append(q, e), n + 1)
<1>1. \A k \in DOMAIN Append(q, e) : \/ k \in DOMAIN q /\ Append(q, e)[k] = q[k]
                                     \/ Append(q, e)[k] = e
  OBVIOUS
<1>2. OkCurrent(x, Append(q, e), n + 1)
  <2> SUFFICES ASSUME NEW i \in DOMAIN x, x[i].type = "register_ok"
               PROVE  /\ x[i].after \in Nat /\ x[i].after <= n + 1
                      /\ \A k \in DOMAIN Append(q, e) : x[i].after < Append(q, e)[k].note
    BY DEF OkCurrent
  <2>1. /\ x[i].after \in Nat /\ x[i].after <= n
        /\ \A k \in DOMAIN q : x[i].after < q[k].note
    BY DEF GoodStream, OkCurrent
  <2>2. QED
    BY <1>1, <2>1
<1>3. QED
  BY <1>2 DEF GoodStream

\* Frames are written: register_ok of now, notifications newer than every
\* register_ok before them.
LEMMA GoodWritten ==
  ASSUME NEW x, NEW y \in Seq(Frame), NEW q, NEW n, GoodStream(x, q, n),
         OkFirst(y), OkCurrent(y, q, n),
         \A i \in DOMAIN x, j \in DOMAIN y :
           (x[i].type = "register_ok" /\ y[j].type = "notify_in") => y[j].note > x[i].after
  PROVE  GoodStream(x \o y, q, n)
<1> DEFINE z == x \o y
<1>1. x \in Seq(Frame) /\ Len(x) \in Nat
  BY DEF GoodStream
<1>2. /\ z \in Seq(Frame)
      /\ \A i \in DOMAIN z :
           /\ i \in Nat
           /\ \/ i \in DOMAIN x /\ z[i] = x[i] /\ i <= Len(x)
              \/ i - Len(x) \in DOMAIN y /\ i > Len(x) /\ z[i] = y[i - Len(x)]
  BY <1>1
<1> HIDE DEF z
<1>3. OkFirst(z)
  <2> SUFFICES ASSUME NEW i \in DOMAIN z, NEW j \in DOMAIN z, i < j,
                      z[i].type = "register_ok", z[j].type = "notify_in"
               PROVE  z[j].note > z[i].after
    BY DEF OkFirst
  <2>1. i \in Nat /\ j \in Nat
    BY <1>2
  <2>2. CASE j \in DOMAIN x /\ z[j] = x[j] /\ j <= Len(x)
    <3>1. i \in DOMAIN x /\ z[i] = x[i]
      BY <1>1, <1>2, <2>1, <2>2
    <3>2. QED
      BY <2>2, <3>1 DEF GoodStream, OkFirst
  <2>3. CASE j - Len(x) \in DOMAIN y /\ j > Len(x) /\ z[j] = y[j - Len(x)]
    <3>1. CASE i \in DOMAIN x /\ z[i] = x[i]
      BY <2>3, <3>1
    <3>2. CASE i - Len(x) \in DOMAIN y /\ z[i] = y[i - Len(x)]
      <4>1. i - Len(x) < j - Len(x)
        BY <1>1, <2>1
      <4>2. QED
        BY <2>3, <3>2, <4>1 DEF OkFirst
    <3>3. QED
      BY <1>2, <3>1, <3>2
  <2>4. QED
    BY <1>2, <2>2, <2>3
<1>4. OkCurrent(z, q, n)
  BY <1>2 DEF GoodStream, OkCurrent
<1>5. QED
  BY <1>2, <1>3, <1>4 DEF GoodStream, z

\* A frame that is neither.
Plain(f) == f \in Frame /\ f.type \notin {"register_ok", "notify_in"}

LEMMA GoodPlain ==
  ASSUME NEW x, NEW q, NEW n, GoodStream(x, q, n), NEW f, Plain(f)
  PROVE  GoodStream(x \o <<f>>, q, n)
<1> DEFINE y == <<f>>
<1>1. y \in Seq(Frame) /\ \A j \in DOMAIN y : y[j] = f
  BY DEF Plain
<1>2. \A j \in DOMAIN y : y[j].type \notin {"register_ok", "notify_in"}
  BY <1>1 DEF Plain
<1> HIDE DEF y
<1>3. OkFirst(y) /\ OkCurrent(y, q, n)
  BY <1>2 DEF OkFirst, OkCurrent
<1>4. GoodStream(x \o y, q, n)
  BY <1>1, <1>2, <1>3, GoodWritten
<1>5. QED
  BY <1>4 DEF y

\* The next notification, written to its target.
LEMMA GoodNote ==
  ASSUME NEW x, NEW q, NEW n \in Nat, GoodStream(x, q, n),
         NEW e \in Stored, e.note = n + 1
  PROVE  GoodStream(x \o <<NotifyIn(e)>>, q, n + 1)
<1> DEFINE y == <<NotifyIn(e)>>
<1>1. /\ NotifyIn(e) \in Frame
      /\ NotifyIn(e).type = "notify_in" /\ NotifyIn(e).note = n + 1
  BY DEF NotifyIn, Frame, Stored
<1>2. y \in Seq(Frame) /\ \A j \in DOMAIN y : y[j] = NotifyIn(e)
  BY <1>1
<1>3. \A j \in DOMAIN y : y[j].type = "notify_in" /\ y[j].note = n + 1
  BY <1>1, <1>2
<1>4. GoodStream(x, q, n + 1)
  BY GoodLater
<1>5. \A i \in DOMAIN x : x[i].type = "register_ok" => n + 1 > x[i].after
  BY DEF GoodStream, OkCurrent
<1> HIDE DEF y
<1>6. OkFirst(y) /\ OkCurrent(y, q, n + 1)
  BY <1>3 DEF OkFirst, OkCurrent
<1>7. GoodStream(x \o y, q, n + 1)
  BY <1>2, <1>3, <1>4, <1>5, <1>6, GoodWritten
<1>8. QED
  BY <1>7 DEF y

\* The queue, what is left of it, and then register_ok.
LEMMA GoodGreeting ==
  ASSUME NEW x, NEW q \in Seq(Stored), lastNote \in Nat, GoodStream(x, q, lastNote)
  PROVE  GoodStream(x \o Greeting(Active(q)), <<>>, lastNote)
<1> DEFINE r == Active(q)
           g == [i \in DOMAIN r |-> NotifyIn(r[i])]
           y == Append(g, RegisterOk)
<1>1. PICK f \in [DOMAIN r -> 1..Len(q)] : \A i \in DOMAIN r : r[i] = q[f[i]]
  BY ActiveSelects DEF Selection
<1>2. r \in Seq(Stored)
  BY ActiveSelects DEF Selection
<1> HIDE DEF r
<1>3. \A i \in DOMAIN r : /\ g[i] \in Frame /\ g[i].type = "notify_in"
                          /\ g[i].note = r[i].note
  <2> SUFFICES ASSUME NEW i \in DOMAIN r
               PROVE  /\ NotifyIn(r[i]) \in Frame /\ NotifyIn(r[i]).type = "notify_in"
                      /\ NotifyIn(r[i]).note = r[i].note
    OBVIOUS
  <2>1. r[i] \in Stored
    BY <1>2
  <2>2. QED
    BY <2>1 DEF NotifyIn, Frame, Stored
<1>4. g \in Seq(Frame) /\ DOMAIN g = DOMAIN r
  <2>1. DOMAIN r = 1..Len(r) /\ Len(r) \in Nat
    BY <1>2
  <2>2. g = [i \in 1..Len(r) |-> g[i]]
    BY <2>1
  <2>3. \A i \in 1..Len(r) : g[i] \in Frame
    BY <1>3, <2>1
  <2> HIDE DEF g
  <2>4. QED
    BY <2>1, <2>2, <2>3
<1> HIDE DEF g
<1>5. RegisterOk \in Frame /\ RegisterOk.type = "register_ok" /\ RegisterOk.after = lastNote
  BY DEF RegisterOk, Frame
<1>6. /\ y \in Seq(Frame)
      /\ \A i \in DOMAIN y : \/ i \in DOMAIN r /\ i < Len(g) + 1 /\ y[i] = g[i]
                             \/ i = Len(g) + 1 /\ y[i] = RegisterOk
  BY <1>4, <1>5
<1> HIDE DEF y
<1>7. \A i \in DOMAIN y :
        /\ y[i].type = "register_ok" => i = Len(g) + 1 /\ y[i].after = lastNote
        /\ y[i].type = "notify_in" => i \in DOMAIN r /\ y[i].note = r[i].note
  BY <1>3, <1>5, <1>6
<1>8. OkFirst(y)
  <2>1. \A j \in DOMAIN y : j \in Nat /\ j <= Len(g) + 1 /\ Len(g) \in Nat
    BY <1>4, <1>6
  <2>2. QED
    BY <1>7, <2>1 DEF OkFirst
<1>9. OkCurrent(y, <<>>, lastNote)
  BY <1>7 DEF OkCurrent
<1>10. \A i \in DOMAIN x, j \in DOMAIN y :
         (x[i].type = "register_ok" /\ y[j].type = "notify_in") => y[j].note > x[i].after
  <2> SUFFICES ASSUME NEW i \in DOMAIN x, NEW j \in DOMAIN y,
                      x[i].type = "register_ok", y[j].type = "notify_in"
               PROVE  y[j].note > x[i].after
    OBVIOUS
  <2>1. j \in DOMAIN r /\ y[j].note = q[f[j]].note /\ f[j] \in DOMAIN q
    BY <1>1, <1>7
  <2>2. x[i].after \in Nat /\ x[i].after < q[f[j]].note /\ q[f[j]].note \in Nat
    BY <2>1, StoredNote DEF GoodStream, OkCurrent
  <2>3. QED
    BY <2>1, <2>2
<1>11. GoodStream(x, <<>>, lastNote)
  BY GoodLater
<1>12. GoodStream(x \o y, <<>>, lastNote)
  BY <1>6, <1>8, <1>9, <1>10, <1>11, GoodWritten
<1>13. QED
  BY <1>12 DEF y, g, r, Greeting

\* What the server's actions do to one stream, seen from its queue.
LEMMA StreamKept ==
  ASSUME StreamInv, lastNote' = lastNote, offline_notifications' = offline_notifications,
         NEW t \in Socket,
         \/ outbox' = outbox
         \/ outbox[t] # <<>> /\ outbox' = [outbox EXCEPT ![t] = Tail(@)]
         \/ outbox' = [outbox EXCEPT ![t] = <<>>]
         \/ \E f \in Frame : Plain(f) /\ outbox' = Sent(t, <<f>>)
  PROVE  StreamInv'
<1> DEFINE Good(s, x) == GoodStream(x, offline_notifications[Owner[s]], lastNote)
<1>1. /\ outbox \in [Socket -> Seq(Frame)]
      /\ \A s \in Socket : Good(s, outbox[s])
  BY DEF StreamInv
<1>2. ASSUME NEW x, Good(t, x), outbox' = [outbox EXCEPT ![t] = x]
      PROVE  StreamInv'
  <2>1. x \in Seq(Frame)
    BY <1>2 DEF GoodStream
  <2>2. outbox' \in [Socket -> Seq(Frame)] /\ \A s \in Socket : Good(s, outbox'[s])
    <3> HIDE DEF Good
    <3>1. QED
      BY <1>1, <1>2, <2>1
  <2>3. QED
    BY <2>2 DEF StreamInv
<1>3. CASE outbox' = outbox
  BY <1>1, <1>3 DEF StreamInv
<1>4. CASE outbox[t] # <<>> /\ outbox' = [outbox EXCEPT ![t] = Tail(@)]
  BY <1>1, <1>2, <1>4, GoodTail
<1>5. CASE outbox' = [outbox EXCEPT ![t] = <<>>]
  BY <1>2, <1>5, GoodEmpty
<1>6. ASSUME NEW f \in Frame, Plain(f), outbox' = Sent(t, <<f>>)
      PROVE  StreamInv'
  <2>1. CASE conn[t] = "open"
    <3>1. outbox' = [outbox EXCEPT ![t] = outbox[t] \o <<f>>]
      BY <1>1, <1>6, <2>1 DEF Sent
    <3>2. Good(t, outbox[t] \o <<f>>)
      BY <1>1, <1>6, GoodPlain
    <3>3. QED
      BY <1>2, <3>1, <3>2
  <2>2. CASE conn[t] # "open"
    <3>1. outbox' = outbox
      BY <1>1, <1>6, <2>2 DEF Sent
    <3>2. QED
      BY <1>3, <3>1
  <2>3. QED
    BY <2>1, <2>2
<1>7. QED
  BY <1>3, <1>4, <1>5, <1>6

\* The answers and what is relayed are plain frames.
LEMMA PlainFrames ==
  ASSUME StateTypeOK
  PROVE  /\ \A q \in Peer : Plain(LookupResult(q)) /\ Plain(SignalIn(q))
         /\ \A p \in Peer \cup {None} : Plain(InviteResult(p))
<1>1. \A q \in Peer : Plain(LookupResult(q)) /\ Plain(SignalIn(q))
  BY DEF Plain, LookupResult, SignalIn, Frame
<1>2. \A p \in Peer \cup {None} : Plain(InviteResult(p))
  BY DEF Plain, InviteResult, Frame
<1>3. QED
  BY <1>1, <1>2

LEMMA StreamRegister ==
  ASSUME StateTypeOK, StreamInv, NEW s \in Socket, Register(s)
  PROVE  StreamInv'
<1> DEFINE p == Owner[s]
           q == offline_notifications[p]
           y == Greeting(Active(q))
<1>1. /\ p \in Peer /\ q \in Seq(Stored) /\ lastNote \in Nat
      /\ offline_notifications \in [Peer -> Seq(Stored)]
      /\ outbox \in [Socket -> Seq(Frame)]
      /\ Owner \in [Socket -> Peer]
  BY ConstantsAssumption DEF StateTypeOK, StoreTypeOK, StreamInv
<1>2. /\ offline_notifications' = [offline_notifications EXCEPT ![p] = <<>>]
      /\ lastNote' = lastNote
      /\ outbox' = [outbox EXCEPT ![s] = IF conn[s] = "open" THEN @ \o y ELSE @]
  BY Zenon DEF Register, Emptied, Sent
<1>3. GoodStream(outbox[s] \o y, <<>>, lastNote)
  BY <1>1, GoodGreeting DEF StreamInv
<1>4. \A t \in Socket : GoodStream(outbox[t], <<>>, lastNote)
  BY <1>1, GoodLater DEF StreamInv
<1> HIDE DEF y, q
<1>5. ASSUME NEW t \in Socket
      PROVE  GoodStream(outbox'[t], offline_notifications'[Owner[t]], lastNote')
  <2>1. CASE Owner[t] = p
    <3>1. offline_notifications'[Owner[t]] = <<>>
      BY <1>1, <1>2, <2>1
    <3>2. outbox'[t] = outbox[t] \/ (t = s /\ outbox'[t] = outbox[s] \o y)
      BY <1>1, <1>2
    <3>3. QED
      BY <1>2, <1>3, <1>4, <3>1, <3>2
  <2>2. CASE Owner[t] # p
    <3>1. offline_notifications'[Owner[t]] = offline_notifications[Owner[t]]
      BY <1>1, <1>2, <2>2
    <3>2. outbox'[t] = outbox[t]
      BY <1>1, <1>2, <2>2
    <3>3. QED
      BY <1>2, <3>1, <3>2 DEF StreamInv
  <2>3. QED
    BY <2>1, <2>2
<1>6. outbox' \in [Socket -> Seq(Frame)]
  <2>1. outbox[s] \o y \in Seq(Frame)
    BY <1>3 DEF GoodStream
  <2>2. QED
    BY <1>1, <1>2, <2>1
<1>7. QED
  BY <1>5, <1>6 DEF StreamInv

LEMMA StreamNotifyOnline ==
  ASSUME StateTypeOK, StreamInv, NEW s \in Socket, NEW q \in Peer, NotifyOnline(s, q)
  PROVE  StreamInv'
<1> DEFINE t == peer_registrations[q]
           y == <<NotifyIn(NextNote)>>
<1>1. /\ t \in Socket /\ lastNote \in Nat /\ outbox \in [Socket -> Seq(Frame)]
      /\ lastNote' = lastNote + 1 /\ offline_notifications' = offline_notifications
      /\ outbox' = [outbox EXCEPT ![t] = IF conn[t] = "open" THEN @ \o y ELSE @]
  BY DEF NotifyOnline, Notifies, Sent, StateTypeOK, StoreTypeOK, RegistryTypeOK, StreamInv
<1>2. GoodStream(outbox[t] \o y, offline_notifications[Owner[t]], lastNote + 1)
  BY <1>1, NextIsStored, GoodNote DEF StreamInv
<1>3. \A u \in Socket : GoodStream(outbox[u], offline_notifications[Owner[u]], lastNote + 1)
  BY <1>1, GoodLater DEF StreamInv
<1> HIDE DEF y, t
<1>4. outbox[t] \o y \in Seq(Frame)
  BY <1>2 DEF GoodStream
<1>5. outbox' \in [Socket -> Seq(Frame)]
  BY <1>1, <1>4
<1>6. \A u \in Socket : outbox'[u] = outbox[u] \/ (u = t /\ outbox'[u] = outbox[t] \o y)
  BY <1>1
<1>7. \A u \in Socket : GoodStream(outbox'[u], offline_notifications'[Owner[u]], lastNote')
  BY <1>1, <1>2, <1>3, <1>6
<1>8. QED
  BY <1>5, <1>7 DEF StreamInv

LEMMA StreamNotifyOffline ==
  ASSUME StateTypeOK, StreamInv, NEW s \in Socket, NEW q \in Peer, NotifyOffline(s, q)
  PROVE  StreamInv'
<1>1. /\ lastNote \in Nat /\ offline_notifications \in [Peer -> Seq(Stored)]
      /\ NextNote \in Stored /\ NextNote.note = lastNote + 1
      /\ lastNote' = lastNote + 1 /\ outbox' = outbox
      /\ offline_notifications' = [offline_notifications EXCEPT ![q] = Append(@, NextNote)]
  BY NextIsStored DEF NotifyOffline, Notifies, Queued, StateTypeOK, StoreTypeOK
<1>2. ASSUME NEW t \in Socket
      PROVE  GoodStream(outbox'[t], offline_notifications'[Owner[t]], lastNote')
  <2> DEFINE old == offline_notifications[Owner[t]]
  <2>1. Owner[t] \in Peer /\ old \in Seq(Stored)
    BY <1>1, ConstantsAssumption
  <2>2. GoodStream(outbox[t], old, lastNote)
    BY DEF StreamInv
  <2>3. GoodStream(outbox[t], old, lastNote + 1)
    BY <1>1, <2>2, GoodLater
  <2>4. GoodStream(outbox[t], Append(old, NextNote), lastNote + 1)
    BY <1>1, <2>1, <2>2, GoodQueued
  <2>5. offline_notifications'[Owner[t]] \in {old, Append(old, NextNote)}
    BY <1>1, <2>1
  <2>6. QED
    BY <1>1, <2>3, <2>4, <2>5
<1>3. QED
  BY <1>1, <1>2 DEF StreamInv

LEMMA StreamStep ==
  StateTypeOK /\ StreamInv /\ [Next]_vars => StreamInv'
<1> SUFFICES ASSUME StateTypeOK, StreamInv, [Next]_vars
             PROVE  StreamInv'
  OBVIOUS
<1>1. ASSUME NEW s \in Socket, Event(s)
      PROVE  StreamInv'
  <2>1. CASE Register(s)
    BY <2>1, StreamRegister
  <2>2. CASE \E q \in Peer : NotifyOnline(s, q) \/ NotifyOffline(s, q)
    BY <2>2, StreamNotifyOnline, StreamNotifyOffline
  <2>3. CASE ~Register(s) /\ ~ \E q \in Peer : NotifyOnline(s, q) \/ NotifyOffline(s, q)
    <3>0. UNCHANGED <<lastNote, offline_notifications>>
      BY <1>1, <2>3, MailKept DEF mail
    <3>1. CASE Connect(s) \/ End(s) \/ Reject(s) \/ RefuseRegister(s) \/ SocketError(s)
                 \/ InviteRateLimited(s)
      BY <3>0, <3>1, StreamKept
      DEF Connect, End, Reject, RefuseRegister, SocketError, InviteRateLimited
    <3>2. CASE SocketClose(s) \/ Read(s)
      BY <3>0, <3>2, StreamKept DEF SocketClose, Read
    <3>3. ASSUME NEW q \in Peer, Lookup(s, q)
          PROVE  StreamInv'
      BY <3>0, <3>3, StreamKept, PlainFrames DEF Lookup, Plain
    <3>4. ASSUME NEW q \in Peer, Signal(s, q)
          PROVE  StreamInv'
      <4>1. peer_registrations[q] \in Socket /\ socket_to_peer[s] \in Peer
        BY <3>4 DEF Signal, Authenticated, StateTypeOK, RegistryTypeOK
      <4>2. QED
        BY <3>0, <3>4, <4>1, StreamKept, PlainFrames DEF Signal, Plain
    <3>5. ASSUME NEW c \in Code, NEW d \in Lifetimes, InviteCreate(s, c, d)
          PROVE  StreamInv'
      <4>1. \E p \in Peer \cup {None} : outbox' = Sent(s, <<InviteResult(p)>>)
        BY <3>5, ConstantsAssumption DEF InviteCreate
      <4>2. QED
        BY <3>0, <4>1, StreamKept, PlainFrames DEF Plain
    <3>6. ASSUME NEW c \in Code, InviteRedeem(s, c)
          PROVE  StreamInv'
      <4>1. \E p \in Peer \cup {None} : outbox' = Sent(s, <<InviteResult(p)>>)
        <5>1. invite_records[c] # None => invite_records[c].peer \in Peer
          BY DEF StateTypeOK, StoreTypeOK
        <5>2. QED
          BY <3>6, <5>1 DEF InviteRedeem
      <4>2. QED
        BY <3>0, <4>1, StreamKept, PlainFrames DEF Plain
    <3>7. QED
      BY <1>1, <2>3, <3>1, <3>2, <3>3, <3>4, <3>5, <3>6 DEF Event, Request
  <2>4. QED
    BY <2>1, <2>2, <2>3
<1>2. CASE Restart
  <2>1. outbox' \in [Socket -> Seq(Frame)] /\ \A s \in Socket : outbox'[s] = <<>>
    BY <1>2 DEF Restart
  <2>2. QED
    BY <2>1, GoodEmpty DEF StreamInv
<1>3. CASE Sweep \/ Tick \/ UNCHANGED vars
  BY <1>3 DEF Sweep, Tick, vars, mail, StreamInv
<1>4. QED
  BY <1>1, <1>2, <1>3 DEF Next

LEMMA StreamInvariant == Spec => []StreamInv
<1>1. Init => StreamInv
  <2>1. Init => /\ outbox \in [Socket -> Seq(Frame)]
                /\ \A s \in Socket : outbox[s] = <<>>
    BY DEF Init
  <2>2. QED
    BY <2>1, GoodEmpty DEF StreamInv
<1>2. QED
  BY <1>1, StreamStep, TypesPreserved, PTL DEF Spec

\* On a connection, a notification that was accepted before a registration
\* never follows its register_ok.
THEOREM StoredFirst == Spec => []StoredBeforeOk
<1>1. StreamInv => StoredBeforeOk
  BY DEF StreamInv, GoodStream, OkFirst, StoredBeforeOk
<1>2. QED
  BY <1>1, StreamInvariant, PTL

\* Type correctness of the whole server, its streams and histories included.
THEOREM ServerTypes == Spec => []TypeOK
<1>1. StateTypeOK /\ MailInv /\ StreamInv => TypeOK
  BY DEF StateTypeOK, MailInv, StreamInv, StreamTypeOK, TypeOK
<1>2. QED
  BY <1>1, TypesPreserved, MailInvariant, StreamInvariant, PTL

-----------------------------------------------------------------------------
(***************************************************************************)
(* The server implements the directory, for every instance; and what       *)
(* becomes of its invites.                                                 *)
(***************************************************************************)
USE ConstantsAssumption

OpenCodes == {c \in Code : invite_records[c] # None}

\* What the directory sees of the server.
DirectoryView == <<Online, offline_notifications, issued, OpenCodes, claims>>

LEMMA DirectoryInit == Init => Dir!Init
BY DEF Init, Dir!Init, Online

\* Both modules take Cardinality from FiniteSets.
LEMMA SameCardinality ==
  ASSUME NEW S
  PROVE  Dir!Cardinality(S) = Cardinality(S)
BY DEF Dir!Cardinality, Cardinality

-----------------------------------------------------------------------------
(* The steps, grouped by the directory's action they are.                  *)

LEMMA RegisterArrives ==
  ASSUME StateTypeOK, NoBacklogWhileOnline, NEW s \in Socket, Register(s)
  PROVE  \/ UNCHANGED DirectoryView
         \/ \E p \in Peer : Dir!Arrive(p)
<1> DEFINE p == Owner[s]
<1>0. RegistryTypeOK /\ offline_notifications \in [Peer -> Seq(Stored)]
  BY DEF StateTypeOK, StoreTypeOK
<1>1. /\ Online' = Online \cup {p}
      /\ p \in Peer
      /\ p \in Online \/ Cardinality(Online) < MaxPeers
  BY <1>0, OnlineAfterRegister
<1>2. /\ offline_notifications' = [offline_notifications EXCEPT ![p] = <<>>]
      /\ UNCHANGED <<issued, OpenCodes, claims>>
  BY DEF Register, Emptied, invites, OpenCodes
<1>3. CASE p \in Online
  <2>1. Online' = Online
    BY <1>1, <1>3
  <2>2. offline_notifications[p] = <<>>
    BY <1>3 DEF NoBacklogWhileOnline
  <2>3. offline_notifications' = offline_notifications
    BY <1>0, <1>1, <1>2, <2>2
  <2>4. QED
    BY <1>2, <2>1, <2>3 DEF DirectoryView
<1>4. CASE p \notin Online
  <2>1. Dir!Arrive(p)
    BY <1>1, <1>2, <1>4, SameCardinality DEF Dir!Arrive, OpenCodes
  <2>2. QED
    BY <1>1, <2>1
<1>5. QED
  BY <1>3, <1>4

LEMMA EvictLeaves ==
  ASSUME StateTypeOK, NEW s \in Socket, SocketError(s) \/ SocketClose(s)
  PROVE  \/ UNCHANGED DirectoryView
         \/ \E p \in Peer : Dir!Leave(p)
<1> DEFINE p == socket_to_peer[s]
<1>1. Online' = Online \ {p} /\ offline_notifications' = offline_notifications
  BY OnlineAfterEvict DEF StateTypeOK
<1>2. UNCHANGED <<issued, OpenCodes, claims>>
  BY DEF SocketError, SocketClose, invites, OpenCodes
<1>3. CASE p \in Online
  <2>1. p \in Peer /\ Dir!Leave(p)
    BY <1>1, <1>2, <1>3 DEF Dir!Leave, Online, OpenCodes
  <2>2. QED
    BY <2>1
<1>4. CASE p \notin Online
  <2>1. Online' = Online
    BY <1>1, <1>4
  <2>2. QED
    BY <1>1, <1>2, <2>1 DEF DirectoryView
<1>5. QED
  BY <1>3, <1>4

LEMMA NotifyDeposits ==
  ASSUME StateTypeOK, NEW s \in Socket, NEW q \in Peer, NotifyOffline(s, q)
  PROVE  \E n \in Notes : Dir!Deposit(q, n)
<1>1. NextNote \in Notes
  BY DEF NotifyOffline, Notifies, NextNote, Notes, StateTypeOK, StoreTypeOK
<1>2. /\ q \notin Online
      /\ Online' = Online
      /\ offline_notifications' = [offline_notifications EXCEPT ![q] = Append(@, NextNote)]
      /\ UNCHANGED <<issued, OpenCodes, claims>>
  BY DEF NotifyOffline, Queued, registry, invites, Online, OpenCodes
<1>3. Dir!Deposit(q, NextNote)
  BY <1>2 DEF Dir!Deposit, OpenCodes
<1>4. QED
  BY <1>1, <1>3

LEMMA RecordIsPresent ==
  ASSUME StateTypeOK, NEW s \in Socket, NEW d \in Lifetimes
  PROVE  [peer |-> Owner[s], expires_at |-> now + d] # None
<1>1. now + d \in Nat /\ Owner[s] \in Peer
  BY DEF StateTypeOK, StoreTypeOK
<1>2. [peer |-> Owner[s], expires_at |-> now + d] \in [peer : Peer, expires_at : Nat]
  BY <1>1
<1>3. QED
  BY <1>2

LEMMA CreatePublishes ==
  ASSUME StateTypeOK, NEW s \in Socket, NEW c \in Code, NEW d \in Lifetimes,
         InviteCreate(s, c, d)
  PROVE  UNCHANGED DirectoryView \/ Dir!Publish(c)
<1>1. /\ Online' = Online
      /\ offline_notifications' = offline_notifications
      /\ claims' = claims
      /\ c \notin issued
  BY DEF InviteCreate, registry, mail, Online
<1>2. CASE d > 0
  <2>1. /\ invite_records' = [invite_records EXCEPT
               ![c] = [peer |-> Owner[s], expires_at |-> now + d]]
        /\ issued' = issued \cup {c}
    BY <1>2 DEF InviteCreate
  <2>2. [peer |-> Owner[s], expires_at |-> now + d] # None
    BY RecordIsPresent
  <2>3. OpenCodes' = OpenCodes \cup {c}
    BY <2>1, <2>2 DEF OpenCodes, StateTypeOK, StoreTypeOK
  <2>4. QED
    BY <1>1, <2>1, <2>3 DEF Dir!Publish, OpenCodes
<1>3. CASE ~(d > 0)
  BY <1>1, <1>3 DEF InviteCreate, DirectoryView, OpenCodes
<1>4. QED
  BY <1>2, <1>3

LEMMA RedeemClaims ==
  ASSUME StateTypeOK, NEW s \in Socket, NEW c \in Code, InviteRedeem(s, c)
  PROVE  \/ UNCHANGED DirectoryView
         \/ Dir!Claim(c)
         \/ \E C \in SUBSET OpenCodes : Dir!Lapse(C)
<1>1. /\ Online' = Online
      /\ UNCHANGED <<offline_notifications, issued>>
      /\ invite_records' = [invite_records EXCEPT ![c] = None]
  BY DEF InviteRedeem, Consumed, registry, mail, Online
<1>2. OpenCodes' = OpenCodes \ {c}
  BY <1>1 DEF OpenCodes, StateTypeOK, StoreTypeOK
<1>3. CASE invite_records[c] # None /\ invite_records[c].expires_at > now
  <2>1. claims' = [claims EXCEPT ![c] = @ + 1] /\ c \in OpenCodes
    BY <1>3 DEF InviteRedeem, OpenCodes
  <2>2. QED
    BY <1>1, <1>2, <2>1 DEF Dir!Claim, OpenCodes
<1>4. CASE ~(invite_records[c] # None /\ invite_records[c].expires_at > now)
  <2>1. claims' = claims
    BY <1>4 DEF InviteRedeem
  <2>2. CASE c \in OpenCodes
    <3>1. Dir!Lapse({c})
      BY <1>1, <1>2, <2>1 DEF Dir!Lapse, OpenCodes
    <3>2. QED
      BY <2>2, <3>1
  <2>3. CASE c \notin OpenCodes
    BY <1>1, <1>2, <2>1, <2>3 DEF DirectoryView
  <2>4. QED
    BY <2>2, <2>3
<1>5. QED
  BY <1>3, <1>4

LEMMA SweepLapses ==
  ASSUME StateTypeOK, Sweep
  PROVE  \E C \in SUBSET OpenCodes : Dir!Lapse(C)
<1> DEFINE Gone == {c \in Code : Expired(c)}
<1>1. Gone \in SUBSET OpenCodes
  BY DEF Expired, OpenCodes
<1>2. /\ OpenCodes' = OpenCodes \ Gone
      /\ Online' = Online
      /\ UNCHANGED <<offline_notifications, issued, claims>>
  BY DEF Sweep, registry, mail, Online, OpenCodes
<1>3. Dir!Lapse(Gone)
  BY <1>2 DEF Dir!Lapse, OpenCodes
<1> HIDE DEF Gone
<1>4. QED
  BY <1>1, <1>3 DEF Dir!Lapse

\* The remaining events change no invite and nothing the directory sees.
LEMMA QuietInvites ==
  ASSUME NEW s \in Socket, Event(s),
         ~ \E c \in Code : InviteRedeem(s, c) \/ \E d \in Lifetimes : InviteCreate(s, c, d)
  PROVE  UNCHANGED <<issued, invite_records, claims>>
<1>1. CASE Connect(s) \/ End(s) \/ SocketError(s) \/ SocketClose(s) \/ Read(s)
             \/ Reject(s) \/ Register(s) \/ RefuseRegister(s)
  BY <1>1 DEF Connect, End, SocketError, SocketClose, Read, Reject, Register,
              RefuseRegister, invites
<1>2. CASE InviteRateLimited(s)
  BY <1>2 DEF InviteRateLimited
<1>3. CASE \E q \in Peer : Lookup(s, q) \/ Signal(s, q) \/ NotifyOnline(s, q) \/ NotifyOffline(s, q)
  BY <1>3 DEF Lookup, Signal, NotifyOnline, NotifyOffline, invites
<1>4. QED
  BY <1>1, <1>2, <1>3 DEF Event, Request

LEMMA QuietDirectory ==
  ASSUME NEW s \in Socket, Event(s),
         ~Register(s), ~SocketError(s), ~SocketClose(s),
         ~ \E q \in Peer : NotifyOffline(s, q),
         ~ \E c \in Code : InviteRedeem(s, c) \/ \E d \in Lifetimes : InviteCreate(s, c, d)
  PROVE  UNCHANGED DirectoryView
<1>1. UNCHANGED <<Online, offline_notifications>>
  BY QuietMail DEF Online
<1>2. UNCHANGED <<issued, invite_records, claims>>
  BY QuietInvites
<1>3. QED
  BY <1>1, <1>2 DEF DirectoryView, OpenCodes

LEMMA DirectoryStep ==
  StateTypeOK /\ NoBacklogWhileOnline /\ [Next]_vars => [Dir!Next]_DirectoryView
<1> SUFFICES ASSUME StateTypeOK, NoBacklogWhileOnline, [Next]_vars
             PROVE  [Dir!Next]_DirectoryView
  OBVIOUS
<1> USE DEF Dir!Next
<1>1. ASSUME NEW s \in Socket, Event(s)
      PROVE  [Dir!Next]_DirectoryView
  <2>1. CASE Register(s)
    BY <2>1, RegisterArrives
  <2>2. CASE SocketError(s) \/ SocketClose(s)
    BY <2>2, EvictLeaves
  <2>3. ASSUME NEW q \in Peer, NotifyOffline(s, q)
        PROVE  [Dir!Next]_DirectoryView
    BY <2>3, NotifyDeposits
  <2>4. ASSUME NEW c \in Code, InviteRedeem(s, c)
        PROVE  [Dir!Next]_DirectoryView
    BY <2>4, RedeemClaims DEF OpenCodes
  <2>5. ASSUME NEW c \in Code, NEW d \in Lifetimes, InviteCreate(s, c, d)
        PROVE  [Dir!Next]_DirectoryView
    BY <2>5, CreatePublishes
  <2>6. QED
    BY <1>1, <2>1, <2>2, <2>3, <2>4, <2>5, QuietDirectory
<1>2. CASE Sweep
  BY <1>2, SweepLapses DEF OpenCodes
<1>3. CASE Restart
  <2>1. Online' = {} /\ OpenCodes' = {}
    BY <1>3 DEF Restart, Online, OpenCodes
  <2>2. Dir!Restart
    BY <1>3, <2>1 DEF Restart, Dir!Restart, OpenCodes
  <2>3. QED
    BY <2>2
<1>4. CASE Tick \/ UNCHANGED vars
  BY <1>4 DEF Tick, vars, registry, invites, mail, DirectoryView, Online, OpenCodes
<1>5. QED
  BY <1>1, <1>2, <1>3, <1>4 DEF Next

\* Seen through lookup, mailboxes and invite codes the server is the
\* directory: every behaviour of its connections is one of Directory.
THEOREM ImplementsDirectory == Spec => Refinement
<1>1. DirectoryView = Dir!directoryVars
  BY DEF DirectoryView, Dir!directoryVars, OpenCodes
<1>2. StateTypeOK /\ NoBacklogWhileOnline /\ [Next]_vars => [Dir!Next]_(Dir!directoryVars)
  BY <1>1, DirectoryStep DEF DirectoryView, Dir!directoryVars, OpenCodes
<1>3. QED
  BY <1>2, DirectoryInit, TypesPreserved, NoBacklog, PTL DEF Spec, Refinement, Dir!Spec

-----------------------------------------------------------------------------
(* Invites.                                                                *)

\* One step of the server removes an invite only by a redemption, after its
\* expiry, or by a restart.
InviteStep ==
  \A c \in Code :
    (invite_records[c] # None /\ invite_records'[c] = None) =>
      \/ claims'[c] > claims[c]
      \/ invite_records[c].expires_at <= now
      \/ restarts' # restarts

LEMMA RedeemRemoves ==
  ASSUME StateTypeOK, NEW s \in Socket, NEW c \in Code, InviteRedeem(s, c)
  PROVE  InviteStep
<1> SUFFICES ASSUME NEW x \in Code, invite_records[x] # None, invite_records'[x] = None,
                    ~(invite_records[x].expires_at <= now)
             PROVE  claims'[x] > claims[x]
  BY DEF InviteStep
<1>1. x = c
  BY DEF InviteRedeem, Consumed, StateTypeOK, StoreTypeOK
<1>2. invite_records[c].expires_at \in Nat /\ now \in Nat /\ claims \in [Code -> Nat]
  BY <1>1 DEF StateTypeOK, StoreTypeOK
<1>3. claims' = [claims EXCEPT ![c] = @ + 1]
  BY <1>1, <1>2 DEF InviteRedeem
<1>4. QED
  BY <1>1, <1>2, <1>3

LEMMA CreateRemovesNone ==
  ASSUME StateTypeOK, NEW s \in Socket, NEW c \in Code, NEW d \in Lifetimes,
         InviteCreate(s, c, d)
  PROVE  InviteStep
<1>1. \/ invite_records' = invite_records
      \/ invite_records' = [invite_records EXCEPT
             ![c] = [peer |-> Owner[s], expires_at |-> now + d]]
  BY DEF InviteCreate
<1>2. [peer |-> Owner[s], expires_at |-> now + d] # None
  BY RecordIsPresent
<1>3. QED
  BY <1>1, <1>2 DEF InviteStep, StateTypeOK, StoreTypeOK

LEMMA InviteNext == StateTypeOK /\ [Next]_vars => [InviteStep]_vars
<1> SUFFICES ASSUME StateTypeOK, Next
             PROVE  InviteStep
  OBVIOUS
<1>1. ASSUME NEW s \in Socket, Event(s)
      PROVE  InviteStep
  <2>1. ASSUME NEW c \in Code, InviteRedeem(s, c)
        PROVE  InviteStep
    BY <2>1, RedeemRemoves
  <2>2. ASSUME NEW c \in Code, NEW d \in Lifetimes, InviteCreate(s, c, d)
        PROVE  InviteStep
    BY <2>2, CreateRemovesNone
  <2>3. CASE ~ \E c \in Code : InviteRedeem(s, c) \/ \E d \in Lifetimes : InviteCreate(s, c, d)
    BY <1>1, <2>3, QuietInvites DEF InviteStep
  <2>4. QED
    BY <2>1, <2>2, <2>3
<1>2. CASE Sweep
  BY <1>2 DEF Sweep, Expired, InviteStep
<1>3. CASE Tick
  BY <1>3 DEF Tick, invites, InviteStep
<1>4. CASE Restart
  <2>1. restarts' = restarts + 1 /\ restarts \in Nat
    BY <1>4 DEF Restart, StateTypeOK, StoreTypeOK
  <2>2. QED
    BY <2>1 DEF InviteStep
<1>5. QED
  BY <1>1, <1>2, <1>3, <1>4 DEF Next

\* Nobody's connection, registration or eviction takes an invite away.
THEOREM InvitesSurvive == Spec => InviteOutlivesConnections
<1>1. Spec => [][InviteStep]_vars
  BY InviteNext, TypesPreserved, PTL DEF Spec
<1>2. QED
  BY <1>1 DEF InviteOutlivesConnections, InviteStep

=============================================================================
