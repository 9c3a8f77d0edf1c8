------------------------------- MODULE Directory -------------------------------
(***************************************************************************)
(* What the rendezvous server promises its peers, without connections:     *)
(* who is online, one mailbox per absent peer, and invite codes that can   *)
(* be claimed once.  Rendezvous implements it (Rendezvous!Refinement).     *)
(***************************************************************************)
EXTENDS Naturals, Sequences, FiniteSets

CONSTANTS
  Peer,       \* identities
  Code,       \* hashes of invite codes
  Note,       \* notifications
  MaxPeers    \* limits.max_peers

VARIABLES
  online,     \* peers a lookup finds
  mailbox,    \* [Peer -> Seq(Note)], notifications kept for absent peers
  issued,     \* codes some peer has published
  open,       \* issued codes that can still be claimed
  claims      \* [Code -> Nat], how often a code was claimed

directoryVars == <<online, mailbox, issued, open, claims>>

Init ==
  /\ online = {}
  /\ mailbox = [p \in Peer |-> <<>>]
  /\ issued = {}
  /\ open = {}
  /\ claims = [c \in Code |-> 0]

\* A peer comes online: its mailbox is handed over, whole, at that moment.
Arrive(p) ==
  /\ p \notin online
  /\ Cardinality(online) < MaxPeers
  /\ online' = online \cup {p}
  /\ mailbox' = [mailbox EXCEPT ![p] = <<>>]
  /\ UNCHANGED <<issued, open, claims>>

\* A peer goes offline: nothing it published and nothing kept for anyone is lost.
Leave(p) ==
  /\ p \in online
  /\ online' = online \ {p}
  /\ UNCHANGED <<mailbox, issued, open, claims>>

\* Only an absent peer's mailbox grows, at its end.
Deposit(p, n) ==
  /\ p \notin online
  /\ mailbox' = [mailbox EXCEPT ![p] = Append(@, n)]
  /\ UNCHANGED <<online, issued, open, claims>>

Publish(c) ==
  /\ c \notin issued
  /\ issued' = issued \cup {c}
  /\ open' = open \cup {c}
  /\ UNCHANGED <<online, mailbox, claims>>

Claim(c) ==
  /\ c \in open
  /\ open' = open \ {c}
  /\ claims' = [claims EXCEPT ![c] = @ + 1]
  /\ UNCHANGED <<online, mailbox, issued>>

\* Codes expire.
Lapse(C) ==
  /\ open' = open \ C
  /\ UNCHANGED <<online, mailbox, issued, claims>>

\* A restart loses the run-time data; what was claimed stays claimed.
Restart ==
  /\ online' = {}
  /\ mailbox' = [p \in Peer |-> <<>>]
  /\ open' = {}
  /\ UNCHANGED <<issued, claims>>

Next ==
  \/ \E p \in Peer : Arrive(p) \/ Leave(p) \/ \E n \in Note : Deposit(p, n)
  \/ \E c \in Code : Publish(c) \/ Claim(c)
  \/ \E C \in SUBSET open : Lapse(C)
  \/ Restart

Spec == Init /\ [][Next]_directoryVars

=============================================================================
