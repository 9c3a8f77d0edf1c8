---------------------------- MODULE SignalRelay ----------------------------
(***************************************************************************)
(* The relays that wireSessionToRendezvous() puts between the sessions of  *)
(* one process and its RendezvousClient (packages/p2p/src/                 *)
(* rendezvous-relay.ts), at the receiving end of the signals.              *)
(*                                                                         *)
(* A session is named by the peer it is for.  Each relay listens to        *)
(* signal_in of the one client, so every relay sees the frames of every    *)
(* peer.  Verification is asynchronous: frames that came in one read of    *)
(* the socket are handled before it ends.                                  *)
(***************************************************************************)
EXTENDS Naturals, Sequences

CONSTANTS Peers,            \* the peers that this process has a session for
          MaxDescriptions,  \* [Peers -> bound on its offers and answers]
          MaxCandidates     \* [Peers -> bound on its candidates]

ASSUME RelayAssumption ==
  /\ MaxDescriptions \in [Peers -> Nat]
  /\ MaxCandidates \in [Peers -> Nat]

\* "malformed" stands for what is refused at once (a missing field, a stale
\* timestamp, bad hex or base64), "forged" for what verification finds (a
\* signature or a DTLS fingerprint that does not match).
Grades == {"good", "malformed", "forged"}
Description == [kind : {"description"}, from : Peers, grade : Grades]
Candidate == UNION {[kind : {"candidate"}, from : {p}, n : 1 .. MaxCandidates[p]] : p \in Peers}
Frame == Description \cup Candidate

VARIABLES
  descriptions,          \* how many descriptions a peer has made
  made,                  \* how many candidates a peer has made
  channel,               \* frames of a peer on their way through the server
  wired,                 \* the relay of a session is subscribed to signal_in
  session,               \* PeerSession.#state; "connecting" includes "connected"
  verifying,             \* descriptions that a relay is verifying, oldest first
  remoteDescSet,         \* remoteDescSet
  pendingIceCandidates,  \* pendingIceCandidates
  described,             \* what setRemoteDescription() has been given
  candidates,            \* what addRemoteCandidate() has been given
  arrived,               \* history: candidates a relay has seen while its session lived
  crashed                \* an exception that nobody catches has ended the process

remoteVars == <<descriptions, made>>
relayVars == <<remoteDescSet, pendingIceCandidates, described, candidates>>
vars == <<remoteVars, channel, wired, session, verifying, relayVars, arrived, crashed>>

TypeOK ==
  /\ descriptions \in [Peers -> Nat]
  /\ made \in [Peers -> Nat]
  /\ channel \in [Peers -> Seq(Frame)]
  /\ wired \in [Peers -> BOOLEAN]
  /\ session \in [Peers -> {"idle", "connecting", "failed", "closed"}]
  /\ verifying \in [Peers -> Seq(Description)]
  /\ remoteDescSet \in [Peers -> BOOLEAN]
  /\ pendingIceCandidates \in [Peers -> Seq(Candidate)]
  /\ described \in [Peers -> Seq(Description)]
  /\ candidates \in [Peers -> Seq(Candidate)]
  /\ arrived \in [Peers -> Seq(Candidate)]
  /\ crashed \in BOOLEAN

Init ==
  /\ descriptions = [p \in Peers |-> 0]
  /\ made = [p \in Peers |-> 0]
  /\ channel = [p \in Peers |-> <<>>]
  /\ wired = [p \in Peers |-> TRUE]
  /\ session \in [Peers -> {"idle", "connecting"}]
  /\ verifying = [p \in Peers |-> <<>>]
  /\ remoteDescSet = [p \in Peers |-> FALSE]
  /\ pendingIceCandidates = [p \in Peers |-> <<>>]
  /\ described = [p \in Peers |-> <<>>]
  /\ candidates = [p \in Peers |-> <<>>]
  /\ arrived = [p \in Peers |-> <<>>]
  /\ crashed = FALSE

-----------------------------------------------------------------------------
(* The far end.  client.signal() throws while its client is not ready, and *)
(* the server has nobody to give the frame to while ours is not: the frame *)
(* is lost.                                                                *)

Sends(q, f) ==
  /\ channel' \in {channel, [channel EXCEPT ![q] = Append(@, f)]}
  /\ UNCHANGED <<wired, session, verifying, relayVars, arrived, crashed>>

LocalDescription(q) ==
  /\ descriptions[q] < MaxDescriptions[q]
  /\ descriptions' = [descriptions EXCEPT ![q] = @ + 1]
  /\ \E g \in Grades : Sends(q, [kind |-> "description", from |-> q, grade |-> g])
  /\ UNCHANGED made

LocalCandidate(q) ==
  /\ descriptions[q] > 0
  /\ made[q] < MaxCandidates[q]
  /\ made' = [made EXCEPT ![q] = @ + 1]
  /\ Sends(q, [kind |-> "candidate", from |-> q, n |-> made[q] + 1])
  /\ UNCHANGED descriptions

-----------------------------------------------------------------------------
(* signal_in. *)

Over(p) == session[p] \in {"failed", "closed"}

\* What fail() makes of the state of a session.
Failed(p) == IF Over(p) THEN session[p] ELSE "failed"

Receives(q, f) ==
  /\ channel[q] # <<>> /\ Head(channel[q]) = f
  /\ channel' = [channel EXCEPT ![q] = Tail(@)]

\* Mutant of Refused: the identity in the envelope is not compared.
RefusedIfMalformed(p, f) == f.grade = "malformed"

\* What a relay refuses without verifying it.
Refused(p, f) == f.from # p \/ f.grade = "malformed"

\* Mutant of DescriptionIn: candidates are let through as soon as a
\* description has come.
DescriptionInAtOnce(q) ==
  \E f \in Description :
    /\ Receives(q, f)
    /\ session' = [p \in Peers |-> IF wired[p] /\ Refused(p, f) THEN Failed(p) ELSE session[p]]
    /\ verifying' = [p \in Peers |->
         IF wired[p] /\ ~Refused(p, f) THEN Append(verifying[p], f) ELSE verifying[p]]
    /\ remoteDescSet' = [p \in Peers |-> remoteDescSet[p] \/ (wired[p] /\ ~Refused(p, f))]
    /\ UNCHANGED <<remoteVars, wired, pendingIceCandidates, described, candidates,
                   arrived, crashed>>

\* Every relay is called.  Those that do not refuse the description start to
\* verify it.
DescriptionIn(q) ==
  \E f \in Description :
    /\ Receives(q, f)
    /\ session' = [p \in Peers |-> IF wired[p] /\ Refused(p, f) THEN Failed(p) ELSE session[p]]
    /\ verifying' = [p \in Peers |->
         IF wired[p] /\ ~Refused(p, f) THEN Append(verifying[p], f) ELSE verifying[p]]
    /\ UNCHANGED <<remoteVars, wired, relayVars, arrived, crashed>>

\* A relay that has no description yet keeps the candidate.
CandidateIn(q) ==
  \E f \in Candidate :
    /\ Receives(q, f)
    /\ arrived' = [p \in Peers |-> IF wired[p] /\ ~Over(p) THEN Append(arrived[p], f) ELSE arrived[p]]
    /\ pendingIceCandidates' = [p \in Peers |->
         IF wired[p] /\ ~remoteDescSet[p] THEN Append(pendingIceCandidates[p], f)
                                          ELSE pendingIceCandidates[p]]
    /\ candidates' = [p \in Peers |->
         IF wired[p] /\ remoteDescSet[p] /\ ~Over(p) THEN Append(candidates[p], f)
                                                     ELSE candidates[p]]
    /\ UNCHANGED <<remoteVars, wired, session, verifying, remoteDescSet, described, crashed>>

\* addRemoteCandidate() may throw once the connection is closed, and a listener
\* of the client has no catch.
CandidateThrows(q) ==
  \E f \in Candidate :
    /\ Receives(q, f)
    /\ \E p \in Peers : wired[p] /\ remoteDescSet[p] /\ Over(p)
    /\ crashed' = TRUE
    /\ UNCHANGED <<remoteVars, wired, session, verifying, relayVars, arrived>>

-----------------------------------------------------------------------------
(* The continuation of verifyFingerprint(). *)

Verified(p, f) ==
  /\ verifying[p] # <<>> /\ Head(verifying[p]) = f
  /\ verifying' = [verifying EXCEPT ![p] = Tail(@)]

VerificationFails(p) ==
  \E f \in Description :
    /\ Verified(p, f) /\ f.grade = "forged"
    /\ pendingIceCandidates' = [pendingIceCandidates EXCEPT ![p] = <<>>]
    /\ session' = [session EXCEPT ![p] = Failed(p)]
    /\ UNCHANGED <<remoteVars, channel, wired, remoteDescSet, described, candidates,
                   arrived, crashed>>

\* acceptSignal(); once the session is over nothing reaches the connection.
AcceptSignal(p, f) ==
  IF Over(p)
    THEN UNCHANGED <<session, described>>
    ELSE /\ session' = [session EXCEPT ![p] = "connecting"]
         /\ described' = [described EXCEPT ![p] = Append(@, f)]

\* Mutant of FlushIceCandidates: left for a later event.
FlushLater(p) == UNCHANGED <<pendingIceCandidates, candidates>>

FlushIceCandidates(p) ==
  /\ pendingIceCandidates' = [pendingIceCandidates EXCEPT ![p] = <<>>]
  /\ candidates' = IF Over(p) THEN candidates
                   ELSE [candidates EXCEPT ![p] = @ \o pendingIceCandidates[p]]

Accept(p) ==
  \E f \in Description :
    /\ Verified(p, f) /\ f.grade = "good"
    /\ AcceptSignal(p, f)
    /\ remoteDescSet' = [remoteDescSet EXCEPT ![p] = TRUE]
    /\ FlushIceCandidates(p)
    /\ UNCHANGED <<remoteVars, channel, wired, arrived, crashed>>

\* setRemoteDescription() may throw on a closed connection, and nobody handles
\* the rejection.
AcceptThrows(p) ==
  \E f \in Description :
    /\ Verified(p, f) /\ f.grade = "good"
    /\ Over(p)
    /\ crashed' = TRUE
    /\ UNCHANGED <<remoteVars, channel, wired, session, relayVars, arrived>>

-----------------------------------------------------------------------------
(* The owner of the session.  A timer or a native event waits until the    *)
(* verifications are done; a continuation of the owner need not.           *)

SessionFails(p) ==
  /\ \A q \in Peers : verifying[q] = <<>>
  /\ ~Over(p)
  /\ session' = [session EXCEPT ![p] = "failed"]
  /\ UNCHANGED <<remoteVars, channel, wired, verifying, relayVars, arrived, crashed>>

Close(p) ==
  /\ session[p] # "closed"
  /\ session' = [session EXCEPT ![p] = "closed"]
  /\ UNCHANGED <<remoteVars, channel, wired, verifying, relayVars, arrived, crashed>>

Unsubscribe(p) ==
  /\ wired[p]
  /\ wired' = [wired EXCEPT ![p] = FALSE]
  /\ UNCHANGED <<remoteVars, channel, session, verifying, relayVars, arrived, crashed>>

Next ==
  /\ ~crashed
  /\ \E p \in Peers :
       \/ LocalDescription(p) \/ LocalCandidate(p)
       \/ DescriptionIn(p) \/ CandidateIn(p) \/ CandidateThrows(p)
       \/ VerificationFails(p) \/ Accept(p) \/ AcceptThrows(p)
       \/ SessionFails(p) \/ Close(p) \/ Unsubscribe(p)

Spec == Init /\ [][Next]_vars

-----------------------------------------------------------------------------
(* Properties. *)

\* What reaches a connection was verified, and for the peer that the session
\* is for (rendezvous-relay.ts:186, 244-279).
OnlyVerified ==
  \A p \in Peers : \A i \in 1 .. Len(described[p]) :
    described[p][i].from = p /\ described[p][i].grade = "good"

\* No candidate reaches a connection that has no remote description, although
\* candidates arrive while the description is verified
\* (rendezvous-relay.ts:134-138).
NoCandidateBeforeDescription ==
  \A p \in Peers : candidates[p] # <<>> => described[p] # <<>>

\* As long as a session lives, every candidate its relay has seen waits in the
\* buffer, or has been applied, once and in the order of arrival; nothing stays
\* in the buffer once candidates are let through, where no later event would
\* take it out (rendezvous-relay.ts:143-153, 278-280, 293-300).
CandidatesKept ==
  \A p \in Peers :
    /\ ~Over(p) => arrived[p] = candidates[p] \o pendingIceCandidates[p]
    /\ remoteDescSet[p] => pendingIceCandidates[p] = <<>>
=============================================================================
