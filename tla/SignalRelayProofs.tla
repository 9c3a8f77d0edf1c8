-------------------------- MODULE SignalRelayProofs --------------------------
(***************************************************************************)
(* The relays of any number of sessions, with any number of descriptions   *)
(* and candidates.  RelayInv ties the relay's variables to what the        *)
(* connection has been given; each of its parts concerns one relay.        *)
(***************************************************************************)
EXTENDS SignalRelay, SequenceTheorems, TLAPS

\* Every disjunct of Next, for a peer.
Step(p) ==
  \/ LocalDescription(p) \/ LocalCandidate(p)
  \/ DescriptionIn(p) \/ CandidateIn(p) \/ CandidateThrows(p)
  \/ VerificationFails(p) \/ Accept(p) \/ AcceptThrows(p)
  \/ SessionFails(p) \/ Close(p) \/ Unsubscribe(p)

LEMMA NextIsStep == Next => \E p \in Peers : Step(p)
BY DEF Next, Step

-----------------------------------------------------------------------------
(* Types.                                                                  *)

LEMMA ReceivesTypes ==
  ASSUME TypeOK, NEW q \in Peers, NEW f, Receives(q, f)
  PROVE  channel' \in [Peers -> Seq(Frame)]
BY DEF TypeOK, Receives

LEMMA VerifiedTypes ==
  ASSUME TypeOK, NEW p \in Peers, NEW f, Verified(p, f)
  PROVE  verifying' \in [Peers -> Seq(Description)]
BY DEF TypeOK, Verified

LEMMA FailedTypes ==
  ASSUME TypeOK, NEW p \in Peers
  PROVE  Failed(p) \in {"idle", "connecting", "failed", "closed"}
BY DEF TypeOK, Failed

LEMMA CandidateTypes ==
  ASSUME TypeOK, NEW q \in Peers, made[q] < MaxCandidates[q]
  PROVE  [kind |-> "candidate", from |-> q, n |-> made[q] + 1] \in Frame
<1>1. made[q] + 1 \in 1 .. MaxCandidates[q]
  BY RelayAssumption DEF TypeOK
<1>2. [kind |-> "candidate", from |-> q, n |-> made[q] + 1]
        \in [kind : {"candidate"}, from : {q}, n : 1 .. MaxCandidates[q]]
  BY <1>1
<1> QED BY <1>2 DEF Frame, Candidate

LEMMA SendsTypes ==
  ASSUME TypeOK, NEW q \in Peers, NEW f \in Frame, Sends(q, f)
  PROVE  channel' \in [Peers -> Seq(Frame)]
<1>1. CASE channel' = channel
  BY <1>1 DEF TypeOK
<1>2. CASE channel' = [channel EXCEPT ![q] = Append(@, f)]
  BY <1>2 DEF TypeOK
<1> QED BY <1>1, <1>2 DEF Sends

LEMMA StepTypes ==
  ASSUME TypeOK, NEW p \in Peers, Step(p)
  PROVE  TypeOK'
<1> USE DEF remoteVars, relayVars
<1>1. CASE LocalDescription(p)
  <2>1. PICK g \in Grades : Sends(p, [kind |-> "description", from |-> p, grade |-> g])
    BY <1>1 DEF LocalDescription
  <2>2. [kind |-> "description", from |-> p, grade |-> g] \in Frame
    BY DEF Frame, Description
  <2>3. channel' \in [Peers -> Seq(Frame)]
    BY <2>1, <2>2, SendsTypes
  <2>4. descriptions' \in [Peers -> Nat]
    BY <1>1 DEF LocalDescription, TypeOK
  <2> QED BY <1>1, <2>1, <2>3, <2>4 DEF LocalDescription, Sends, TypeOK
<1>2. CASE LocalCandidate(p)
  <2>1. channel' \in [Peers -> Seq(Frame)]
    BY <1>2, CandidateTypes, SendsTypes DEF LocalCandidate
  <2>2. made' \in [Peers -> Nat]
    BY <1>2 DEF LocalCandidate, TypeOK
  <2> QED BY <1>2, <2>1, <2>2 DEF LocalCandidate, Sends, TypeOK
<1>3. CASE DescriptionIn(p)
  <2>1. PICK f \in Description :
          /\ Receives(p, f)
          /\ session' = [r \in Peers |-> IF wired[r] /\ Refused(r, f) THEN Failed(r) ELSE session[r]]
          /\ verifying' = [r \in Peers |->
               IF wired[r] /\ ~Refused(r, f) THEN Append(verifying[r], f) ELSE verifying[r]]
          /\ UNCHANGED <<remoteVars, wired, relayVars, arrived, crashed>>
    BY <1>3 DEF DescriptionIn
  <2>2. channel' \in [Peers -> Seq(Frame)]
    BY <2>1, ReceivesTypes
  <2>3. session' \in [Peers -> {"idle", "connecting", "failed", "closed"}]
    BY <2>1, FailedTypes DEF TypeOK
  <2>4. verifying' \in [Peers -> Seq(Description)]
    BY <2>1 DEF TypeOK
  <2> QED BY <2>1, <2>2, <2>3, <2>4 DEF TypeOK
<1>4. CASE CandidateIn(p)
  <2>1. PICK f \in Candidate :
          /\ Receives(p, f)
          /\ arrived' = [r \in Peers |-> IF wired[r] /\ ~Over(r) THEN Append(arrived[r], f) ELSE arrived[r]]
          /\ pendingIceCandidates' = [r \in Peers |->
               IF wired[r] /\ ~remoteDescSet[r] THEN Append(pendingIceCandidates[r], f)
                                                ELSE pendingIceCandidates[r]]
          /\ candidates' = [r \in Peers |->
               IF wired[r] /\ remoteDescSet[r] /\ ~Over(r) THEN Append(candidates[r], f)
                                                           ELSE candidates[r]]
          /\ UNCHANGED <<remoteVars, wired, session, verifying, remoteDescSet, described, crashed>>
    BY <1>4 DEF CandidateIn
  <2>2. channel' \in [Peers -> Seq(Frame)]
    BY <2>1, ReceivesTypes
  <2>3. /\ arrived' \in [Peers -> Seq(Candidate)]
        /\ pendingIceCandidates' \in [Peers -> Seq(Candidate)]
        /\ candidates' \in [Peers -> Seq(Candidate)]
    BY <2>1 DEF TypeOK
  <2> QED BY <2>1, <2>2, <2>3 DEF TypeOK
<1>5. CASE CandidateThrows(p)
  <2>1. channel' \in [Peers -> Seq(Frame)]
    BY <1>5, ReceivesTypes DEF CandidateThrows
  <2> QED BY <1>5, <2>1 DEF CandidateThrows, TypeOK
<1>6. CASE VerificationFails(p)
  <2>1. verifying' \in [Peers -> Seq(Description)]
    BY <1>6, VerifiedTypes DEF VerificationFails
  <2>2. pendingIceCandidates' \in [Peers -> Seq(Candidate)]
    BY <1>6 DEF VerificationFails, TypeOK
  <2> QED BY <1>6, <2>1, <2>2, FailedTypes DEF VerificationFails, TypeOK
<1>7. CASE Accept(p)
  <2>1. PICK f \in Description :
          /\ Verified(p, f) /\ f.grade = "good"
          /\ AcceptSignal(p, f)
          /\ remoteDescSet' = [remoteDescSet EXCEPT ![p] = TRUE]
          /\ FlushIceCandidates(p)
          /\ UNCHANGED <<remoteVars, channel, wired, arrived, crashed>>
    BY <1>7 DEF Accept
  <2>2. verifying' \in [Peers -> Seq(Description)]
    BY <2>1, VerifiedTypes
  <2>3. /\ session' \in [Peers -> {"idle", "connecting", "failed", "closed"}]
        /\ described' \in [Peers -> Seq(Description)]
    <3>1. CASE Over(p)
      BY <2>1, <3>1 DEF AcceptSignal, TypeOK
    <3>2. CASE ~Over(p)
      <4>1. session' = [session EXCEPT ![p] = "connecting"]
            /\ described' = [described EXCEPT ![p] = Append(@, f)]
        BY <2>1, <3>2 DEF AcceptSignal
      <4> QED BY <4>1 DEF TypeOK
    <3> QED BY <3>1, <3>2
  <2>4. /\ pendingIceCandidates' \in [Peers -> Seq(Candidate)]
        /\ candidates' \in [Peers -> Seq(Candidate)]
    <3>1. candidates[p] \o pendingIceCandidates[p] \in Seq(Candidate)
      BY ConcatProperties DEF TypeOK
    <3>2. pendingIceCandidates' \in [Peers -> Seq(Candidate)]
      BY <2>1 DEF FlushIceCandidates, TypeOK
    <3>3. CASE Over(p)
      BY <2>1, <3>2, <3>3 DEF FlushIceCandidates, TypeOK
    <3>4. CASE ~Over(p)
      BY <2>1, <3>1, <3>2, <3>4 DEF FlushIceCandidates, TypeOK
    <3> QED BY <3>3, <3>4
  <2> QED BY <2>1, <2>2, <2>3, <2>4 DEF TypeOK
<1>8. CASE AcceptThrows(p)
  <2>1. verifying' \in [Peers -> Seq(Description)]
    BY <1>8, VerifiedTypes DEF AcceptThrows
  <2> QED BY <1>8, <2>1 DEF AcceptThrows, TypeOK
<1>9. CASE SessionFails(p) \/ Close(p) \/ Unsubscribe(p)
  BY <1>9 DEF SessionFails, Close, Unsubscribe, TypeOK
<1> QED BY <1>1, <1>2, <1>3, <1>4, <1>5, <1>6, <1>7, <1>8, <1>9 DEF Step

\* Type correctness of the relays and of what the connections are given.
THEOREM RelayTypes == Spec => []TypeOK
<1>1. Init => TypeOK
  <2> SUFFICES ASSUME Init PROVE TypeOK
    OBVIOUS
  <2>1. /\ descriptions \in [Peers -> Nat] /\ made \in [Peers -> Nat]
        /\ wired \in [Peers -> BOOLEAN] /\ remoteDescSet \in [Peers -> BOOLEAN]
        /\ session \in [Peers -> {"idle", "connecting", "failed", "closed"}]
        /\ crashed \in BOOLEAN
    BY DEF Init
  <2>2. /\ channel \in [Peers -> Seq(Frame)] /\ verifying \in [Peers -> Seq(Description)]
        /\ described \in [Peers -> Seq(Description)]
    BY DEF Init
  <2>3. /\ pendingIceCandidates \in [Peers -> Seq(Candidate)]
        /\ candidates \in [Peers -> Seq(Candidate)] /\ arrived \in [Peers -> Seq(Candidate)]
    BY DEF Init
  <2> QED BY <2>1, <2>2, <2>3 DEF TypeOK
<1>2. TypeOK /\ [Next]_vars => TypeOK'
  <2> SUFFICES ASSUME TypeOK, [Next]_vars PROVE TypeOK'
    OBVIOUS
  <2>1. CASE Next
    BY <2>1, NextIsStep, StepTypes
  <2>2. CASE UNCHANGED vars
    BY <2>2 DEF TypeOK, vars, remoteVars, relayVars
  <2> QED BY <2>1, <2>2
<1> QED BY <1>1, <1>2, PTL DEF Spec

-----------------------------------------------------------------------------
(* One relay.                                                              *)

VerifyingFits(p) ==
  \A i \in 1 .. Len(verifying[p]) :
    verifying[p][i].from = p /\ verifying[p][i].grade # "malformed"

DescribedFits(p) ==
  \A i \in 1 .. Len(described[p]) : described[p][i].from = p /\ described[p][i].grade = "good"

\* The flag, the buffer and the connection agree.
BufferFits(p) ==
  /\ ~remoteDescSet[p] => candidates[p] = <<>>
  /\ remoteDescSet[p] => pendingIceCandidates[p] = <<>>
  /\ remoteDescSet[p] /\ ~Over(p) => described[p] # <<>>
  /\ candidates[p] # <<>> => described[p] # <<>>

NoneLost(p) == ~Over(p) => arrived[p] = candidates[p] \o pendingIceCandidates[p]

RelayInv ==
  \A p \in Peers : VerifyingFits(p) /\ DescribedFits(p) /\ BufferFits(p) /\ NoneLost(p)

LEMMA AppendToConcat ==
  ASSUME NEW s \in Seq(Candidate), NEW t \in Seq(Candidate), NEW e \in Candidate
  PROVE  Append(s \o t, e) = s \o Append(t, e)
<1>1. s \o t \in Seq(Candidate) /\ <<e>> \in Seq(Candidate)
  BY ConcatProperties
<1>2. Append(s \o t, e) = (s \o t) \o <<e>> /\ Append(t, e) = t \o <<e>>
  BY <1>1, AppendIsConcat
<1> QED BY <1>1, <1>2, ConcatAssociative

\* A step that lets no session come back and changes nothing else a relay keeps.
LEMMA QuietKeepsRelay ==
  ASSUME RelayInv, UNCHANGED <<verifying, relayVars, arrived>>,
         \A p \in Peers : Over(p) => Over(p)'
  PROVE  RelayInv'
<1> SUFFICES ASSUME NEW p \in Peers
             PROVE  (VerifyingFits(p) /\ DescribedFits(p) /\ BufferFits(p) /\ NoneLost(p))'
  BY DEF RelayInv
<1>1. VerifyingFits(p)' /\ DescribedFits(p)'
  BY DEF RelayInv, VerifyingFits, DescribedFits, relayVars
<1>2. BufferFits(p)' /\ NoneLost(p)'
  BY DEF RelayInv, BufferFits, NoneLost, relayVars, Over
<1> QED BY <1>1, <1>2

\* A relay that a step leaves alone.
LEMMA SameRelay ==
  ASSUME RelayInv, NEW p \in Peers,
         verifying'[p] = verifying[p], session'[p] = session[p],
         remoteDescSet'[p] = remoteDescSet[p], described'[p] = described[p],
         pendingIceCandidates'[p] = pendingIceCandidates[p],
         candidates'[p] = candidates[p], arrived'[p] = arrived[p]
  PROVE  (VerifyingFits(p) /\ DescribedFits(p) /\ BufferFits(p) /\ NoneLost(p))'
<1>1. VerifyingFits(p)' /\ DescribedFits(p)'
  BY DEF RelayInv, VerifyingFits, DescribedFits
<1>2. BufferFits(p)' /\ NoneLost(p)'
  BY DEF RelayInv, BufferFits, NoneLost, Over
<1> QED BY <1>1, <1>2

\* The rest of the verifications fits as well.
LEMMA VerifiedFits ==
  ASSUME TypeOK, NEW p \in Peers, VerifyingFits(p), NEW f, Verified(p, f)
  PROVE  /\ f.from = p /\ f.grade # "malformed"
         /\ VerifyingFits(p)'
         /\ \A r \in Peers : r # p => verifying'[r] = verifying[r]
<1>1. verifying[p] \in Seq(Description) /\ verifying[p] # <<>> /\ f = verifying[p][1]
  BY DEF Verified, TypeOK
<1>2. verifying'[p] = Tail(verifying[p]) /\ \A r \in Peers : r # p => verifying'[r] = verifying[r]
  BY DEF Verified, TypeOK
<1>3. 1 \in 1 .. Len(verifying[p])
  BY <1>1
<1>4. \A i \in 1 .. Len(verifying'[p]) :
        verifying'[p][i] = verifying[p][i + 1] /\ i + 1 \in 1 .. Len(verifying[p])
  BY <1>1, <1>2
<1> QED BY <1>1, <1>2, <1>3, <1>4 DEF VerifyingFits

LEMMA DescriptionKeepsRelay ==
  ASSUME TypeOK, RelayInv, NEW q \in Peers, DescriptionIn(q)
  PROVE  RelayInv'
<1>1. PICK f \in Description :
        /\ session' = [r \in Peers |-> IF wired[r] /\ Refused(r, f) THEN Failed(r) ELSE session[r]]
        /\ verifying' = [r \in Peers |->
             IF wired[r] /\ ~Refused(r, f) THEN Append(verifying[r], f) ELSE verifying[r]]
        /\ UNCHANGED <<relayVars, arrived>>
  BY DEF DescriptionIn
<1> SUFFICES ASSUME NEW p \in Peers
             PROVE  (VerifyingFits(p) /\ DescribedFits(p) /\ BufferFits(p) /\ NoneLost(p))'
  BY DEF RelayInv
<1>2. Over(p) => Over(p)'
  BY <1>1 DEF Over, Failed
<1>3. VerifyingFits(p)'
  <2>1. CASE wired[p] /\ ~Refused(p, f)
    <3>1. verifying'[p] = Append(verifying[p], f) /\ verifying[p] \in Seq(Description)
      BY <1>1, <2>1 DEF TypeOK
    <3>2. f.from = p /\ f.grade # "malformed"
      BY <2>1 DEF Refused
    <3> QED BY <3>1, <3>2 DEF RelayInv, VerifyingFits
  <2>2. CASE ~(wired[p] /\ ~Refused(p, f))
    BY <1>1, <2>2 DEF RelayInv, VerifyingFits
  <2> QED BY <2>1, <2>2
<1> QED BY <1>1, <1>2, <1>3 DEF RelayInv, DescribedFits, BufferFits, NoneLost, relayVars

LEMMA CandidateKeepsRelay ==
  ASSUME TypeOK, RelayInv, NEW q \in Peers, CandidateIn(q)
  PROVE  RelayInv'
<1>1. PICK f \in Candidate :
        /\ arrived' = [r \in Peers |-> IF wired[r] /\ ~Over(r) THEN Append(arrived[r], f) ELSE arrived[r]]
        /\ pendingIceCandidates' = [r \in Peers |->
             IF wired[r] /\ ~remoteDescSet[r] THEN Append(pendingIceCandidates[r], f)
                                              ELSE pendingIceCandidates[r]]
        /\ candidates' = [r \in Peers |->
             IF wired[r] /\ remoteDescSet[r] /\ ~Over(r) THEN Append(candidates[r], f)
                                                         ELSE candidates[r]]
        /\ UNCHANGED <<session, verifying, remoteDescSet, described>>
  BY DEF CandidateIn
<1> SUFFICES ASSUME NEW p \in Peers
             PROVE  (VerifyingFits(p) /\ DescribedFits(p) /\ BufferFits(p) /\ NoneLost(p))'
  BY DEF RelayInv
<1>2. candidates[p] \in Seq(Candidate) /\ pendingIceCandidates[p] \in Seq(Candidate)
  BY DEF TypeOK
<1>3. BufferFits(p)
  BY DEF RelayInv
<1>4. VerifyingFits(p)' /\ DescribedFits(p)'
  BY <1>1 DEF RelayInv, VerifyingFits, DescribedFits
<1>5. BufferFits(p)'
  BY <1>1, <1>2, <1>3 DEF BufferFits, Over
<1>6. ASSUME ~Over(p) PROVE arrived'[p] = candidates'[p] \o pendingIceCandidates'[p]
  <2>1. arrived[p] = candidates[p] \o pendingIceCandidates[p]
    BY <1>6 DEF RelayInv, NoneLost
  <2>2. CASE ~wired[p]
    BY <1>1, <2>1, <2>2
  <2>3. CASE wired[p] /\ ~remoteDescSet[p]
    <3>1. arrived'[p] = Append(arrived[p], f) /\ candidates'[p] = candidates[p]
          /\ pendingIceCandidates'[p] = Append(pendingIceCandidates[p], f)
      BY <1>1, <1>6, <2>3
    <3>2. Append(candidates[p] \o pendingIceCandidates[p], f)
            = candidates[p] \o Append(pendingIceCandidates[p], f)
      BY <1>2, AppendToConcat, Zenon
    <3> QED BY <2>1, <3>1, <3>2
  <2>4. CASE wired[p] /\ remoteDescSet[p]
    <3>1. pendingIceCandidates[p] = <<>> /\ arrived[p] = candidates[p]
      BY <1>2, <1>3, <2>1, <2>4, ConcatEmptySeq DEF BufferFits
    <3>2. Append(candidates[p], f) \in Seq(Candidate)
      BY <1>2
    <3>3. arrived'[p] = Append(candidates[p], f) /\ candidates'[p] = Append(candidates[p], f)
          /\ pendingIceCandidates'[p] = <<>>
      BY <1>1, <1>6, <2>4, <3>1
    <3> QED BY <3>2, <3>3, ConcatEmptySeq
  <2> QED BY <2>2, <2>3, <2>4
<1> QED BY <1>1, <1>4, <1>5, <1>6 DEF NoneLost, Over

LEMMA FailureKeepsRelay ==
  ASSUME TypeOK, RelayInv, NEW p \in Peers, VerificationFails(p)
  PROVE  RelayInv'
<1>1. PICK f \in Description : Verified(p, f)
  BY DEF VerificationFails
<1>2. VerifyingFits(p)' /\ \A r \in Peers : r # p => verifying'[r] = verifying[r]
  BY <1>1, VerifiedFits DEF RelayInv
<1>3. /\ pendingIceCandidates'[p] = <<>> /\ Over(p)'
      /\ \A r \in Peers : r # p =>
           pendingIceCandidates'[r] = pendingIceCandidates[r] /\ session'[r] = session[r]
      /\ UNCHANGED <<remoteDescSet, described, candidates, arrived>>
  BY DEF VerificationFails, Failed, Over, TypeOK
<1>4. ASSUME NEW r \in Peers, r # p
      PROVE  (VerifyingFits(r) /\ DescribedFits(r) /\ BufferFits(r) /\ NoneLost(r))'
  BY <1>2, <1>3, <1>4, SameRelay
<1>5. DescribedFits(p)' /\ BufferFits(p)' /\ NoneLost(p)'
  BY <1>3 DEF RelayInv, DescribedFits, BufferFits, NoneLost
<1> QED BY <1>2, <1>4, <1>5 DEF RelayInv

LEMMA AcceptKeepsRelay ==
  ASSUME TypeOK, RelayInv, NEW p \in Peers, Accept(p)
  PROVE  RelayInv'
<1>1. PICK f \in Description :
        /\ Verified(p, f) /\ f.grade = "good"
        /\ AcceptSignal(p, f)
        /\ remoteDescSet' = [remoteDescSet EXCEPT ![p] = TRUE]
        /\ FlushIceCandidates(p)
        /\ UNCHANGED arrived
  BY DEF Accept
<1>2. f.from = p /\ VerifyingFits(p)' /\ \A r \in Peers : r # p => verifying'[r] = verifying[r]
  BY <1>1, VerifiedFits DEF RelayInv
<1>3. remoteDescSet'[p] /\ pendingIceCandidates'[p] = <<>>
  BY <1>1 DEF FlushIceCandidates, TypeOK
<1>4. ASSUME NEW r \in Peers, r # p
      PROVE  (VerifyingFits(r) /\ DescribedFits(r) /\ BufferFits(r) /\ NoneLost(r))'
  <2>1. /\ session'[r] = session[r] /\ described'[r] = described[r]
        /\ candidates'[r] = candidates[r] /\ pendingIceCandidates'[r] = pendingIceCandidates[r]
        /\ remoteDescSet'[r] = remoteDescSet[r]
    BY <1>1, <1>4 DEF AcceptSignal, FlushIceCandidates, TypeOK
  <2> QED BY <1>1, <1>2, <1>4, <2>1, SameRelay
<1>5. CASE Over(p)
  <2>1. UNCHANGED <<session, described, candidates>>
    BY <1>1, <1>5 DEF AcceptSignal, FlushIceCandidates
  <2>2. DescribedFits(p)' /\ BufferFits(p)' /\ NoneLost(p)'
    BY <1>3, <1>5, <2>1 DEF RelayInv, DescribedFits, BufferFits, NoneLost, Over
  <2> QED BY <1>2, <1>4, <2>2 DEF RelayInv
<1>6. CASE ~Over(p)
  <2>1. /\ described[p] \in Seq(Description) /\ candidates[p] \in Seq(Candidate)
        /\ pendingIceCandidates[p] \in Seq(Candidate)
    BY DEF TypeOK
  <2>2. /\ described'[p] = Append(described[p], f)
        /\ candidates'[p] = candidates[p] \o pendingIceCandidates[p]
    BY <1>1, <1>6 DEF AcceptSignal, FlushIceCandidates, TypeOK
  <2>3. DescribedFits(p)' /\ described'[p] # <<>>
    BY <1>1, <1>2, <2>1, <2>2 DEF RelayInv, DescribedFits
  <2>4. NoneLost(p)'
    <3>1. arrived'[p] = candidates'[p] /\ candidates'[p] \in Seq(Candidate)
      BY <1>1, <1>6, <2>1, <2>2, ConcatProperties DEF RelayInv, NoneLost
    <3> QED BY <1>3, <3>1, ConcatEmptySeq DEF NoneLost
  <2>5. BufferFits(p)'
    BY <1>3, <2>3 DEF BufferFits
  <2> QED BY <1>2, <1>4, <2>3, <2>4, <2>5 DEF RelayInv
<1> QED BY <1>5, <1>6

LEMMA ThrowKeepsRelay ==
  ASSUME TypeOK, RelayInv, NEW p \in Peers, AcceptThrows(p)
  PROVE  RelayInv'
<1>1. PICK f \in Description : Verified(p, f)
  BY DEF AcceptThrows
<1>2. VerifyingFits(p)' /\ \A r \in Peers : r # p => verifying'[r] = verifying[r]
  BY <1>1, VerifiedFits DEF RelayInv
<1>3. UNCHANGED <<session, relayVars, arrived>>
  BY DEF AcceptThrows
<1>4. ASSUME NEW r \in Peers, r # p
      PROVE  (VerifyingFits(r) /\ DescribedFits(r) /\ BufferFits(r) /\ NoneLost(r))'
  BY <1>2, <1>3, <1>4, SameRelay DEF relayVars
<1>5. DescribedFits(p)' /\ BufferFits(p)' /\ NoneLost(p)'
  BY <1>3 DEF relayVars, RelayInv, DescribedFits, BufferFits, NoneLost, Over
<1> QED BY <1>2, <1>4, <1>5 DEF RelayInv

LEMMA StepKeepsRelay ==
  ASSUME TypeOK, RelayInv, NEW p \in Peers, Step(p)
  PROVE  RelayInv'
<1>1. CASE LocalDescription(p) \/ LocalCandidate(p) \/ CandidateThrows(p) \/ Unsubscribe(p)
  BY <1>1, QuietKeepsRelay
     DEF LocalDescription, LocalCandidate, Sends, CandidateThrows, Unsubscribe, Over
<1>2. CASE SessionFails(p) \/ Close(p)
  <2>1. \A r \in Peers : Over(r) => Over(r)'
    BY <1>2 DEF SessionFails, Close, Over, TypeOK
  <2> QED BY <1>2, <2>1, QuietKeepsRelay DEF SessionFails, Close
<1> QED BY <1>1, <1>2, DescriptionKeepsRelay, CandidateKeepsRelay, FailureKeepsRelay,
           AcceptKeepsRelay, ThrowKeepsRelay DEF Step

LEMMA RelayHolds == Spec => []RelayInv
<1>1. Init => RelayInv
  <2> SUFFICES ASSUME Init, NEW p \in Peers
               PROVE  VerifyingFits(p) /\ DescribedFits(p) /\ BufferFits(p) /\ NoneLost(p)
    BY DEF RelayInv
  <2>1. VerifyingFits(p) /\ DescribedFits(p)
    BY DEF Init, VerifyingFits, DescribedFits
  <2>2. BufferFits(p)
    BY DEF Init, BufferFits
  <2>3. NoneLost(p)
    <3>1. <<>> \in Seq(Candidate)
      OBVIOUS
    <3> QED BY <3>1, ConcatEmptySeq DEF Init, NoneLost
  <2> QED BY <2>1, <2>2, <2>3
<1>2. TypeOK /\ RelayInv /\ [Next]_vars => RelayInv'
  <2> SUFFICES ASSUME TypeOK, RelayInv, [Next]_vars PROVE RelayInv'
    OBVIOUS
  <2>1. CASE Next
    BY <2>1, NextIsStep, StepKeepsRelay
  <2>2. CASE UNCHANGED vars
    BY <2>2, QuietKeepsRelay DEF vars, Over
  <2> QED BY <2>1, <2>2
<1> QED BY <1>1, <1>2, RelayTypes, PTL DEF Spec

\* What reaches a connection was verified, and comes from the peer of the
\* session, for any number of peers that signal at once.
THEOREM DescriptionsAreVerified == Spec => []OnlyVerified
<1>1. RelayInv => OnlyVerified
  BY DEF RelayInv, DescribedFits, OnlyVerified
<1> QED BY <1>1, RelayHolds, PTL

\* No candidate reaches a connection before its description.
THEOREM CandidatesWait == Spec => []NoCandidateBeforeDescription
<1>1. RelayInv => NoCandidateBeforeDescription
  BY DEF RelayInv, BufferFits, NoCandidateBeforeDescription
<1> QED BY <1>1, RelayHolds, PTL

\* No candidate is lost, doubled or reordered while the session lives.
THEOREM CandidatesAreKept == Spec => []CandidatesKept
<1>1. RelayInv => CandidatesKept
  BY DEF RelayInv, BufferFits, NoneLost, CandidatesKept
<1> QED BY <1>1, RelayHolds, PTL
=============================================================================
