-------------------------- MODULE PeerSessionProofs --------------------------
(***************************************************************************)
(* The promises of two linked sessions, for any number of startOffer and   *)
(* waitForConnected calls, versions and application messages.              *)
(*                                                                         *)
(* Types and SettledCallsHaveNoTimer are inductive.  LinkInv says in which *)
(* order the fields of a session change on its way to "connected", and     *)
(* gives the properties of a single session; WireInv says what is on the   *)
(* control channel, and gives those that relate both ends.                 *)
(***************************************************************************)
EXTENDS PeerSessionProperties, TLAPS

LEMMA Others ==
  \A s \in Sessions : /\ Other(s) \in Sessions /\ Other(s) # s /\ Other(Other(s)) = s
                      /\ \A r \in Sessions : r = s \/ r = Other(s)
BY SessionAssumption DEF Sessions, Other

\* Every disjunct of Next, for a session.
Step(s) ==
  \/ \E k \in Calls : StartOffer(s, k) \/ WaitForConnected(s, k) \/ ConnectTimeout(s, k)
  \/ Close(s) \/ AcceptSignal(s) \/ SignalRefused(s)
  \/ OnDataChannel(s) \/ ChannelOpens(s)
  \/ OnOpen(s) \/ OnOpenThrows(s) \/ PcBreaks(s) \/ PcFailed(s) \/ FramesLost(s)
  \/ HelloTimeout(s) \/ PeerHello(s) \/ RoomMessage(s) \/ Send(s)

LEMMA NextIsStep == Next <=> \E s \in Sessions : Step(s)
BY DEF Next, Step

-----------------------------------------------------------------------------
(* Types.                                                                  *)

CallTypes ==
  /\ slot \in [Sessions -> 0 .. MaxCalls]
  /\ call \in [Sessions -> [Calls -> {"none", "pending", "resolved", "rejected"}]]
  /\ timer \in [Sessions -> SUBSET Calls]

LEMMA SettleTypes ==
  ASSUME CallTypes, NEW s \in Sessions, NEW outcome \in {"resolved", "rejected"},
         NEW fired, Settle(s, outcome, fired)
  PROVE  CallTypes'
<1>1. slot' \in [Sessions -> 0 .. MaxCalls]
  BY SessionAssumption DEF CallTypes, Settle
<1>2. call' \in [Sessions -> [Calls -> {"none", "pending", "resolved", "rejected"}]]
  BY DEF CallTypes, Settle
<1>3. timer' \in [Sessions -> SUBSET Calls]
  BY DEF CallTypes, Settle
<1> QED BY <1>1, <1>2, <1>3 DEF CallTypes

LEMMA FailTypes ==
  ASSUME TypeOK, NEW s \in Sessions, NEW fired, Fail(s, fired)
  PROVE  /\ CallTypes'
         /\ state' \in [Sessions -> {"idle", "connecting", "connected", "failed", "closed"}]
         /\ controlDc' \in [Sessions -> BOOLEAN]
         /\ pc' \in [Sessions -> {"live", "broken", "closed"}]
<1>0. CallTypes
  BY DEF TypeOK, CallTypes
<1>1. CASE FailNow(s, fired)
  <2>1. CallTypes'
    BY <1>0, <1>1, SettleTypes DEF FailNow
  <2> QED BY <1>1, <2>1 DEF TypeOK, FailNow, Fail
<1>2. CASE FailIgnored(s, fired)
  <2>1. CallTypes'
    BY <1>0, <1>2 DEF FailIgnored, CallTypes
  <2> QED BY <1>2, <2>1 DEF TypeOK, FailIgnored, Fail
<1> QED BY <1>1, <1>2 DEF Fail

LEMMA TransmitTypes ==
  ASSUME TypeOK, NEW s \in Sessions, NEW f \in {"hello", "app"}, Transmit(s, f)
  PROVE  frames' \in [Sessions -> Seq({"hello", "app"})]
BY Others DEF TypeOK, Transmit

LEMMA ArrivesTypes ==
  ASSUME TypeOK, NEW s \in Sessions, NEW f, Arrives(s, f)
  PROVE  frames' \in [Sessions -> Seq({"hello", "app"})]
BY DEF TypeOK, Arrives

LEMMA StepTypes ==
  ASSUME TypeOK, NEW s \in Sessions, Step(s)
  PROVE  TypeOK'
<1> USE DEF sessionVars, roomVars, nativeVars
<1>1. ASSUME NEW k \in Calls, StartOffer(s, k) PROVE TypeOK'
  BY <1>1, SessionAssumption DEF TypeOK, StartOffer, Calls
<1>2. ASSUME NEW k \in Calls, WaitForConnected(s, k) PROVE TypeOK'
  <2>0. /\ call \in [Sessions -> [Calls -> {"none", "pending", "resolved", "rejected"}]]
        /\ timer \in [Sessions -> SUBSET Calls] /\ slot \in [Sessions -> 0 .. MaxCalls]
        /\ k \in 0 .. MaxCalls
    BY SessionAssumption DEF TypeOK, Calls
  <2>1. ASSUME controlDc[s] /\ state[s] = "connected" PROVE CallTypes'
    BY <1>2, <2>0, <2>1 DEF WaitForConnected, CallTypes
  <2>2. ASSUME ~(controlDc[s] /\ state[s] = "connected") PROVE CallTypes'
    BY <1>2, <2>0, <2>2 DEF WaitForConnected, CallTypes
  <2>3. CallTypes'
    BY <2>1, <2>2
  <2> QED BY <1>2, <2>3 DEF TypeOK, WaitForConnected, CallTypes
<1>3. ASSUME NEW k \in Calls, ConnectTimeout(s, k) PROVE TypeOK'
  BY <1>3, FailTypes DEF TypeOK, ConnectTimeout, CallTypes
<1>4. CASE Close(s)
  BY <1>4 DEF TypeOK, Close
<1>5. CASE AcceptSignal(s)
  BY <1>5 DEF TypeOK, AcceptSignal
<1>6. CASE SignalRefused(s)
  BY <1>6, FailTypes DEF TypeOK, SignalRefused, CallTypes
<1>7. CASE OnDataChannel(s) \/ ChannelOpens(s)
  BY <1>7 DEF TypeOK, OnDataChannel, ChannelOpens
<1>8. CASE OnOpen(s)
  <2>1. CallTypes'
    BY <1>8, SettleTypes DEF TypeOK, CallTypes, OnOpen
  <2>2. frames' \in [Sessions -> Seq({"hello", "app"})]
    BY <1>8, TransmitTypes DEF OnOpen, TypeOK
  <2>3. helloTimer' \in [Sessions -> BOOLEAN]
    BY <1>8 DEF OnOpen, TypeOK
  <2> QED BY <1>8, <2>1, <2>2, <2>3 DEF TypeOK, OnOpen, Opened, CallTypes
<1>9. CASE OnOpenThrows(s)
  BY <1>9 DEF TypeOK, OnOpenThrows, Opened
<1>10. CASE PcBreaks(s)
  BY <1>10 DEF TypeOK, PcBreaks
<1>11. CASE PcFailed(s)
  BY <1>11, FailTypes DEF TypeOK, PcFailed, CallTypes
<1>12. CASE FramesLost(s)
  <2>1. frames[s] \in Seq({"hello", "app"}) /\ Len(frames[s]) - 1 \in Nat
    BY <1>12 DEF TypeOK, FramesLost
  <2>2. SubSeq(frames[s], 1, Len(frames[s]) - 1) \in Seq({"hello", "app"})
    BY <2>1
  <2> QED BY <1>12, <2>2 DEF TypeOK, FramesLost
<1>13. CASE HelloTimeout(s)
  BY <1>13, FailTypes DEF TypeOK, HelloTimeout, SettleReady, CallTypes
<1>14. CASE PeerHello(s)
  <2>1. /\ CallTypes'
        /\ state' \in [Sessions -> {"idle", "connecting", "connected", "failed", "closed"}]
        /\ controlDc' \in [Sessions -> BOOLEAN]
        /\ pc' \in [Sessions -> {"live", "broken", "closed"}]
    BY <1>14, FailTypes DEF TypeOK, PeerHello, CallTypes
  <2>2. frames' \in [Sessions -> Seq({"hello", "app"})]
    BY <1>14, ArrivesTypes DEF PeerHello
  <2>3. ready' \in [Sessions -> {"pending", "resolved", "rejected"}]
    <3>1. PICK outcome \in {"resolved", "rejected"} : SettleReady(s, outcome)
      BY <1>14 DEF PeerHello
    <3> QED BY <3>1 DEF TypeOK, SettleReady
  <2>4. helloTimer' \in [Sessions -> BOOLEAN] /\ helloReceived' \in [Sessions -> BOOLEAN]
    BY <1>14 DEF TypeOK, PeerHello
  <2> QED BY <1>14, <2>1, <2>2, <2>3, <2>4 DEF TypeOK, PeerHello, CallTypes
<1>15. CASE RoomMessage(s)
  <2>1. frames' \in [Sessions -> Seq({"hello", "app"})]
    BY <1>15, ArrivesTypes DEF RoomMessage
  <2>2. forwarded' \in [Sessions -> Nat]
    BY <1>15 DEF TypeOK, RoomMessage
  <2> QED BY <1>15, <2>1, <2>2 DEF TypeOK, RoomMessage
<1>16. CASE Send(s)
  <2>1. frames' \in [Sessions -> Seq({"hello", "app"})]
    BY <1>16, TransmitTypes DEF Send
  <2>2. sent' \in [Sessions -> Nat]
    BY <1>16 DEF TypeOK, Send
  <2> QED BY <1>16, <2>1, <2>2 DEF TypeOK, Send
<1> QED BY <1>1, <1>2, <1>3, <1>4, <1>5, <1>6, <1>7, <1>8, <1>9, <1>10, <1>11, <1>12,
            <1>13, <1>14, <1>15, <1>16 DEF Step

\* Type correctness of both sessions, their room sessions and the channel.
THEOREM SessionTypes == Spec => []TypeOK
<1>1. Init => TypeOK
  BY SessionAssumption DEF Init, TypeOK, Calls
<1>2. TypeOK /\ [Next]_vars => TypeOK'
  <2> SUFFICES ASSUME TypeOK, [Next]_vars PROVE TypeOK'
    OBVIOUS
  <2>1. CASE Next
    BY <2>1, NextIsStep, StepTypes
  <2>2. CASE UNCHANGED vars
    BY <2>2 DEF TypeOK, vars, sessionVars, roomVars, nativeVars
  <2> QED BY <2>1, <2>2
<1> QED BY <1>1, <1>2, PTL DEF Spec

-----------------------------------------------------------------------------
(* One session.                                                            *)

\* What fail() leaves behind, whether it does anything or not.
LEMMA FailFacts ==
  ASSUME TypeOK, NEW s \in Sessions, NEW fired, Fail(s, fired)
  PROVE  /\ state'[s] \in {"failed", "closed"}
         /\ \A r \in Sessions \ {s} :
              state'[r] = state[r] /\ slot'[r] = slot[r] /\ timer'[r] = timer[r]
         /\ \A r \in Sessions : pc[r] # "live" => pc'[r] # "live"
         /\ controlDc' = controlDc
BY DEF TypeOK, Fail, FailNow, FailIgnored, Settle, Over

LEMMA SettleKeepsCalls ==
  ASSUME TypeOK, SettledCallsHaveNoTimer, NEW s \in Sessions, NEW outcome, NEW fired,
         Settle(s, outcome, fired)
  PROVE  SettledCallsHaveNoTimer'
BY DEF TypeOK, SettledCallsHaveNoTimer, Settle

LEMMA FailKeepsCalls ==
  ASSUME TypeOK, SettledCallsHaveNoTimer, NEW s \in Sessions, NEW fired, Fail(s, fired)
  PROVE  SettledCallsHaveNoTimer'
<1>1. CASE FailNow(s, fired)
  BY <1>1, SettleKeepsCalls DEF FailNow
<1>2. CASE FailIgnored(s, fired)
  BY <1>2 DEF FailIgnored, TypeOK, SettledCallsHaveNoTimer
<1> QED BY <1>1, <1>2 DEF Fail

LEMMA StepKeepsCalls ==
  ASSUME TypeOK, SettledCallsHaveNoTimer, NEW s \in Sessions, Step(s)
  PROVE  SettledCallsHaveNoTimer'
<1>1. ASSUME NEW k \in Calls, StartOffer(s, k) PROVE SettledCallsHaveNoTimer'
  BY <1>1 DEF StartOffer, TypeOK, SettledCallsHaveNoTimer
<1>2. ASSUME NEW k \in Calls, WaitForConnected(s, k) PROVE SettledCallsHaveNoTimer'
  <2>0. CallTypes
    BY DEF TypeOK, CallTypes
  <2>1. k \notin timer[s]
    BY <1>2 DEF WaitForConnected, NewCall, SettledCallsHaveNoTimer
  <2>2. ASSUME controlDc[s] /\ state[s] = "connected" PROVE SettledCallsHaveNoTimer'
    BY <1>2, <2>0, <2>1, <2>2 DEF WaitForConnected, CallTypes, SettledCallsHaveNoTimer
  <2>3. ASSUME ~(controlDc[s] /\ state[s] = "connected") PROVE SettledCallsHaveNoTimer'
    BY <1>2, <2>0, <2>3 DEF WaitForConnected, CallTypes, SettledCallsHaveNoTimer
  <2> QED BY <2>2, <2>3
<1>3. ASSUME NEW k \in Calls, ConnectTimeout(s, k) PROVE SettledCallsHaveNoTimer'
  BY <1>3, FailKeepsCalls DEF ConnectTimeout
<1>4. CASE SignalRefused(s) \/ PcFailed(s) \/ HelloTimeout(s)
  BY <1>4, FailKeepsCalls DEF SignalRefused, PcFailed, HelloTimeout
<1>5. CASE OnOpen(s)
  BY <1>5, SettleKeepsCalls DEF OnOpen
<1>6. CASE PeerHello(s)
  <2>1. UNCHANGED <<call, timer>> \/ Fail(s, {})
    BY <1>6 DEF PeerHello, sessionVars
  <2> QED BY <2>1, FailKeepsCalls DEF SettledCallsHaveNoTimer
<1>7. ASSUME UNCHANGED <<call, timer>> PROVE SettledCallsHaveNoTimer'
  BY <1>7 DEF SettledCallsHaveNoTimer
<1>8. CASE Close(s) \/ AcceptSignal(s) \/ OnDataChannel(s) \/ ChannelOpens(s) \/ OnOpenThrows(s)
             \/ PcBreaks(s) \/ FramesLost(s) \/ RoomMessage(s) \/ Send(s)
  BY <1>7, <1>8 DEF Close, AcceptSignal, OnDataChannel, ChannelOpens, OnOpenThrows, PcBreaks,
       FramesLost, RoomMessage, Send, sessionVars
<1> QED BY <1>1, <1>2, <1>3, <1>4, <1>5, <1>6, <1>8 DEF Step

LEMMA CallsNext ==
  TypeOK /\ SettledCallsHaveNoTimer /\ [Next]_vars => SettledCallsHaveNoTimer'
<1> SUFFICES ASSUME TypeOK, SettledCallsHaveNoTimer, [Next]_vars
             PROVE  SettledCallsHaveNoTimer'
  OBVIOUS
<1>1. CASE Next
  BY <1>1, NextIsStep, StepKeepsCalls
<1>2. CASE UNCHANGED vars
  BY <1>2 DEF SettledCallsHaveNoTimer, vars, sessionVars
<1> QED BY <1>1, <1>2

\* A startOffer() or waitForConnected() that has settled has no timer left, for
\* any number of calls that take the slot from one another.
THEOREM NoTimerLeft == Spec => []SettledCallsHaveNoTimer
<1>1. Init => SettledCallsHaveNoTimer
  BY DEF Init, SettledCallsHaveNoTimer
<1> QED BY <1>1, CallsNext, SessionTypes, PTL DEF Spec

\* A connection that is not live any more stays so.
Down == \E r \in Sessions : pc[r] # "live"

\* The way to "connected": both descriptions, the channel, its open event, and
\* with the event the hello; only then can the handshake be rejected.
LinkInv ==
  \A s \in Sessions :
    /\ state[s] = "connected" \/ helloTimer[s] \/ ready[s] = "rejected" => link[s] = "open"
    /\ link[s] # "none" => controlDc[s] /\ described[s] /\ described[Other(s)]
    /\ ready[s] = "rejected" => Over(s)
    /\ state[s] = "connected" /\ slot[s] \in timer[s] => autoHello[s] /\ ~helloTimer[s] /\ Down

LEMMA FailKeepsLink ==
  ASSUME TypeOK, LinkInv, NEW s \in Sessions, NEW fired, Fail(s, fired),
         UNCHANGED <<autoHello, described, link>>,
         \A r \in Sessions :
           /\ helloTimer'[r] => helloTimer[r]
           /\ ready'[r] = "rejected" => ready[r] = "rejected" \/ (r = s /\ link[s] = "open")
  PROVE  LinkInv'
<1>1. /\ state'[s] \in {"failed", "closed"}
      /\ \A r \in Sessions \ {s} :
           state'[r] = state[r] /\ slot'[r] = slot[r] /\ timer'[r] = timer[r]
      /\ Down => Down'
      /\ controlDc' = controlDc
  BY FailFacts DEF Down
<1> QED BY <1>1 DEF LinkInv, Over

LEMMA StepKeepsLink ==
  ASSUME TypeOK, SettledCallsHaveNoTimer, LinkInv, NEW s \in Sessions, Step(s)
  PROVE  LinkInv'
<1> USE Others DEF Over, Down
<1>1. ASSUME NEW k \in Calls, StartOffer(s, k) PROVE LinkInv'
  BY <1>1 DEF StartOffer, roomVars, nativeVars, TypeOK, LinkInv
<1>2. ASSUME NEW k \in Calls, WaitForConnected(s, k) PROVE LinkInv'
  <2>1. k \notin timer[s]
    BY <1>2 DEF WaitForConnected, NewCall, SettledCallsHaveNoTimer
  <2>2. \A r \in Sessions : state[r] = "connected" => controlDc[r]
    BY DEF LinkInv
  <2>3. \A r \in Sessions :
          state[r] = "connected" /\ slot'[r] \in timer'[r] => slot'[r] = slot[r] /\ timer'[r] = timer[r]
    BY <1>2, <2>1, <2>2 DEF WaitForConnected, TypeOK
  <2> QED BY <1>2, <2>3 DEF WaitForConnected, roomVars, nativeVars, LinkInv
<1>3. ASSUME NEW k \in Calls, ConnectTimeout(s, k) PROVE LinkInv'
  BY <1>3, FailKeepsLink DEF ConnectTimeout, roomVars
<1>4. CASE SignalRefused(s) \/ PcFailed(s)
  BY <1>4, FailKeepsLink DEF SignalRefused, PcFailed, roomVars
<1>5. CASE HelloTimeout(s)
  <2>1. link[s] = "open"
    BY <1>5 DEF HelloTimeout, LinkInv
  <2> QED BY <1>5, <2>1, FailKeepsLink DEF HelloTimeout, SettleReady, TypeOK
<1>6. CASE PeerHello(s)
  <2>1. /\ link[s] = "open" /\ UNCHANGED <<autoHello, described, link>>
        /\ \A r \in Sessions : helloTimer'[r] => helloTimer[r]
    BY <1>6 DEF PeerHello, Arrives, TypeOK
  <2>2. CASE Compatible
    <3>1. \A r \in Sessions : ready'[r] = "rejected" => ready[r] = "rejected"
      BY <1>6, <2>2 DEF PeerHello, SettleReady, TypeOK
    <3> QED BY <1>6, <2>1, <2>2, <3>1 DEF PeerHello, sessionVars, LinkInv
  <2>3. CASE ~Compatible
    <3>1. Fail(s, {})
      BY <1>6, <2>3 DEF PeerHello
    <3>2. \A r \in Sessions : ready'[r] = "rejected" => ready[r] = "rejected" \/ r = s
      BY <1>6, <2>3 DEF PeerHello, SettleReady, TypeOK
    <3> QED BY <2>1, <3>1, <3>2, FailKeepsLink
  <2> QED BY <2>2, <2>3
<1>7. CASE Close(s)
  BY <1>7 DEF Close, roomVars, TypeOK, LinkInv
<1>8. CASE AcceptSignal(s)
  BY <1>8 DEF AcceptSignal, roomVars, TypeOK, LinkInv
<1>9. CASE OnDataChannel(s)
  BY <1>9 DEF OnDataChannel, roomVars, nativeVars, TypeOK, LinkInv
<1>10. CASE ChannelOpens(s)
  BY <1>10 DEF ChannelOpens, Up, sessionVars, roomVars, TypeOK, LinkInv
<1>11. CASE OnOpen(s)
  <2>1. slot'[s] = 0 /\ 0 \notin timer'[s]
    BY <1>11, SessionAssumption DEF OnOpen, Settle, TypeOK, Calls
  <2>2. \A r \in Sessions \ {s} : slot'[r] = slot[r] /\ timer'[r] = timer[r]
    BY <1>11 DEF OnOpen, Settle, TypeOK
  <2>3. \A r \in Sessions : helloTimer'[r] => helloTimer[r] \/ r = s
    BY <1>11 DEF OnOpen, TypeOK
  <2> QED BY <1>11, <2>1, <2>2, <2>3 DEF OnOpen, Opened, TypeOK, LinkInv
<1>12. CASE OnOpenThrows(s)
  BY <1>12 DEF OnOpenThrows, Opened, Up, roomVars, TypeOK, LinkInv
<1>13. CASE PcBreaks(s)
  BY <1>13 DEF PcBreaks, sessionVars, roomVars, TypeOK, LinkInv
<1>14. CASE FramesLost(s) \/ RoomMessage(s) \/ Send(s)
  BY <1>14 DEF FramesLost, RoomMessage, Send, sessionVars, roomVars, LinkInv
<1> QED BY <1>1, <1>2, <1>3, <1>4, <1>5, <1>6, <1>7, <1>8, <1>9, <1>10, <1>11, <1>12,
            <1>13, <1>14 DEF Step

LEMMA LinkHolds == Spec => []LinkInv
<1>1. Init => LinkInv
  BY DEF Init, LinkInv
<1>2. TypeOK /\ SettledCallsHaveNoTimer /\ LinkInv /\ [Next]_vars => LinkInv'
  <2> SUFFICES ASSUME TypeOK, SettledCallsHaveNoTimer, LinkInv, [Next]_vars
               PROVE  LinkInv'
    OBVIOUS
  <2>1. CASE Next
    BY <2>1, NextIsStep, StepKeepsLink
  <2>2. CASE UNCHANGED vars
    BY <2>2 DEF LinkInv, Over, Down, vars, sessionVars, roomVars, nativeVars
  <2> QED BY <2>1, <2>2
<1> QED BY <1>1, <1>2, SessionTypes, NoTimerLeft, PTL DEF Spec

\* A session whose handshake was rejected stays down, although its connection
\* has still events to dispatch.
THEOREM RejectionIsFinal == Spec => []RejectedIsDown
<1>1. LinkInv => RejectedIsDown
  BY DEF LinkInv, RejectedIsDown, Over
<1> QED BY <1>1, LinkHolds, PTL

\* No timer is left to fail a session that is connected, unless its hello could
\* not be sent.
THEOREM ClockIsStopped == Spec => []ConnectedStopsTheClock
<1>1. LinkInv => ConnectedStopsTheClock
  BY DEF LinkInv, ConnectedStopsTheClock, Down, Up
<1> QED BY <1>1, LinkHolds, PTL

-----------------------------------------------------------------------------
(* Both sessions and the channel between them.                             *)

\* What is on its way to a session whose peer performs the handshake, and what
\* the two ends know of each other.
HelloAhead(s) ==
  /\ forwarded[s] = 0
  /\ frames[s] # <<>> => Head(frames[s]) = "hello"
  /\ link[Other(s)] = "open" => frames[s] # <<>> \/ Down

WireInv ==
  \A s \in Sessions :
    /\ frames[s] # <<>> => link[Other(s)] = "open"
    /\ \A i \in 1 .. Len(frames[s]) : frames[s][i] = "hello" => autoHello[Other(s)]
    /\ helloReceived[s] => autoHello[Other(s)] /\ link[Other(s)] = "open"
    /\ autoHello[s] /\ ready[s] = "resolved" => Compatible /\ helloReceived[s]
    /\ autoHello[s] /\ autoHello[Other(s)] /\ ~helloReceived[s] => HelloAhead(s)

\* A step that leaves the channel and the handshake alone.
LEMMA QuietKeepsWire ==
  ASSUME WireInv, Down => Down', UNCHANGED <<frames, autoHello, major, ready, helloReceived, forwarded>>,
         \A r \in Sessions : link'[r] = "open" <=> link[r] = "open"
  PROVE  WireInv'
BY Others DEF WireInv, HelloAhead, Compatible

\* What Transmit does to the frames of one end, if the connection is up.
LEMMA TransmitKeepsWire ==
  ASSUME TypeOK, WireInv, LinkInv, NEW s \in Sessions, NEW f \in {"hello", "app"}, Transmit(s, f),
         f = "hello" => autoHello[s],
         f = "app" => link[s] = "open",
         link' = [link EXCEPT ![s] = "open"],
         UNCHANGED <<autoHello, major, ready, helloReceived, forwarded, pc>>,
         link[s] # "none",
         link[s] = "open" \/ f = "hello"
  PROVE  WireInv'
<1> USE Others DEF Down
<1>1. Down' <=> Down
  OBVIOUS
<1>2. CASE Up
  <2>1. frames' = [frames EXCEPT ![Other(s)] = Append(@, f)]
    BY <1>2 DEF Transmit
  <2>2. /\ frames[Other(s)] \in Seq({"hello", "app"})
        /\ frames'[Other(s)] = Append(frames[Other(s)], f) /\ frames'[s] = frames[s]
    BY <2>1 DEF TypeOK
  <2>3. /\ frames'[Other(s)] # <<>>
        /\ Len(frames'[Other(s)]) = Len(frames[Other(s)]) + 1
        /\ \A i \in 1 .. Len(frames[Other(s)]) : frames'[Other(s)][i] = frames[Other(s)][i]
        /\ frames'[Other(s)][Len(frames[Other(s)]) + 1] = f
        /\ frames[Other(s)] # <<>> => Head(frames'[Other(s)]) = Head(frames[Other(s)])
        /\ frames[Other(s)] = <<>> => Head(frames'[Other(s)]) = f
    BY <2>2
  <2>4. ~Down
    BY <1>2 DEF Up
  <2> DEFINE o == Other(s)
  <2>5. \A i \in 1 .. Len(frames'[o]) : frames'[o][i] = "hello" => autoHello[s]
    <3> SUFFICES ASSUME NEW i \in 1 .. Len(frames'[o]), frames'[o][i] = "hello"
                 PROVE  autoHello[s]
      OBVIOUS
    <3>1. CASE i = Len(frames[o]) + 1
      BY <3>1, <2>3
    <3>2. CASE i \in 1 .. Len(frames[o])
      BY <3>2, <2>3 DEF WireInv
    <3> QED BY <2>2, <2>3, <3>1, <3>2
  <2>6. autoHello[o] /\ autoHello[s] /\ ~helloReceived[o] =>
          forwarded[o] = 0 /\ Head(frames'[o]) = "hello"
    <3> SUFFICES ASSUME autoHello[o], autoHello[s], ~helloReceived[o]
                 PROVE  forwarded[o] = 0 /\ Head(frames'[o]) = "hello"
      OBVIOUS
    <3>1. HelloAhead(o)
      BY DEF WireInv
    <3>2. CASE frames[o] # <<>>
      BY <3>1, <3>2, <2>3 DEF HelloAhead
    <3>3. CASE frames[o] = <<>>
      <4>1. f = "hello"
        BY <3>1, <3>3, <2>4 DEF HelloAhead
      <4> QED BY <3>1, <3>3, <4>1, <2>3 DEF HelloAhead
    <3> QED BY <3>2, <3>3
  <2>7. link'[s] = "open" /\ link'[o] = link[o]
    BY DEF TypeOK
  <2>8. \A r \in Sessions : r = s \/ r = o
    BY DEF Sessions, Other
  <2>9. \A r \in Sessions : frames'[r] # <<>> => link'[Other(r)] = "open"
    BY <2>2, <2>7, <2>8 DEF WireInv
  <2>10. \A r \in Sessions : \A i \in 1 .. Len(frames'[r]) :
           frames'[r][i] = "hello" => autoHello'[Other(r)]
    BY <2>2, <2>5, <2>8 DEF WireInv
  <2>11. \A r \in Sessions : helloReceived'[r] => autoHello'[Other(r)] /\ link'[Other(r)] = "open"
    BY <2>7, <2>8 DEF WireInv
  <2>12. \A r \in Sessions :
           (autoHello[r] /\ autoHello[Other(r)] /\ ~helloReceived[r] => HelloAhead(r))'
    <3>1. autoHello[o] /\ autoHello[s] /\ ~helloReceived[o] => HelloAhead(o)'
      BY <2>3, <2>6 DEF HelloAhead
    <3>2. autoHello[s] /\ autoHello[o] /\ ~helloReceived[s] => HelloAhead(s)'
      BY <1>1, <2>2, <2>7 DEF WireInv, HelloAhead
    <3> QED BY <2>8, <3>1, <3>2
  <2>13. \A r \in Sessions :
           autoHello'[r] /\ ready'[r] = "resolved" => Compatible' /\ helloReceived'[r]
    BY DEF WireInv, Compatible
  <2> QED BY <2>9, <2>10, <2>11, <2>12, <2>13 DEF WireInv
<1>3. CASE ~Up
  <2>1. Down
    BY <1>3 DEF Up, LinkInv
  <2>2. frames' = frames
    BY <1>3 DEF Transmit
  <2>3. link'[s] = "open" /\ link'[Other(s)] = link[Other(s)]
    BY DEF TypeOK
  <2> QED BY <1>1, <2>1, <2>2, <2>3 DEF WireInv, HelloAhead, Compatible
<1> QED BY <1>2, <1>3

LEMMA FailIsQuiet ==
  ASSUME TypeOK, NEW s \in Sessions, NEW fired, Fail(s, fired)
  PROVE  Down => Down'
BY FailFacts DEF Down

LEMMA OpenKeepsWire ==
  ASSUME TypeOK, LinkInv, WireInv, NEW s \in Sessions, OnOpen(s) \/ OnOpenThrows(s)
  PROVE  WireInv'
<1>1. /\ link[s] = "queued" /\ link' = [link EXCEPT ![s] = "open"]
      /\ UNCHANGED <<autoHello, major, ready, helloReceived, forwarded, pc>>
  BY DEF OnOpen, OnOpenThrows, Opened, roomVars
<1>2. CASE OnOpen(s) /\ autoHello[s]
  <2>1. Transmit(s, "hello")
    BY <1>2 DEF OnOpen
  <2> QED BY <1>1, <1>2, <2>1, TransmitKeepsWire
<1>3. CASE OnOpen(s) /\ ~autoHello[s]
  <2>1. UNCHANGED frames
    BY <1>3 DEF OnOpen
  <2>2. link'[s] = "open" /\ \A r \in Sessions : r # s => link'[r] = link[r]
    BY <1>1 DEF TypeOK
  <2> QED BY <1>1, <1>3, <2>1, <2>2, Others DEF WireInv, HelloAhead, Compatible, Down
<1>4. CASE OnOpenThrows(s)
  <2>1. UNCHANGED frames /\ ~Up
    BY <1>4 DEF OnOpenThrows
  <2>2. Down
    BY <1>1, <2>1, Others DEF Up, LinkInv, Down
  <2>3. link'[s] = "open" /\ \A r \in Sessions : r # s => link'[r] = link[r]
    BY <1>1 DEF TypeOK
  <2> QED BY <1>1, <2>1, <2>2, <2>3, Others DEF WireInv, HelloAhead, Compatible, Down
<1> QED BY <1>2, <1>3, <1>4

LEMMA LossKeepsWire ==
  ASSUME TypeOK, LinkInv, WireInv, NEW s \in Sessions, FramesLost(s)
  PROVE  WireInv'
<1>1. /\ ~Up /\ frames[s] # <<>> /\ frames[s] \in Seq({"hello", "app"})
      /\ frames'[s] = SubSeq(frames[s], 1, Len(frames[s]) - 1)
      /\ \A r \in Sessions : r # s => frames'[r] = frames[r]
      /\ UNCHANGED <<autoHello, major, ready, helloReceived, forwarded, pc, link>>
  BY DEF FramesLost, roomVars, TypeOK
<1>2. Down
  <2>1. link[Other(s)] = "open"
    BY <1>1 DEF WireInv
  <2> QED BY <1>1, <2>1, Others DEF Up, LinkInv, Down
<1>3. /\ Len(frames'[s]) = Len(frames[s]) - 1
      /\ \A i \in 1 .. Len(frames'[s]) : frames'[s][i] = frames[s][i] /\ i \in 1 .. Len(frames[s])
      /\ frames'[s] # <<>> => Head(frames'[s]) = Head(frames[s])
  BY <1>1
<1> QED BY <1>1, <1>2, <1>3, Others DEF WireInv, HelloAhead, Compatible, Down

\* What taking the first frame leaves.
LEMMA ArrivesFacts ==
  ASSUME TypeOK, NEW s \in Sessions, NEW f, Arrives(s, f)
  PROVE  /\ frames[s] # <<>> /\ Head(frames[s]) = f /\ frames[s][1] = f /\ 1 \in 1 .. Len(frames[s])
         /\ \A r \in Sessions : r # s => frames'[r] = frames[r]
         /\ \A i \in 1 .. Len(frames'[s]) :
              frames'[s][i] = frames[s][i + 1] /\ i + 1 \in 1 .. Len(frames[s])
<1>1. frames[s] \in Seq({"hello", "app"}) /\ frames[s] # <<>> /\ Head(frames[s]) = f
  BY DEF TypeOK, Arrives
<1>2. frames'[s] = Tail(frames[s]) /\ \A r \in Sessions : r # s => frames'[r] = frames[r]
  BY DEF TypeOK, Arrives
<1> QED BY <1>1, <1>2

LEMMA HelloKeepsWire ==
  ASSUME TypeOK, WireInv, NEW s \in Sessions, PeerHello(s)
  PROVE  WireInv'
<1>1. Arrives(s, "hello")
  BY DEF PeerHello
<1>2. /\ UNCHANGED <<autoHello, major, forwarded, link>>
      /\ helloReceived' = [helloReceived EXCEPT ![s] = TRUE]
      /\ \A r \in Sessions : r # s => ready'[r] = ready[r]
  BY DEF PeerHello, SettleReady, TypeOK
<1>3. autoHello[Other(s)] /\ link[Other(s)] = "open"
  BY <1>1, ArrivesFacts DEF WireInv
<1>4. Down => Down'
  BY FailIsQuiet DEF PeerHello, Down
<1>5. ready'[s] = "resolved" /\ autoHello[s] => Compatible
  BY DEF PeerHello, SettleReady, TypeOK, WireInv
<1>6. helloReceived'[s] /\ \A r \in Sessions : r # s => helloReceived'[r] = helloReceived[r]
  BY <1>2 DEF TypeOK
<1> QED BY <1>1, <1>2, <1>3, <1>4, <1>5, <1>6, ArrivesFacts, Others
        DEF WireInv, HelloAhead, Compatible

LEMMA MessageKeepsWire ==
  ASSUME TypeOK, WireInv, NEW s \in Sessions, RoomMessage(s)
  PROVE  WireInv'
<1>1. PICK f \in {"hello", "app"} : Arrives(s, f) /\ ~Awaited(s, f)
  BY DEF RoomMessage
<1>2. /\ UNCHANGED <<autoHello, major, ready, helloReceived, link, pc>>
      /\ \A r \in Sessions : r # s => forwarded'[r] = forwarded[r]
  BY DEF RoomMessage, TypeOK
<1>3. ~(autoHello[s] /\ autoHello[Other(s)] /\ ~helloReceived[s])
  <2> SUFFICES ASSUME autoHello[s], autoHello[Other(s)], ~helloReceived[s] PROVE FALSE
    OBVIOUS
  <2>1. frames[s] # <<>> /\ Head(frames[s]) = f
    BY <1>1, ArrivesFacts
  <2>2. f = "hello"
    BY <2>1 DEF WireInv, HelloAhead
  <2> QED BY <1>1, <2>2 DEF Awaited
<1>4. frames[s] # <<>>
  BY <1>1, ArrivesFacts
<1> QED BY <1>1, <1>2, <1>3, <1>4, ArrivesFacts, Others DEF WireInv, HelloAhead, Compatible, Down

LEMMA StepKeepsWire ==
  ASSUME TypeOK, LinkInv, WireInv, NEW s \in Sessions, Step(s)
  PROVE  WireInv'
<1>1. ASSUME NEW k \in Calls, StartOffer(s, k) \/ WaitForConnected(s, k) PROVE WireInv'
  BY <1>1, QuietKeepsWire DEF StartOffer, WaitForConnected, roomVars, nativeVars, Down
<1>2. ASSUME NEW k \in Calls, ConnectTimeout(s, k) PROVE WireInv'
  BY <1>2, FailIsQuiet, QuietKeepsWire DEF ConnectTimeout, roomVars
<1>3. CASE SignalRefused(s) \/ PcFailed(s)
  BY <1>3, FailIsQuiet, QuietKeepsWire DEF SignalRefused, PcFailed, roomVars
<1>4. CASE AcceptSignal(s) \/ OnDataChannel(s)
  BY <1>4, QuietKeepsWire DEF AcceptSignal, OnDataChannel, roomVars, nativeVars, Down
<1>5. CASE PcBreaks(s)
  BY <1>5, QuietKeepsWire DEF PcBreaks, roomVars, Down, TypeOK
<1>6. CASE Close(s)
  <2>1. pc'[s] # "live"
    BY <1>6 DEF Close, TypeOK
  <2>2. \A r \in Sessions : link'[r] = "open" <=> link[r] = "open"
    BY <1>6 DEF Close, TypeOK
  <2> QED BY <1>6, <2>1, <2>2, QuietKeepsWire DEF Close, roomVars, Down
<1>7. CASE ChannelOpens(s)
  <2>1. \A r \in Sessions : link'[r] = "open" <=> link[r] = "open"
    BY <1>7 DEF ChannelOpens, TypeOK
  <2> QED BY <1>7, <2>1, QuietKeepsWire DEF ChannelOpens, roomVars, Down
<1>8. CASE HelloTimeout(s)
  <2>1. \A r \in Sessions : ready'[r] = "resolved" => ready[r] = "resolved"
    BY <1>8 DEF HelloTimeout, SettleReady, TypeOK
  <2>2. Down => Down'
    BY <1>8, FailIsQuiet DEF HelloTimeout
  <2> QED BY <1>8, <2>1, <2>2 DEF HelloTimeout, WireInv, HelloAhead, Compatible
<1>9. CASE Send(s)
  <2>1. Transmit(s, "app") /\ link[s] = "open"
    BY <1>9 DEF Send, LinkInv
  <2>2. link' = [link EXCEPT ![s] = "open"]
    BY <1>9, <2>1 DEF Send, TypeOK
  <2> QED BY <1>9, <2>1, <2>2, TransmitKeepsWire DEF Send, roomVars
<1> QED BY <1>1, <1>2, <1>3, <1>4, <1>5, <1>6, <1>7, <1>8, <1>9,
           OpenKeepsWire, LossKeepsWire, HelloKeepsWire, MessageKeepsWire DEF Step

LEMMA WireHolds == Spec => []WireInv
<1>1. Init => WireInv
  BY Others DEF Init, WireInv, HelloAhead
<1>2. TypeOK /\ LinkInv /\ WireInv /\ [Next]_vars => WireInv'
  <2> SUFFICES ASSUME TypeOK, LinkInv, WireInv, [Next]_vars
               PROVE  WireInv'
    OBVIOUS
  <2>1. CASE Next
    BY <2>1, NextIsStep, StepKeepsWire
  <2>2. CASE UNCHANGED vars
    BY <2>2, QuietKeepsWire DEF vars, roomVars, nativeVars, Down
  <2> QED BY <2>1, <2>2
<1> QED BY <1>1, <1>2, SessionTypes, LinkHolds, PTL DEF Spec

\* A session that performs the handshake is ready only if both versions agree
\* and the peer performs it too and has been connected.
THEOREM ReadyAgrees == Spec => []ReadyIsAgreed
<1>1. TypeOK /\ WireInv => ReadyIsAgreed
  BY DEF TypeOK, WireInv, Compatible, ReadyIsAgreed, Other, Sessions
<1> QED BY <1>1, SessionTypes, WireHolds, PTL

\* Between two sessions that perform the handshake no message overtakes it.
THEOREM HelloIsFirst == Spec => []HelloComesFirst
<1>1. TypeOK /\ WireInv => HelloComesFirst
  BY Others DEF WireInv, HelloAhead, HelloComesFirst, TypeOK
<1> QED BY <1>1, SessionTypes, WireHolds, PTL
=============================================================================
