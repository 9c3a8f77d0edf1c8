------------------------- MODULE SignalingClientProofs -------------------------
(***************************************************************************)
(* Theorems about RendezvousClient, for any number of calls, attempts and  *)
(* connections.                                                            *)
(***************************************************************************)
EXTENDS SignalingClientProperties, TLAPS

USE ClientAssumption

-----------------------------------------------------------------------------
(* Types.                                                                  *)

LEMMA ClientInit == Init => TypeOK
<1>1. Init => SessionTypeOK
  <2>1. 0 \in Nat
    OBVIOUS
  <2>2. QED
    BY <2>1, Zenon DEF Init, SessionTypeOK, FsmState, WsState
<1>2. Init => RequestsTypeOK
  BY DEF Init, RequestsTypeOK
<1>3. QED
  BY <1>1, <1>2 DEF TypeOK

LEMMA ClosedType == ASSUME NEW w \in WsState PROVE Closed(w) \in WsState \ {"connecting"}
BY DEF Closed, WsState

\* Frames on the wire are frames.
LEMMA FrameTypes ==
  /\ Register \in Frame /\ RegisterOk \in Frame
  /\ \A c \in Call : Request(c) \in Frame
BY DEF Register, RegisterOk, Request, Frame

LEMMA TransmitType ==
  ASSUME RequestsTypeOK, NEW c \in Call, Transmit(c)
  PROVE  up' \in Seq(Frame) /\ sent' \in Seq(Call)
<1>1. up \in Seq(Frame) /\ sent \in Seq(Call) /\ Request(c) \in Frame
  BY FrameTypes DEF RequestsTypeOK
<1>2. QED
  BY <1>1 DEF Transmit

LEMMA SessionStep ==
  ASSUME TypeOK, [Next]_vars
  PROVE  SessionTypeOK'
<1> USE DEF SessionTypeOK
<1>0. SessionTypeOK
  BY DEF TypeOK
<1>1. CASE Connect
  <2>1. attempt' \in Nat /\ connects' \in Nat
    BY <1>0, <1>1 DEF Connect
  <2>2. QED
    BY <1>0, <1>1, <2>1, Zenon DEF Connect, FsmState, WsState
<1>2. CASE OpenSucceeds
  BY <1>0, <1>2 DEF OpenSucceeds, FsmState, WsState
<1>3. CASE OpenFails
  BY <1>0, <1>3 DEF OpenFails, ConnectEnds, session, FsmState, WsState
<1>4. CASE RegisterTimeout
  <2>1. ws' \in WsState
    BY <1>0, <1>4, ClosedType DEF RegisterTimeout
  <2>2. QED
    BY <1>0, <1>4, <2>1 DEF RegisterTimeout, ConnectEnds, session
<1>5. CASE Disconnect
  <2>1. ws' \in WsState
    BY <1>0, <1>5, ClosedType DEF Disconnect
  <2>2. QED
    BY <1>0, <1>5, <2>1 DEF Disconnect, FsmState
<1>6. CASE \E c \in Call : Invoke(c)
  BY <1>0, <1>6 DEF Invoke, session
<1>7. CASE Deliver
  <2>1. CASE TakesRegisterOk(Head(down))
    BY <1>0, <1>7, <2>1 DEF Deliver, TakesRegisterOk, ConnectEnds, FsmState
  <2>2. CASE TakesResponse(Head(down)) \/ Ignores(Head(down))
    BY <1>0, <1>7, <2>2 DEF Deliver, TakesResponse, Ignores, session
  <2>3. QED
    BY <1>7, <2>1, <2>2 DEF Deliver
<1>8. CASE CloseEvent
  <2>1. CASE ScheduleReconnect
    <3>1. attempt' \in Nat
      BY <1>0, <2>1 DEF ScheduleReconnect
    <3>2. timer' \in BOOLEAN /\ explicit' \in BOOLEAN /\ state' \in FsmState
      BY <1>0, <1>8, <2>1, Zenon DEF CloseEvent, ScheduleReconnect, FsmState
    <3>3. QED
      BY <1>0, <1>8, <3>1, <3>2, Zenon DEF CloseEvent, WsState
  <2>2. CASE state' = "disconnected" /\ UNCHANGED <<attempt, timer>>
    BY <1>0, <1>8, <2>2, Zenon DEF CloseEvent, WsState, FsmState
  <2>3. QED
    BY <1>8, <2>1, <2>2, Zenon DEF CloseEvent
<1>9. CASE BackoffEnds
  BY <1>0, <1>9 DEF BackoffEnds, FsmState, WsState
<1>10. CASE Serve \/ Drop
  BY <1>0, <1>10 DEF Serve, Drop, session, WsState
<1>11. CASE UNCHANGED vars
  BY <1>0, <1>11 DEF vars, session
<1>12. QED
  BY <1>1, <1>2, <1>3, <1>4, <1>5, <1>6, <1>7, <1>8, <1>9, <1>10, <1>11 DEF Next

\* What the server puts on the wire is a frame.
LEMMA ServeType ==
  ASSUME TypeOK, Serve
  PROVE  up' \in Seq(Frame) /\ down' \in Seq(Frame)
<1> DEFINE c == Head(up).call
<1>1. up \in Seq(Frame) /\ up # <<>> /\ up' = Tail(up) /\ down \in Seq(Frame)
  BY DEF Serve, TypeOK, RequestsTypeOK
<1>2. Head(up) \in Frame
  BY <1>1
<1>3. c \in Call \cup {NoCall}
  BY <1>2 DEF Frame
<1>4. CASE down' = Append(down, RegisterOk)
  BY <1>1, <1>4, FrameTypes
<1>5. ASSUME NEW t \in {"error"} \cup {ExpectedType[d] : d \in {c} \cap Call},
             down' = Append(down, [type |-> t, call |-> c])
      PROVE  down' \in Seq(Frame)
  <2>1. t \in {"error", "lookup_result", "invite_result"}
    OBVIOUS
  <2>2. [type |-> t, call |-> c] \in Frame
    BY <1>3, <2>1 DEF Frame
  <2>3. QED
    BY <1>1, <1>5, <2>2
<1>6. \/ down' = Append(down, RegisterOk)
      \/ \E t \in {"error"} \cup {ExpectedType[d] : d \in {c} \cap Call} :
           down' = Append(down, [type |-> t, call |-> c])
  BY Zenon DEF Serve
<1>7. down' \in Seq(Frame)
  BY <1>4, <1>5, <1>6, Zenon
<1>8. QED
  BY <1>1, <1>7

LEMMA RequestsStep ==
  ASSUME TypeOK, [Next]_vars
  PROVE  RequestsTypeOK'
<1>0. RequestsTypeOK /\ SessionTypeOK
  BY DEF TypeOK
<1>1. ASSUME UNCHANGED <<requests, up, down>>
      PROVE  RequestsTypeOK'
  BY <1>0, <1>1 DEF requests, RequestsTypeOK
<1>2. CASE Connect \/ OpenFails \/ RegisterTimeout \/ Disconnect \/ BackoffEnds \/ UNCHANGED vars
  BY <1>1, <1>2 DEF Connect, OpenFails, RegisterTimeout, Disconnect, BackoffEnds, vars
<1>3. CASE OpenSucceeds
  BY <1>0, <1>3, FrameTypes DEF OpenSucceeds, requests, RequestsTypeOK
<1>4. ASSUME NEW c \in Call, Invoke(c)
      PROVE  RequestsTypeOK'
  <2>1. /\ outcome' \in [Call -> {"idle", "waiting", "resolved", "rejected"}]
        /\ called' \in Seq(Call)
        /\ answer' = answer /\ down' = down
    BY <1>0, <1>4 DEF Invoke, RequestsTypeOK
  <2>2. CASE pending = NoCall
    <3>1. pending' = c /\ queue' = queue /\ Transmit(c)
      BY <1>4, <2>2 DEF Invoke, Submit
    <3>2. QED
      BY <1>0, <2>1, <3>1, TransmitType DEF RequestsTypeOK
  <2>3. CASE pending # NoCall
    <3>1. queue' = Append(queue, c) /\ UNCHANGED <<pending, up, sent>>
      BY <1>4, <2>3 DEF Invoke, Submit
    <3>2. QED
      BY <1>0, <2>1, <3>1 DEF RequestsTypeOK
  <2>4. QED
    BY <2>2, <2>3
<1>5. CASE Deliver
  <2>1. down \in Seq(Frame) /\ down # <<>> /\ down' = Tail(down) /\ Head(down) \in Frame
    BY <1>0, <1>5 DEF Deliver, RequestsTypeOK
  <2>2. CASE TakesRegisterOk(Head(down)) \/ Ignores(Head(down))
    BY <1>0, <2>1, <2>2 DEF TakesRegisterOk, Ignores, requests, RequestsTypeOK
  <2>3. CASE TakesResponse(Head(down))
    <3>1. /\ outcome' \in [Call -> {"idle", "waiting", "resolved", "rejected"}]
          /\ called' = called
      BY <1>0, <2>3 DEF TakesResponse, RequestsTypeOK
    <3>2. answer' \in [Call -> Call \cup {NoCall}]
      <4>1. Head(down).call \in Call \cup {NoCall}
        BY <2>1 DEF Frame
      <4>2. QED
        BY <1>0, <2>3, <4>1 DEF TakesResponse, RequestsTypeOK
    <3>3. CASE queue = <<>>
      BY <1>0, <2>1, <2>3, <3>1, <3>2, <3>3 DEF TakesResponse, SendNext, RequestsTypeOK
    <3>4. CASE queue # <<>>
      <4>1. pending' = Head(queue) /\ queue' = Tail(queue) /\ Transmit(Head(queue))
        BY <2>3, <3>4 DEF TakesResponse, SendNext
      <4>2. Head(queue) \in Call /\ Tail(queue) \in Seq(Call)
        BY <1>0, <3>4 DEF RequestsTypeOK
      <4>3. up' \in Seq(Frame) /\ sent' \in Seq(Call)
        BY <1>0, <4>1, <4>2, TransmitType
      <4>4. QED
        BY <1>0, <2>1, <3>1, <3>2, <4>1, <4>2, <4>3 DEF RequestsTypeOK
    <3>5. QED
      BY <3>3, <3>4
  <2>4. QED
    BY <1>5, <2>2, <2>3 DEF Deliver
<1>6. CASE CloseEvent
  BY <1>0, <1>6 DEF CloseEvent, FailRequests, RequestsTypeOK
<1>7. CASE Serve
  BY <1>0, <1>7, ServeType DEF Serve, requests, RequestsTypeOK
<1>8. CASE Drop
  BY <1>0, <1>8 DEF Drop, requests, RequestsTypeOK
<1>9. QED
  BY <1>2, <1>3, <1>4, <1>5, <1>6, <1>7, <1>8 DEF Next

\* Type correctness of the client and of the wire.
THEOREM ClientTypes == Spec => []TypeOK
<1>1. TypeOK /\ [Next]_vars => TypeOK'
  BY SessionStep, RequestsStep DEF TypeOK
<1>2. QED
  BY <1>1, ClientInit, PTL DEF Spec

-----------------------------------------------------------------------------
(* The state machine.  With the types, Consistent is inductive.            *)

LEMMA ClosedCases ==
  ASSUME NEW w \in WsState
  PROVE  /\ Closed(w) = "none" <=> w = "none"
         /\ Closed(w) \in {"open", "closing"} <=> w \in {"open", "closing"}
BY DEF Closed, WsState

LEMMA ConsistentInit == Init => Consistent
BY Zenon DEF Init, Consistent

LEMMA ConsistentStep ==
  ASSUME TypeOK, Consistent, [Next]_vars
  PROVE  Consistent'
<1> USE DEF Consistent
<1>0. /\ state \in FsmState /\ ws \in WsState
      /\ queue \in Seq(Call) /\ pending \in Call \cup {NoCall}
  BY Zenon DEF TypeOK, SessionTypeOK, RequestsTypeOK
<1>1. CASE Connect
  BY <1>0, <1>1, Zenon DEF Connect, requests
<1>2. CASE OpenSucceeds
  BY <1>0, <1>2, Zenon DEF OpenSucceeds, requests
<1>3. CASE OpenFails
  BY <1>0, <1>3, Zenon DEF OpenFails, requests, session
<1>4. CASE RegisterTimeout
  <2>1. ws' = "none" <=> ws = "none"
    BY <1>0, <1>4, ClosedCases, Zenon DEF RegisterTimeout
  <2>2. ws' \in {"open", "closing"} <=> ws \in {"open", "closing"}
    BY <1>0, <1>4, ClosedCases, Zenon DEF RegisterTimeout
  <2>3. ~resolver' /\ UNCHANGED <<timer, state, explicit, pending, queue>>
    BY <1>4, Zenon DEF RegisterTimeout, session, requests
  <2>4. QED
    BY <2>1, <2>2, <2>3, Zenon
<1>5. CASE Disconnect
  <2>1. ws' = "none" <=> ws = "none"
    BY <1>0, <1>5, ClosedCases, Zenon DEF Disconnect
  <2>2. ws' \in {"open", "closing"} <=> ws \in {"open", "closing"}
    BY <1>0, <1>5, ClosedCases, Zenon DEF Disconnect
  <2>3. ~timer' /\ UNCHANGED <<resolver, pending, queue>>
    BY <1>5, Zenon DEF Disconnect, requests
  <2>4. CASE ws = "none" /\ state = "reconnecting"
    <3>1. state' = "disconnected"
      BY <1>5, <2>4, Zenon DEF Disconnect
    <3>2. QED
      BY <2>1, <2>2, <2>3, <2>4, <3>1, Zenon
  <2>5. CASE ~(ws = "none" /\ state = "reconnecting")
    <3>1. state' = state
      BY <1>5, <2>5, Zenon DEF Disconnect
    <3>2. state # "reconnecting"
      BY <2>5, Zenon
    <3>3. QED
      BY <2>1, <2>2, <2>3, <3>1, <3>2, Zenon
  <2>6. QED
    BY <2>4, <2>5
<1>6. ASSUME NEW c \in Call, Invoke(c)
      PROVE  Consistent'
  <2>1. state = "ready" /\ UNCHANGED <<timer, state, explicit, resolver, ws>>
    BY <1>6, Zenon DEF Invoke, session
  <2>2. pending' # NoCall
    <3>1. CASE pending = NoCall
      <4>1. pending' = c
        BY <1>6, <3>1, Zenon DEF Invoke, Submit
      <4>2. QED
        BY <4>1
    <3>2. CASE pending # NoCall
      BY <1>6, <3>2, Zenon DEF Invoke, Submit
    <3>3. QED
      BY <3>1, <3>2
  <2>3. QED
    BY <2>1, <2>2, Zenon
<1>7. CASE Deliver
  <2>1. ws' = ws /\ ws \in {"open", "closing"}
    BY <1>7, Zenon DEF Deliver
  <2>2. CASE TakesRegisterOk(Head(down))
    BY <2>1, <2>2, Zenon DEF TakesRegisterOk, requests
  <2>3. CASE TakesResponse(Head(down))
    <3>1. /\ pending # NoCall /\ SendNext
          /\ UNCHANGED <<timer, state, explicit, resolver>>
      BY <2>3, Zenon DEF TakesResponse, session
    <3>2. queue' # <<>> => pending' # NoCall
      <4>1. CASE queue = <<>>
        BY <3>1, <4>1, Zenon DEF SendNext
      <4>2. CASE queue # <<>>
        <5>1. Head(queue) \in Call
          BY <1>0, <4>2
        <5>2. pending' = Head(queue)
          BY <3>1, <4>2, Zenon DEF SendNext
        <5>3. QED
          BY <5>1, <5>2
      <4>3. QED
        BY <4>1, <4>2
    <3>3. QED
      BY <2>1, <3>1, <3>2, Zenon
  <2>4. CASE Ignores(Head(down))
    BY <2>1, <2>4, Zenon DEF Ignores, session, requests
  <2>5. QED
    BY <1>7, <2>2, <2>3, <2>4, Zenon DEF Deliver
<1>8. CASE CloseEvent
  <2>1. /\ ws = "closing" /\ ws' = "none" /\ ~resolver'
        /\ pending' = NoCall /\ queue' = <<>>
    BY <1>8, Zenon DEF CloseEvent, FailRequests
  <2>2. state # "reconnecting" /\ ~timer
    BY <2>1, Zenon
  <2>3. CASE Recovers /\ ScheduleReconnect
    <3>1. CASE attempt + 1 > MaxAttempts
      <4>1. state' = "disconnected" /\ timer' = timer
        BY <2>3, <3>1, Zenon DEF ScheduleReconnect
      <4>2. QED
        BY <2>1, <2>2, <4>1, Zenon
    <3>2. CASE ~(attempt + 1 > MaxAttempts)
      <4>1. timer' /\ state' = "reconnecting" /\ explicit' = explicit /\ ~explicit
        BY <1>8, <2>3, <3>2, Zenon DEF CloseEvent, ScheduleReconnect, Recovers
      <4>2. QED
        BY <2>1, <4>1, Zenon
    <3>3. QED
      BY <3>1, <3>2
  <2>4. CASE state' = "disconnected" /\ UNCHANGED <<attempt, timer>>
    BY <2>1, <2>2, <2>4, Zenon
  <2>5. QED
    BY <1>8, <2>3, <2>4, Zenon DEF CloseEvent
<1>9. CASE BackoffEnds
  BY <1>0, <1>9, Zenon DEF BackoffEnds, requests
<1>10. CASE Serve
  BY <1>10, Zenon DEF Serve, session, requests
<1>11. CASE Drop
  BY <1>11, Zenon DEF Drop, session, requests
<1>12. CASE UNCHANGED vars
  BY <1>12, Zenon DEF vars, session, requests
<1>13. QED
  BY <1>1, <1>2, <1>3, <1>4, <1>5, <1>6, <1>7, <1>8, <1>9, <1>10, <1>11, <1>12, Zenon DEF Next

\* The timer, the socket, the register in flight and the pending call always
\* agree with the state.
THEOREM StateIsConsistent == Spec => []Consistent
<1>1. TypeOK /\ Consistent /\ [Next]_vars => Consistent'
  BY ConsistentStep
<1>2. QED
  BY <1>1, ConsistentInit, ClientTypes, PTL DEF Spec

\* Sockets are opened by connect() and by the timer, and the timer never runs
\* after disconnect().
LEMMA NoReconnectStep ==
  ASSUME Consistent, [Next]_vars, explicit, ws' = "connecting"
  PROVE  ws = "connecting" \/ connects' # connects
<1>0. ~timer
  BY Zenon DEF Consistent
<1>1. CASE Connect
  <2>1. state = "disconnected" /\ ~explicit' /\ connects' = connects + 1
    BY <1>1, Zenon DEF Connect
  <2>2. QED
    BY <2>1
<1>2. CASE OpenSucceeds \/ OpenFails
  BY <1>2, Zenon DEF OpenSucceeds, OpenFails
<1>3. CASE RegisterTimeout \/ Disconnect
  <2>1. ws' = ws \/ ws' = Closed(ws)
    BY <1>3, Zenon DEF RegisterTimeout, Disconnect
  <2>2. CASE ws \in {"open", "connecting"}
    BY <2>1, <2>2 DEF Closed
  <2>3. CASE ws \notin {"open", "connecting"}
    BY <2>1, <2>3 DEF Closed
  <2>4. QED
    BY <2>2, <2>3
<1>4. CASE \E c \in Call : Invoke(c)
  BY <1>4, Zenon DEF Invoke
<1>5. CASE Deliver \/ CloseEvent \/ Serve \/ Drop
  BY <1>5, Zenon DEF Deliver, CloseEvent, Serve, Drop
<1>6. CASE BackoffEnds
  BY <1>0, <1>6, Zenon DEF BackoffEnds
<1>7. CASE UNCHANGED vars
  BY <1>7, Zenon DEF vars
<1>8. QED
  BY <1>1, <1>2, <1>3, <1>4, <1>5, <1>6, <1>7, Zenon DEF Next

\* After disconnect() the client opens no socket until connect() is called.
THEOREM DisconnectIsRespected == Spec => NoReconnectAfterDisconnect
<1>1. Consistent /\ [Next]_vars
        => [(explicit /\ ws' = "connecting") => ws = "connecting" \/ connects' # connects]_vars
  BY NoReconnectStep
<1>2. QED
  BY <1>1, StateIsConsistent, PTL DEF Spec, NoReconnectAfterDisconnect

-----------------------------------------------------------------------------
(* connect() and a late register_ok: while the socket of connect() is      *)
(* opening or its register is awaited, the promise is pending.             *)

ConnectPending ==
  (cycle = "connect" /\ (ws = "connecting" \/ resolver)) => connectCall = "waiting"

LEMMA ConnectPendingStep ==
  ASSUME TypeOK, Consistent, ConnectPending, [Next]_vars
  PROVE  ConnectPending'
<1> USE DEF ConnectPending
<1>1. CASE Connect
  BY <1>1, Zenon DEF Connect
<1>2. CASE OpenSucceeds
  BY <1>2, Zenon DEF OpenSucceeds
<1>3. CASE OpenFails
  <2>1. ws' = "dead" /\ cycle' = cycle /\ ~resolver' /\ resolver' = resolver
    <3>1. ws \in {"connecting", "aborting"} /\ UNCHANGED <<session, resolver>> /\ ws' = "dead"
      BY <1>3, Zenon DEF OpenFails
    <3>2. ~resolver
      BY <3>1 DEF Consistent
    <3>3. QED
      BY <3>1, <3>2, Zenon DEF session
  <2>2. QED
    BY <2>1
<1>4. CASE RegisterTimeout
  <2>1. resolver /\ ~resolver' /\ cycle' = cycle
    BY <1>4, Zenon DEF RegisterTimeout, session
  <2>2. ws \in {"open", "closing"}
    BY <2>1, Zenon DEF Consistent
  <2>3. ws' = ws \/ ws' = Closed(ws)
    BY <1>4, Zenon DEF RegisterTimeout
  <2>4. ws' # "connecting"
    BY <2>2, <2>3 DEF Closed
  <2>5. QED
    BY <2>1, <2>4, Zenon
<1>5. CASE Disconnect
  <2>1. UNCHANGED <<cycle, resolver, connectCall>> /\ ws' = Closed(ws)
    BY <1>5, Zenon DEF Disconnect
  <2>2. ws' # "connecting"
    BY <2>1, ClosedType DEF TypeOK, SessionTypeOK
  <2>3. QED
    BY <2>1, <2>2, Zenon
<1>6. ASSUME NEW c \in Call, Invoke(c)
      PROVE  ConnectPending'
  <2>1. UNCHANGED <<ws, resolver, connectCall, cycle>>
    BY <1>6, Zenon DEF Invoke, session
  <2>2. QED
    BY <2>1, Zenon
<1>7. CASE Deliver
  <2>1. CASE TakesRegisterOk(Head(down))
    <3>1. ~resolver' /\ ws' = ws /\ ws \in {"open", "closing"}
      BY <1>7, <2>1, Zenon DEF Deliver, TakesRegisterOk
    <3>2. QED
      BY <3>1
  <2>2. CASE TakesResponse(Head(down)) \/ Ignores(Head(down))
    BY <1>7, <2>2, Zenon DEF Deliver, TakesResponse, Ignores, session
  <2>3. QED
    BY <1>7, <2>1, <2>2, Zenon DEF Deliver
<1>8. CASE CloseEvent
  BY <1>8, Zenon DEF CloseEvent
<1>9. CASE BackoffEnds
  BY <1>9, Zenon DEF BackoffEnds
<1>10. CASE Serve
  BY <1>10, Zenon DEF Serve, session
<1>11. CASE Drop
  BY <1>11, Zenon DEF Drop, session
<1>12. CASE UNCHANGED vars
  BY <1>12, Zenon DEF vars, session
<1>13. QED
  BY <1>1, <1>2, <1>3, <1>4, <1>5, <1>6, <1>7, <1>8, <1>9, <1>10, <1>11, <1>12, Zenon DEF Next

LEMMA LateRegisterStep ==
  ASSUME ConnectPending, [Next]_vars,
         cycle = "connect", connectCall = "rejected", state # "ready"
  PROVE  state' # "ready"
<1>1. ~resolver
  BY Zenon DEF ConnectPending
<1>2. CASE Deliver
  BY <1>1, <1>2, Zenon DEF Deliver, TakesRegisterOk, TakesResponse, Ignores, session
<1>3. CASE \E c \in Call : Invoke(c)
  BY <1>3, Zenon DEF Invoke, session
<1>4. CASE CloseEvent
  BY <1>4, Zenon DEF CloseEvent, ScheduleReconnect
<1>5. CASE Connect \/ OpenSucceeds \/ BackoffEnds
  BY <1>5, Zenon DEF Connect, OpenSucceeds, BackoffEnds
<1>6. CASE Disconnect
  BY <1>6, Zenon DEF Disconnect
<1>7. CASE OpenFails \/ RegisterTimeout \/ Serve \/ Drop
  BY <1>7, Zenon DEF OpenFails, RegisterTimeout, Serve, Drop, session
<1>8. CASE UNCHANGED vars
  BY <1>8, Zenon DEF vars, session
<1>9. QED
  BY <1>2, <1>3, <1>4, <1>5, <1>6, <1>7, <1>8, Zenon DEF Next

\* Once connect() has rejected, a register_ok that is still on its way does
\* not make the client ready.
THEOREM LateRegister == Spec => LateRegisterIsIgnored
<1>1. Spec => []TypeOK
  BY ClientTypes
<1>2. Spec => []Consistent
  BY StateIsConsistent
<1>3. Init => ConnectPending
  BY Zenon DEF Init, ConnectPending
<1>4. TypeOK /\ Consistent /\ ConnectPending /\ [Next]_vars => ConnectPending'
  BY ConnectPendingStep
<1>5. Spec => []ConnectPending
  BY <1>1, <1>2, <1>3, <1>4, PTL DEF Spec
<1>6. ConnectPending /\ [Next]_vars
        => [(cycle = "connect" /\ connectCall = "rejected" /\ state # "ready")
              => state' # "ready"]_vars
  BY LateRegisterStep
<1>7. QED
  BY <1>5, <1>6, PTL DEF Spec, LateRegisterIsIgnored

-----------------------------------------------------------------------------
(* The wire.  Every frame that carries a call carries the pending one, no  *)
(* direction carries two, and a request and its answer are never both on   *)
(* the wire.                                                               *)

Wire(u, d, p) ==
  /\ \A i \in DOMAIN u :
       u[i] = Register \/ (u[i].type = "request" /\ u[i].call = p /\ p # NoCall)
  /\ \A i \in DOMAIN d :
       d[i] = RegisterOk \/ (d[i].type # "register_ok" /\ d[i].call = p /\ p # NoCall)
  /\ \A i, j \in InFlight(u) : i = j
  /\ \A i, j \in InFlight(d) : i = j
  /\ InFlight(u) = {} \/ InFlight(d) = {}

Quiet(u, d) == InFlight(u) = {} /\ InFlight(d) = {}

LEMMA QuietAnyCall ==
  ASSUME NEW u \in Seq(Frame), NEW d \in Seq(Frame), NEW p, NEW q,
         Wire(u, d, p), Quiet(u, d)
  PROVE  Wire(u, d, q)
BY DEF Wire, Quiet, InFlight

LEMMA NoCallQuiet ==
  ASSUME NEW u \in Seq(Frame), NEW d \in Seq(Frame), Wire(u, d, NoCall)
  PROVE  Quiet(u, d)
BY DEF Wire, Quiet, InFlight, Register, RegisterOk

LEMMA WireEmpty == ASSUME NEW p PROVE Wire(<<>>, <<>>, p)
BY DEF Wire, InFlight

LEMMA WireRegister ==
  ASSUME NEW u \in Seq(Frame), NEW d \in Seq(Frame), NEW p, Wire(u, d, p)
  PROVE  Wire(<<Register>>, d, p)
<1>1. InFlight(<<Register>>) = {}
  BY DEF InFlight, Register
<1>2. QED
  BY <1>1 DEF Wire

\* A frame leaves the wire.
LEMMA TailInFlight ==
  ASSUME NEW d \in Seq(Frame), d # <<>>, NEW i \in InFlight(Tail(d))
  PROVE  i + 1 \in InFlight(d) /\ i \in Nat \ {0}
BY DEF InFlight

LEMMA TailWire ==
  ASSUME NEW u \in Seq(Frame), NEW d \in Seq(Frame), NEW p, Wire(u, d, p)
  PROVE  /\ d # <<>> => Wire(u, Tail(d), p)
         /\ u # <<>> => Wire(Tail(u), d, p)
<1>1. ASSUME d # <<>> PROVE Wire(u, Tail(d), p)
  <2>1. \A i, j \in InFlight(Tail(d)) : i = j
    BY <1>1, TailInFlight DEF Wire
  <2>2. InFlight(u) = {} \/ InFlight(Tail(d)) = {}
    BY <1>1, TailInFlight DEF Wire
  <2>3. \A i \in DOMAIN Tail(d) : i + 1 \in DOMAIN d /\ Tail(d)[i] = d[i + 1]
    BY <1>1
  <2>4. QED
    BY <2>1, <2>2, <2>3 DEF Wire
<1>2. ASSUME u # <<>> PROVE Wire(Tail(u), d, p)
  <2>1. \A i, j \in InFlight(Tail(u)) : i = j
    BY <1>2, TailInFlight DEF Wire
  <2>2. InFlight(Tail(u)) = {} \/ InFlight(d) = {}
    BY <1>2, TailInFlight DEF Wire
  <2>3. \A i \in DOMAIN Tail(u) : i + 1 \in DOMAIN u /\ Tail(u)[i] = u[i + 1]
    BY <1>2
  <2>4. QED
    BY <2>1, <2>2, <2>3 DEF Wire
<1>3. QED
  BY <1>1, <1>2

\* The first of two frames with a call would be the second one.
LEMMA HeadAlone ==
  ASSUME NEW d \in Seq(Frame), d # <<>>, Head(d).call # NoCall,
         \A i, j \in InFlight(d) : i = j
  PROVE  1 \in InFlight(d) /\ InFlight(Tail(d)) = {}
<1>1. 1 \in InFlight(d)
  BY DEF InFlight
<1>2. ASSUME NEW i \in InFlight(Tail(d)) PROVE FALSE
  <2>1. i + 1 \in InFlight(d) /\ i \in Nat \ {0}
    BY TailInFlight
  <2>2. QED
    BY <1>1, <2>1
<1>3. QED
  BY <1>1, <1>2

\* The answer leaves the wire: nothing of its call is left.
LEMMA AnswerQuiet ==
  ASSUME NEW u \in Seq(Frame), NEW d \in Seq(Frame), NEW p,
         Wire(u, d, p), d # <<>>, Head(d).type # "register_ok"
  PROVE  Head(d).call = p /\ Quiet(u, Tail(d))
<1>1. Head(d).call = p /\ p # NoCall
  BY DEF Wire, RegisterOk
<1>2. QED
  BY <1>1, HeadAlone DEF Wire, Quiet

\* A request enters a quiet wire.
LEMMA SendWire ==
  ASSUME NEW u \in Seq(Frame), NEW d \in Seq(Frame), NEW p, NEW c \in Call,
         Wire(u, d, p), Quiet(u, d)
  PROVE  Wire(Append(u, Request(c)), d, c)
<1> DEFINE v == Append(u, Request(c))
<1>1. Wire(u, d, c)
  BY QuietAnyCall
<1>2. \A i \in DOMAIN v : (i \in DOMAIN u /\ v[i] = u[i]) \/ (i = Len(u) + 1 /\ v[i] = Request(c))
  OBVIOUS
<1>3. \A i \in InFlight(v) : i = Len(u) + 1
  BY <1>2 DEF InFlight, Quiet
<1>4. \A i \in DOMAIN v :
        v[i] = Register \/ (v[i].type = "request" /\ v[i].call = c /\ c # NoCall)
  BY <1>1, <1>2 DEF Wire, Request
<1>5. QED
  BY <1>1, <1>3, <1>4 DEF Wire, Quiet

\* The server takes a frame and puts the answer on the wire.
LEMMA ServeWire ==
  ASSUME NEW u \in Seq(Frame), NEW d \in Seq(Frame), NEW p, NEW e \in Frame,
         Wire(u, d, p), u # <<>>,
         \/ Head(u) = Register /\ e = RegisterOk
         \/ Head(u) # Register /\ e.type # "register_ok" /\ e.call = Head(u).call
  PROVE  Wire(Tail(u), Append(d, e), p)
<1> DEFINE b == Append(d, e)
<1>1. Wire(Tail(u), d, p)
  BY TailWire
<1>2. \A i \in DOMAIN b : (i \in DOMAIN d /\ b[i] = d[i]) \/ (i = Len(d) + 1 /\ b[i] = e)
  OBVIOUS
<1>3. CASE Head(u) = Register /\ e = RegisterOk
  <2>1. InFlight(b) = InFlight(d)
    BY <1>2, <1>3 DEF InFlight, RegisterOk
  <2>2. QED
    BY <1>1, <1>2, <1>3, <2>1 DEF Wire
<1>4. CASE Head(u) # Register /\ e.type # "register_ok" /\ e.call = Head(u).call
  <2>1. e.call = p /\ p # NoCall
    BY <1>4 DEF Wire
  <2>2. 1 \in InFlight(u) /\ InFlight(Tail(u)) = {}
    BY <1>4, <2>1, HeadAlone DEF Wire
  <2>3. InFlight(d) = {}
    BY <2>2 DEF Wire
  <2>4. \A i \in InFlight(b) : i = Len(d) + 1
    BY <1>2, <2>3 DEF InFlight
  <2>5. \A i \in DOMAIN b :
          b[i] = RegisterOk \/ (b[i].type # "register_ok" /\ b[i].call = p /\ p # NoCall)
    BY <1>1, <1>2, <1>4, <2>1 DEF Wire
  <2>6. QED
    BY <1>1, <2>2, <2>4, <2>5 DEF Wire
<1>5. QED
  BY <1>3, <1>4

WireInv == Wire(up, down, pending)

\* What a handler that sends a call does to a quiet wire.
LEMMA TransmitWire ==
  ASSUME RequestsTypeOK, NEW d \in Seq(Frame), NEW p, NEW c \in Call,
         Wire(up, d, p), Quiet(up, d), Transmit(c)
  PROVE  Wire(up', d, c)
<1>1. up \in Seq(Frame)
  BY DEF RequestsTypeOK
<1>2. CASE ws = "open"
  BY <1>1, <1>2, SendWire DEF Transmit
<1>3. CASE ws # "open"
  <2>1. up' = up
    BY <1>3 DEF Transmit
  <2>2. QED
    BY <1>1, <2>1, QuietAnyCall
<1>4. QED
  BY <1>2, <1>3

LEMMA InvokeWire ==
  ASSUME TypeOK, WireInv, NEW c \in Call, Invoke(c)
  PROVE  WireInv'
<1>1. down' = down /\ Submit(c) /\ RequestsTypeOK /\ up \in Seq(Frame) /\ down \in Seq(Frame)
  BY Zenon DEF Invoke, TypeOK, RequestsTypeOK
<1>2. CASE pending = NoCall
  <2>1. pending' = c /\ Transmit(c)
    BY <1>1, <1>2, Zenon DEF Submit
  <2>2. Quiet(up, down)
    BY <1>1, <1>2, NoCallQuiet DEF WireInv
  <2>3. Wire(up', down, c)
    BY <1>1, <2>1, <2>2, TransmitWire DEF WireInv
  <2>4. QED
    BY <1>1, <2>1, <2>3 DEF WireInv
<1>3. CASE pending # NoCall
  <2>1. UNCHANGED <<pending, up>>
    BY <1>1, <1>3, Zenon DEF Submit
  <2>2. QED
    BY <1>1, <2>1 DEF WireInv
<1>4. QED
  BY <1>2, <1>3

LEMMA DeliverWire ==
  ASSUME TypeOK, WireInv, Deliver
  PROVE  WireInv'
<1>1. /\ RequestsTypeOK /\ up \in Seq(Frame) /\ down \in Seq(Frame)
      /\ down # <<>> /\ down' = Tail(down)
  BY Zenon DEF Deliver, TypeOK, RequestsTypeOK
<1>2. Wire(up, Tail(down), pending) /\ Tail(down) \in Seq(Frame)
  BY <1>1, TailWire DEF WireInv
<1>3. CASE TakesRegisterOk(Head(down)) \/ Ignores(Head(down))
  <2>1. UNCHANGED <<up, pending>>
    BY <1>3, Zenon DEF TakesRegisterOk, Ignores, requests
  <2>2. QED
    BY <1>1, <1>2, <2>1 DEF WireInv
<1>4. CASE TakesResponse(Head(down))
  <2>1. SendNext /\ pending \in Call /\ Head(down).type \in {"error", ExpectedType[pending]}
    BY <1>1, <1>4 DEF TakesResponse, RequestsTypeOK
  <2>2. Head(down).type # "register_ok"
    BY <2>1
  <2>3. Quiet(up, Tail(down))
    BY <1>1, <2>2, AnswerQuiet DEF WireInv
  <2>4. CASE queue = <<>>
    <3>1. up' = up /\ pending' = NoCall
      BY <2>1, <2>4, Zenon DEF SendNext
    <3>2. QED
      BY <1>1, <1>2, <2>3, <3>1, QuietAnyCall DEF WireInv
  <2>5. CASE queue # <<>>
    <3>1. pending' = Head(queue) /\ Transmit(Head(queue))
      BY <2>1, <2>5, Zenon DEF SendNext
    <3>2. Head(queue) \in Call
      BY <1>1, <2>5 DEF RequestsTypeOK
    <3>3. Wire(up', Tail(down), Head(queue))
      BY <1>1, <1>2, <2>3, <3>1, <3>2, TransmitWire
    <3>4. QED
      BY <1>1, <3>1, <3>3 DEF WireInv
  <2>6. QED
    BY <2>4, <2>5
<1>5. QED
  BY <1>3, <1>4, Zenon DEF Deliver

LEMMA ServeStepWire ==
  ASSUME TypeOK, WireInv, Serve
  PROVE  WireInv'
<1> DEFINE c == Head(up).call
<1>1. /\ up \in Seq(Frame) /\ down \in Seq(Frame) /\ up # <<>>
      /\ up' = Tail(up) /\ pending' = pending
  BY DEF Serve, TypeOK, RequestsTypeOK, requests
<1>2. c \in Call \cup {NoCall}
  <2>1. Head(up) \in Frame
    BY <1>1
  <2>2. QED
    BY <2>1 DEF Frame
<1>3. CASE Head(up) = Register /\ down' = Append(down, RegisterOk)
  BY <1>1, <1>3, ServeWire, FrameTypes DEF WireInv
<1>4. ASSUME NEW t \in {"error"} \cup {ExpectedType[d] : d \in {c} \cap Call},
             Head(up) # Register, down' = Append(down, [type |-> t, call |-> c])
      PROVE  WireInv'
  <2>1. t \in {"error", "lookup_result", "invite_result"}
    OBVIOUS
  <2>2. /\ [type |-> t, call |-> c] \in Frame
        /\ [type |-> t, call |-> c].type # "register_ok"
        /\ [type |-> t, call |-> c].call = c
    BY <1>2, <2>1 DEF Frame
  <2>3. Wire(Tail(up), Append(down, [type |-> t, call |-> c]), pending)
    BY <1>1, <1>4, <2>2, ServeWire DEF WireInv
  <2>4. QED
    BY <1>1, <1>4, <2>3 DEF WireInv
<1>5. QED
  BY <1>3, <1>4, Zenon DEF Serve

LEMMA WireStep ==
  ASSUME TypeOK, WireInv, [Next]_vars
  PROVE  WireInv'
<1>1. ASSUME UNCHANGED <<pending, up, down>>
      PROVE  WireInv'
  BY <1>1, Zenon DEF WireInv
<1>2. CASE Connect \/ OpenFails \/ RegisterTimeout \/ Disconnect \/ BackoffEnds \/ UNCHANGED vars
  BY <1>1, <1>2, Zenon
  DEF Connect, OpenFails, RegisterTimeout, Disconnect, BackoffEnds, vars, requests
<1>3. CASE OpenSucceeds
  <2>1. up' = <<Register>> /\ UNCHANGED <<pending, down>>
    BY <1>3, Zenon DEF OpenSucceeds, requests
  <2>2. QED
    BY <2>1, WireRegister DEF WireInv, TypeOK, RequestsTypeOK
<1>4. CASE CloseEvent \/ Drop
  <2>1. up' = <<>> /\ down' = <<>>
    BY <1>4, Zenon DEF CloseEvent, Drop
  <2>2. QED
    BY <2>1, WireEmpty DEF WireInv
<1>5. CASE \E c \in Call : Invoke(c)
  BY <1>5, InvokeWire
<1>6. QED
  BY <1>2, <1>3, <1>4, <1>5, DeliverWire, ServeStepWire, Zenon DEF Next

\* What AtMostOneInFlight and AnswerMatchesCall follow from, in every state.
THEOREM WireAlways == Spec => []WireInv
<1>1. Init => WireInv
  BY WireEmpty DEF Init, WireInv
<1>2. TypeOK /\ WireInv /\ [Next]_vars => WireInv'
  BY WireStep
<1>3. QED
  BY <1>1, <1>2, ClientTypes, PTL DEF Spec

\* At most one request or answer is on the wire, whatever is called, answered,
\* refused, lost or timed out.
THEOREM OneInFlight == Spec => []AtMostOneInFlight
<1>1. ASSUME NEW u \in Seq(Frame), NEW d \in Seq(Frame), NEW p, Wire(u, d, p)
      PROVE  \A i, j \in InFlight(u \o d) : i = j
  <2>1. \A i \in InFlight(u \o d) :
          \/ i \in InFlight(u)
          \/ i - Len(u) \in InFlight(d) /\ i \in Nat
    BY DEF InFlight
  <2>2. QED
    BY <1>1, <2>1 DEF Wire
<1>2. TypeOK /\ WireInv => AtMostOneInFlight
  BY <1>1 DEF TypeOK, RequestsTypeOK, WireInv, AtMostOneInFlight
<1>3. QED
  BY <1>2, ClientTypes, WireAlways, PTL

LEMMA AnswerStep ==
  ASSUME TypeOK, WireInv, AnswerMatchesCall, [Next]_vars
  PROVE  AnswerMatchesCall'
<1>1. ASSUME answer' = answer
      PROVE  AnswerMatchesCall'
  BY <1>1, Zenon DEF AnswerMatchesCall
<1>2. CASE Deliver /\ TakesResponse(Head(down))
  <2>1. /\ up \in Seq(Frame) /\ down \in Seq(Frame) /\ down # <<>>
        /\ answer \in [Call -> Call \cup {NoCall}] /\ pending \in Call
        /\ Head(down).type \in {"error", ExpectedType[pending]}
        /\ answer' = [answer EXCEPT ![pending] = Head(down).call]
    BY <1>2 DEF Deliver, TakesResponse, TypeOK, RequestsTypeOK
  <2>2. Head(down).call = pending
    BY <2>1, AnswerQuiet DEF WireInv
  <2>3. QED
    BY <2>1, <2>2 DEF AnswerMatchesCall
<1>3. CASE Deliver /\ ~TakesResponse(Head(down))
  BY <1>1, <1>3, Zenon DEF Deliver, TakesRegisterOk, Ignores, requests
<1>4. CASE \E c \in Call : Invoke(c)
  BY <1>1, <1>4, Zenon DEF Invoke
<1>5. CASE CloseEvent
  BY <1>1, <1>5, Zenon DEF CloseEvent
<1>6. CASE \/ Connect \/ OpenSucceeds \/ OpenFails \/ RegisterTimeout \/ Disconnect
           \/ BackoffEnds \/ Serve \/ Drop \/ UNCHANGED vars
  BY <1>1, <1>6, Zenon
  DEF Connect, OpenSucceeds, OpenFails, RegisterTimeout, Disconnect, BackoffEnds, Serve,
      Drop, vars, requests
<1>7. QED
  BY <1>2, <1>3, <1>4, <1>5, <1>6, Zenon DEF Next

\* A call is only ever settled with the answer to itself.
THEOREM AnswersMatch == Spec => []AnswerMatchesCall
<1>1. Init => AnswerMatchesCall
  BY DEF Init, AnswerMatchesCall
<1>2. TypeOK /\ WireInv /\ AnswerMatchesCall /\ [Next]_vars => AnswerMatchesCall'
  BY AnswerStep
<1>3. QED
  BY <1>1, <1>2, ClientTypes, WireAlways, PTL DEF Spec

-----------------------------------------------------------------------------
(* The order of the requests.  m is the sequence of calls made, s that of  *)
(* calls sent, q the queue; sent and then queued calls stand in the order  *)
(* in which they were made.                                                *)

RankIn(m, c) == CHOOSE k \in DOMAIN m : m[k] = c

Made(m) == {m[k] : k \in DOMAIN m}

NoneTwice(m) == \A k, l \in DOMAIN m : m[k] = m[l] => k = l

Ascending(m, s) ==
  \A i, j \in DOMAIN s : i < j => RankIn(m, s[i]) < RankIn(m, s[j])

InOrder(m, s, q) ==
  /\ NoneTwice(m)
  /\ \A i \in DOMAIN s : s[i] \in Made(m)
  /\ \A i \in DOMAIN q : q[i] \in Made(m)
  /\ Ascending(m, s)
  /\ Ascending(m, q)
  /\ \A i \in DOMAIN s, j \in DOMAIN q : RankIn(m, s[i]) < RankIn(m, q[j])

OrderInv ==
  /\ InOrder(called, sent, queue)
  /\ \A k \in DOMAIN called : outcome[called[k]] # "idle"

\* A call that was made has one rank.
LEMMA RankExact ==
  ASSUME NEW m \in Seq(Call), NoneTwice(m), NEW c \in Made(m)
  PROVE  /\ RankIn(m, c) \in DOMAIN m /\ RankIn(m, c) \in 1..Len(m)
         /\ m[RankIn(m, c)] = c
         /\ \A k \in DOMAIN m : m[k] = c => k = RankIn(m, c)
<1>1. \E k \in DOMAIN m : m[k] = c
  BY DEF Made
<1>2. RankIn(m, c) \in DOMAIN m /\ m[RankIn(m, c)] = c
  BY <1>1, Zenon DEF RankIn
<1>3. QED
  BY <1>2 DEF NoneTwice

\* A new call ranks behind all that were made before, whose ranks stay.
LEMMA RankAppend ==
  ASSUME NEW m \in Seq(Call), NoneTwice(m), NEW c \in Call, c \notin Made(m)
  PROVE  /\ NoneTwice(Append(m, c)) /\ Append(m, c) \in Seq(Call)
         /\ c \in Made(Append(m, c))
         /\ RankIn(Append(m, c), c) = Len(m) + 1
         /\ \A d \in Made(m) : /\ d \in Made(Append(m, c))
                               /\ RankIn(Append(m, c), d) = RankIn(m, d)
                               /\ RankIn(m, d) < Len(m) + 1
<1> DEFINE n == Append(m, c)
<1>1. /\ n \in Seq(Call) /\ Len(n) = Len(m) + 1 /\ n[Len(m) + 1] = c
      /\ Len(m) + 1 \in DOMAIN n
      /\ \A k \in DOMAIN n : (k \in DOMAIN m /\ n[k] = m[k]) \/ (k = Len(m) + 1 /\ n[k] = c)
      /\ \A k \in DOMAIN m : k \in DOMAIN n /\ n[k] = m[k]
  OBVIOUS
<1> HIDE DEF n
<1>2. NoneTwice(n)
  BY <1>1 DEF NoneTwice, Made
<1>3. c \in Made(n)
  BY <1>1 DEF Made
<1>4. RankIn(n, c) = Len(m) + 1
  BY <1>1, <1>2, <1>3, RankExact
<1>5. ASSUME NEW d \in Made(m)
      PROVE  /\ d \in Made(n)
             /\ RankIn(n, d) = RankIn(m, d)
             /\ RankIn(m, d) < Len(m) + 1
  <2>1. RankIn(m, d) \in DOMAIN m /\ RankIn(m, d) \in 1..Len(m) /\ m[RankIn(m, d)] = d
    BY RankExact
  <2>2. RankIn(m, d) \in DOMAIN n /\ n[RankIn(m, d)] = d
    BY <1>1, <2>1
  <2>3. d \in Made(n)
    BY <2>2 DEF Made
  <2>4. RankIn(n, d) = RankIn(m, d)
    BY <1>1, <1>2, <2>2, <2>3, RankExact
  <2>5. QED
    BY <2>1, <2>3, <2>4
<1>6. QED
  BY <1>1, <1>2, <1>3, <1>4, <1>5 DEF n

\* A call is made and waits in the queue, or is sent when nothing waits.
LEMMA CallInOrder ==
  ASSUME NEW m \in Seq(Call), NEW s \in Seq(Call), NEW q \in Seq(Call),
         InOrder(m, s, q), NEW c \in Call, c \notin Made(m)
  PROVE  /\ InOrder(Append(m, c), s, q)
         /\ InOrder(Append(m, c), s, Append(q, c))
         /\ q = <<>> => InOrder(Append(m, c), Append(s, c), q)
<1> DEFINE n == Append(m, c)
<1>1. /\ NoneTwice(n) /\ c \in Made(n) /\ RankIn(n, c) = Len(m) + 1
      /\ \A d \in Made(m) : /\ d \in Made(n)
                            /\ RankIn(n, d) = RankIn(m, d)
                            /\ RankIn(m, d) < Len(m) + 1
  BY RankAppend DEF InOrder
<1> HIDE DEF n
<1>2. InOrder(n, s, q)
  BY <1>1 DEF InOrder, Ascending
<1>3. ASSUME NEW r \in Seq(Call), \A i \in DOMAIN r : r[i] \in Made(m), Ascending(n, r)
      PROVE  /\ \A i \in DOMAIN Append(r, c) :
                  \/ i \in DOMAIN r /\ Append(r, c)[i] = r[i]
                  \/ i = Len(r) + 1 /\ Append(r, c)[i] = c
             /\ \A i \in DOMAIN Append(r, c) : Append(r, c)[i] \in Made(n)
             /\ Ascending(n, Append(r, c))
  <2>1. \A i \in DOMAIN Append(r, c) :
          \/ i \in DOMAIN r /\ i < Len(r) + 1 /\ Append(r, c)[i] = r[i]
          \/ i = Len(r) + 1 /\ Append(r, c)[i] = c
    OBVIOUS
  <2>2. \A i \in DOMAIN r : RankIn(n, r[i]) < RankIn(n, c)
    BY <1>1, <1>3
  <2>3. \A i, j \in DOMAIN Append(r, c) : i < j =>
          i \in DOMAIN r /\ Append(r, c)[i] = r[i]
    BY <2>1
  <2>4. Ascending(n, Append(r, c))
    BY <1>3, <2>1, <2>2, <2>3 DEF Ascending
  <2>5. QED
    BY <1>1, <1>3, <2>1, <2>4
<1>4. InOrder(n, s, Append(q, c))
  <2>1. /\ \A i \in DOMAIN Append(q, c) :
             \/ i \in DOMAIN q /\ Append(q, c)[i] = q[i]
             \/ i = Len(q) + 1 /\ Append(q, c)[i] = c
        /\ \A i \in DOMAIN Append(q, c) : Append(q, c)[i] \in Made(n)
        /\ Ascending(n, Append(q, c))
    BY <1>2, <1>3 DEF InOrder
  <2>2. \A i \in DOMAIN s : RankIn(n, s[i]) < RankIn(n, c)
    BY <1>1 DEF InOrder
  <2>3. QED
    BY <1>2, <2>1, <2>2 DEF InOrder
<1>5. ASSUME q = <<>>
      PROVE  InOrder(n, Append(s, c), q)
  <2>1. /\ \A i \in DOMAIN Append(s, c) : Append(s, c)[i] \in Made(n)
        /\ Ascending(n, Append(s, c))
    BY <1>2, <1>3 DEF InOrder
  <2>2. DOMAIN q = {}
    BY <1>5
  <2>3. QED
    BY <1>2, <2>1, <2>2 DEF InOrder
<1>6. QED
  BY <1>2, <1>4, <1>5 DEF n

\* The head of the queue is sent, or lost on a socket that is closing.
LEMMA NextInOrder ==
  ASSUME NEW m \in Seq(Call), NEW s \in Seq(Call), NEW q \in Seq(Call),
         InOrder(m, s, q), q # <<>>
  PROVE  /\ InOrder(m, s, Tail(q))
         /\ InOrder(m, Append(s, Head(q)), Tail(q))
<1> DEFINE t == Tail(q)
<1>1. \A i \in DOMAIN t : i \in Nat /\ i + 1 \in DOMAIN q /\ t[i] = q[i + 1] /\ 1 < i + 1
  OBVIOUS
<1>2. 1 \in DOMAIN q /\ Head(q) = q[1] /\ Head(q) \in Call
  OBVIOUS
<1> HIDE DEF t
<1>3. Ascending(m, t)
  BY <1>1 DEF InOrder, Ascending
<1>4. InOrder(m, s, t)
  BY <1>1, <1>3 DEF InOrder
<1> DEFINE r == Append(s, Head(q))
<1>5. \A i \in DOMAIN r : \/ i \in DOMAIN s /\ i < Len(s) + 1 /\ r[i] = s[i]
                          \/ i = Len(s) + 1 /\ r[i] = Head(q)
  BY <1>2
<1> HIDE DEF r
<1>6. \A i \in DOMAIN r : r[i] \in Made(m)
  BY <1>2, <1>5 DEF InOrder
<1>7. \A i \in DOMAIN s : RankIn(m, s[i]) < RankIn(m, Head(q))
  BY <1>2 DEF InOrder
<1>8. Ascending(m, r)
  <2>1. \A i, j \in DOMAIN r : i < j => i \in DOMAIN s /\ r[i] = s[i]
    BY <1>5
  <2>2. QED
    BY <1>5, <1>7, <2>1 DEF InOrder, Ascending
<1>9. \A j \in DOMAIN t : RankIn(m, Head(q)) < RankIn(m, t[j])
  BY <1>1, <1>2 DEF InOrder, Ascending
<1>10. InOrder(m, r, t)
  BY <1>3, <1>4, <1>5, <1>6, <1>8, <1>9 DEF InOrder
<1>11. QED
  BY <1>4, <1>10 DEF r, t

\* The queue is given up.
LEMMA EmptyInOrder ==
  ASSUME NEW m, NEW s, NEW q, InOrder(m, s, q)
  PROVE  InOrder(m, s, <<>>)
BY DEF InOrder, Ascending

LEMMA InvokeOrder ==
  ASSUME TypeOK, Consistent, OrderInv, NEW c \in Call, Invoke(c)
  PROVE  OrderInv'
<1>1. /\ called \in Seq(Call) /\ sent \in Seq(Call) /\ queue \in Seq(Call)
      /\ outcome \in [Call -> {"idle", "waiting", "resolved", "rejected"}]
  BY DEF TypeOK, RequestsTypeOK
<1>2. /\ outcome[c] = "idle" /\ outcome' = [outcome EXCEPT ![c] = "waiting"]
      /\ called' = Append(called, c) /\ Submit(c)
  BY Zenon DEF Invoke
<1>3. c \notin Made(called)
  BY <1>2 DEF OrderInv, Made
<1>4. \A k \in DOMAIN called' : outcome'[called'[k]] # "idle"
  <2>1. \A k \in DOMAIN called' : (k \in DOMAIN called /\ called'[k] = called[k]) \/ called'[k] = c
    BY <1>1, <1>2
  <2>2. \A k \in DOMAIN called : called[k] \in Call
    BY <1>1
  <2>3. QED
    BY <1>1, <1>2, <2>1, <2>2 DEF OrderInv
<1>5. InOrder(called', sent', queue')
  <2>1. CASE pending = NoCall
    <3>1. queue = <<>> /\ queue' = queue /\ Transmit(c)
      BY <1>2, <2>1, Zenon DEF Submit, Consistent
    <3>2. sent' = sent \/ sent' = Append(sent, c)
      BY <3>1, Zenon DEF Transmit
    <3>3. /\ InOrder(Append(called, c), sent, queue)
          /\ InOrder(Append(called, c), Append(sent, c), queue)
      BY <1>1, <1>3, <3>1, CallInOrder, Zenon DEF OrderInv
    <3>4. QED
      BY <1>2, <3>1, <3>2, <3>3, Zenon
  <2>2. CASE pending # NoCall
    <3>1. queue' = Append(queue, c) /\ sent' = sent
      BY <1>2, <2>2, Zenon DEF Submit
    <3>2. QED
      BY <1>1, <1>2, <1>3, <3>1, CallInOrder DEF OrderInv
  <2>3. QED
    BY <2>1, <2>2
<1>6. QED
  BY <1>4, <1>5 DEF OrderInv

LEMMA ResponseOrder ==
  ASSUME TypeOK, OrderInv, NEW msg, TakesResponse(msg)
  PROVE  OrderInv'
<1>1. /\ called \in Seq(Call) /\ sent \in Seq(Call) /\ queue \in Seq(Call)
      /\ outcome \in [Call -> {"idle", "waiting", "resolved", "rejected"}]
  BY DEF TypeOK, RequestsTypeOK
<1>2. /\ called' = called /\ SendNext
      /\ outcome' = [outcome EXCEPT
                       ![pending] = IF msg.type = "error" THEN "rejected" ELSE "resolved"]
  BY Zenon DEF TakesResponse
<1>3. \A k \in DOMAIN called' : outcome'[called'[k]] # "idle"
  <2>1. \A k \in DOMAIN called : called[k] \in Call
    BY <1>1
  <2>2. \A d \in Call : outcome[d] # "idle" => outcome'[d] # "idle"
    BY <1>1, <1>2
  <2>3. QED
    BY <1>2, <2>1, <2>2 DEF OrderInv
<1>4. InOrder(called', sent', queue')
  <2>1. CASE queue = <<>>
    BY <1>2, <2>1 DEF SendNext, OrderInv
  <2>2. CASE queue # <<>>
    <3>1. queue' = Tail(queue) /\ Transmit(Head(queue))
      BY <1>2, <2>2, Zenon DEF SendNext
    <3>2. sent' = sent \/ sent' = Append(sent, Head(queue))
      BY <3>1, Zenon DEF Transmit
    <3>3. QED
      BY <1>1, <1>2, <2>2, <3>1, <3>2, NextInOrder DEF OrderInv
  <2>3. QED
    BY <2>1, <2>2
<1>5. QED
  BY <1>3, <1>4 DEF OrderInv

LEMMA OrderStep ==
  ASSUME TypeOK, Consistent, OrderInv, [Next]_vars
  PROVE  OrderInv'
<1>1. ASSUME UNCHANGED <<called, sent, queue, outcome>>
      PROVE  OrderInv'
  BY <1>1 DEF OrderInv
<1>2. CASE Deliver
  <2>1. CASE TakesResponse(Head(down))
    BY <2>1, ResponseOrder
  <2>2. CASE TakesRegisterOk(Head(down)) \/ Ignores(Head(down))
    BY <1>1, <2>2, Zenon DEF TakesRegisterOk, Ignores, requests
  <2>3. QED
    BY <1>2, <2>1, <2>2, Zenon DEF Deliver
<1>3. CASE \E c \in Call : Invoke(c)
  BY <1>3, InvokeOrder
<1>4. CASE CloseEvent
  <2>1. /\ called' = called /\ sent' = sent /\ queue' = <<>>
        /\ outcome' = [c \in Call |-> IF outcome[c] = "waiting" THEN "rejected" ELSE outcome[c]]
    BY <1>4, Zenon DEF CloseEvent, FailRequests
  <2>2. \A k \in DOMAIN called : called[k] \in Call
    BY DEF TypeOK, RequestsTypeOK
  <2>3. \A k \in DOMAIN called' : outcome'[called'[k]] # "idle"
    BY <2>1, <2>2 DEF OrderInv
  <2>4. QED
    BY <2>1, <2>3, EmptyInOrder DEF OrderInv
<1>5. CASE \/ Connect \/ OpenSucceeds \/ OpenFails \/ RegisterTimeout \/ Disconnect
           \/ BackoffEnds \/ Serve \/ Drop \/ UNCHANGED vars
  BY <1>1, <1>5, Zenon
  DEF Connect, OpenSucceeds, OpenFails, RegisterTimeout, Disconnect, BackoffEnds, Serve,
      Drop, vars, requests
<1>6. QED
  BY <1>2, <1>3, <1>4, <1>5, Zenon DEF Next

\* Requests go on the wire in the order of the calls, and none goes twice,
\* through queueing, errors, lost connections and reconnects.
THEOREM RequestsInOrder == Spec => []InOrderAtMostOnce
<1>1. Init => OrderInv
  BY DEF Init, OrderInv, InOrder, Ascending, NoneTwice
<1>2. TypeOK /\ Consistent /\ OrderInv /\ [Next]_vars => OrderInv'
  BY OrderStep
<1>3. OrderInv => InOrderAtMostOnce
  BY DEF OrderInv, InOrder, Ascending, RankIn, InOrderAtMostOnce, Rank
<1>4. QED
  BY <1>1, <1>2, <1>3, ClientTypes, StateIsConsistent, PTL DEF Spec

=============================================================================
