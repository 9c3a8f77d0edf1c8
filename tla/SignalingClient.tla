----------------------------- MODULE SignalingClient -----------------------------
(***************************************************************************)
(* RendezvousClient (packages/core/src/signaling.ts): the state machine of *)
(* one client, its current WebSocket, the reconnect timer, the register in *)
(* flight and the FIFO of requests.  The server and the network are the    *)
(* environment: they open or refuse, answer in order, and close.           *)
(*                                                                         *)
(* Between two macrotasks of the event loop all promise continuations run, *)
(* so a handler and the awaits it releases are one action.  Listeners do   *)
(* not call back into the client.                                          *)
(*                                                                         *)
(* _ws is null ("none") or a socket that is connecting, aborting (close()  *)
(* before it was open), open, closing, or dead: opening failed, and since  *)
(* the lifecycle handlers are installed after 'open' nobody hears its      *)
(* 'close'.                                                                *)
(***************************************************************************)
EXTENDS Naturals, Sequences

CONSTANTS
  Call,              \* calls of lookup, inviteCreate, inviteRedeem
  ExpectedType,      \* [Call -> type of the response the call waits for]
  NoCall,            \* no pending request
  ReconnectEnabled,  \* options.reconnect.enabled
  MaxAttempts,       \* options.reconnect.maxAttempts
  MaxConnects        \* bound: calls of connect()

ASSUME ClientAssumption ==
  /\ NoCall \notin Call
  /\ ExpectedType \in [Call -> {"lookup_result", "invite_result"}]
  /\ ReconnectEnabled \in BOOLEAN
  /\ MaxAttempts \in Nat /\ MaxConnects \in Nat

VARIABLES
  state,        \* _state
  ws,           \* _ws
  explicit,     \* _explicitDisconnect
  attempt,      \* _reconnectAttempt
  timer,        \* _reconnectTimer is set
  resolver,     \* _registerResolver is set, and so is its timeout
  cycle,        \* which of connect() and _doReconnect() opened the socket
  connectCall,  \* the promise of the latest connect()
  pending,      \* the call of _pendingRequest
  queue,        \* calls behind it in _fifoQueue
  outcome,      \* the promises of the calls
  up, down,     \* frames on the wire, to and from the server
  answer,       \* history: [Call -> call whose answer it was resolved with]
  called, sent, \* history: calls in the order made and in the order sent
  connects      \* calls of connect()

session  == <<state, explicit, attempt, timer, cycle, connects>>
requests == <<pending, queue, outcome, answer, called, sent>>
vars     == <<session, ws, resolver, connectCall, requests, up, down>>

-----------------------------------------------------------------------------

FsmState == {"disconnected", "connecting", "registering", "ready", "reconnecting"}
WsState  == {"none", "connecting", "aborting", "open", "closing", "dead"}

Register   == [type |-> "register", call |-> NoCall]
RegisterOk == [type |-> "register_ok", call |-> NoCall]
Request(c) == [type |-> "request", call |-> c]
Frame      == [type : {"register", "register_ok", "request", "error",
                       "lookup_result", "invite_result"},
               call : Call \cup {NoCall}]

SessionTypeOK ==
  /\ state \in FsmState
  /\ ws \in WsState
  /\ explicit \in BOOLEAN /\ timer \in BOOLEAN /\ resolver \in BOOLEAN
  /\ attempt \in Nat /\ connects \in Nat
  /\ cycle \in {"connect", "reconnect"}
  /\ connectCall \in {"idle", "waiting", "resolved", "rejected"}

RequestsTypeOK ==
  /\ pending \in Call \cup {NoCall}
  /\ queue \in Seq(Call)
  /\ outcome \in [Call -> {"idle", "waiting", "resolved", "rejected"}]
  /\ answer \in [Call -> Call \cup {NoCall}]
  /\ called \in Seq(Call) /\ sent \in Seq(Call)
  /\ up \in Seq(Frame) /\ down \in Seq(Frame)

TypeOK == SessionTypeOK /\ RequestsTypeOK

Init ==
  /\ state = "disconnected" /\ ws = "none"
  /\ explicit = FALSE /\ timer = FALSE /\ resolver = FALSE
  /\ attempt = 0 /\ connects = 0
  /\ cycle = "connect" /\ connectCall = "idle"
  /\ pending = NoCall /\ queue = <<>>
  /\ outcome = [c \in Call |-> "idle"]
  /\ answer = [c \in Call |-> NoCall]
  /\ called = <<>> /\ sent = <<>>
  /\ up = <<>> /\ down = <<>>

-----------------------------------------------------------------------------
(* connect(), _doReconnect() and _register().                              *)

\* Mutant of ConnectEnds: nobody listens while the socket opens.
ConnectEndsRegistering(result) ==
  connectCall' = IF cycle = "connect" /\ state = "registering" THEN result ELSE connectCall

\* The promise of connect(), when its own socket settles the matter.
ConnectEnds(result) ==
  connectCall' = IF cycle = "connect" THEN result ELSE connectCall

\* connect(): in any other state it throws invalid_state at once.
Connect ==
  /\ state = "disconnected"
  /\ connects < MaxConnects
  /\ connects' = connects + 1
  /\ explicit' = FALSE
  /\ attempt' = 0
  /\ state' = "connecting"
  /\ ws' = "connecting"
  /\ cycle' = "connect"
  /\ connectCall' = "waiting"
  /\ UNCHANGED <<timer, resolver, requests, up, down>>

\* The handlers are installed and the register frame goes out.
OpenSucceeds ==
  /\ ws = "connecting"
  /\ ws' = "open"
  /\ state' = "registering"
  /\ resolver' = TRUE
  /\ up' = <<Register>>
  /\ UNCHANGED <<explicit, attempt, timer, cycle, connects, connectCall, requests, down>>

\* 'error' before 'open'.  connect() rejects and changes nothing else;
\* _doReconnect() closes a socket that is already closed.
OpenFails ==
  /\ ws \in {"connecting", "aborting"}
  /\ ws' = "dead"
  /\ ConnectEnds("rejected")
  /\ UNCHANGED <<session, resolver, requests, up, down>>

\* ws.close()
Closed(socket) ==
  CASE socket = "open"       -> "closing"
    [] socket = "connecting" -> "aborting"
    [] OTHER                 -> socket

\* Mutants of RegisterTimeout: the resolver stays; the socket stays.
TimeoutKeepsResolver ==
  /\ resolver
  /\ ConnectEnds("rejected")
  /\ ws' = IF cycle = "reconnect" THEN Closed(ws) ELSE ws
  /\ UNCHANGED <<session, resolver, requests, up, down>>

TimeoutKeepsSocket ==
  /\ resolver
  /\ resolver' = FALSE
  /\ ConnectEnds("rejected")
  /\ UNCHANGED <<session, ws, requests, up, down>>

\* The timeout of _register().  connect() rejects and leaves the socket as it
\* is; _doReconnect() closes it.
RegisterTimeout ==
  /\ resolver
  /\ resolver' = FALSE
  /\ ConnectEnds("rejected")
  /\ ws' = IF cycle = "reconnect" THEN Closed(ws) ELSE ws
  /\ UNCHANGED <<session, requests, up, down>>

-----------------------------------------------------------------------------
(* disconnect()                                                            *)

\* Mutant of Disconnect: the backoff timer keeps running.
DisconnectKeepsTimer ==
  /\ explicit' = TRUE
  /\ ws' = Closed(ws)
  /\ state' = IF ws = "none" /\ state = "reconnecting" THEN "disconnected" ELSE state
  /\ UNCHANGED <<attempt, timer, cycle, connects, resolver, connectCall, requests, up, down>>

Disconnect ==
  /\ explicit' = TRUE
  /\ timer' = FALSE
  /\ ws' = Closed(ws)
  /\ state' = IF ws = "none" /\ state = "reconnecting" THEN "disconnected" ELSE state
  /\ UNCHANGED <<attempt, cycle, connects, resolver, connectCall, requests, up, down>>

-----------------------------------------------------------------------------
(* Requests.                                                               *)

\* send() on a socket that is closing is silent.
Transmit(c) ==
  /\ up' = IF ws = "open" THEN Append(up, Request(c)) ELSE up
  /\ sent' = IF ws = "open" THEN Append(sent, c) ELSE sent

\* Mutant of Submit: no waiting for the call before.
SubmitAtOnce(c) ==
  /\ pending' = c
  /\ Transmit(c)
  /\ UNCHANGED queue

\* Mutant of Submit: a late call overtakes those that wait.
SubmitInFront(c) ==
  IF pending = NoCall
  THEN pending' = c /\ Transmit(c) /\ UNCHANGED queue
  ELSE queue' = <<c>> \o queue /\ UNCHANGED <<pending, up, sent>>

\* _sendRequest(): at most one call is on the wire, the others wait.
Submit(c) ==
  IF pending = NoCall
  THEN pending' = c /\ Transmit(c) /\ UNCHANGED queue
  ELSE queue' = Append(queue, c) /\ UNCHANGED <<pending, up, sent>>

\* A call outside 'ready' throws not_ready at once.
Invoke(c) ==
  /\ outcome[c] = "idle"
  /\ state = "ready"
  /\ outcome' = [outcome EXCEPT ![c] = "waiting"]
  /\ called' = Append(called, c)
  /\ Submit(c)
  /\ UNCHANGED <<session, ws, resolver, connectCall, answer, down>>

\* The settled call releases the next one.
SendNext ==
  IF queue = <<>>
  THEN pending' = NoCall /\ UNCHANGED <<queue, up, sent>>
  ELSE pending' = Head(queue) /\ queue' = Tail(queue) /\ Transmit(Head(queue))

-----------------------------------------------------------------------------
(* The 'message' handler.                                                  *)

TakesRegisterOk(msg) ==
  /\ msg.type = "register_ok" /\ resolver
  /\ resolver' = FALSE
  /\ state' = "ready"
  /\ ConnectEnds("resolved")
  /\ UNCHANGED <<explicit, attempt, timer, cycle, connects, requests, up>>

TakesResponse(msg) ==
  /\ pending # NoCall
  /\ msg.type \in {"error", ExpectedType[pending]}
  /\ outcome' = [outcome EXCEPT
                   ![pending] = IF msg.type = "error" THEN "rejected" ELSE "resolved"]
  /\ answer' = [answer EXCEPT ![pending] = msg.call]
  /\ SendNext
  /\ UNCHANGED <<session, resolver, connectCall, called>>

\* A register_ok after the timeout, or a response nobody waits for.
Ignores(msg) ==
  /\ ~(msg.type = "register_ok" /\ resolver)
  /\ ~(pending # NoCall /\ msg.type \in {"error", ExpectedType[pending]})
  /\ UNCHANGED <<session, resolver, connectCall, requests, up>>

Deliver ==
  /\ ws \in {"open", "closing"}
  /\ down # <<>>
  /\ down' = Tail(down)
  /\ UNCHANGED ws
  /\ TakesRegisterOk(Head(down)) \/ TakesResponse(Head(down)) \/ Ignores(Head(down))

-----------------------------------------------------------------------------
(* The 'close' handler and the reconnect timer.                            *)

\* Mutant of Recovers: an explicit disconnect is forgotten.
RecoversAlways ==
  /\ ReconnectEnabled
  /\ \/ state \in {"ready", "reconnecting"}
     \/ attempt > 0 /\ state \in {"connecting", "registering"}

\* The session that was lost is to be recovered.
Recovers ==
  /\ ReconnectEnabled /\ ~explicit
  /\ \/ state \in {"ready", "reconnecting"}
     \/ attempt > 0 /\ state \in {"connecting", "registering"}

\* _scheduleReconnect(): gives up, or sets the timer.
ScheduleReconnect ==
  /\ attempt' = attempt + 1
  /\ IF attempt + 1 > MaxAttempts
     THEN state' = "disconnected" /\ UNCHANGED timer
     ELSE state' = "reconnecting" /\ timer' = TRUE

\* Mutant of FailRequests: the calls behind the pending one are forgotten.
FailPending ==
  /\ outcome' = [c \in Call |-> IF c = pending THEN "rejected" ELSE outcome[c]]
  /\ pending' = NoCall /\ queue' = <<>>

\* The pending call is rejected; each call behind it is released, finds _ws
\* null (send_failed) and releases the next.
FailRequests ==
  /\ outcome' = [c \in Call |-> IF outcome[c] = "waiting" THEN "rejected" ELSE outcome[c]]
  /\ pending' = NoCall /\ queue' = <<>>

CloseEvent ==
  /\ ws = "closing"
  /\ ws' = "none"
  /\ resolver' = FALSE
  /\ connectCall' = IF resolver /\ cycle = "connect" THEN "rejected" ELSE connectCall
  /\ FailRequests
  /\ up' = <<>> /\ down' = <<>>
  /\ \/ Recovers /\ ScheduleReconnect
     \/ ~Recovers /\ state' = "disconnected" /\ UNCHANGED <<attempt, timer>>
  /\ UNCHANGED <<explicit, cycle, connects, answer, called, sent>>

\* The timer fires: _doReconnect().
BackoffEnds ==
  /\ timer
  /\ timer' = FALSE
  /\ state' = "connecting"
  /\ ws' = "connecting"
  /\ cycle' = "reconnect"
  /\ UNCHANGED <<explicit, attempt, connects, resolver, connectCall, requests, up, down>>

-----------------------------------------------------------------------------
(* The server and the network.                                             *)

\* Frames are answered in order: a register by register_ok, a request by its
\* response or an error.
Serve ==
  /\ ws \in {"open", "closing"}
  /\ up # <<>>
  /\ up' = Tail(up)
  /\ LET c == Head(up).call IN
     \/ Head(up) = Register /\ down' = Append(down, RegisterOk)
     \/ \E t \in {"error"} \cup {ExpectedType[d] : d \in {c} \cap Call} :
          Head(up) # Register /\ down' = Append(down, [type |-> t, call |-> c])
  /\ UNCHANGED <<session, ws, resolver, connectCall, requests>>

\* The server refuses, stops or evicts, or the connection breaks: what is on
\* the wire is lost.
Drop ==
  /\ ws = "open"
  /\ ws' = "closing"
  /\ up' = <<>> /\ down' = <<>>
  /\ UNCHANGED <<session, resolver, connectCall, requests>>

-----------------------------------------------------------------------------

Next ==
  \/ Connect \/ OpenSucceeds \/ OpenFails \/ RegisterTimeout \/ Disconnect
  \/ \E c \in Call : Invoke(c)
  \/ Deliver \/ CloseEvent \/ BackoffEnds
  \/ Serve \/ Drop

Spec == Init /\ [][Next]_vars

\* Timers fire, events that have happened are dispatched, an opening socket
\* opens or fails, and a server that is up answers.  Nothing obliges the
\* caller, and a connection need not break.
Fairness ==
  /\ WF_vars(OpenSucceeds \/ OpenFails)
  /\ WF_vars(RegisterTimeout)
  /\ WF_vars(Deliver)
  /\ WF_vars(CloseEvent)
  /\ WF_vars(BackoffEnds)
  /\ WF_vars(Serve)

FairSpec == Spec /\ Fairness

=============================================================================
