----------------------- MODULE PeerSessionProperties -----------------------
(* What two linked sessions and their hello handshake promise. *)
EXTENDS PeerSession

\* A call that has settled leaves no timeout behind: one that survived would
\* fail the connection seconds after the caller was told that it is up
\* (clearTimeout in done and failFn, peer-session.ts:175-183, 219-227).
SettledCallsHaveNoTimer ==
  \A s \in Sessions : \A k \in timer[s] : call[s][k] = "pending"

\* The timeout of the current call runs in a connected session only if the
\* hello could not be sent: on every other way to "connected", the open event
\* or a waitForConnected() that comes after it, the call is settled
\* (peer-session.ts:233-240, 391-398).
ConnectedStopsTheClock ==
  \A s \in Sessions :
    state[s] = "connected" /\ slot[s] \in timer[s] =>
      autoHello[s] /\ ~helloTimer[s] /\ ~Up

\* Each end is ready only if both ends sent compatible versions, and the other
\* end has come as far as "connected" (room-session.ts:176-207).
ReadyIsAgreed ==
  \A s \in Sessions :
    autoHello[s] /\ ready[s] = "resolved" =>
      /\ major[s] = major[Other(s)] /\ major[s] \in Majors
      /\ autoHello[Other(s)] /\ link[Other(s)] = "open"

\* A session whose handshake was rejected does not come back to life, whatever
\* events were still queued (room-session.ts:169-172, 193-202).
RejectedIsDown ==
  \A s \in Sessions : ready[s] = "rejected" => state[s] \in {"failed", "closed"}

\* No application message overtakes the hello: the owner of a session is given
\* a message only after the handshake took the peer's hello, if both perform it
\* (the hello is sent inside the transition to "connected",
\* room-session.ts:120-128, before the promise that lets the owner send).
HelloComesFirst ==
  (\A s \in Sessions : autoHello[s]) =>
    \A s \in Sessions : forwarded[s] > 0 => helloReceived[s]

\* startOffer() and waitForConnected() settle, unless the owner closes the
\* session or calls again and so takes the slot (peer-session.ts:171-186), or
\* has called on a session that had failed, whose connection is closed.
ConnectCallsSettle ==
  \A s \in Sessions, k \in Calls :
    (call[s][k] = "pending" /\ slot[s] = k /\ pc[s] # "closed") ~>
      (call[s][k] # "pending" \/ slot[s] # k \/ state[s] = "closed")

\* Once the hello is out, `ready` settles, also when the peer has closed first
\* because of the versions (room-hello-handshake-policy.md:63).
HelloSettles ==
  \A s \in Sessions : helloTimer[s] ~> ready[s] # "pending"
=============================================================================
