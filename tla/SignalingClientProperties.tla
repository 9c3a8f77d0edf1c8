------------------------ MODULE SignalingClientProperties ------------------------
(***************************************************************************)
(* What makes RendezvousClient correct, and what its documentation         *)
(* (.telos/facts/signaling-client-fsm.md) promises.                        *)
(***************************************************************************)
EXTENDS SignalingClient

-----------------------------------------------------------------------------
(* Requests and responses.                                                 *)

\* At most one request is on the wire (D2, signaling-fifo-no-request-id):
\* responses carry no request id, so this is what makes them matchable.
InFlight(wire) == {i \in DOMAIN wire : wire[i].call # NoCall}

AtMostOneInFlight ==
  \A i, j \in InFlight(up \o down) : i = j

\* A call is never settled with the answer to another one, across queueing,
\* errors, closed connections and reconnects.
AnswerMatchesCall == \A c \in Call : answer[c] \in {c, NoCall}

Rank(c) == CHOOSE k \in DOMAIN called : called[k] = c

\* Requests go out in the order of the calls and none is sent twice: nothing
\* is resent after a reconnect (Q-N4).
InOrderAtMostOnce ==
  \A i, j \in DOMAIN sent : i < j => Rank(sent[i]) < Rank(sent[j])

\* Every call is settled: an answer, an error, or the end of its connection.
CallsSettle == \A c \in Call : outcome[c] = "waiting" ~> outcome[c] \in {"resolved", "rejected"}

-----------------------------------------------------------------------------
(* The state machine.                                                      *)

\* The fields agree with the state: no timer outside 'reconnecting', no
\* register in flight outside 'registering', calls in flight only in 'ready',
\* a socket exactly where the state says so.
Consistent ==
  /\ timer <=> state = "reconnecting"
  /\ resolver => state = "registering"
  /\ (pending # NoCall) => state = "ready"
  /\ (queue # <<>>) => pending # NoCall
  /\ (ws = "none") <=> state \in {"disconnected", "reconnecting"}
  /\ ws \in {"open", "closing"} <=> state \in {"registering", "ready"}
  /\ timer => ~explicit

\* After disconnect() no new socket is opened until the next connect().
NoReconnectAfterDisconnect ==
  [][(explicit /\ ws' = "connecting") => ws = "connecting" \/ connects' # connects]_vars

\* A register_ok that comes after connect() has rejected does not make the
\* client ready behind the caller's back.
LateRegisterIsIgnored ==
  [][(cycle = "connect" /\ connectCall = "rejected" /\ state # "ready")
       => state' # "ready"]_vars

\* connect() never hangs.
ConnectSettles == connectCall = "waiting" ~> connectCall \in {"resolved", "rejected"}

\* disconnect() of a client whose socket has opened, or that is waiting to
\* reconnect, ends in 'disconnected'.
DisconnectEndsSession ==
  (explicit /\ state \in {"registering", "ready", "reconnecting"})
    ~> (state = "disconnected" \/ ~explicit)

\* As long as the server accepts sockets, each reconnect ends in 'ready' or,
\* after MaxAttempts, in 'disconnected': a register that times out or is
\* refused leads to the next attempt.
ReconnectEndsIfOpened ==
  state = "reconnecting" ~> (state \in {"ready", "disconnected"} \/ ws = "dead")

-----------------------------------------------------------------------------
(* Promises of the documentation that the client does not keep.            *)

\* signaling-client-fsm.md: a reconnect cycle ends in 'ready', or in
\* 'disconnected' when the attempts are exhausted.
ReconnectEnds == state = "reconnecting" ~> state \in {"ready", "disconnected"}

=============================================================================
