---------------------------- MODULE PeerSession ----------------------------
(***************************************************************************)
(* Two PeerSessions that are linked through their signaling callbacks, and *)
(* the room:hello handshake of the RoomSession around each of them         *)
(* (packages/p2p/src/peer-session.ts, room-session.ts).                    *)
(*                                                                         *)
(* Every action is one callback of the event loop: a call of the owner, a  *)
(* timer, or an event that node-datachannel has queued.  Events that were  *)
(* queued when the connection was closed may still be dispatched.  The bulk *)
(* channel, which gates none of this, is part of FileTransfer.             *)
(***************************************************************************)
EXTENDS Naturals, Sequences

CONSTANTS Offerer, Answerer,  \* the two sessions
          Majors,             \* major versions a hello can carry
          NoMajor,            \* a version that parseMajor cannot read
          MaxCalls,           \* bound on startOffer and waitForConnected calls of a session
          MaxApp              \* bound on application messages of a session

Sessions == {Offerer, Answerer}
Other(s) == IF s = Offerer THEN Answerer ELSE Offerer
Calls == 1 .. MaxCalls

ASSUME SessionAssumption ==
  /\ Offerer # Answerer
  /\ NoMajor \notin Majors
  /\ MaxCalls \in Nat \ {0}
  /\ MaxApp \in Nat

VARIABLES
  state,          \* #state ("closing" is left before close() returns)
  controlDc,      \* #controlDc is set
  slot,           \* the call whose callbacks are in #connectResolve and #connectReject, or 0
  call,           \* the promises startOffer() and waitForConnected() have returned
  timer,          \* the calls whose timeout is running
  autoHello,      \* RoomSession.#autoHello
  major,          \* what #parseMajor reads in localVersion
  ready,          \* RoomSession.ready
  helloTimer,     \* #helloTimer is running
  helloReceived,  \* #helloReceived
  pc,             \* the native connection; "broken": its failed event is queued
  described,      \* the native connection has a remote description
  link,           \* the native control channel; "queued": its open event is
  frames,         \* frames on their way to a session on the control channel
  sent,           \* application messages a session has sent
  forwarded       \* frames a session has given to onRoomMessage

sessionVars == <<state, controlDc, slot, call, timer>>
roomVars == <<autoHello, major, ready, helloTimer, helloReceived, forwarded>>
nativeVars == <<pc, described, link, frames>>
vars == <<sessionVars, roomVars, nativeVars, sent>>

TypeOK ==
  /\ state \in [Sessions -> {"idle", "connecting", "connected", "failed", "closed"}]
  /\ controlDc \in [Sessions -> BOOLEAN]
  /\ slot \in [Sessions -> 0 .. MaxCalls]
  /\ call \in [Sessions -> [Calls -> {"none", "pending", "resolved", "rejected"}]]
  /\ timer \in [Sessions -> SUBSET Calls]
  /\ autoHello \in [Sessions -> BOOLEAN]
  /\ major \in [Sessions -> Majors \cup {NoMajor}]
  /\ ready \in [Sessions -> {"pending", "resolved", "rejected"}]
  /\ helloTimer \in [Sessions -> BOOLEAN]
  /\ helloReceived \in [Sessions -> BOOLEAN]
  /\ pc \in [Sessions -> {"live", "broken", "closed"}]
  /\ described \in [Sessions -> BOOLEAN]
  /\ link \in [Sessions -> {"none", "queued", "open"}]
  /\ frames \in [Sessions -> Seq({"hello", "app"})]
  /\ sent \in [Sessions -> Nat]
  /\ forwarded \in [Sessions -> Nat]

Init ==
  /\ state = [s \in Sessions |-> "idle"]
  /\ controlDc = [s \in Sessions |-> FALSE]
  /\ slot = [s \in Sessions |-> 0]
  /\ call = [s \in Sessions |-> [k \in Calls |-> "none"]]
  /\ timer = [s \in Sessions |-> {}]
  /\ autoHello \in [Sessions -> BOOLEAN]
  /\ major \in [Sessions -> Majors \cup {NoMajor}]
  /\ ready = [s \in Sessions |-> IF autoHello[s] THEN "pending" ELSE "resolved"]
  /\ helloTimer = [s \in Sessions |-> FALSE]
  /\ helloReceived = [s \in Sessions |-> FALSE]
  /\ pc = [s \in Sessions |-> "live"]
  /\ described = [s \in Sessions |-> FALSE]
  /\ link = [s \in Sessions |-> "none"]
  /\ frames = [s \in Sessions |-> <<>>]
  /\ sent = [s \in Sessions |-> 0]
  /\ forwarded = [s \in Sessions |-> 0]

-----------------------------------------------------------------------------
(* The connect promise and fail(). *)

\* Mutant of Settle: the timeout is not cleared.
SettleKeepsTimer(s, outcome, fired) ==
  /\ call' = [call EXCEPT ![s] =
       [k \in Calls |-> IF k = slot[s] /\ @[k] = "pending" THEN outcome ELSE @[k]]]
  /\ timer' = [timer EXCEPT ![s] = @ \ fired]
  /\ slot' = [slot EXCEPT ![s] = 0]

\* A settled promise keeps its outcome; the callback clears its own timer.
Settle(s, outcome, fired) ==
  /\ call' = [call EXCEPT ![s] =
       [k \in Calls |-> IF k = slot[s] /\ @[k] = "pending" THEN outcome ELSE @[k]]]
  /\ timer' = [timer EXCEPT ![s] = @ \ (fired \cup {slot[s]})]
  /\ slot' = [slot EXCEPT ![s] = 0]

Over(s) == state[s] \in {"failed", "closed"}

\* Mutant of FailNow: the pending promise is forgotten.
FailNowSilently(s, fired) ==
  /\ ~Over(s)
  /\ state' = [state EXCEPT ![s] = "failed"]
  /\ timer' = [timer EXCEPT ![s] = @ \ fired]
  /\ pc' = [pc EXCEPT ![s] = "closed"]
  /\ UNCHANGED <<call, slot>>

FailNow(s, fired) ==
  /\ ~Over(s)
  /\ state' = [state EXCEPT ![s] = "failed"]
  /\ Settle(s, "rejected", fired)
  /\ pc' = [pc EXCEPT ![s] = "closed"]

FailIgnored(s, fired) ==
  /\ Over(s)
  /\ timer' = [timer EXCEPT ![s] = @ \ fired]
  /\ UNCHANGED <<state, call, slot, pc>>

\* fail(), called when the timers in `fired` have just gone off.
Fail(s, fired) ==
  /\ FailNow(s, fired) \/ FailIgnored(s, fired)
  /\ UNCHANGED controlDc

NewCall(s, k) ==
  /\ call[s][k] = "none"
  /\ \A j \in 1 .. k - 1 : call[s][j] # "none"

StartOffer(s, k) ==
  /\ s = Offerer
  /\ state[s] = "idle"
  /\ NewCall(s, k)
  /\ state' = [state EXCEPT ![s] = "connecting"]
  /\ call' = [call EXCEPT ![s][k] = "pending"]
  /\ timer' = [timer EXCEPT ![s] = @ \cup {k}]
  /\ slot' = [slot EXCEPT ![s] = k]
  /\ controlDc' = [controlDc EXCEPT ![s] = TRUE]
  /\ UNCHANGED <<roomVars, nativeVars, sent>>

\* Mutant of WaitForConnected: it counts on an open event to come.
WaitForOpen(s, k) ==
  /\ NewCall(s, k)
  /\ slot' = [slot EXCEPT ![s] = k]
  /\ call' = [call EXCEPT ![s][k] = "pending"]
  /\ timer' = [timer EXCEPT ![s] = @ \cup {k}]
  /\ UNCHANGED <<state, controlDc, roomVars, nativeVars, sent>>

\* The callbacks stay in the slot even if the promise is resolved at once.
WaitForConnected(s, k) ==
  /\ NewCall(s, k)
  /\ slot' = [slot EXCEPT ![s] = k]
  /\ IF controlDc[s] /\ state[s] = "connected"
       THEN /\ call' = [call EXCEPT ![s][k] = "resolved"]
            /\ UNCHANGED timer
       ELSE /\ call' = [call EXCEPT ![s][k] = "pending"]
            /\ timer' = [timer EXCEPT ![s] = @ \cup {k}]
  /\ UNCHANGED <<state, controlDc, roomVars, nativeVars, sent>>

ConnectTimeout(s, k) ==
  /\ k \in timer[s]
  /\ Fail(s, {k})
  /\ UNCHANGED <<roomVars, described, link, frames, sent>>

\* dc.close() may or may not withdraw an open event that is already queued.
Close(s) ==
  /\ state[s] # "closed"
  /\ state' = [state EXCEPT ![s] = "closed"]
  /\ pc' = [pc EXCEPT ![s] = "closed"]
  /\ \/ UNCHANGED link
     \/ /\ link[s] = "queued"
        /\ link' = [link EXCEPT ![s] = "none"]
  /\ UNCHANGED <<controlDc, slot, call, timer, roomVars, described, frames, sent>>

-----------------------------------------------------------------------------
(* Signaling and the native connection. *)

\* A description can be under way when its sender has made one.
Described(s) == IF s = Offerer THEN controlDc[s] ELSE described[s]

AcceptSignal(s) ==
  /\ Described(Other(s))
  /\ ~described[s] /\ pc[s] # "closed"
  /\ state' = [state EXCEPT ![s] = IF @ = "idle" THEN "connecting" ELSE @]
  /\ described' = [described EXCEPT ![s] = TRUE]
  /\ UNCHANGED <<controlDc, slot, call, timer, roomVars, pc, link, frames, sent>>

\* The relay refuses what was signaled and calls fail().
SignalRefused(s) ==
  /\ Fail(s, {})
  /\ UNCHANGED <<roomVars, described, link, frames, sent>>

Up == \A s \in Sessions : pc[s] = "live" /\ described[s]

\* onDataChannel, for the channel with the label "control".
OnDataChannel(s) ==
  /\ s = Answerer /\ Up
  /\ ~controlDc[s]
  /\ controlDc' = [controlDc EXCEPT ![s] = TRUE]
  /\ UNCHANGED <<state, slot, call, timer, roomVars, nativeVars, sent>>

\* The native control channel opens; the event has to wait for its turn.
ChannelOpens(s) ==
  /\ Up
  /\ controlDc[s] /\ link[s] = "none"
  /\ link' = [link EXCEPT ![s] = "queued"]
  /\ UNCHANGED <<sessionVars, roomVars, pc, described, frames, sent>>

\* A frame is delivered if the connection lives; else it is lost, or the
\* binding throws.
Transmit(s, f) ==
  frames' = IF Up THEN [frames EXCEPT ![Other(s)] = Append(@, f)] ELSE frames

\* The onOpen callback of the control channel.  It asks for no state.
Opened(s) ==
  /\ link[s] = "queued"
  /\ link' = [link EXCEPT ![s] = "open"]
  /\ state' = [state EXCEPT ![s] = "connected"]

OnOpen(s) ==
  /\ Opened(s)
  /\ IF autoHello[s]
       THEN /\ Transmit(s, "hello")
            /\ helloTimer' = [helloTimer EXCEPT ![s] = TRUE]
       ELSE UNCHANGED <<frames, helloTimer>>
  /\ Settle(s, "resolved", {})
  /\ UNCHANGED <<controlDc, autoHello, major, ready, helloReceived, forwarded,
                 pc, described, sent>>

\* The hello cannot be sent: the exception leaves the callback before the
\* promise is resolved.
OnOpenThrows(s) ==
  /\ Opened(s)
  /\ autoHello[s] /\ ~Up
  /\ UNCHANGED <<controlDc, slot, call, timer, roomVars, pc, described, frames, sent>>

\* ICE or DTLS fails.
PcBreaks(s) ==
  /\ pc[s] = "live"
  /\ pc' = [pc EXCEPT ![s] = "broken"]
  /\ UNCHANGED <<sessionVars, roomVars, described, link, frames, sent>>

PcFailed(s) ==
  /\ pc[s] = "broken"
  /\ Fail(s, {})
  /\ UNCHANGED <<roomVars, described, link, frames, sent>>

\* What was on its way when one end went down may be lost.
FramesLost(s) ==
  /\ ~Up
  /\ frames[s] # <<>>
  /\ frames' = [frames EXCEPT ![s] = SubSeq(@, 1, Len(@) - 1)]
  /\ UNCHANGED <<sessionVars, roomVars, pc, described, link, sent>>

-----------------------------------------------------------------------------
(* RoomSession. *)

\* Resolving or rejecting a settled promise does nothing.
SettleReady(s, outcome) ==
  ready' = [ready EXCEPT ![s] = IF @ = "pending" THEN outcome ELSE @]

\* Mutant of Compatible: two versions that cannot be read pass as equal.
CompatibleIfEqual == major[Offerer] = major[Answerer]

Compatible == major[Offerer] = major[Answerer] /\ major[Offerer] # NoMajor

\* Mutants of HelloTimeout: the session goes on; the timer is ignored once the
\* session is over.
HelloTimeoutOnly(s) ==
  /\ helloTimer[s]
  /\ helloTimer' = [helloTimer EXCEPT ![s] = FALSE]
  /\ SettleReady(s, "rejected")
  /\ UNCHANGED <<sessionVars, autoHello, major, helloReceived, forwarded, nativeVars, sent>>

HelloTimeoutUnlessOver(s) ==
  /\ helloTimer[s]
  /\ helloTimer' = [helloTimer EXCEPT ![s] = FALSE]
  /\ IF Over(s) THEN UNCHANGED ready ELSE SettleReady(s, "rejected")
  /\ Fail(s, {})
  /\ UNCHANGED <<autoHello, major, helloReceived, forwarded, described, link, frames, sent>>

HelloTimeout(s) ==
  /\ helloTimer[s]
  /\ helloTimer' = [helloTimer EXCEPT ![s] = FALSE]
  /\ SettleReady(s, "rejected")
  /\ Fail(s, {})
  /\ UNCHANGED <<autoHello, major, helloReceived, forwarded, described, link, frames, sent>>

Arrives(s, f) ==
  /\ link[s] = "open"
  /\ frames[s] # <<>> /\ Head(frames[s]) = f
  /\ frames' = [frames EXCEPT ![s] = Tail(@)]

\* Mutant of Awaited: only as long as `ready` is open.
AwaitedWhilePending(s, f) == autoHello[s] /\ ready[s] = "pending" /\ f = "hello"

Awaited(s, f) == autoHello[s] /\ ~helloReceived[s] /\ f = "hello"

PeerHello(s) ==
  /\ Arrives(s, "hello")
  /\ Awaited(s, "hello")
  /\ helloReceived' = [helloReceived EXCEPT ![s] = TRUE]
  /\ helloTimer' = [helloTimer EXCEPT ![s] = FALSE]
  /\ IF Compatible
       THEN /\ SettleReady(s, "resolved")
            /\ UNCHANGED <<sessionVars, pc>>
       ELSE /\ SettleReady(s, "rejected")
            /\ Fail(s, {})
  /\ UNCHANGED <<autoHello, major, forwarded, described, link, sent>>

RoomMessage(s) ==
  /\ \E f \in {"hello", "app"} : Arrives(s, f) /\ ~Awaited(s, f)
  /\ forwarded' = [forwarded EXCEPT ![s] = @ + 1]
  /\ UNCHANGED <<sessionVars, autoHello, major, ready, helloTimer, helloReceived,
                 pc, described, link, sent>>

\* The owner waits for `ready` before it sends, as it is told to.
Send(s) ==
  /\ ready[s] = "resolved"
  /\ controlDc[s] /\ state[s] = "connected"
  /\ sent[s] < MaxApp
  /\ Transmit(s, "app")
  /\ sent' = [sent EXCEPT ![s] = @ + 1]
  /\ UNCHANGED <<sessionVars, roomVars, pc, described, link>>

-----------------------------------------------------------------------------
Next ==
  \E s \in Sessions :
    \/ \E k \in Calls : StartOffer(s, k) \/ WaitForConnected(s, k) \/ ConnectTimeout(s, k)
    \/ Close(s) \/ AcceptSignal(s) \/ SignalRefused(s)
    \/ OnDataChannel(s) \/ ChannelOpens(s)
    \/ OnOpen(s) \/ OnOpenThrows(s) \/ PcBreaks(s) \/ PcFailed(s) \/ FramesLost(s)
    \/ HelloTimeout(s) \/ PeerHello(s) \/ RoomMessage(s) \/ Send(s)

Spec == Init /\ [][Next]_vars

\* Timers go off; the native side and the owner owe nothing.
Fairness ==
  \A s \in Sessions :
    /\ \A k \in Calls : WF_vars(ConnectTimeout(s, k))
    /\ WF_vars(HelloTimeout(s))

FairSpec == Spec /\ Fairness
=============================================================================
