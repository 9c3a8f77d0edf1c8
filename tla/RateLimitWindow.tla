---------------------------- MODULE RateLimitWindow ----------------------------
(***************************************************************************)
(* The limiter on its own, with a record of what it granted, so that its   *)
(* fixed windows can be compared with every interval of one window's       *)
(* length.                                                                 *)
(***************************************************************************)
EXTENDS RateLimit

CONSTANT MaxClock      \* bound on the clock

ASSUME WindowAssumption ==
  /\ MaxClock \in Nat
  /\ NoEntry \notin Entry

VARIABLES
  granted,   \* history: granted[ip][t] requests were let through before time t
  answer     \* the last call of check and what it returned

limitVars == <<counters, now, granted, answer>>

Times == 0..MaxClock

\* Where a window that opens within the bound may end.
Horizon == 0..(MaxClock + WindowMs)

Init ==
  /\ counters = [ip \in Ip |-> NoEntry]
  /\ now = 0
  /\ granted = [ip \in Ip |-> [t \in Horizon |-> 0]]
  /\ answer = NoEntry

Record(ip) ==
  granted' = [granted EXCEPT ![ip] =
                [t \in Horizon |-> IF t > now THEN @[t] + 1 ELSE @[t]]]

Request(ip, allowed) ==
  /\ Check(ip, allowed)
  /\ IF allowed THEN Record(ip) ELSE UNCHANGED granted
  /\ answer' = [ip |-> ip, at |-> now, allowed |-> allowed]
  /\ UNCHANGED now

Tick ==
  /\ now < MaxClock
  /\ now' = now + 1
  /\ UNCHANGED <<counters, granted, answer>>

Next ==
  \/ \E ip \in Ip, allowed \in BOOLEAN : Request(ip, allowed)
  \/ Tick

Spec == Init /\ [][Next]_limitVars

-----------------------------------------------------------------------------

\* Requests of ip let through in the half-open interval of one window that
\* starts at t.
GrantedFrom(ip, t) == granted[ip][t + WindowMs] - granted[ip][t]

\* However the windows fall, no interval of one hour sees more than twice the
\* configured number of invite_create requests from an address: an interval
\* shorter than a window meets at most two windows, and cleanup never drops a
\* counter whose window is still running.
AtMostTwicePerInterval ==
  \A ip \in Ip, t \in Times : GrantedFrom(ip, t) <= 2 * MaxRequests

\* A refusal (close 1013) is never unjustified: the address has had its full
\* allowance within the last hour, whatever the other addresses did.
RefusalIsJustified ==
  (answer # NoEntry /\ ~answer.allowed) =>
    \E t \in Times : /\ t <= answer.at
                     /\ answer.at < t + WindowMs
                     /\ GrantedFrom(answer.ip, t) >= MaxRequests

=============================================================================
