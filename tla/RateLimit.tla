------------------------------- MODULE RateLimit -------------------------------
(***************************************************************************)
(* The per-address counter that guards invite_create                       *)
(* (packages/rendezvous/src/rate-limit.ts).  A counter opens a window at   *)
(* the first request, lets at most MaxRequests through until WindowMs has  *)
(* passed and starts again at the next request.  The clock is the server's *)
(* Date.now(), owned by the module that uses this one.                     *)
(***************************************************************************)
EXTENDS Naturals

CONSTANTS
  Ip,            \* remote addresses
  MaxRequests,   \* limits.max_invites_per_ip_per_hour
  WindowMs,      \* one hour, in ticks of the clock
  NoEntry        \* an address without a counter

\* config.ts rejects a limit below 1; the window is a positive literal.
ASSUME LimitAssumption ==
  /\ MaxRequests \in Nat \ {0}
  /\ WindowMs \in Nat \ {0}

VARIABLES
  counters,      \* [Ip -> window start and count, or NoEntry]
  now            \* Date.now()

Entry == [windowStart : Nat, count : Nat]

Elapsed(ip) == now - counters[ip].windowStart

\* Mutant of NewWindow: the window is one tick too long.
NewWindowLate(ip) == counters[ip] # NoEntry => Elapsed(ip) > WindowMs

NewWindow(ip) == counters[ip] # NoEntry => Elapsed(ip) >= WindowMs

\* cleanup() drops the counters whose window has ended; it runs on a random
\* one in a hundred of the requests that open a window.
Stale(ip) == counters[ip] # NoEntry /\ Elapsed(ip) > WindowMs

\* Mutant of OpenWindow: the request that opens a window is not counted.
OpenUncounted(ip, swept) ==
  counters' = [i \in Ip |->
                 CASE i = ip      -> [windowStart |-> now, count |-> 0]
                   [] i \in swept -> NoEntry
                   [] OTHER       -> counters[i]]

OpenWindow(ip, swept) ==
  counters' = [i \in Ip |->
                 CASE i = ip      -> [windowStart |-> now, count |-> 1]
                   [] i \in swept -> NoEntry
                   [] OTHER       -> counters[i]]

\* check(ip) returns `allowed'.
Check(ip, allowed) ==
  \/ /\ NewWindow(ip)
     /\ allowed = TRUE
     /\ \E swept \in {{}, {i \in Ip \ {ip} : Stale(i)}} : OpenWindow(ip, swept)
  \/ /\ ~NewWindow(ip)
     /\ counters[ip].count >= MaxRequests
     /\ allowed = FALSE
     /\ UNCHANGED counters
  \/ /\ ~NewWindow(ip)
     /\ counters[ip].count < MaxRequests
     /\ allowed = TRUE
     /\ counters' = [counters EXCEPT ![ip].count = @ + 1]

=============================================================================
