---------------------------- MODULE RateLimitProofs ----------------------------
(***************************************************************************)
(* What the fixed windows of the limiter promise, for every limit, window  *)
(* length and set of addresses.  The argument is about the counter of one  *)
(* address: it counts exactly what was let through since its window        *)
(* opened, nothing was let through after that window, and the window's     *)
(* length before its start saw at most one allowance.  Dropping a stale    *)
(* counter loses nothing that an interval of one window could still see.   *)
(***************************************************************************)
EXTENDS RateLimitWindow, TLAPS

Total(ip) == granted[ip][MaxClock + WindowMs]

TypeOK ==
  /\ counters \in [Ip -> Entry \cup {NoEntry}]
  /\ now \in Times
  /\ granted \in [Ip -> [Horizon -> Nat]]

\* The history grows with time and stands still after the present.
Cumulative ==
  \A ip \in Ip :
    /\ \A t, u \in Horizon : t <= u => granted[ip][t] <= granted[ip][u]
    /\ \A t \in Horizon : t > now => granted[ip][t] = Total(ip)

\* The interval of one window that ends at e saw at most one allowance from
\* any of its instants on.
QuietBefore(ip, e) ==
  \A t \in Times : t <= e /\ e <= t + WindowMs =>
    granted[ip][e] - granted[ip][t] <= MaxRequests

\* A counter tells what was let through since its window opened; all of it
\* before the window's end.
CounterExact(ip) ==
  LET start == counters[ip].windowStart
      count == counters[ip].count IN
  /\ start <= now
  /\ count <= MaxRequests
  /\ count = Total(ip) - granted[ip][start]
  /\ granted[ip][start + WindowMs] = Total(ip)
  /\ QuietBefore(ip, start)

\* An address without a counter has sent nothing at this very instant, and
\* had at most one allowance in the last window's length.
ForgottenSafely(ip) ==
  /\ granted[ip][now] = Total(ip)
  /\ QuietBefore(ip, now)

AddressOK(ip) ==
  IF counters[ip] = NoEntry THEN ForgottenSafely(ip) ELSE CounterExact(ip)

IInv ==
  /\ TypeOK
  /\ Cumulative
  /\ \A ip \in Ip : AddressOK(ip)
  /\ AtMostTwicePerInterval
  /\ RefusalIsJustified

-----------------------------------------------------------------------------
(***************************************************************************)
(* Instants, and what recording a granted request does to the history.     *)
(***************************************************************************)

\* An instant within the bound on the clock, and the end of a window that
\* opens then, are instants of the history (rate-limit.ts: WINDOW_MS).
LEMMA Instants ==
  /\ MaxClock \in Nat /\ WindowMs \in Nat /\ WindowMs >= 1
  /\ MaxRequests \in Nat /\ MaxRequests >= 1
  /\ \A t \in Times : /\ t \in Nat /\ t <= MaxClock
                      /\ t \in Horizon /\ t + WindowMs \in Horizon
  /\ \A t \in Horizon : t \in Nat /\ t <= MaxClock + WindowMs
  /\ MaxClock + WindowMs \in Horizon
BY LimitAssumption, WindowAssumption DEF Times, Horizon

\* A running counter is a record with numbers in it (rate-limit.ts: counters).
LEMMA EntryFields ==
  ASSUME TypeOK, NEW ip \in Ip, counters[ip] # NoEntry
  PROVE  /\ counters[ip] \in Entry
         /\ counters[ip].windowStart \in Nat
         /\ counters[ip].count \in Nat
BY DEF TypeOK, Entry

\* The values of the history are numbers, and so is their total.
LEMMA HistoryValues ==
  ASSUME TypeOK, NEW ip \in Ip
  PROVE  /\ \A t \in Horizon : granted[ip][t] \in Nat
         /\ Total(ip) \in Nat
BY Instants DEF TypeOK, Total

\* Letting a request through counts it at every later instant and at no
\* earlier one, and touches no other address.
LEMMA Recorded ==
  ASSUME TypeOK, NEW ip \in Ip, Record(ip)
  PROVE  /\ granted' \in [Ip -> [Horizon -> Nat]]
         /\ \A i \in Ip : i # ip => granted'[i] = granted[i]
         /\ \A t \in Horizon : granted'[ip][t] = IF t > now THEN granted[ip][t] + 1
                                                           ELSE granted[ip][t]
         /\ Total(ip)' = Total(ip) + 1
<1>1. /\ \A i \in Ip : i # ip => granted'[i] = granted[i]
      /\ \A t \in Horizon : granted'[ip][t] = IF t > now THEN granted[ip][t] + 1
                                                        ELSE granted[ip][t]
  BY DEF Record, TypeOK
<1>2. granted' \in [Ip -> [Horizon -> Nat]]
  <2>1. [t \in Horizon |-> IF t > now THEN granted[ip][t] + 1 ELSE granted[ip][t]]
          \in [Horizon -> Nat]
    BY HistoryValues, Instants
  <2>2. QED
    BY <2>1 DEF Record, TypeOK
<1>3. Total(ip)' = Total(ip) + 1
  <2>1. MaxClock + WindowMs > now
    BY Instants DEF TypeOK
  <2>2. QED
    BY <1>1, <2>1, Instants DEF Total
<1>4. QED
  BY <1>1, <1>2, <1>3

\* The history still grows with time after a request is recorded.
LEMMA RecordedCumulative ==
  ASSUME TypeOK, Cumulative, NEW ip \in Ip, Record(ip), now' = now
  PROVE  Cumulative'
<1> SUFFICES ASSUME NEW i \in Ip
             PROVE  /\ \A t, u \in Horizon : t <= u => granted'[i][t] <= granted'[i][u]
                    /\ \A t \in Horizon : t > now => granted'[i][t] = Total(i)'
  BY DEF Cumulative
<1>1. CASE i = ip
  <2>1. \A t, u \in Horizon : t <= u => granted'[i][t] <= granted'[i][u]
    BY <1>1, Recorded, HistoryValues, Instants DEF Cumulative, TypeOK
  <2>2. \A t \in Horizon : t > now => granted'[i][t] = Total(i)'
    BY <1>1, Recorded DEF Cumulative
  <2>3. QED
    BY <2>1, <2>2
<1>2. CASE i # ip
  BY <1>2, Recorded DEF Cumulative, Total
<1>3. QED
  BY <1>1, <1>2

-----------------------------------------------------------------------------
(***************************************************************************)
(* What one step does to the counter of one address.                       *)
(***************************************************************************)

\* When its window has ended, or it has no counter, the address has sent
\* nothing at this instant and at most one allowance since WindowMs ago.
LEMMA WindowOver ==
  ASSUME TypeOK, Cumulative, NEW ip \in Ip, AddressOK(ip), NewWindow(ip)
  PROVE  ForgottenSafely(ip)
<1>1. CASE counters[ip] = NoEntry
  BY <1>1 DEF AddressOK
<1>2. CASE counters[ip] # NoEntry
  <2> DEFINE start == counters[ip].windowStart
  <2>1. /\ start \in Nat /\ counters[ip].count \in Nat
        /\ now \in Times /\ now \in Nat
    BY <1>2, EntryFields, Instants DEF TypeOK
  <2>2. /\ start <= now /\ counters[ip].count <= MaxRequests
        /\ counters[ip].count = Total(ip) - granted[ip][start]
        /\ granted[ip][start + WindowMs] = Total(ip)
    BY <1>2 DEF AddressOK, CounterExact
  <2>3. start + WindowMs <= now
    BY <1>2, <2>1, Instants DEF NewWindow, Elapsed
  <2>4. start \in Horizon /\ start + WindowMs \in Horizon /\ now \in Horizon
    BY <2>1, <2>2, Instants DEF Times
  <2>5. granted[ip][now] = Total(ip)
    <3>1. granted[ip][start + WindowMs] <= granted[ip][now]
      BY <2>3, <2>4 DEF Cumulative
    <3>2. granted[ip][now] <= Total(ip)
      BY <2>1, <2>4, Instants DEF Cumulative, Total
    <3>3. QED
      BY <3>1, <3>2, <2>2, <2>4, HistoryValues
  <2>6. QuietBefore(ip, now)
    <3> SUFFICES ASSUME NEW t \in Times, t <= now, now <= t + WindowMs
                 PROVE  granted[ip][now] - granted[ip][t] <= MaxRequests
      BY DEF QuietBefore
    <3>1. start <= t
      BY <2>1, <2>3, Instants
    <3>2. granted[ip][start] <= granted[ip][t]
      BY <3>1, <2>4, Instants DEF Cumulative
    <3>3. QED
      BY <3>2, <2>1, <2>2, <2>4, <2>5, HistoryValues, Instants
  <2>7. QED
    BY <2>5, <2>6 DEF ForgottenSafely
<1>3. QED
  BY <1>1, <1>2

\* An address keeps its property while its own history and the clock stand
\* still, if its counter is kept or, stale, dropped (rate-limit.ts: cleanup).
LEMMA OthersKept ==
  ASSUME TypeOK, Cumulative, NEW ip \in Ip, AddressOK(ip),
         now' = now, granted'[ip] = granted[ip],
         \/ counters'[ip] = counters[ip]
         \/ Stale(ip) /\ counters'[ip] = NoEntry
  PROVE  AddressOK(ip)'
<1>1. CASE counters'[ip] = counters[ip]
  BY <1>1 DEF AddressOK, ForgottenSafely, CounterExact, QuietBefore, Total
<1>2. CASE Stale(ip) /\ counters'[ip] = NoEntry
  <2>1. NewWindow(ip)
    BY <1>2, EntryFields, Instants DEF Stale, NewWindow, Elapsed, TypeOK
  <2>2. ForgottenSafely(ip)
    BY <2>1, WindowOver
  <2>3. ForgottenSafely(ip)'
    BY <2>2 DEF ForgottenSafely, QuietBefore, Total
  <2>4. QED
    BY <1>2, <2>3 DEF AddressOK
<1>3. QED
  BY <1>1, <1>2

\* A request that opens a window: the counter starts at one.
LEMMA OpenKept ==
  ASSUME TypeOK, Cumulative, NEW ip \in Ip, AddressOK(ip), NewWindow(ip),
         Record(ip), now' = now,
         counters'[ip] = [windowStart |-> now, count |-> 1]
  PROVE  AddressOK(ip)'
<1>1. ForgottenSafely(ip)
  BY WindowOver
<1>2. now \in Times /\ now \in Nat /\ now \in Horizon /\ now + WindowMs \in Horizon
  BY Instants DEF TypeOK
<1>3. counters'[ip] # NoEntry
  BY <1>2, WindowAssumption DEF Entry
<1>4. /\ granted'[ip][now] = Total(ip)
      /\ Total(ip)' = Total(ip) + 1
  BY <1>1, <1>2, Recorded DEF ForgottenSafely
<1>5. granted'[ip][now + WindowMs] = Total(ip)'
  <2>1. now + WindowMs > now
    BY <1>2, Instants
  <2>2. QED
    BY <1>2, <1>4, <2>1, Recorded DEF Cumulative
<1>6. QuietBefore(ip, now)'
  <2> SUFFICES ASSUME NEW t \in Times, t <= now, now <= t + WindowMs
               PROVE  granted'[ip][now] - granted'[ip][t] <= MaxRequests
    BY DEF QuietBefore
  <2>1. granted'[ip][t] = granted[ip][t] /\ granted'[ip][now] = granted[ip][now]
    <3>1. t \in Horizon /\ t \in Nat
      BY Instants
    <3>2. ~(t > now) /\ ~(now > now)
      BY <1>2, <3>1
    <3>3. QED
      BY <1>2, <3>1, <3>2, Recorded
  <2>2. QED
    BY <1>1, <2>1 DEF ForgottenSafely, QuietBefore
<1>7. CounterExact(ip)'
  BY <1>2, <1>4, <1>5, <1>6, HistoryValues, Instants DEF CounterExact, QuietBefore
<1>8. QED
  BY <1>3, <1>7 DEF AddressOK

\* A request within the window: the counter goes up by one.
LEMMA CountKept ==
  ASSUME TypeOK, Cumulative, NEW ip \in Ip, AddressOK(ip), ~NewWindow(ip),
         counters[ip].count < MaxRequests, Record(ip), now' = now,
         counters'[ip] = [windowStart |-> counters[ip].windowStart,
                          count |-> counters[ip].count + 1]
  PROVE  AddressOK(ip)'
<1> DEFINE start == counters[ip].windowStart
<1>1. counters[ip] # NoEntry
  BY DEF NewWindow
<1>2. /\ start \in Nat /\ counters[ip].count \in Nat
      /\ now \in Times /\ now \in Nat
  BY <1>1, EntryFields, Instants DEF TypeOK
<1>3. CounterExact(ip)
  BY <1>1 DEF AddressOK
<1>4. start <= now /\ now < start + WindowMs
  BY <1>1, <1>2, <1>3, Instants DEF CounterExact, NewWindow, Elapsed
<1>5. start \in Times /\ start \in Horizon /\ start + WindowMs \in Horizon
  BY <1>2, <1>4, Instants DEF Times
<1>6. counters'[ip] # NoEntry
  BY <1>2, WindowAssumption DEF Entry
<1>7. /\ granted'[ip][start] = granted[ip][start]
      /\ granted'[ip][start + WindowMs] = granted[ip][start + WindowMs] + 1
      /\ Total(ip)' = Total(ip) + 1
  BY <1>2, <1>4, <1>5, Recorded
<1>8. QuietBefore(ip, start)'
  <2> SUFFICES ASSUME NEW t \in Times, t <= start, start <= t + WindowMs
               PROVE  granted'[ip][start] - granted'[ip][t] <= MaxRequests
    BY DEF QuietBefore
  <2>1. granted'[ip][t] = granted[ip][t]
    BY <1>2, <1>4, Recorded, Instants
  <2>2. QED
    BY <1>3, <1>7, <2>1 DEF CounterExact, QuietBefore
<1>9. CounterExact(ip)'
  <2>1. counters[ip].count + 1 = Total(ip)' - granted'[ip][start]
    BY <1>2, <1>3, <1>5, <1>7, HistoryValues DEF CounterExact
  <2>2. granted'[ip][start + WindowMs] = Total(ip)'
    BY <1>3, <1>7 DEF CounterExact
  <2>3. counters[ip].count + 1 <= MaxRequests
    BY <1>2, Instants
  <2>4. QED
    BY <1>4, <1>8, <2>1, <2>2, <2>3 DEF CounterExact, QuietBefore
<1>10. QED
  BY <1>6, <1>9 DEF AddressOK

-----------------------------------------------------------------------------
(***************************************************************************)
(* What the two properties need of one granted request.                    *)
(***************************************************************************)

\* An interval that ends in the present has seen at most two allowances less
\* the request that is about to be let through.
LEMMA RoomForOneMore ==
  ASSUME TypeOK, Cumulative, NEW ip \in Ip, AddressOK(ip),
         NewWindow(ip) \/ counters[ip].count < MaxRequests,
         NEW t \in Times, t <= now, now < t + WindowMs
  PROVE  Total(ip) - granted[ip][t] < 2 * MaxRequests
<1>1. /\ t \in Nat /\ t \in Horizon /\ now \in Nat /\ now \in Horizon
      /\ granted[ip][t] \in Nat /\ granted[ip][now] \in Nat /\ Total(ip) \in Nat
      /\ MaxRequests \in Nat /\ MaxRequests >= 1
  BY Instants, HistoryValues DEF TypeOK
<1>2. CASE NewWindow(ip)
  <2>1. ForgottenSafely(ip)
    BY <1>2, WindowOver
  <2>2. Total(ip) - granted[ip][t] <= MaxRequests
    BY <1>1, <2>1, Instants DEF ForgottenSafely, QuietBefore
  <2>3. QED
    BY <1>1, <2>2
<1>3. CASE ~NewWindow(ip)
  <2> DEFINE start == counters[ip].windowStart
  <2>1. counters[ip] # NoEntry /\ counters[ip].count < MaxRequests
    BY <1>3 DEF NewWindow
  <2>2. start \in Nat /\ counters[ip].count \in Nat
    BY <2>1, EntryFields
  <2>3. CounterExact(ip)
    BY <2>1 DEF AddressOK
  <2>4. start \in Times /\ start \in Horizon /\ granted[ip][start] \in Nat
    BY <1>1, <2>2, <2>3, Instants, HistoryValues DEF CounterExact, TypeOK, Times
  <2>5. counters[ip].count = Total(ip) - granted[ip][start]
    BY <2>3 DEF CounterExact
  <2>6. CASE t <= start
    <3>1. start <= t + WindowMs
      BY <1>1, <2>2, <2>3, Instants DEF CounterExact
    <3>2. granted[ip][start] - granted[ip][t] <= MaxRequests
      BY <2>3, <2>6, <3>1 DEF CounterExact, QuietBefore
    <3>3. QED
      BY <1>1, <2>1, <2>2, <2>4, <2>5, <3>2
  <2>7. CASE start < t
    <3>1. granted[ip][start] <= granted[ip][t]
      BY <1>1, <2>2, <2>4, <2>7 DEF Cumulative
    <3>2. QED
      BY <1>1, <2>1, <2>2, <2>4, <2>5, <3>1
  <2>8. QED
    BY <1>1, <2>2, <2>6, <2>7
<1>4. QED
  BY <1>2, <1>3

\* A recorded request keeps every interval within two allowances.
LEMMA IntervalsKept ==
  ASSUME TypeOK, Cumulative, AtMostTwicePerInterval,
         NEW ip \in Ip, AddressOK(ip), Record(ip),
         NewWindow(ip) \/ counters[ip].count < MaxRequests
  PROVE  AtMostTwicePerInterval'
<1> SUFFICES ASSUME NEW i \in Ip, NEW t \in Times
             PROVE  granted'[i][t + WindowMs] - granted'[i][t] <= 2 * MaxRequests
  BY DEF AtMostTwicePerInterval, GrantedFrom
<1>1. /\ t \in Nat /\ t \in Horizon /\ t + WindowMs \in Horizon
      /\ now \in Nat /\ MaxRequests \in Nat /\ WindowMs \in Nat
      /\ granted[i][t] \in Nat /\ granted[i][t + WindowMs] \in Nat
  BY Instants, HistoryValues DEF TypeOK
<1>2. granted[i][t + WindowMs] - granted[i][t] <= 2 * MaxRequests
  BY DEF AtMostTwicePerInterval, GrantedFrom
<1>3. CASE i # ip
  BY <1>2, <1>3, Recorded
<1>4. CASE i = ip /\ t <= now /\ now < t + WindowMs
  <2>1. /\ granted'[i][t] = granted[i][t]
        /\ granted'[i][t + WindowMs] = granted[i][t + WindowMs] + 1
    BY <1>1, <1>4, Recorded
  <2>2. granted[i][t + WindowMs] = Total(i)
    BY <1>1, <1>4 DEF Cumulative
  <2>3. Total(ip) - granted[ip][t] < 2 * MaxRequests
    BY <1>4, RoomForOneMore
  <2>4. QED
    BY <1>1, <1>4, <2>1, <2>2, <2>3
<1>5. CASE i = ip /\ t > now
  <2>1. /\ granted'[i][t] = granted[i][t] + 1
        /\ granted'[i][t + WindowMs] = granted[i][t + WindowMs] + 1
    BY <1>1, <1>5, Recorded
  <2>2. QED
    BY <1>1, <1>2, <2>1
<1>6. CASE i = ip /\ t + WindowMs <= now
  <2>1. /\ granted'[i][t] = granted[i][t]
        /\ granted'[i][t + WindowMs] = granted[i][t + WindowMs]
    BY <1>1, <1>6, Recorded
  <2>2. QED
    BY <1>2, <2>1
<1>7. QED
  BY <1>1, <1>3, <1>4, <1>5, <1>6

\* A refused address has used up its window, which is running.
LEMMA RefusalDeserved ==
  ASSUME TypeOK, NEW ip \in Ip, AddressOK(ip), Cumulative,
         ~NewWindow(ip), counters[ip].count >= MaxRequests
  PROVE  \E t \in Times : /\ t <= now
                          /\ now < t + WindowMs
                          /\ GrantedFrom(ip, t) >= MaxRequests
<1> DEFINE start == counters[ip].windowStart
<1>1. counters[ip] # NoEntry
  BY DEF NewWindow
<1>2. start \in Nat /\ counters[ip].count \in Nat /\ now \in Nat /\ now \in Times
  BY <1>1, EntryFields, Instants DEF TypeOK
<1>3. CounterExact(ip)
  BY <1>1 DEF AddressOK
<1>4. start <= now /\ now < start + WindowMs
  BY <1>1, <1>2, <1>3, Instants DEF CounterExact, NewWindow, Elapsed
<1>5. start \in Times
  BY <1>2, <1>4, Instants DEF Times
<1>6. GrantedFrom(ip, start) >= MaxRequests
  BY <1>3 DEF CounterExact, GrantedFrom
<1>7. QED
  BY <1>4, <1>5, <1>6

-----------------------------------------------------------------------------
(***************************************************************************)
(* The invariant.                                                          *)
(***************************************************************************)

LEMMA InitHolds == Init => IInv
<1> SUFFICES ASSUME Init
             PROVE  IInv
  OBVIOUS
<1>1. \A ip \in Ip : \A t \in Horizon : granted[ip][t] = 0
  BY DEF Init
<1>2. TypeOK
  BY Instants DEF Init, TypeOK, Times
<1>3. \A ip \in Ip : Total(ip) = 0
  BY <1>1, Instants DEF Total
<1>4. Cumulative
  <2> SUFFICES ASSUME NEW ip \in Ip
               PROVE  /\ \A t, u \in Horizon : t <= u => granted[ip][t] <= granted[ip][u]
                      /\ \A t \in Horizon : t > now => granted[ip][t] = Total(ip)
    BY DEF Cumulative
  <2>1. \A t \in Horizon : granted[ip][t] = 0
    BY <1>1
  <2>2. QED
    BY <1>3, <2>1
<1>5. ASSUME NEW ip \in Ip
      PROVE  AddressOK(ip)
  <2>1. now \in Horizon
    BY <1>2, Instants DEF TypeOK
  <2>2. \A t \in Times : granted[ip][now] - granted[ip][t] <= MaxRequests
    BY <1>1, <2>1, Instants
  <2>3. ForgottenSafely(ip)
    BY <1>1, <1>3, <2>1, <2>2 DEF ForgottenSafely, QuietBefore
  <2>4. QED
    BY <2>3 DEF Init, AddressOK
<1>6. AtMostTwicePerInterval
  BY <1>1, Instants DEF AtMostTwicePerInterval, GrantedFrom
<1>7. RefusalIsJustified
  BY DEF Init, RefusalIsJustified
<1>8. QED
  BY <1>2, <1>4, <1>5, <1>6, <1>7 DEF IInv

\* The request that opens a window, with or without a sweep.
LEMMA OpenStep ==
  ASSUME IInv, NEW ip \in Ip, NewWindow(ip),
         NEW swept \in {{}, {i \in Ip \ {ip} : Stale(i)}},
         OpenWindow(ip, swept), Record(ip), now' = now,
         answer' = [ip |-> ip, at |-> now, allowed |-> TRUE]
  PROVE  IInv'
<1>1. /\ TypeOK /\ Cumulative /\ AtMostTwicePerInterval
      /\ \A i \in Ip : AddressOK(i)
  BY DEF IInv
<1>2. ip \notin swept /\ \A i \in swept : i \in Ip /\ Stale(i)
  OBVIOUS
<1>3. counters'[ip] = [windowStart |-> now, count |-> 1]
  BY DEF OpenWindow
<1>4. \A i \in Ip : i # ip => \/ counters'[i] = counters[i]
                              \/ Stale(i) /\ counters'[i] = NoEntry
  BY <1>2 DEF OpenWindow
<1>5. TypeOK'
  <2>1. now \in Nat
    BY <1>1, Instants DEF TypeOK
  <2>2. counters' \in [Ip -> Entry \cup {NoEntry}]
    BY <1>1, <2>1 DEF OpenWindow, TypeOK, Entry
  <2>3. QED
    BY <1>1, <2>2, Recorded DEF TypeOK
<1>6. Cumulative'
  BY <1>1, RecordedCumulative
<1>7. \A i \in Ip : AddressOK(i)'
  <2> SUFFICES ASSUME NEW i \in Ip PROVE AddressOK(i)'
    OBVIOUS
  <2>1. CASE i = ip
    BY <1>1, <1>3, <2>1, OpenKept
  <2>2. CASE i # ip
    <3>1. granted'[i] = granted[i]
      BY <1>1, <2>2, Recorded
    <3>2. QED
      BY <1>1, <1>4, <2>2, <3>1, OthersKept
  <2>3. QED
    BY <2>1, <2>2
<1>8. AtMostTwicePerInterval'
  BY <1>1, IntervalsKept
<1>9. RefusalIsJustified'
  BY DEF RefusalIsJustified
<1>10. QED
  BY <1>5, <1>6, <1>7, <1>8, <1>9 DEF IInv

\* A request within the window that is let through.
LEMMA CountStep ==
  ASSUME IInv, NEW ip \in Ip, ~NewWindow(ip), counters[ip].count < MaxRequests,
         counters' = [counters EXCEPT ![ip].count = @ + 1], Record(ip), now' = now,
         answer' = [ip |-> ip, at |-> now, allowed |-> TRUE]
  PROVE  IInv'
<1>1. /\ TypeOK /\ Cumulative /\ AtMostTwicePerInterval
      /\ \A i \in Ip : AddressOK(i)
  BY DEF IInv
<1>2. counters[ip] # NoEntry
  BY DEF NewWindow
<1>3. counters[ip] \in Entry
  BY <1>1, <1>2, EntryFields
<1>4. counters'[ip] = [windowStart |-> counters[ip].windowStart,
                       count |-> counters[ip].count + 1]
  BY <1>1, <1>3 DEF TypeOK, Entry
<1>5. \A i \in Ip : i # ip => counters'[i] = counters[i]
  BY <1>1 DEF TypeOK
<1>6. TypeOK'
  <2>1. counters'[ip] \in Entry
    BY <1>3, <1>4 DEF Entry
  <2>2. counters' \in [Ip -> Entry \cup {NoEntry}]
    BY <1>1, <2>1 DEF TypeOK
  <2>3. QED
    BY <1>1, <2>2, Recorded DEF TypeOK
<1>7. Cumulative'
  BY <1>1, RecordedCumulative
<1>8. \A i \in Ip : AddressOK(i)'
  <2> SUFFICES ASSUME NEW i \in Ip PROVE AddressOK(i)'
    OBVIOUS
  <2>1. CASE i = ip
    BY <1>1, <1>4, <2>1, CountKept
  <2>2. CASE i # ip
    <3>1. granted'[i] = granted[i]
      BY <1>1, <2>2, Recorded
    <3>2. QED
      BY <1>1, <1>5, <2>2, <3>1, OthersKept
  <2>3. QED
    BY <2>1, <2>2
<1>9. AtMostTwicePerInterval'
  BY <1>1, IntervalsKept
<1>10. RefusalIsJustified'
  BY DEF RefusalIsJustified
<1>11. QED
  BY <1>6, <1>7, <1>8, <1>9, <1>10 DEF IInv

\* A request that is refused.
LEMMA RefuseStep ==
  ASSUME IInv, NEW ip \in Ip, ~NewWindow(ip), counters[ip].count >= MaxRequests,
         UNCHANGED <<counters, granted, now>>,
         answer' = [ip |-> ip, at |-> now, allowed |-> FALSE]
  PROVE  IInv'
<1>1. TypeOK' /\ Cumulative'
  BY DEF IInv, TypeOK, Cumulative, Total
<1>2. \A i \in Ip : AddressOK(i)'
  BY OthersKept DEF IInv
<1>3. AtMostTwicePerInterval'
  BY DEF IInv, AtMostTwicePerInterval, GrantedFrom
<1>4. \E t \in Times : /\ t <= now
                       /\ now < t + WindowMs
                       /\ GrantedFrom(ip, t) >= MaxRequests
  BY RefusalDeserved DEF IInv
<1>5. RefusalIsJustified'
  BY <1>4 DEF RefusalIsJustified, GrantedFrom
<1>6. QED
  BY <1>1, <1>2, <1>3, <1>5 DEF IInv

\* The clock moves on: what was sent lies further back.
LEMMA TickStep ==
  ASSUME IInv, Tick
  PROVE  IInv'
<1>1. /\ now \in Nat /\ now + 1 \in Times /\ now' = now + 1
      /\ counters' = counters /\ granted' = granted /\ answer' = answer
  BY Instants DEF IInv, TypeOK, Tick, Times
<1>2. TypeOK'
  BY <1>1 DEF IInv, TypeOK
<1>3. Cumulative'
  BY <1>1, Instants DEF IInv, Cumulative, Total
<1>4. ASSUME NEW ip \in Ip
      PROVE  AddressOK(ip)'
  <2>1. AddressOK(ip) /\ TypeOK /\ Cumulative
    BY DEF IInv
  <2>2. CASE counters[ip] = NoEntry
    <3>1. ForgottenSafely(ip)
      BY <2>1, <2>2 DEF AddressOK
    <3>2. now \in Horizon /\ now + 1 \in Horizon
      BY <1>1, <2>1, Instants DEF TypeOK
    <3>3. granted[ip][now + 1] = Total(ip)
      BY <1>1, <2>1, <3>2 DEF Cumulative
    <3>4. QuietBefore(ip, now)'
      <4> SUFFICES ASSUME NEW t \in Times, t <= now + 1, now + 1 <= t + WindowMs
                   PROVE  granted[ip][now + 1] - granted[ip][t] <= MaxRequests
        BY <1>1 DEF QuietBefore
      <4>1. t \in Nat /\ t \in Horizon /\ granted[ip][t] \in Nat /\ Total(ip) \in Nat
        BY <2>1, Instants, HistoryValues
      <4>2. CASE t <= now
        BY <1>1, <3>1, <3>3, <4>1, <4>2, Instants DEF ForgottenSafely, QuietBefore
      <4>3. CASE t = now + 1
        BY <4>1, <4>3, <3>3, Instants
      <4>4. QED
        BY <1>1, <4>1, <4>2, <4>3
    <3>5. QED
      BY <1>1, <2>2, <3>3, <3>4 DEF AddressOK, ForgottenSafely, Total
  <2>3. CASE counters[ip] # NoEntry
    <3>1. CounterExact(ip) /\ counters[ip].windowStart \in Nat
      BY <2>1, <2>3, EntryFields DEF AddressOK
    <3>2. CounterExact(ip)'
      BY <1>1, <3>1 DEF CounterExact, QuietBefore, Total
    <3>3. QED
      BY <1>1, <2>3, <3>2 DEF AddressOK
  <2>4. QED
    BY <2>2, <2>3
<1>5. AtMostTwicePerInterval' /\ RefusalIsJustified'
  BY <1>1 DEF IInv, AtMostTwicePerInterval, RefusalIsJustified, GrantedFrom
<1>6. QED
  BY <1>2, <1>3, <1>4, <1>5 DEF IInv

LEMMA StepHolds == IInv /\ [Next]_limitVars => IInv'
<1> SUFFICES ASSUME IInv, [Next]_limitVars
             PROVE  IInv'
  OBVIOUS
<1>1. ASSUME NEW ip \in Ip, NEW allowed \in BOOLEAN, Request(ip, allowed)
      PROVE  IInv'
  <2>1. CASE /\ NewWindow(ip) /\ allowed = TRUE
             /\ \E swept \in {{}, {i \in Ip \ {ip} : Stale(i)}} : OpenWindow(ip, swept)
    BY <1>1, <2>1, OpenStep DEF Request
  <2>2. CASE /\ ~NewWindow(ip) /\ counters[ip].count >= MaxRequests
             /\ allowed = FALSE /\ UNCHANGED counters
    BY <1>1, <2>2, RefuseStep DEF Request
  <2>3. CASE /\ ~NewWindow(ip) /\ counters[ip].count < MaxRequests
             /\ allowed = TRUE /\ counters' = [counters EXCEPT ![ip].count = @ + 1]
    BY <1>1, <2>3, CountStep DEF Request
  <2>4. QED
    BY <1>1, <2>1, <2>2, <2>3 DEF Request, Check
<1>2. CASE Tick
  BY <1>2, TickStep
<1>3. CASE UNCHANGED limitVars
  BY <1>3 DEF limitVars, IInv, TypeOK, Cumulative, Total, AddressOK, ForgottenSafely,
              CounterExact, QuietBefore, AtMostTwicePerInterval, GrantedFrom, RefusalIsJustified
<1>4. QED
  BY <1>1, <1>2, <1>3 DEF Next

LEMMA LimiterInvariant == Spec => []IInv
<1>1. Init => IInv
  BY InitHolds
<1>2. IInv /\ [Next]_limitVars => IInv'
  BY StepHolds
<1>3. QED
  BY <1>1, <1>2, PTL DEF Spec

\* For every limit and window length, no interval of one window's length sees
\* more than twice the limit let through for one address, wherever the
\* windows of rate-limit.ts fall and whenever its cleanup runs.
THEOREM NeverMoreThanTwice == Spec => []AtMostTwicePerInterval
<1>1. IInv => AtMostTwicePerInterval
  BY DEF IInv
<1>2. QED
  BY <1>1, LimiterInvariant, PTL

\* A request is refused only to an address that has had its full allowance
\* within the window that is running.
THEOREM RefusalsDeserved == Spec => []RefusalIsJustified
<1>1. IInv => RefusalIsJustified
  BY DEF IInv
<1>2. QED
  BY <1>1, LimiterInvariant, PTL

=============================================================================
