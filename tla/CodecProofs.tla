------------------------------ MODULE CodecProofs ------------------------------
(***************************************************************************)
(* The encodings of the protocol, for keys of every length and contents:   *)
(* what was encoded is decoded, and what was damaged is noticed.           *)
(***************************************************************************)
EXTENDS Codec, FiniteSetTheorems, WellFoundedInduction, TLAPS

-----------------------------------------------------------------------------
(* Loops.  The encoders are folds, and a fold is a recursive function over *)
(* the sets of positions; that there is such a function is proved by       *)
(* induction on the largest position.                                      *)

\* Induction over the naturals, in terms of a set.
LEMMA InductionOnSet ==
  ASSUME NEW S, 0 \in S, \A n \in Nat : n \in S => n + 1 \in S
  PROVE  Nat \subseteq S
<1> DEFINE T == Nat \ S
           R == OpToRel(<, Nat)
<1>1. SUFFICES ASSUME T # {} PROVE FALSE
  OBVIOUS
<1>2. PICK m \in T : \A n \in T : ~(<<n, m>> \in R)
  <2>1. IsWellFoundedOn(R, Nat)
    BY NatLessThanWellFounded
  <2>2. T \subseteq Nat
    OBVIOUS
  <2> HIDE DEF T, R
  <2>3. QED
    BY <1>1, <2>1, <2>2, WFMin
<1>3. m # 0 /\ m - 1 \in Nat
  OBVIOUS
<1>4. m - 1 \in T
  OBVIOUS
<1>5. <<m - 1, m>> \in R
  BY <1>3, <1>4 DEF OpToRel
<1>6. QED
  BY <1>2, <1>4, <1>5

\* The largest of some positions.
LEMMA MaxOfPositions ==
  ASSUME NEW n \in Nat, NEW s \in SUBSET (1 .. n), s # {}
  PROVE  Max(s) \in s /\ \A i \in s : i <= Max(s)
<1> DEFINE Good(m) == \A t \in SUBSET (1 .. m) : t # {} => \E k \in t : \A i \in t : i <= k
           S == {m \in Nat : Good(m)}
<1>1. 0 \in S
  <2>1. Good(0)
    <3>1. 1 .. 0 = {}
      OBVIOUS
    <3>2. \A t \in SUBSET {} : t = {}
      OBVIOUS
    <3> QED
      BY <3>1, <3>2
  <2> HIDE DEF Good
  <2> QED
    BY <2>1
<1>2. ASSUME NEW m \in Nat, m \in S PROVE m + 1 \in S
  <2>1. ASSUME NEW t \in SUBSET (1 .. m + 1), t # {} PROVE \E k \in t : \A i \in t : i <= k
    <3>1. CASE m + 1 \in t
      BY <3>1
    <3>2. CASE m + 1 \notin t
      <4>1. t \in SUBSET (1 .. m)
        BY <3>2
      <4> QED
        BY <1>2, <2>1, <4>1
    <3> QED
      BY <3>1, <3>2
  <2> QED
    BY <2>1
<1>3. n \in S
  <2> HIDE DEF S
  <2> QED
    BY <1>1, <1>2, InductionOnSet
<1>4. \E k \in s : \A i \in s : i <= k
  <2>1. Good(n)
    <3> HIDE DEF Good
    <3> QED
      BY <1>3
  <2> QED
    BY <2>1
<1>5. \E k \in s : \A i \in s : k >= i
  BY <1>4
<1> QED
  BY <1>5 DEF Max

\* The largest of the first k positions.
LEMMA MaxOfFirst ==
  ASSUME NEW n \in Nat, NEW k \in 1 .. n
  PROVE  /\ 1 .. k \in SUBSET (1 .. n) /\ 1 .. k # {}
         /\ Max(1 .. k) = k /\ (1 .. k) \ {k} = 1 .. k - 1
<1>1. 1 .. k \in SUBSET (1 .. n) /\ 1 .. k # {} /\ (1 .. k) \ {k} = 1 .. k - 1
  OBVIOUS
<1>2. Max(1 .. k) \in 1 .. k /\ \A i \in 1 .. k : i <= Max(1 .. k)
  BY <1>1, MaxOfPositions
<1> QED
  BY <1>1, <1>2

\* The recursion of a fold whose accumulator is in Acc, step[i][a] being what
\* position i makes of a.
Recursion(g, n, base, step) ==
  \A s \in SUBSET (1 .. n) :
    g[s] = IF s = {} THEN base ELSE step[Max(s)][g[s \ {Max(s)}]]

\* There is a function with the recursion of the fold: the CHOOSE of a fold
\* has something to choose.
LEMMA FoldExists ==
  ASSUME NEW n \in Nat, NEW Acc, NEW base \in Acc, NEW step \in [1 .. n -> [Acc -> Acc]]
  PROVE  \E g \in [SUBSET (1 .. n) -> Acc] : Recursion(g, n, base, step)
<1> DEFINE Good(m) == \E g \in [SUBSET (1 .. m) -> Acc] : Recursion(g, m, base, step)
           S == {m \in Nat : m <= n => Good(m)}
<1>1. 0 \in S
  <2> DEFINE g == [s \in SUBSET (1 .. 0) |-> base]
  <2>1. g \in [SUBSET (1 .. 0) -> Acc]
    OBVIOUS
  <2>2. Recursion(g, 0, base, step)
    BY DEF Recursion
  <2>3. Good(0)
    <3> HIDE DEF g
    <3> QED
      BY <2>1, <2>2
  <2> HIDE DEF Good
  <2> QED
    BY <2>3
<1>2. ASSUME NEW m \in Nat, m \in S PROVE m + 1 \in S
  <2>0. m <= n => Good(m)
    <3> HIDE DEF Good
    <3> QED
      BY <1>2
  <2>A. SUFFICES ASSUME m + 1 <= n PROVE Good(m + 1)
    <3> HIDE DEF Good
    <3> QED
      OBVIOUS
  <2>1. PICK g \in [SUBSET (1 .. m) -> Acc] : Recursion(g, m, base, step)
    <3>1. Good(m)
      <4> HIDE DEF Good
      <4> QED
        BY <2>0, <2>A
    <3> QED
      BY <3>1
  <2> DEFINE h == [s \in SUBSET (1 .. m + 1) |->
                     IF m + 1 \in s THEN step[m + 1][g[s \ {m + 1}]] ELSE g[s]]
  <2>2. \A s \in SUBSET (1 .. m + 1) : /\ s \ {m + 1} \in SUBSET (1 .. m)
                                       /\ m + 1 \notin s => s \in SUBSET (1 .. m)
    OBVIOUS
  <2>3. h \in [SUBSET (1 .. m + 1) -> Acc]
    <3>1. step[m + 1] \in [Acc -> Acc]
      BY <2>A
    <3> QED
      BY <2>2, <3>1
  <2>4. ASSUME NEW s \in SUBSET (1 .. m + 1)
        PROVE  h[s] = IF s = {} THEN base ELSE step[Max(s)][h[s \ {Max(s)}]]
    <3>1. CASE m + 1 \in s
      <4>1. Max(s) \in s /\ \A i \in s : i <= Max(s)
        <5>1. m + 1 \in Nat /\ s # {}
          BY <3>1
        <5> QED
          BY <5>1, MaxOfPositions
      <4>2. Max(s) = m + 1
        <5>1. Max(s) \in 1 .. m + 1
          BY <4>1
        <5>2. m + 1 <= Max(s)
          BY <3>1, <4>1
        <5> QED
          BY <5>1, <5>2
      <4>3. h[s \ {m + 1}] = g[s \ {m + 1}]
        BY <2>2
      <4> QED
        BY <3>1, <4>2, <4>3
    <3>2. CASE m + 1 \notin s
      <4>1. s \in SUBSET (1 .. m) /\ h[s] = g[s]
        BY <2>2, <3>2
      <4>2. g[s] = IF s = {} THEN base ELSE step[Max(s)][g[s \ {Max(s)}]]
        BY <2>1, <4>1 DEF Recursion
      <4>3. h[s \ {Max(s)}] = g[s \ {Max(s)}]
        BY <2>2, <3>2, <4>1
      <4> QED
        BY <4>1, <4>2, <4>3
    <3> QED
      BY <3>1, <3>2
  <2>5. Recursion(h, m + 1, base, step)
    <3> HIDE DEF h
    <3> QED
      BY <2>4 DEF Recursion
  <2> QED
    BY <2>3, <2>5
<1>3. n \in S
  <2> HIDE DEF S
  <2> QED
    BY <1>1, <1>2, InductionOnSet
<1>4. Good(n)
  <2> HIDE DEF Good
  <2> QED
    BY <1>3
<1> QED
  BY <1>4

-----------------------------------------------------------------------------
(* Base32.  The bit loops of peer-id.ts, one alignment of a byte to the    *)
(* groups of five bits at a time.                                          *)

Start == [value |-> 0, bits |-> 0, out |-> <<>>]
Byte == 0 .. 255
Encoding == [value : Nat, bits : 0 .. 4, out : Seq(Ids!Char)]
Decoding == [value : Nat, bits : 0 .. 7, out : Seq(Byte)]

\* What a byte, and what a character, makes of the bits that were waiting.
Shifted8(v, x) == 256 * (v % 256) + x
Shifted5(w, c) == 32 * (w % 2048) + c

\* The characters that a byte completes, when b bits of v are waiting.
Written(v, b, byte) ==
  CASE b = 0 -> <<byte \div 8>>
    [] b = 1 -> <<16 * (v % 2) + byte \div 16>>
    [] b = 2 -> <<8 * (v % 4) + byte \div 32, byte % 32>>
    [] b = 3 -> <<4 * (v % 8) + byte \div 64, (byte \div 2) % 32>>
    [] b = 4 -> <<2 * (v % 16) + byte \div 128, (byte \div 4) % 32>>

\* What a byte adds is characters.
LEMMA WrittenType ==
  ASSUME NEW v \in Nat, NEW b \in 0 .. 4, NEW x \in Byte
  PROVE  Written(v, b, x) \in Seq(Ids!Char)
<1>0. x \in Nat /\ x <= 255
  BY SMT DEF Byte
<1>1. x \div 8 \in 0 .. 31
  BY <1>0, SMT
<1>2. 16 * (v % 2) + x \div 16 \in 0 .. 31
  BY <1>0, SMT
<1>3. 8 * (v % 4) + x \div 32 \in 0 .. 31 /\ x % 32 \in 0 .. 31
  BY <1>0, SMT
<1>4. 4 * (v % 8) + x \div 64 \in 0 .. 31 /\ (x \div 2) % 32 \in 0 .. 31
  BY <1>0, SMT
<1>5. 2 * (v % 16) + x \div 128 \in 0 .. 31 /\ (x \div 4) % 32 \in 0 .. 31
  BY <1>0, SMT
<1>6. b = 0 \/ b = 1 \/ b = 2 \/ b = 3 \/ b = 4
  BY <1>0, SMT
<1>7. CASE b = 0
  BY <1>1, <1>7, SMT DEF Written, Ids!Char
<1>8. CASE b = 1
  BY <1>2, <1>8, SMT DEF Written, Ids!Char
<1>9. CASE b = 2
  BY <1>3, <1>9, SMT DEF Written, Ids!Char
<1>10. CASE b = 3
  BY <1>4, <1>10, SMT DEF Written, Ids!Char
<1>11. CASE b = 4
  BY <1>5, <1>11, SMT DEF Written, Ids!Char
<1> QED
  BY <1>6, <1>7, <1>8, <1>9, <1>10, <1>11, Zenon

LEMMA WrittenGroups ==
  ASSUME NEW v \in Nat, NEW b \in 0 .. 4, NEW x \in Byte
  PROVE  /\ Ids!Low(v * 256 + x) = Shifted8(v, x)
         /\ Shifted8(v, x) \in Nat
         /\ Ids!Groups(Ids!Low(v * 256 + x), b + 8) = Written(v, b, x)
<1> DEFINE w == Ids!Low(v * 256 + x)
<1>0. x \in Nat /\ x <= 255
  BY SMT DEF Byte
<1>1. w = 256 * (v % 256) + x
  BY <1>0, SMT DEF Ids!Low
<1> HIDE DEF w
<1>2. w \in Nat
  BY <1>0, <1>1, SMT
<1>3. Ids!Groups(w, b + 8) = Written(v, b, x)
  <2>1. b = 0 \/ b = 1 \/ b = 2 \/ b = 3 \/ b = 4
    BY SMT
  <2>2. CASE b = 0
    <3>1. 2 ^ (8 - 5 * 1) = 8
      BY SMT
    <3>2. (w \div 8) % 32 = x \div 8
      BY <1>0, <1>1, SMT
    <3>3. Ids!Groups(w, 8) = <<x \div 8>>
      BY <1>2, <3>1, <3>2, SMT DEF Ids!Groups
    <3> QED
      BY <2>2, <3>3, SMT DEF Written
  <2>3. CASE b = 1
    <3>1. 2 ^ (9 - 5 * 1) = 16
      BY SMT
    <3>2. (w \div 16) % 32 = 16 * (v % 2) + x \div 16
      BY <1>0, <1>1, SMT
    <3>3. Ids!Groups(w, 9) = <<16 * (v % 2) + x \div 16>>
      BY <1>2, <3>1, <3>2, SMT DEF Ids!Groups
    <3> QED
      BY <2>3, <3>3, SMT DEF Written
  <2>4. CASE b = 2
    <3>1. 2 ^ (10 - 5 * 1) = 32 /\ 2 ^ (10 - 5 * 2) = 1
      BY SMT
    <3>2. (w \div 32) % 32 = 8 * (v % 4) + x \div 32 /\ (w \div 1) % 32 = x % 32
      BY <1>0, <1>1, SMT
    <3>3. Ids!Groups(w, 10) = <<8 * (v % 4) + x \div 32, x % 32>>
      BY <1>2, <3>1, <3>2, SMT DEF Ids!Groups
    <3> QED
      BY <2>4, <3>3, SMT DEF Written
  <2>5. CASE b = 3
    <3>1. 2 ^ (11 - 5 * 1) = 64 /\ 2 ^ (11 - 5 * 2) = 2
      BY SMT
    <3>2. (w \div 64) % 32 = 4 * (v % 8) + x \div 64 /\ (w \div 2) % 32 = (x \div 2) % 32
      BY <1>0, <1>1, SMT
    <3>3. Ids!Groups(w, 11) = <<4 * (v % 8) + x \div 64, (x \div 2) % 32>>
      BY <1>2, <3>1, <3>2, SMT DEF Ids!Groups
    <3> QED
      BY <2>5, <3>3, SMT DEF Written
  <2>6. CASE b = 4
    <3>1. 2 ^ (12 - 5 * 1) = 128 /\ 2 ^ (12 - 5 * 2) = 4
      BY SMT
    <3>2. (w \div 128) % 32 = 2 * (v % 16) + x \div 128 /\ (w \div 4) % 32 = (x \div 4) % 32
      BY <1>0, <1>1, SMT
    <3>3. Ids!Groups(w, 12) = <<2 * (v % 16) + x \div 128, (x \div 4) % 32>>
      BY <1>2, <3>1, <3>2, SMT DEF Ids!Groups
    <3> QED
      BY <2>6, <3>3, SMT DEF Written
  <2> QED
    BY <2>1, <2>2, <2>3, <2>4, <2>5, <2>6, Zenon
<1> QED
  BY <1>1, <1>2, <1>3, SMT DEF w, Shifted8

-----------------------------------------------------------------------------
\* The accumulators of a run are accumulators.
LEMMA RunIsTyped ==
  ASSUME NEW n \in Nat, NEW Acc, NEW iter, iter[{}] \in Acc,
         \A s \in SUBSET (1 .. n) : s # {} /\ iter[s \ {Max(s)}] \in Acc => iter[s] \in Acc
  PROVE  \A k \in 0 .. n : iter[1 .. k] \in Acc
<1> DEFINE S == {k \in Nat : k <= n => iter[1 .. k] \in Acc}
<1>1. 0 \in S
  <2>1. 1 .. 0 = {}
    OBVIOUS
  <2> QED
    BY <2>1
<1>2. ASSUME NEW k \in Nat, k \in S PROVE k + 1 \in S
  <2>1. SUFFICES ASSUME k + 1 <= n PROVE iter[1 .. k + 1] \in Acc
    OBVIOUS
  <2>2. k + 1 \in 1 .. n /\ (k + 1) - 1 = k
    BY <2>1
  <2>3. /\ 1 .. k + 1 \in SUBSET (1 .. n) /\ 1 .. k + 1 # {}
        /\ Max(1 .. k + 1) = k + 1 /\ (1 .. k + 1) \ {k + 1} = 1 .. (k + 1) - 1
    BY <2>2, MaxOfFirst
  <2>4. iter[1 .. k] \in Acc
    BY <1>2, <2>1
  <2> QED
    BY <2>2, <2>3, <2>4
<1>3. Nat \subseteq S
  <2> HIDE DEF S
  <2> QED
    BY <1>1, <1>2, InductionOnSet
<1> QED
  BY <1>3

\* iter is the recursive function of a fold, once its type is known.
IsFold(iter, n, Acc, base, step) ==
  /\ iter[{}] = base
  /\ \A s \in SUBSET (1 .. n) :
       s # {} /\ iter[s \ {Max(s)}] \in Acc => iter[s] = step[Max(s)][iter[s \ {Max(s)}]]

\* run[k] is the accumulator after k turns of a loop.
IsRun(run, n, Acc, base, step) ==
  /\ run \in [0 .. n -> Acc]
  /\ run[0] = base
  /\ \A k \in 1 .. n : run[k] = step[k][run[k - 1]]

Steps(n, Acc) == [1 .. n -> [Acc -> Acc]]

\* A fold over 1 .. n is a run: n + 1 accumulators, each a step after the last.
LEMMA RunOfFold ==
  ASSUME NEW n \in Nat, NEW Acc, NEW base \in Acc, NEW step \in Steps(n, Acc),
         NEW iter, IsFold(iter, n, Acc, base, step)
  PROVE  \E run : IsRun(run, n, Acc, base, step) /\ run[n] = iter[1 .. n]
<1>1. ASSUME NEW s \in SUBSET (1 .. n), s # {}, iter[s \ {Max(s)}] \in Acc PROVE iter[s] \in Acc
  <2>1. Max(s) \in 1 .. n
    BY <1>1, MaxOfPositions
  <2>2. step[Max(s)] \in [Acc -> Acc]
    BY <2>1 DEF Steps
  <2>3. iter[s] = step[Max(s)][iter[s \ {Max(s)}]]
    BY <1>1 DEF IsFold
  <2> QED
    BY <1>1, <2>2, <2>3
<1>2. \A k \in 0 .. n : iter[1 .. k] \in Acc
  <2>1. \A s \in SUBSET (1 .. n) : s # {} /\ iter[s \ {Max(s)}] \in Acc => iter[s] \in Acc
    BY <1>1
  <2>2. iter[{}] \in Acc
    BY DEF IsFold
  <2> QED
    BY <2>1, <2>2, RunIsTyped
<1> DEFINE run == [k \in 0 .. n |-> iter[1 .. k]]
<1>3. run \in [0 .. n -> Acc] /\ run[n] = iter[1 .. n]
  BY <1>2
<1>4. run[0] = base
  <2>1. 1 .. 0 = {}
    OBVIOUS
  <2> QED
    BY <2>1 DEF IsFold
<1>5. ASSUME NEW k \in 1 .. n PROVE run[k] = step[k][run[k - 1]]
  <2>1. /\ 1 .. k \in SUBSET (1 .. n) /\ 1 .. k # {}
        /\ Max(1 .. k) = k /\ (1 .. k) \ {k} = 1 .. k - 1
    BY MaxOfFirst
  <2>2. k - 1 \in 0 .. n /\ k \in 0 .. n
    OBVIOUS
  <2>3. iter[1 .. k - 1] \in Acc
    BY <1>2, <2>2
  <2>4. iter[1 .. k] = step[k][iter[1 .. k - 1]]
    BY <2>1, <2>3 DEF IsFold
  <2> QED
    BY <2>2, <2>4
<1> HIDE DEF run
<1> QED
  BY <1>3, <1>4, <1>5 DEF IsRun

\* One iteration of the outer loop of encodeBase32.
LEMMA EncodeByteIs ==
  ASSUME NEW acc \in Encoding, NEW x \in Byte
  PROVE  /\ Ids!EncodeByte(acc, x) \in Encoding
         /\ Ids!EncodeByte(acc, x).value = Shifted8(acc.value, x)
         /\ Ids!EncodeByte(acc, x).bits = (acc.bits + 8) % 5
         /\ Ids!EncodeByte(acc, x).out = acc.out \o Written(acc.value, acc.bits, x)
<1> DEFINE v == acc.value
           b == acc.bits
           w == Ids!Low(v * 256 + x)
<1>1. v \in Nat /\ b \in 0 .. 4 /\ acc.out \in Seq(Ids!Char)
  BY Zenon DEF Encoding
<1>2. Ids!EncodeByte(acc, x) = [value |-> w, bits |-> (b + 8) % 5, out |-> acc.out \o Ids!Groups(w, b + 8)]
  BY SMT DEF Ids!EncodeByte
<1>3. w = Shifted8(v, x) /\ Shifted8(v, x) \in Nat /\ Ids!Groups(w, b + 8) = Written(v, b, x)
  <2> HIDE DEF v, b
  <2> QED
    BY <1>1, WrittenGroups, Zenon
<1>4. Written(v, b, x) \in Seq(Ids!Char)
  <2> HIDE DEF v, b
  <2> QED
    BY <1>1, WrittenType, Zenon
<1> HIDE DEF v, b, w
<1>5. Ids!EncodeByte(acc, x) = [value |-> Shifted8(v, x), bits |-> (b + 8) % 5,
                                out |-> acc.out \o Written(v, b, x)]
  BY <1>2, <1>3, Zenon
<1>6. acc.out \o Written(v, b, x) \in Seq(Ids!Char) /\ (b + 8) % 5 \in 0 .. 4
  BY <1>1, <1>4, SMT
<1>7. Ids!EncodeByte(acc, x) \in Encoding
  BY <1>3, <1>5, <1>6, SMT DEF Encoding
<1> DEFINE e == Ids!EncodeByte(acc, x)
           u == Shifted8(v, x)
           s == (b + 8) % 5
           o == acc.out \o Written(v, b, x)
<1>8. e.value = u /\ e.bits = s /\ e.out = o
  <2>1. e = [value |-> u, bits |-> s, out |-> o]
    BY <1>5, Zenon
  <2> HIDE DEF e, u, s, o
  <2> QED
    BY <2>1, SMT
<1> QED
  BY <1>7, <1>8, Zenon DEF v, b

\* The byte that a character completes, when d bits of w are waiting.
Read(w, d, c) ==
  CASE d = 3 -> 32 * (w % 8) + c
    [] d = 4 -> 16 * (w % 16) + c \div 2
    [] d = 5 -> 8 * (w % 32) + c \div 4
    [] d = 6 -> 4 * (w % 64) + c \div 8
    [] d = 7 -> 2 * (w % 128) + c \div 16

LEMMA ReadIs ==
  ASSUME NEW w \in Nat, NEW d \in 3 .. 7, NEW c \in Ids!Char
  PROVE  /\ Ids!Low(w * 32 + c) = Shifted5(w, c)
         /\ Shifted5(w, c) \in Nat
         /\ Ids!ByteAbove(Ids!Low(w * 32 + c), d + 5 - 8) = Read(w, d, c)
         /\ Read(w, d, c) \in Byte
<1> DEFINE u == Ids!Low(w * 32 + c)
<1>0. c \in Nat /\ c <= 31
  BY SMT DEF Ids!Char
<1>1. u = 32 * (w % 2048) + c
  BY <1>0, SMT DEF Ids!Low
<1> HIDE DEF u
<1>2. Ids!ByteAbove(u, d + 5 - 8) = Read(w, d, c) /\ Read(w, d, c) \in Byte
  <2>1. d = 3 \/ d = 4 \/ d = 5 \/ d = 6 \/ d = 7
    BY SMT
  <2>2. CASE d = 3
    <3>1. 2 ^ (3 + 5 - 8) = 1
      BY SMT
    <3>2. (u \div 1) % 256 = 32 * (w % 8) + c /\ 32 * (w % 8) + c \in Byte
      BY <1>0, <1>1, SMT DEF Byte
    <3> QED
      BY <2>2, <3>1, <3>2, SMT DEF Read, Ids!ByteAbove
  <2>3. CASE d = 4
    <3>1. 2 ^ (4 + 5 - 8) = 2
      BY SMT
    <3>2. (u \div 2) % 256 = 16 * (w % 16) + c \div 2 /\ 16 * (w % 16) + c \div 2 \in Byte
      BY <1>0, <1>1, SMT DEF Byte
    <3> QED
      BY <2>3, <3>1, <3>2, SMT DEF Read, Ids!ByteAbove
  <2>4. CASE d = 5
    <3>1. 2 ^ (5 + 5 - 8) = 4
      BY SMT
    <3>2. (u \div 4) % 256 = 8 * (w % 32) + c \div 4 /\ 8 * (w % 32) + c \div 4 \in Byte
      BY <1>0, <1>1, SMT DEF Byte
    <3> QED
      BY <2>4, <3>1, <3>2, SMT DEF Read, Ids!ByteAbove
  <2>5. CASE d = 6
    <3>1. 2 ^ (6 + 5 - 8) = 8
      BY SMT
    <3>2. (u \div 8) % 256 = 4 * (w % 64) + c \div 8 /\ 4 * (w % 64) + c \div 8 \in Byte
      BY <1>0, <1>1, SMT DEF Byte
    <3> QED
      BY <2>5, <3>1, <3>2, SMT DEF Read, Ids!ByteAbove
  <2>6. CASE d = 7
    <3>1. 2 ^ (7 + 5 - 8) = 16
      BY SMT
    <3>2. (u \div 16) % 256 = 2 * (w % 128) + c \div 16 /\ 2 * (w % 128) + c \div 16 \in Byte
      BY <1>0, <1>1, SMT DEF Byte
    <3> QED
      BY <2>6, <3>1, <3>2, SMT DEF Read, Ids!ByteAbove
  <2> QED
    BY <2>1, <2>2, <2>3, <2>4, <2>5, <2>6, Zenon
<1> QED
  BY <1>0, <1>1, <1>2, SMT DEF u, Shifted5

\* One iteration of the loop of decodeBase32.
LEMMA DecodeCharIs ==
  ASSUME NEW acc \in Decoding, NEW c \in Ids!Char
  PROVE  /\ Ids!DecodeChar(acc, c) \in Decoding
         /\ Ids!DecodeChar(acc, c).value = Shifted5(acc.value, c)
         /\ acc.bits < 3 => /\ Ids!DecodeChar(acc, c).bits = acc.bits + 5
                            /\ Ids!DecodeChar(acc, c).out = acc.out
         /\ acc.bits >= 3 =>
              /\ Ids!DecodeChar(acc, c).bits = acc.bits - 3
              /\ Ids!DecodeChar(acc, c).out = Append(acc.out, Read(acc.value, acc.bits, c))
<1> DEFINE w == acc.value
           d == acc.bits
           u == Ids!Low(w * 32 + c)
<1>1. w \in Nat /\ d \in 0 .. 7 /\ acc.out \in Seq(Byte)
  BY Zenon DEF Decoding
<1>2. d + 5 < 8 => Ids!DecodeChar(acc, c) = [value |-> u, bits |-> d + 5, out |-> acc.out]
  BY Zenon DEF Ids!DecodeChar
<1>7. ASSUME NEW s, s = acc.bits + 5, ~(s < 8)
      PROVE  Ids!DecodeChar(acc, c) =
               [value |-> Ids!Low(acc.value * 32 + c), bits |-> s - 8,
                out |-> Append(acc.out, Ids!ByteAbove(Ids!Low(acc.value * 32 + c), s - 8))]
  BY <1>7, Zenon DEF Ids!DecodeChar
<1>3. d \in 3 .. 7 => Ids!ByteAbove(u, d + 5 - 8) = Read(w, d, c) /\ Read(w, d, c) \in Byte
  <2> HIDE DEF w, d
  <2> QED
    BY <1>1, ReadIs, Zenon
<1>4. u = Shifted5(w, c) /\ Shifted5(w, c) \in Nat
  <2>1. 3 \in 3 .. 7
    BY SMT
  <2> HIDE DEF w, d
  <2> QED
    BY <1>1, <2>1, ReadIs, Zenon
<1> DEFINE Out == Ids!ByteAbove(u, d + 5 - 8)
<1> HIDE DEF w, d, u, Out
<1>8. d < 3 => Ids!DecodeChar(acc, c) = [value |-> Shifted5(w, c), bits |-> d + 5, out |-> acc.out]
  BY <1>1, <1>2, <1>4, SMT
<1>9. d >= 3 => /\ d \in 3 .. 7
                /\ Ids!DecodeChar(acc, c) = [value |-> u, bits |-> d - 3, out |-> Append(acc.out, Out)]
  <2> SUFFICES ASSUME d >= 3
               PROVE  /\ d \in 3 .. 7
                      /\ Ids!DecodeChar(acc, c) = [value |-> u, bits |-> d - 3, out |-> Append(acc.out, Out)]
    BY Zenon
  <2> DEFINE s == d + 5
  <2>1. s = acc.bits + 5
    BY Zenon DEF d
  <2>2. d \in 3 .. 7 /\ ~(s < 8) /\ s - 8 = d - 3 /\ d + 5 - 8 = d - 3
    BY <1>1, SMT
  <2> HIDE DEF s
  <2>3. Ids!DecodeChar(acc, c) = [value |-> Ids!Low(acc.value * 32 + c), bits |-> s - 8,
                                  out |-> Append(acc.out, Ids!ByteAbove(Ids!Low(acc.value * 32 + c), s - 8))]
    BY <1>7, <2>1, <2>2, Zenon
  <2> QED
    BY <2>2, <2>3, Zenon DEF Out, u, w
<1>10. d >= 3 => /\ Ids!DecodeChar(acc, c) =
                      [value |-> Shifted5(w, c), bits |-> d - 3, out |-> Append(acc.out, Read(w, d, c))]
                 /\ Read(w, d, c) \in Byte
  BY <1>3, <1>4, <1>9, Zenon DEF Out
<1>11. /\ d < 3 \/ d >= 3
       /\ d < 3 => ~(d >= 3) /\ d + 5 \in 0 .. 7
       /\ d >= 3 => d - 3 \in 0 .. 7
  BY <1>1, SMT
<1>12. d >= 3 => Append(acc.out, Read(w, d, c)) \in Seq(Byte)
  BY <1>1, <1>10, SMT
<1>13. Ids!DecodeChar(acc, c) \in Decoding
  <2>1. CASE d < 3
    BY <1>1, <1>4, <1>8, <1>11, <2>1, SMT DEF Decoding
  <2>2. CASE d >= 3
    <3> DEFINE e == d - 3
               o == Append(acc.out, Read(w, d, c))
    <3>1. e \in 0 .. 7 /\ o \in Seq(Byte)
      BY <1>11, <1>12, <2>2, Zenon
    <3>2. Ids!DecodeChar(acc, c) = [value |-> Shifted5(w, c), bits |-> e, out |-> o]
      BY <1>10, <2>2, Zenon
    <3> HIDE DEF e, o
    <3> QED
      BY <1>4, <3>1, <3>2, SMT DEF Decoding
  <2> QED
    BY <1>11, <2>1, <2>2, Zenon
<1> DEFINE e == Ids!DecodeChar(acc, c)
           v == Shifted5(w, c)
           o == Append(acc.out, Read(w, d, c))
<1>14. /\ e.value = v
       /\ d < 3 => e.bits = d + 5 /\ e.out = acc.out
       /\ d >= 3 => e.bits = d - 3 /\ e.out = o
  <2>1. /\ d < 3 => e = [value |-> v, bits |-> d + 5, out |-> acc.out]
        /\ d >= 3 => e = [value |-> v, bits |-> d - 3, out |-> o]
    BY <1>8, <1>10, Zenon
  <2> HIDE DEF e, v, o
  <2> QED
    BY <1>11, <2>1, SMT
<1> QED
  BY <1>13, <1>14, Zenon DEF w, d

\* The library defines the largest element once more in every instance.
LEMMA SameMax ==
  ASSUME NEW s
  PROVE  Ids!Max(s) = Max(s) /\ Frames!Max(s) = Max(s)
BY DEF Ids!Max, Frames!Max, Max

\* A fold over a sequence is its recursive function at all the positions.
EncIter(bytes) ==
  CHOOSE iter : iter = [s \in SUBSET DOMAIN bytes |->
    IF s = {} THEN Start ELSE Ids!EncodeByte(iter[s \ {Ids!Max(s)}], bytes[Ids!Max(s)])]
Padded(acc) ==
  IF acc.bits = 0 THEN acc.out ELSE Append(acc.out, (acc.value * 2 ^ (5 - acc.bits)) % 32)

\* EncodeBase32, one byte at a time.
LEMMA EncodeRuns ==
  ASSUME NEW bytes \in Seq(Byte)
  PROVE  \E run \in [0 .. Len(bytes) -> Encoding] :
           /\ run[0] = Start
           /\ \A k \in 1 .. Len(bytes) : run[k] = Ids!EncodeByte(run[k - 1], bytes[k])
           /\ Ids!EncodeBase32(bytes) = Padded(run[Len(bytes)])
<1> DEFINE n == Len(bytes)
           step == [i \in 1 .. n |-> [acc \in Encoding |-> Ids!EncodeByte(acc, bytes[i])]]
<1>1. n \in Nat /\ DOMAIN bytes = 1 .. n /\ \A i \in 1 .. n : bytes[i] \in Byte
  OBVIOUS
<1>2. Start \in Encoding
  BY DEF Start, Encoding
<1>3. step \in [1 .. n -> [Encoding -> Encoding]]
  BY <1>1, EncodeByteIs
<1>4. PICK g \in [SUBSET (1 .. n) -> Encoding] : Recursion(g, n, Start, step)
  <2> HIDE DEF n, step
  <2> QED
    BY <1>1, <1>2, <1>3, FoldExists
<1>5. ASSUME NEW s \in SUBSET (1 .. n), s # {}
      PROVE  Max(s) \in 1 .. n /\ s \ {Max(s)} \in SUBSET (1 .. n) /\ Ids!Max(s) = Max(s)
  <2> HIDE DEF n
  <2> QED
    BY <1>1, <1>5, MaxOfPositions, SameMax
<1> DEFINE Eq(iter) == iter = [s \in SUBSET DOMAIN bytes |->
              IF s = {} THEN Start ELSE Ids!EncodeByte(iter[s \ {Ids!Max(s)}], bytes[Ids!Max(s)])]
<1>6. Eq(g)
  <2>1. ASSUME NEW s \in SUBSET (1 .. n)
        PROVE  g[s] = IF s = {} THEN Start ELSE Ids!EncodeByte(g[s \ {Ids!Max(s)}], bytes[Ids!Max(s)])
    <3>1. CASE s = {}
      BY <1>4, <3>1 DEF Recursion
    <3>2. CASE s # {}
      <4>1. Max(s) \in 1 .. n /\ s \ {Max(s)} \in SUBSET (1 .. n) /\ Ids!Max(s) = Max(s)
        BY <1>5, <3>2
      <4>2. g[s] = step[Max(s)][g[s \ {Max(s)}]]
        BY <1>4, <3>2 DEF Recursion
      <4>3. g[s \ {Max(s)}] \in Encoding
        BY <1>4, <4>1
      <4> QED
        BY <3>2, <4>1, <4>2, <4>3
    <3> QED
      BY <3>1, <3>2
  <2> QED
    BY <1>1, <1>4, <2>1
<1>7. Eq(EncIter(bytes))
  <2> HIDE DEF n, step
  <2> QED
    BY <1>6 DEF EncIter
<1> DEFINE iter == EncIter(bytes)
<1>8. iter[{}] = Start
  <2>1. {} \in SUBSET DOMAIN bytes
    OBVIOUS
  <2> HIDE DEF iter
  <2> QED
    BY <1>7, <2>1 DEF iter
<1>9. ASSUME NEW s \in SUBSET (1 .. n), s # {}, iter[s \ {Max(s)}] \in Encoding
      PROVE  iter[s] = step[Max(s)][iter[s \ {Max(s)}]]
  <2>1. Max(s) \in 1 .. n /\ Ids!Max(s) = Max(s)
    BY <1>5, <1>9
  <2>2. iter[s] = Ids!EncodeByte(iter[s \ {Max(s)}], bytes[Max(s)])
    <3> HIDE DEF iter, n, step
    <3> QED
      BY <1>1, <1>7, <1>9, <2>1 DEF iter
  <2> HIDE DEF iter
  <2> QED
    BY <1>9, <2>1, <2>2
<1>10. PICK run : IsRun(run, n, Encoding, Start, step) /\ run[n] = iter[1 .. n]
  <2>0. n \in Nat
    BY <1>1
  <2>1. IsFold(iter, n, Encoding, Start, step)
    <3> HIDE DEF iter, n, step
    <3> QED
      BY <1>8, <1>9, Zenon DEF IsFold
  <2>2. step \in Steps(n, Encoding)
    <3> HIDE DEF step, n
    <3> QED
      BY <1>3 DEF Steps
  <2> HIDE DEF iter, n, step
  <2> QED
    BY <2>0, <1>2, <2>1, <2>2, RunOfFold, SMT
<1>11. \A k \in 1 .. n : run[k] = Ids!EncodeByte(run[k - 1], bytes[k])
  <2>1. \A k \in 1 .. n : k - 1 \in 0 .. n
    BY <1>1
  <2> QED
    BY <1>10, <2>1 DEF IsRun
<1>12. Ids!EncodeBase32(bytes) = Padded(EncIter(bytes)[DOMAIN bytes])
  BY DEF Ids!EncodeBase32, Ids!FoldLeft, Ids!MapThenFoldSet, EncIter, Start, Padded
<1> QED
  BY <1>1, <1>10, <1>11, <1>12 DEF IsRun

DecIter(chars) ==
  CHOOSE iter : iter = [s \in SUBSET DOMAIN chars |->
    IF s = {} THEN Start ELSE Ids!DecodeChar(iter[s \ {Ids!Max(s)}], chars[Ids!Max(s)])]

\* DecodeBase32, one character at a time.
LEMMA DecodeRuns ==
  ASSUME NEW chars \in Seq(Ids!Char)
  PROVE  \E run \in [0 .. Len(chars) -> Decoding] :
           /\ run[0] = Start
           /\ \A k \in 1 .. Len(chars) : run[k] = Ids!DecodeChar(run[k - 1], chars[k])
           /\ Ids!DecodeBase32(chars) = run[Len(chars)].out
<1> DEFINE n == Len(chars)
           step == [i \in 1 .. n |-> [acc \in Decoding |-> Ids!DecodeChar(acc, chars[i])]]
<1>1. n \in Nat /\ DOMAIN chars = 1 .. n /\ \A i \in 1 .. n : chars[i] \in Ids!Char
  OBVIOUS
<1>2. Start \in Decoding
  BY DEF Start, Decoding
<1>3. step \in [1 .. n -> [Decoding -> Decoding]]
  BY <1>1, DecodeCharIs
<1>4. PICK g \in [SUBSET (1 .. n) -> Decoding] : Recursion(g, n, Start, step)
  <2> HIDE DEF n, step
  <2> QED
    BY <1>1, <1>2, <1>3, FoldExists
<1>5. ASSUME NEW s \in SUBSET (1 .. n), s # {}
      PROVE  Max(s) \in 1 .. n /\ s \ {Max(s)} \in SUBSET (1 .. n) /\ Ids!Max(s) = Max(s)
  <2> HIDE DEF n
  <2> QED
    BY <1>1, <1>5, MaxOfPositions, SameMax
<1> DEFINE Eq(iter) == iter = [s \in SUBSET DOMAIN chars |->
              IF s = {} THEN Start ELSE Ids!DecodeChar(iter[s \ {Ids!Max(s)}], chars[Ids!Max(s)])]
<1>6. Eq(g)
  <2>1. ASSUME NEW s \in SUBSET (1 .. n)
        PROVE  g[s] = IF s = {} THEN Start ELSE Ids!DecodeChar(g[s \ {Ids!Max(s)}], chars[Ids!Max(s)])
    <3>1. CASE s = {}
      BY <1>4, <3>1 DEF Recursion
    <3>2. CASE s # {}
      <4>1. Max(s) \in 1 .. n /\ s \ {Max(s)} \in SUBSET (1 .. n) /\ Ids!Max(s) = Max(s)
        BY <1>5, <3>2
      <4>2. g[s] = step[Max(s)][g[s \ {Max(s)}]]
        BY <1>4, <3>2 DEF Recursion
      <4>3. g[s \ {Max(s)}] \in Decoding
        BY <1>4, <4>1
      <4> QED
        BY <3>2, <4>1, <4>2, <4>3
    <3> QED
      BY <3>1, <3>2
  <2> QED
    BY <1>1, <1>4, <2>1
<1>7. Eq(DecIter(chars))
  <2> HIDE DEF n, step
  <2> QED
    BY <1>6 DEF DecIter
<1> DEFINE iter == DecIter(chars)
<1>8. iter[{}] = Start
  <2>1. {} \in SUBSET DOMAIN chars
    OBVIOUS
  <2> HIDE DEF iter
  <2> QED
    BY <1>7, <2>1 DEF iter
<1>9. ASSUME NEW s \in SUBSET (1 .. n), s # {}, iter[s \ {Max(s)}] \in Decoding
      PROVE  iter[s] = step[Max(s)][iter[s \ {Max(s)}]]
  <2>1. Max(s) \in 1 .. n /\ Ids!Max(s) = Max(s)
    BY <1>5, <1>9
  <2>2. iter[s] = Ids!DecodeChar(iter[s \ {Max(s)}], chars[Max(s)])
    <3> HIDE DEF iter, n, step
    <3> QED
      BY <1>1, <1>7, <1>9, <2>1 DEF iter
  <2> HIDE DEF iter
  <2> QED
    BY <1>9, <2>1, <2>2
<1>10. PICK run : IsRun(run, n, Decoding, Start, step) /\ run[n] = iter[1 .. n]
  <2>0. n \in Nat
    BY <1>1
  <2>1. IsFold(iter, n, Decoding, Start, step)
    <3> HIDE DEF iter, n, step
    <3> QED
      BY <1>8, <1>9, Zenon DEF IsFold
  <2>2. step \in Steps(n, Decoding)
    <3> HIDE DEF step, n
    <3> QED
      BY <1>3 DEF Steps
  <2> HIDE DEF iter, n, step
  <2> QED
    BY <2>0, <1>2, <2>1, <2>2, RunOfFold, SMT
<1>11. \A k \in 1 .. n : run[k] = Ids!DecodeChar(run[k - 1], chars[k])
  <2>1. \A k \in 1 .. n : k - 1 \in 0 .. n
    BY <1>1
  <2> QED
    BY <1>10, <2>1 DEF IsRun
<1>12. Ids!DecodeBase32(chars) = DecIter(chars)[DOMAIN chars].out
  BY DEF Ids!DecodeBase32, Ids!FoldLeft, Ids!MapThenFoldSet, DecIter, Start
<1> QED
  BY <1>1, <1>10, <1>11, <1>12 DEF IsRun

\* What the decoder holds of a byte, and what it misses, when b bits of the
\* byte are still to be written.
Held(b, w) ==
  CASE b = 1 -> 2 * (w % 128) [] b = 2 -> 4 * (w % 64) [] b = 3 -> 8 * (w % 32) [] b = 4 -> 16 * (w % 16)
Missing(b, v) ==
  CASE b = 1 -> v % 2 [] b = 2 -> v % 4 [] b = 3 -> v % 8 [] b = 4 -> v % 16

\* The characters of a byte complete the byte before it, and leave what it
\* takes to complete this one.
LEMMA Sync ==
  ASSUME NEW v \in Nat, NEW w \in Nat, NEW x \in Byte, NEW b \in 0 .. 4,
         NEW c, c = Written(v, b, x)[1], NEW d, d = Written(v, b, x)[2],
         NEW w1, w1 = Shifted5(w, c), NEW w2, w2 = Shifted5(w1, d), NEW u, u = Shifted8(v, x)
  PROVE  /\ b = 0 => Held(3, w1) + Missing(3, u) = x
         /\ b = 1 => Read(w, 7, c) = Held(1, w) + Missing(1, v) /\ Held(4, w1) + Missing(4, u) = x
         /\ b = 2 => Read(w, 6, c) = Held(2, w) + Missing(2, v) /\ Read(w1, 3, d) = x
         /\ b = 3 => Read(w, 5, c) = Held(3, w) + Missing(3, v) /\ Held(1, w2) + Missing(1, u) = x
         /\ b = 4 => Read(w, 4, c) = Held(4, w) + Missing(4, v) /\ Held(2, w2) + Missing(2, u) = x
<1>0. x \in Nat /\ x <= 255
  BY SMT DEF Byte
<1>1. u = 256 * (v % 256) + x /\ w1 = 32 * (w % 2048) + c /\ w2 = 32 * (w1 % 2048) + d
  BY SMT DEF Shifted8, Shifted5
<1>2. ASSUME b = 0 PROVE Held(3, w1) + Missing(3, u) = x
  <2>1. c = x \div 8
    BY <1>2, SMT DEF Written
  <2>2. 8 * (w1 % 32) + (u % 8) = x
    BY <1>0, <1>1, <2>1, SMT
  <2> QED
    BY <2>2, SMT DEF Held, Missing
<1>3. ASSUME b = 1
      PROVE  Read(w, 7, c) = Held(1, w) + Missing(1, v) /\ Held(4, w1) + Missing(4, u) = x
  <2>1. c = 16 * (v % 2) + x \div 16
    BY <1>3, SMT DEF Written
  <2>2. 2 * (w % 128) + c \div 16 = 2 * (w % 128) + (v % 2)
    BY <1>0, <2>1, SMT
  <2>3. 16 * (w1 % 16) + (u % 16) = x
    BY <1>0, <1>1, <2>1, SMT
  <2> QED
    BY <2>2, <2>3, SMT DEF Held, Missing, Read
<1>4. ASSUME b = 2
      PROVE  Read(w, 6, c) = Held(2, w) + Missing(2, v) /\ Read(w1, 3, d) = x
  <2>1. c = 8 * (v % 4) + x \div 32 /\ d = x % 32
    BY <1>4, SMT DEF Written
  <2>2. 4 * (w % 64) + c \div 8 = 4 * (w % 64) + (v % 4)
    BY <1>0, <2>1, SMT
  <2>3. 32 * (w1 % 8) + d = x
    BY <1>0, <1>1, <2>1, SMT
  <2> QED
    BY <2>2, <2>3, SMT DEF Held, Missing, Read
<1>5. ASSUME b = 3
      PROVE  Read(w, 5, c) = Held(3, w) + Missing(3, v) /\ Held(1, w2) + Missing(1, u) = x
  <2>1. c = 4 * (v % 8) + x \div 64 /\ d = (x \div 2) % 32
    BY <1>5, SMT DEF Written
  <2>2. 8 * (w % 32) + c \div 4 = 8 * (w % 32) + (v % 8)
    BY <1>0, <2>1, SMT
  <2>3. w1 % 4 = x \div 64
    BY <1>0, <1>1, <2>1, SMT
  <2>4. w1 \in Nat /\ w2 % 128 = 32 * (w1 % 4) + d
    BY <1>0, <1>1, <2>1, SMT
  <2>5. 2 * (w2 % 128) + (u % 2) = x
    <3>1. u % 2 = x % 2
      BY <1>0, <1>1, SMT
    <3>2. 2 * (32 * (x \div 64) + d) + (x % 2) = x
      BY <1>0, <2>1, SMT
    <3> QED
      BY <2>3, <2>4, <3>1, <3>2, SMT
  <2> QED
    BY <2>2, <2>5, SMT DEF Held, Missing, Read
<1>6. ASSUME b = 4
      PROVE  Read(w, 4, c) = Held(4, w) + Missing(4, v) /\ Held(2, w2) + Missing(2, u) = x
  <2>1. c = 2 * (v % 16) + x \div 128 /\ d = (x \div 4) % 32
    BY <1>6, SMT DEF Written
  <2>2. 16 * (w % 16) + c \div 2 = 16 * (w % 16) + (v % 16)
    BY <1>0, <2>1, SMT
  <2>3. w1 % 2 = x \div 128
    BY <1>0, <1>1, <2>1, SMT
  <2>4. w1 \in Nat /\ w2 % 64 = 32 * (w1 % 2) + d
    BY <1>0, <1>1, <2>1, SMT
  <2>5. 4 * (w2 % 64) + (u % 4) = x
    <3>1. u % 4 = x % 4
      BY <1>0, <1>1, SMT
    <3>2. 4 * (32 * (x \div 128) + d) + (x % 4) = x
      BY <1>0, <2>1, SMT
    <3> QED
      BY <2>3, <2>4, <3>1, <3>2, SMT
  <2> QED
    BY <2>2, <2>5, SMT DEF Held, Missing, Read
<1> QED
  BY <1>2, <1>3, <1>4, <1>5, <1>6, Zenon

\* The bits that fill up the last character are dropped.
Filled(b, v) == (v * 2 ^ (5 - b)) % 32

\* The last character, padded, completes the last byte.
LEMMA SyncLast ==
  ASSUME NEW v \in Nat, NEW w \in Nat, NEW b \in 1 .. 4
  PROVE  /\ Filled(b, v) \in Ids!Char
         /\ Read(w, 8 - b, Filled(b, v)) = Held(b, w) + Missing(b, v)
<1> DEFINE c == Filled(b, v)
<1>1. b = 1 \/ b = 2 \/ b = 3 \/ b = 4
  BY SMT
<1>2. CASE b = 1
  <2>1. 2 ^ (5 - 1) = 16
    BY SMT
  <2>2. c = (v * 16) % 32
    BY <1>2, <2>1, SMT DEF Filled
  <2> HIDE DEF c
  <2>3. c \in 0 .. 31 /\ 2 * (w % 128) + c \div 16 = 2 * (w % 128) + (v % 2)
    BY <2>2, SMT
  <2>4. 8 - b = 7
    BY <1>2, SMT
  <2>5. Read(w, 7, c) = Held(1, w) + Missing(1, v)
    BY <2>3, SMT DEF Held, Missing, Read
  <2>6. c \in Ids!Char
    BY <2>3, SMT DEF Ids!Char
  <2> QED
    BY <1>2, <2>4, <2>5, <2>6, Zenon DEF c
<1>3. CASE b = 2
  <2>1. 2 ^ (5 - 2) = 8
    BY SMT
  <2>2. c = (v * 8) % 32
    BY <1>3, <2>1, SMT DEF Filled
  <2> HIDE DEF c
  <2>3. c \in 0 .. 31 /\ 4 * (w % 64) + c \div 8 = 4 * (w % 64) + (v % 4)
    BY <2>2, SMT
  <2>4. 8 - b = 6
    BY <1>3, SMT
  <2>5. Read(w, 6, c) = Held(2, w) + Missing(2, v)
    BY <2>3, SMT DEF Held, Missing, Read
  <2>6. c \in Ids!Char
    BY <2>3, SMT DEF Ids!Char
  <2> QED
    BY <1>3, <2>4, <2>5, <2>6, Zenon DEF c
<1>4. CASE b = 3
  <2>1. 2 ^ (5 - 3) = 4
    BY SMT
  <2>2. c = (v * 4) % 32
    BY <1>4, <2>1, SMT DEF Filled
  <2> HIDE DEF c
  <2>3. c \in 0 .. 31 /\ 8 * (w % 32) + c \div 4 = 8 * (w % 32) + (v % 8)
    BY <2>2, SMT
  <2>4. 8 - b = 5
    BY <1>4, SMT
  <2>5. Read(w, 5, c) = Held(3, w) + Missing(3, v)
    BY <2>3, SMT DEF Held, Missing, Read
  <2>6. c \in Ids!Char
    BY <2>3, SMT DEF Ids!Char
  <2> QED
    BY <1>4, <2>4, <2>5, <2>6, Zenon DEF c
<1>5. CASE b = 4
  <2>1. 2 ^ (5 - 4) = 2
    BY SMT
  <2>2. c = (v * 2) % 32
    BY <1>5, <2>1, SMT DEF Filled
  <2> HIDE DEF c
  <2>3. c \in 0 .. 31 /\ 16 * (w % 16) + c \div 2 = 16 * (w % 16) + (v % 16)
    BY <2>2, SMT
  <2>4. 8 - b = 4
    BY <1>5, SMT
  <2>5. Read(w, 4, c) = Held(4, w) + Missing(4, v)
    BY <2>3, SMT DEF Held, Missing, Read
  <2>6. c \in Ids!Char
    BY <2>3, SMT DEF Ids!Char
  <2> QED
    BY <1>5, <2>4, <2>5, <2>6, Zenon DEF c
<1> QED
  BY <1>1, <1>2, <1>3, <1>4, <1>5, Zenon

Starts(s, t) == Len(s) <= Len(t) /\ \A i \in 1 .. Len(s) : s[i] = t[i]
\* The first k bytes of a key.
FirstBytes(out, key, k) == Len(out) = k /\ \A i \in 1 .. k : out[i] = key[i]

\* The decoder has read a byte more.
LEMMA OneMoreByte ==
  ASSUME NEW key, NEW k \in Nat, NEW out \in Seq(Byte), FirstBytes(out, key, k),
         NEW y \in Byte, y = key[k + 1]
  PROVE  FirstBytes(Append(out, y), key, k + 1)
BY SMT DEF FirstBytes

LEMMA WrittenLength ==
  ASSUME NEW v, NEW b \in 0 .. 4, NEW x
  PROVE  Len(Written(v, b, x)) = IF b \in {0, 1} THEN 1 ELSE 2
<1>1. b = 0 \/ b = 1 \/ b = 2 \/ b = 3 \/ b = 4
  BY SMT
<1>2. CASE b = 0
  BY <1>2, SMT DEF Written
<1>3. CASE b = 1
  BY <1>3, SMT DEF Written
<1>4. CASE b = 2
  BY <1>4, SMT DEF Written
<1>5. CASE b = 3
  BY <1>5, SMT DEF Written
<1>6. CASE b = 4
  BY <1>6, SMT DEF Written
<1> QED
  BY <1>1, <1>2, <1>3, <1>4, <1>5, <1>6, Zenon

\* The encoder after k bytes and the decoder after the characters of these.
InStep(e, d, key, k) ==
  /\ 8 * k = 5 * Len(e.out) + e.bits
  /\ e.bits = 0 => d.bits = 0 /\ FirstBytes(d.out, key, k)
  /\ e.bits # 0 => /\ d.bits = 8 - e.bits
                   /\ FirstBytes(d.out, key, k - 1)
                   /\ key[k] = Held(e.bits, d.value) + Missing(e.bits, e.value)

\* The invariant of both loops together, one byte on.
LEMMA InStepNext ==
  ASSUME NEW key \in Seq(Byte), NEW k \in Nat, k + 1 <= Len(key),
         NEW e \in Encoding, NEW d \in Decoding, InStep(e, d, key, k),
         NEW W, W = Written(e.value, e.bits, key[k + 1]),
         NEW d1, d1 = Ids!DecodeChar(d, W[1]), NEW d2, d2 = Ids!DecodeChar(d1, W[2])
  PROVE  InStep(Ids!EncodeByte(e, key[k + 1]), IF Len(W) = 1 THEN d1 ELSE d2, key, k + 1)
<1> DEFINE v == e.value
           b == e.bits
           w == d.value
           x == key[k + 1]
           e1 == Ids!EncodeByte(e, x)
<1>1. /\ v \in Nat /\ b \in 0 .. 4 /\ e.out \in Seq(Ids!Char)
      /\ w \in Nat /\ d.bits \in 0 .. 7 /\ d.out \in Seq(Byte)
  BY Zenon DEF Encoding, Decoding
<1>2. x \in Byte /\ (k > 0 => key[k] \in Byte)
  BY SMT
<1>3. /\ W \in Seq(Ids!Char) /\ Len(W) = IF b \in {0, 1} THEN 1 ELSE 2
  <2> HIDE DEF x, v, b
  <2>1. W = Written(v, b, x)
    BY Zenon DEF v, b, x
  <2>2. Written(v, b, x) \in Seq(Ids!Char)
    BY <1>1, <1>2, WrittenType, Zenon
  <2>3. Len(Written(v, b, x)) = IF b \in {0, 1} THEN 1 ELSE 2
    BY <1>1, WrittenLength, Zenon
  <2> QED
    BY <2>2, <2>3, <2>1, Zenon
<1>4. e1 \in Encoding /\ e1.value = Shifted8(v, x) /\ e1.bits = (b + 8) % 5 /\ e1.out = e.out \o W
  <2> HIDE DEF x
  <2> QED
    BY <1>2, EncodeByteIs, Zenon DEF x
<1>5. W[1] \in Ids!Char /\ (b \notin {0, 1} => W[2] \in Ids!Char)
  BY <1>1, <1>3, SMT
<1>6. /\ d1 \in Decoding
      /\ d1.value = Shifted5(w, W[1])
      /\ d.bits < 3 => d1.bits = d.bits + 5 /\ d1.out = d.out
      /\ d.bits >= 3 => d1.bits = d.bits - 3 /\ d1.out = Append(d.out, Read(w, d.bits, W[1]))
  BY <1>5, DecodeCharIs, Zenon
<1>7. b \notin {0, 1} =>
      /\ d2 \in Decoding
      /\ d2.value = Shifted5(d1.value, W[2])
      /\ d1.bits < 3 => d2.bits = d1.bits + 5 /\ d2.out = d1.out
      /\ d1.bits >= 3 => d2.bits = d1.bits - 3 /\ d2.out = Append(d1.out, Read(d1.value, d1.bits, W[2]))
  BY <1>5, <1>6, DecodeCharIs, Zenon
<1>8. d1.out \in Seq(Byte)
  BY <1>6, Zenon DEF Decoding
<1> DEFINE w1 == d1.value
           w2 == Shifted5(d1.value, W[2])
           u == Shifted8(v, x)
           c == W[1]
           y == W[2]
<1>9. /\ b = 0 => Held(3, w1) + Missing(3, u) = x
      /\ b = 1 => Read(w, 7, c) = Held(1, w) + Missing(1, v) /\ Held(4, w1) + Missing(4, u) = x
      /\ b = 2 => Read(w, 6, c) = Held(2, w) + Missing(2, v) /\ Read(w1, 3, y) = x
      /\ b = 3 => Read(w, 5, c) = Held(3, w) + Missing(3, v) /\ Held(1, w2) + Missing(1, u) = x
      /\ b = 4 => Read(w, 4, c) = Held(4, w) + Missing(4, v) /\ Held(2, w2) + Missing(2, u) = x
  <2>1. c = Written(v, b, x)[1] /\ y = Written(v, b, x)[2]
    BY Zenon
  <2>2. w1 = Shifted5(w, c) /\ w2 = Shifted5(w1, y)
    BY <1>6, Zenon
  <2>3. u = Shifted8(v, x)
    OBVIOUS
  <2> HIDE DEF v, b, w, x, w1, w2, u, c, y
  <2> QED
    BY <1>1, <1>2, <2>1, <2>2, <2>3, Sync
<1>10. /\ 8 * k = 5 * Len(e.out) + b
       /\ b = 0 => d.bits = 0 /\ FirstBytes(d.out, key, k)
       /\ b # 0 => /\ d.bits = 8 - b
                   /\ FirstBytes(d.out, key, k - 1)
                   /\ key[k] = Held(b, w) + Missing(b, v)
  BY Zenon DEF InStep
<1>12. b # 0 => k > 0 /\ k - 1 \in Nat
  BY <1>1, <1>10, SMT
<1>13. b = 0 \/ b = 1 \/ b = 2 \/ b = 3 \/ b = 4
  BY <1>1, SMT
<1> HIDE DEF v, b, w, x, w1, w2, u, c, y, e1
<1>11. (k + 1) - 1 = k /\ (k - 1) + 1 = k
  BY SMT
<1>16. Len(e1.out) = Len(e.out) + Len(W)
  <2> DEFINE s == e.out
  <2>1. s \in Seq(Ids!Char)
    BY <1>1, Zenon
  <2> HIDE DEF s
  <2>2. Len(s \o W) = Len(s) + Len(W)
    BY <1>3, <2>1, SMT
  <2> QED
    BY <1>4, <2>2, Zenon DEF s
<1>17. ASSUME NEW m \in Nat, Len(W) = m, e1.bits \in Nat, 8 = 5 * m + e1.bits - b
       PROVE  8 * (k + 1) = 5 * Len(e1.out) + e1.bits
  <2> DEFINE n == Len(e.out)
             a == e1.bits
  <2>1. n \in Nat
    BY <1>1, SMT
  <2>2. 8 * k = 5 * n + b
    BY <1>10, Zenon
  <2> HIDE DEF n
  <2>3. 8 = 5 * m + a - b /\ a \in Nat
    BY <1>17, Zenon
  <2> HIDE DEF a
  <2>4. 8 * (k + 1) = 5 * (n + m) + a
    BY <1>1, <2>1, <2>2, <2>3, SMT
  <2>5. Len(e1.out) = n + m
    BY <1>16, <1>17, Zenon DEF n
  <2> QED
    BY <2>4, <2>5, Zenon DEF a
<1>14. Len(W) = 1 => InStep(e1, d1, key, k + 1)
  <2>1. SUFFICES ASSUME Len(W) = 1 PROVE InStep(e1, d1, key, k + 1)
    BY Zenon
  <2>2. b = 0 \/ b = 1
    BY <1>1, <1>3, <2>1, SMT
  <2>3. CASE b = 0
    <3>1. d1.bits = 5 /\ FirstBytes(d1.out, key, k) /\ e1.bits = 3 /\ Len(W) = 1
      BY <1>1, <1>3, <1>4, <1>6, <1>10, <2>3, SMT
    <3>2. 8 * (k + 1) = 5 * Len(e1.out) + e1.bits
      BY <1>17, <2>2, <2>3, <3>1, SMT
    <3>3. d1.bits = 8 - e1.bits /\ FirstBytes(d1.out, key, (k + 1) - 1) /\ e1.bits # 0
      BY <1>11, <3>1, SMT
    <3>4. key[k + 1] = Held(e1.bits, d1.value) + Missing(e1.bits, e1.value)
      BY <1>4, <1>7, <1>9, <2>3, <3>1, Zenon DEF w1, w2, u, x, y
    <3> QED
      BY <3>2, <3>3, <3>4, Zenon DEF InStep
  <2>4. CASE b = 1
    <3>7. d1.out = Append(d.out, Read(w, 7, c)) /\ d1.bits = 4
      BY <1>6, <1>10, <2>4, SMT DEF c
    <3>8. Read(w, 7, c) = key[k] /\ FirstBytes(d.out, key, k - 1)
      BY <1>9, <1>10, <2>4, SMT
    <3>9. FirstBytes(d1.out, key, k)
      <4>1. k - 1 \in Nat /\ (k - 1) + 1 = k /\ key[k] \in Byte
        BY <1>2, <1>11, <1>12, <2>4, SMT
      <4> DEFINE j == k - 1
      <4>2. j \in Nat /\ j + 1 = k /\ key[j + 1] = key[k] /\ FirstBytes(d.out, key, j)
        BY <3>8, <4>1, Zenon
      <4> HIDE DEF j
      <4>3. FirstBytes(Append(d.out, key[k]), key, j + 1)
        BY <1>1, <4>1, <4>2, OneMoreByte, Zenon
      <4> QED
        BY <3>7, <3>8, <4>2, <4>3, Zenon
    <3>1. d1.bits = 4 /\ FirstBytes(d1.out, key, k) /\ e1.bits = 4 /\ Len(W) = 1
      BY <1>1, <1>3, <1>4, <2>4, <3>7, <3>9, SMT
    <3>2. 8 * (k + 1) = 5 * Len(e1.out) + e1.bits
      BY <1>17, <2>2, <2>4, <3>1, SMT
    <3>3. d1.bits = 8 - e1.bits /\ FirstBytes(d1.out, key, (k + 1) - 1) /\ e1.bits # 0
      BY <1>11, <3>1, SMT
    <3>4. key[k + 1] = Held(e1.bits, d1.value) + Missing(e1.bits, e1.value)
      BY <1>4, <1>7, <1>9, <2>4, <3>1, Zenon DEF w1, w2, u, x, y
    <3> QED
      BY <3>2, <3>3, <3>4, Zenon DEF InStep
  <2> QED
    BY <2>2, <2>3, <2>4, Zenon
<1>15. Len(W) # 1 => InStep(e1, d2, key, k + 1)
  <2>1. SUFFICES ASSUME Len(W) # 1 PROVE InStep(e1, d2, key, k + 1)
    BY Zenon
  <2>2. (b = 2 \/ b = 3 \/ b = 4) /\ b \notin {0, 1} /\ Len(W) = 2
    BY <1>1, <1>3, <2>1, SMT
  <2>3. CASE b = 2
    <3>7. d1.out = Append(d.out, Read(w, 6, c)) /\ d1.bits = 3
      BY <1>6, <1>10, <2>3, SMT DEF c
    <3>8. Read(w, 6, c) = key[k] /\ FirstBytes(d.out, key, k - 1)
      BY <1>9, <1>10, <2>3, SMT
    <3>9. FirstBytes(d1.out, key, k)
      <4>1. k - 1 \in Nat /\ (k - 1) + 1 = k /\ key[k] \in Byte
        BY <1>2, <1>11, <1>12, <2>3, SMT
      <4> DEFINE j == k - 1
      <4>2. j \in Nat /\ j + 1 = k /\ key[j + 1] = key[k] /\ FirstBytes(d.out, key, j)
        BY <3>8, <4>1, Zenon
      <4> HIDE DEF j
      <4>3. FirstBytes(Append(d.out, key[k]), key, j + 1)
        BY <1>1, <4>1, <4>2, OneMoreByte, Zenon
      <4> QED
        BY <3>7, <3>8, <4>2, <4>3, Zenon
    <3>1. d2.bits = 0 /\ d2.out = Append(d1.out, x) /\ e1.bits = 0
      <4>1. d1.bits >= 3 /\ d1.bits - 3 = 0 /\ d1.bits = 3
        BY <3>7, SMT
      <4>2. d2.bits = 0 /\ d2.out = Append(d1.out, Read(w1, 3, y))
        BY <1>7, <2>2, <4>1, Zenon DEF w1, y
      <4>3. e1.bits = 0
        BY <1>4, <2>3, SMT
      <4> QED
        BY <1>9, <2>3, <4>2, <4>3, Zenon
    <3>2. 8 * (k + 1) = 5 * Len(e1.out) + e1.bits
      BY <1>17, <2>2, <2>3, <3>1, SMT
    <3>3. FirstBytes(d2.out, key, k + 1)
      <4>1. x = key[k + 1]
        BY Zenon DEF x
      <4> QED
        BY <1>2, <1>8, <3>9, <3>1, <4>1, OneMoreByte, Zenon
    <3> QED
      BY <3>1, <3>2, <3>3, Zenon DEF InStep
  <2>4. CASE b = 3
    <3>7. d1.out = Append(d.out, Read(w, 5, c)) /\ d1.bits = 2
      BY <1>6, <1>10, <2>4, SMT DEF c
    <3>8. Read(w, 5, c) = key[k] /\ FirstBytes(d.out, key, k - 1)
      BY <1>9, <1>10, <2>4, SMT
    <3>9. FirstBytes(d1.out, key, k)
      <4>1. k - 1 \in Nat /\ (k - 1) + 1 = k /\ key[k] \in Byte
        BY <1>2, <1>11, <1>12, <2>4, SMT
      <4> DEFINE j == k - 1
      <4>2. j \in Nat /\ j + 1 = k /\ key[j + 1] = key[k] /\ FirstBytes(d.out, key, j)
        BY <3>8, <4>1, Zenon
      <4> HIDE DEF j
      <4>3. FirstBytes(Append(d.out, key[k]), key, j + 1)
        BY <1>1, <4>1, <4>2, OneMoreByte, Zenon
      <4> QED
        BY <3>7, <3>8, <4>2, <4>3, Zenon
    <3>1. d2.bits = 7 /\ FirstBytes(d2.out, key, k) /\ e1.bits = 1 /\ Len(W) = 2
      <4>1. d1.bits < 3 /\ d1.bits + 5 = 7
        BY <3>7, SMT
      <4>2. d2.bits = 7 /\ d2.out = d1.out
        BY <1>7, <2>2, <4>1, Zenon
      <4>3. e1.bits = 1
        BY <1>4, <2>4, SMT
      <4> QED
        BY <2>2, <3>9, <4>2, <4>3, Zenon
    <3>2. 8 * (k + 1) = 5 * Len(e1.out) + e1.bits
      BY <1>17, <2>2, <2>4, <3>1, SMT
    <3>3. d2.bits = 8 - e1.bits /\ FirstBytes(d2.out, key, (k + 1) - 1) /\ e1.bits # 0
      BY <1>11, <3>1, SMT
    <3>4. key[k + 1] = Held(e1.bits, d2.value) + Missing(e1.bits, e1.value)
      BY <1>4, <1>7, <1>9, <2>2, <2>4, <3>1, Zenon DEF w1, w2, u, x, y
    <3> QED
      BY <3>2, <3>3, <3>4, Zenon DEF InStep
  <2>5. CASE b = 4
    <3>7. d1.out = Append(d.out, Read(w, 4, c)) /\ d1.bits = 1
      BY <1>6, <1>10, <2>5, SMT DEF c
    <3>8. Read(w, 4, c) = key[k] /\ FirstBytes(d.out, key, k - 1)
      BY <1>9, <1>10, <2>5, SMT
    <3>9. FirstBytes(d1.out, key, k)
      <4>1. k - 1 \in Nat /\ (k - 1) + 1 = k /\ key[k] \in Byte
        BY <1>2, <1>11, <1>12, <2>5, SMT
      <4> DEFINE j == k - 1
      <4>2. j \in Nat /\ j + 1 = k /\ key[j + 1] = key[k] /\ FirstBytes(d.out, key, j)
        BY <3>8, <4>1, Zenon
      <4> HIDE DEF j
      <4>3. FirstBytes(Append(d.out, key[k]), key, j + 1)
        BY <1>1, <4>1, <4>2, OneMoreByte, Zenon
      <4> QED
        BY <3>7, <3>8, <4>2, <4>3, Zenon
    <3>1. d2.bits = 6 /\ FirstBytes(d2.out, key, k) /\ e1.bits = 2 /\ Len(W) = 2
      <4>1. d1.bits < 3 /\ d1.bits + 5 = 6
        BY <3>7, SMT
      <4>2. d2.bits = 6 /\ d2.out = d1.out
        BY <1>7, <2>2, <4>1, Zenon
      <4>3. e1.bits = 2
        BY <1>4, <2>5, SMT
      <4> QED
        BY <2>2, <3>9, <4>2, <4>3, Zenon
    <3>2. 8 * (k + 1) = 5 * Len(e1.out) + e1.bits
      BY <1>17, <2>2, <2>5, <3>1, SMT
    <3>3. d2.bits = 8 - e1.bits /\ FirstBytes(d2.out, key, (k + 1) - 1) /\ e1.bits # 0
      BY <1>11, <3>1, SMT
    <3>4. key[k + 1] = Held(e1.bits, d2.value) + Missing(e1.bits, e1.value)
      BY <1>4, <1>7, <1>9, <2>2, <2>5, <3>1, Zenon DEF w1, w2, u, x, y
    <3> QED
      BY <3>2, <3>3, <3>4, Zenon DEF InStep
  <2> QED
    BY <2>2, <2>3, <2>4, <2>5, Zenon
<1> QED
  BY <1>14, <1>15, Zenon DEF e1, x

LEMMA StartsInTurn ==
  ASSUME NEW s, NEW t, NEW u, Len(s) \in Nat, Len(t) \in Nat, Len(u) \in Nat,
         Starts(s, t), Starts(t, u)
  PROVE  Starts(s, u)
BY SMT DEF Starts

LEMMA StartsLonger ==
  ASSUME NEW A, NEW s \in Seq(A), NEW t \in Seq(A)
  PROVE  /\ Starts(s, s \o t)
         /\ Len(s \o t) = Len(s) + Len(t)
         /\ \A i \in 1 .. Len(t) : (s \o t)[Len(s) + i] = t[i]
BY SMT DEF Starts

\* What was written is never taken back.
LEMMA StartsWithRun ==
  ASSUME NEW n \in Nat, NEW E, NEW C, E \in [0 .. n -> Encoding], C \in Seq(Ids!Char),
         \A k \in 0 .. n - 1 : Starts(E[k].out, E[k + 1].out),
         Starts(E[n].out, C)
  PROVE  \A k \in 0 .. n : Starts(E[k].out, C)
<1> DEFINE S == {m \in Nat : m <= n => Starts(E[n - m].out, C)}
<1>1. \A k \in 0 .. n : Len(E[k].out) \in Nat
  <2>1. \A k \in 0 .. n : E[k].out \in Seq(Ids!Char)
    BY Zenon DEF Encoding
  <2> QED
    BY <2>1
<1>2. Len(C) \in Nat
  OBVIOUS
<1>3. 0 \in S
  OBVIOUS
<1>4. ASSUME NEW m \in Nat, m \in S PROVE m + 1 \in S
  <2>1. SUFFICES ASSUME m + 1 <= n PROVE Starts(E[n - (m + 1)].out, C)
    OBVIOUS
  <2> DEFINE k == n - (m + 1)
  <2>2. k \in 0 .. n - 1 /\ k + 1 = n - m /\ k + 1 \in 0 .. n /\ k \in 0 .. n /\ m <= n
    BY <2>1
  <2>3. Starts(E[n - m].out, C)
    BY <1>4, <2>2
  <2> HIDE DEF k
  <2>4. Starts(E[k].out, E[k + 1].out) /\ Starts(E[k + 1].out, C)
    BY <2>2, <2>3
  <2>5. Len(E[k].out) \in Nat /\ Len(E[k + 1].out) \in Nat
    BY <1>1, <2>2
  <2> QED
    BY <1>2, <2>4, <2>5, StartsInTurn DEF k
<1>5. Nat \subseteq S
  <2> HIDE DEF S
  <2> QED
    BY <1>3, <1>4, InductionOnSet
<1>6. ASSUME NEW k \in 0 .. n PROVE Starts(E[k].out, C)
  <2>1. n - k \in Nat /\ n - k <= n /\ n - (n - k) = k
    OBVIOUS
  <2>2. n - k \in S
    BY <1>5, <2>1
  <2> QED
    BY <2>1, <2>2
<1> QED
  BY <1>6

LEMMA PaddedIs ==
  ASSUME NEW e \in Encoding
  PROVE  /\ Padded(e) \in Seq(Ids!Char)
         /\ Starts(e.out, Padded(e))
         /\ e.bits = 0 => Padded(e) = e.out
         /\ e.bits # 0 => /\ Len(Padded(e)) = Len(e.out) + 1
                          /\ Padded(e)[Len(e.out) + 1] = Filled(e.bits, e.value)
<1> DEFINE v == e.value
           b == e.bits
           s == e.out
<1>1. v \in Nat /\ b \in 0 .. 4 /\ s \in Seq(Ids!Char)
  BY Zenon DEF Encoding
<1>2. Padded(e) = IF b = 0 THEN s ELSE Append(s, Filled(b, v))
  BY SMT DEF Padded, Filled
<1> HIDE DEF v, b, s
<1>3. b # 0 => Filled(b, v) \in Ids!Char
  <2>1. b # 0 => b \in 1 .. 4
    BY <1>1, SMT
  <2>2. 0 \in Nat
    BY SMT
  <2> QED
    BY <1>1, <2>1, <2>2, SyncLast, Zenon
<1>4. CASE b = 0
  <2>1. Padded(e) = s
    BY <1>2, <1>4, Zenon
  <2>2. Starts(s, s)
    BY <1>1, SMT DEF Starts
  <2> QED
    BY <1>1, <1>4, <2>1, <2>2, Zenon DEF s, b
<1>5. CASE b # 0
  <2> DEFINE f == Filled(b, v)
  <2>1. Padded(e) = Append(s, f) /\ f \in Ids!Char
    BY <1>2, <1>3, <1>5, Zenon
  <2> HIDE DEF f
  <2>2. /\ Append(s, f) \in Seq(Ids!Char) /\ Starts(s, Append(s, f))
        /\ Len(Append(s, f)) = Len(s) + 1 /\ Append(s, f)[Len(s) + 1] = f
    BY <1>1, <2>1, SMT DEF Starts
  <2> QED
    BY <1>5, <2>1, <2>2, Zenon DEF s, b, f, v
<1> QED
  BY <1>4, <1>5, Zenon

\* Every key is decoded from its own characters, of which there are as many as
\* the decoder expects.
LEMMA Base32RoundTrip ==
  ASSUME NEW key \in Seq(Byte)
  PROVE  /\ Ids!EncodeBase32(key) \in Seq(Ids!Char)
         /\ 5 * Len(Ids!EncodeBase32(key)) \in 8 * Len(key) .. 8 * Len(key) + 4
         /\ Ids!DecodeBase32(Ids!EncodeBase32(key)) = key
<1> DEFINE n == Len(key)
           C == Ids!EncodeBase32(key)
<1>0. n \in Nat /\ DOMAIN key = 1 .. n
  OBVIOUS
<1>1. PICK E \in [0 .. n -> Encoding] :
        /\ E[0] = Start
        /\ \A k \in 1 .. n : E[k] = Ids!EncodeByte(E[k - 1], key[k])
        /\ C = Padded(E[n])
  BY EncodeRuns, Zenon
<1>2. E[n] \in Encoding
  BY <1>0
<1>3. C \in Seq(Ids!Char) /\ Starts(E[n].out, C)
  BY <1>1, <1>2, PaddedIs, Zenon
<1>4. ASSUME NEW k \in Nat, k + 1 <= n
      PROVE  /\ k \in 0 .. n /\ k + 1 \in 0 .. n /\ key[k + 1] \in Byte
             /\ E[k + 1] = Ids!EncodeByte(E[k], key[k + 1])
             /\ E[k + 1].out = E[k].out \o Written(E[k].value, E[k].bits, key[k + 1])
             /\ E[k].out \in Seq(Ids!Char)
             /\ Written(E[k].value, E[k].bits, key[k + 1]) \in Seq(Ids!Char)
  <2>1. k \in 0 .. n /\ k + 1 \in 0 .. n /\ key[k + 1] \in Byte /\ k + 1 \in 1 .. n /\ (k + 1) - 1 = k
    BY <1>4, SMT
  <2>2. E[k] \in Encoding
    BY <2>1
  <2>3. E[k].value \in Nat /\ E[k].bits \in 0 .. 4 /\ E[k].out \in Seq(Ids!Char)
    BY <2>2, Zenon DEF Encoding
  <2>4. E[k + 1] = Ids!EncodeByte(E[k], key[k + 1])
    <3> HIDE DEF n
    <3>1. \A j \in 1 .. n : E[j] = Ids!EncodeByte(E[j - 1], key[j])
      BY <1>1, Zenon
    <3> QED
      BY <2>1, <3>1, Zenon
  <2>5. E[k + 1].out = E[k].out \o Written(E[k].value, E[k].bits, key[k + 1])
    BY <2>1, <2>2, <2>4, EncodeByteIs, Zenon
  <2>6. Written(E[k].value, E[k].bits, key[k + 1]) \in Seq(Ids!Char)
    BY <2>1, <2>3, WrittenType, Zenon
  <2> QED
    BY <2>1, <2>3, <2>4, <2>5, <2>6, Zenon
<1>5. \A k \in 0 .. n : Starts(E[k].out, C)
  <2>1. ASSUME NEW k \in 0 .. n - 1 PROVE Starts(E[k].out, E[k + 1].out)
    <3>1. k \in Nat /\ k + 1 <= n
      BY <1>0
    <3> DEFINE s == E[k].out
               t == Written(E[k].value, E[k].bits, key[k + 1])
    <3>2. s \in Seq(Ids!Char) /\ t \in Seq(Ids!Char) /\ E[k + 1].out = s \o t
      BY <1>4, <3>1, Zenon
    <3> HIDE DEF s, t
    <3>3. Starts(s, s \o t)
      BY <3>2, StartsLonger
    <3> QED
      BY <3>2, <3>3, Zenon DEF s
  <2> HIDE DEF C, n
  <2> QED
    BY <1>0, <1>3, <2>1, StartsWithRun
<1>6. PICK D \in [0 .. Len(C) -> Decoding] :
        /\ D[0] = Start
        /\ \A j \in 1 .. Len(C) : D[j] = Ids!DecodeChar(D[j - 1], C[j])
        /\ Ids!DecodeBase32(C) = D[Len(C)].out
  <2> HIDE DEF C
  <2> QED
    BY <1>3, DecodeRuns, Zenon
<1> HIDE DEF C
<1>7. Len(C) \in Nat
  BY <1>3
<1> DEFINE In(k) == InStep(E[k], D[Len(E[k].out)], key, k)
           S == {k \in Nat : k <= n => In(k)}
<1>8. 0 \in S
  <2>1. E[0].out = <<>> /\ E[0].bits = 0 /\ D[0].bits = 0 /\ D[0].out = <<>>
    BY <1>1, <1>6, SMT DEF Start
  <2>2. Len(E[0].out) = 0 /\ Len(D[0].out) = 0
    BY <2>1, SMT
  <2>3. FirstBytes(D[0].out, key, 0)
    BY <2>2, SMT DEF FirstBytes
  <2>4. In(0)
    BY <2>1, <2>2, <2>3, SMT DEF InStep
  <2> HIDE DEF In
  <2> QED
    BY <2>4
<1>9. ASSUME NEW k \in Nat, k \in S PROVE k + 1 \in S
  <2>1. SUFFICES ASSUME k + 1 <= n PROVE In(k + 1)
    <3> HIDE DEF In
    <3> QED
      BY SMT
  <2>2. In(k)
    <3>1. k <= n
      BY <1>0, <2>1
    <3> HIDE DEF In
    <3> QED
      BY <1>9, <3>1
  <2> DEFINE e == E[k]
             W == Written(E[k].value, E[k].bits, key[k + 1])
             L == Len(E[k].out)
             d == D[L]
             d1 == Ids!DecodeChar(d, W[1])
             d2 == Ids!DecodeChar(d1, W[2])
  <2>3. /\ k \in 0 .. n /\ k + 1 \in 0 .. n /\ key[k + 1] \in Byte
        /\ E[k + 1] = Ids!EncodeByte(e, key[k + 1])
        /\ E[k + 1].out = E[k].out \o W
        /\ E[k].out \in Seq(Ids!Char) /\ W \in Seq(Ids!Char)
    BY <1>4, <2>1, Zenon
  <2>4. e \in Encoding
    BY <2>3
  <2>5. Len(W) = 1 \/ Len(W) = 2
    <3> DEFINE v == E[k].value
               b == E[k].bits
               x == key[k + 1]
    <3>1. b \in 0 .. 4
      BY <2>4, Zenon DEF Encoding
    <3>2. W = Written(v, b, x)
      BY Zenon
    <3> HIDE DEF v, b, x, W
    <3>3. Len(Written(v, b, x)) = IF b \in {0, 1} THEN 1 ELSE 2
      BY <3>1, WrittenLength, Zenon
    <3> QED
      BY <3>2, <3>3, Zenon
  <2>6. /\ L \in Nat /\ Len(E[k + 1].out) = L + Len(W)
        /\ \A i \in 1 .. Len(W) : E[k + 1].out[L + i] = W[i]
    <3>1. L \in Nat
      BY <2>3, SMT
    <3> DEFINE s == E[k].out
    <3>2. s \in Seq(Ids!Char) /\ W \in Seq(Ids!Char) /\ E[k + 1].out = s \o W
      BY <2>3, Zenon
    <3> HIDE DEF s, W
    <3>3. Len(s \o W) = Len(s) + Len(W) /\ \A i \in 1 .. Len(W) : (s \o W)[Len(s) + i] = W[i]
      BY <3>2, StartsLonger
    <3> QED
      BY <3>1, <3>2, <3>3, Zenon DEF s
  <2>7. /\ L + Len(W) <= Len(C)
        /\ \A i \in 1 .. Len(W) : C[L + i] = W[i]
    <3>1. Starts(E[k + 1].out, C)
      BY <1>5, <2>3, Zenon
    <3> DEFINE s == E[k + 1].out
    <3> HIDE DEF L, W, s
    <3>2. Len(s) = L + Len(W) /\ Starts(s, C) /\ (\A i \in 1 .. Len(W) : s[L + i] = W[i])
      BY <2>6, <3>1, Zenon DEF s
    <3>3. L \in Nat /\ Len(W) \in Nat
      BY <2>3, <2>6, SMT
    <3> QED
      BY <3>2, <3>3, SMT DEF Starts
  <2>8. d \in Decoding /\ D[L + 1] = d1
    <3> HIDE DEF L, W
    <3>1. L \in 0 .. Len(C) /\ L + 1 \in 1 .. Len(C) /\ (L + 1) - 1 = L /\ C[L + 1] = W[1]
      BY <1>7, <2>5, <2>6, <2>7, SMT
    <3> QED
      BY <1>6, <3>1, Zenon
  <2>9. Len(W) = 2 => D[L + 2] = d2
    <3> SUFFICES ASSUME Len(W) = 2 PROVE D[L + 2] = d2
      BY Zenon
    <3> HIDE DEF L, W, d1
    <3>1. L + 2 \in 1 .. Len(C) /\ (L + 2) - 1 = L + 1 /\ C[L + 2] = W[2]
      BY <1>7, <2>6, <2>7, SMT
    <3> QED
      BY <1>6, <2>8, <3>1, Zenon
  <2>10. InStep(e, d, key, k)
    BY <2>2, Zenon
  <2>11. InStep(Ids!EncodeByte(e, key[k + 1]), IF Len(W) = 1 THEN d1 ELSE d2, key, k + 1)
    <3>1. W = Written(e.value, e.bits, key[k + 1])
      BY Zenon
    <3>2. k + 1 <= Len(key)
      BY <2>1
    <3> HIDE DEF e, d, W
    <3>3. d1 = Ids!DecodeChar(d, W[1])
      BY Zenon
    <3>4. d2 = Ids!DecodeChar(d1, W[2])
      BY Zenon
    <3> HIDE DEF d1, d2
    <3> QED
      BY <2>4, <2>8, <2>10, <3>1, <3>2, <3>3, <3>4, InStepNext
  <2>12. D[Len(E[k + 1].out)] = IF Len(W) = 1 THEN d1 ELSE d2
    <3>1. CASE Len(W) = 1
      BY <2>6, <2>8, <3>1, Zenon
    <3>2. CASE Len(W) = 2
      <4>1. Len(W) # 1
        BY <3>2, SMT
      <4> QED
        BY <2>6, <2>9, <3>2, <4>1, Zenon
    <3> QED
      BY <2>5, <3>1, <3>2, Zenon
  <2> QED
    BY <2>3, <2>11, <2>12, Zenon
<1>10. In(n)
  <2>1. Nat \subseteq S
    <3> HIDE DEF S
    <3> QED
      BY <1>8, <1>9, InductionOnSet
  <2>2. n \in S
    <3> HIDE DEF S
    <3> QED
      BY <1>0, <2>1
  <2> HIDE DEF In
  <2> QED
    BY <1>0, <2>2
<1> DEFINE e == E[n]
           L == Len(E[n].out)
           d == D[L]
<1>11. /\ e.value \in Nat /\ e.bits \in 0 .. 4 /\ e.out \in Seq(Ids!Char)
  BY <1>2, Zenon DEF Encoding
<1>12. L \in Nat /\ InStep(e, d, key, n)
  BY <1>10, <1>11, SMT
<1>13. L <= Len(C)
  BY <1>3, <1>12, SMT DEF Starts
<1>14. d \in Decoding
  BY <1>7, <1>12, <1>13, SMT
<1>15. /\ e.bits = 0 => C = e.out
       /\ e.bits # 0 => Len(C) = L + 1 /\ C[L + 1] = Filled(e.bits, e.value)
  BY <1>1, <1>2, PaddedIs, Zenon
<1>16. 5 * Len(C) \in 8 * n .. 8 * n + 4
  <2>1. 8 * n = 5 * L + e.bits
    BY <1>12, Zenon DEF InStep
  <2> DEFINE b == e.bits
  <2>2. b \in 0 .. 4 /\ 8 * n = 5 * L + b /\ (b = 0 => Len(C) = L) /\ (b # 0 => Len(C) = L + 1)
    BY <1>11, <1>15, <2>1, Zenon
  <2> HIDE DEF b, L, n
  <2> QED
    BY <1>0, <1>7, <1>12, <2>2, SMT
<1>17. FirstBytes(Ids!DecodeBase32(C), key, n)
  <2>1. CASE e.bits = 0
    <3>1. FirstBytes(d.out, key, n) /\ Len(C) = L
      BY <1>12, <1>15, <2>1, Zenon DEF InStep
    <3> QED
      BY <1>6, <3>1, Zenon
  <2>2. CASE e.bits # 0
    <3>1. d.bits = 8 - e.bits /\ FirstBytes(d.out, key, n - 1)
          /\ key[n] = Held(e.bits, d.value) + Missing(e.bits, e.value) /\ 8 * n = 5 * L + e.bits
      BY <1>12, <2>2, Zenon DEF InStep
    <3>2. d.value \in Nat /\ d.bits \in 0 .. 7 /\ d.out \in Seq(Byte)
      BY <1>14, Zenon DEF Decoding
    <3> DEFINE b == e.bits
               v == e.value
               w == d.value
               c == Filled(b, v)
    <3>3. b \in 1 .. 4 /\ v \in Nat /\ w \in Nat /\ b # 0
      BY <1>11, <2>2, <3>2, SMT
    <3>4. c \in Ids!Char /\ Read(w, 8 - b, c) = Held(b, w) + Missing(b, v)
      <4> HIDE DEF b, v, w
      <4> QED
        BY <3>3, SyncLast, Zenon
    <3>5. D[L + 1] = Ids!DecodeChar(d, c)
      <4>1. C[L + 1] = c /\ Len(C) = L + 1
        BY <1>15, <2>2, Zenon
      <4>2. L + 1 \in 1 .. Len(C) /\ (L + 1) - 1 = L
        BY <1>12, <4>1, SMT
      <4> HIDE DEF c, L
      <4> QED
        BY <1>6, <4>1, <4>2, Zenon
    <3>6. d.bits >= 3 /\ d.bits = 8 - b
      BY <3>1, <3>3, SMT
    <3>7. Ids!DecodeChar(d, c).out = Append(d.out, key[n])
      <4>1. Ids!DecodeChar(d, c).out = Append(d.out, Read(d.value, d.bits, c))
        BY <1>14, <3>4, <3>6, DecodeCharIs, Zenon
      <4> QED
        BY <3>1, <3>4, <3>6, <4>1, Zenon
    <3>8. n - 1 \in Nat /\ (n - 1) + 1 = n /\ key[n] \in Byte
      <4>1. n > 0
        <5> HIDE DEF n, b, L
        <5>1. 8 * n = 5 * L + b
          BY <3>1, Zenon DEF b
        <5> QED
          BY <1>0, <1>12, <3>3, <5>1, SMT
      <4> QED
        BY <1>0, <4>1, SMT
    <3>9. FirstBytes(Append(d.out, key[n]), key, n)
      <4> DEFINE j == n - 1
      <4>1. j \in Nat /\ j + 1 = n /\ FirstBytes(d.out, key, j) /\ key[n] = key[j + 1]
        BY <3>1, <3>8, Zenon
      <4> HIDE DEF j, n, d
      <4>2. FirstBytes(Append(d.out, key[n]), key, j + 1)
        BY <3>2, <3>8, <4>1, OneMoreByte, Zenon
      <4> QED
        BY <4>1, <4>2, Zenon
    <3>10. Ids!DecodeBase32(C) = D[L + 1].out
      BY <1>6, <1>15, <2>2, Zenon
    <3> QED
      BY <3>5, <3>7, <3>9, <3>10, Zenon
  <2> QED
    BY <2>1, <2>2, Zenon
<1>18. Ids!DecodeBase32(C) \in Seq(Byte)
  <2>1. D[Len(C)] \in Decoding
    BY <1>7
  <2> QED
    BY <1>6, <2>1, Zenon DEF Decoding
<1>19. Ids!DecodeBase32(C) = key
  BY <1>17, <1>18, SMT DEF FirstBytes
<1> QED
  BY <1>3, <1>16, <1>19, Zenon DEF C

-----------------------------------------------------------------------------
(* The check character: a sum in which every second character is doubled.  *)

LEMMA DoubledIs ==
  ASSUME NEW x \in Ids!Char
  PROVE  /\ Ids!Doubled(x) \in Ids!Char
         /\ x < 16 => Ids!Doubled(x) = 2 * x
         /\ x >= 16 => Ids!Doubled(x) = 2 * x - 31
<1>1. x \in Nat /\ x <= 31
  BY SMT DEF Ids!Char
<1>2. x < 16 => (2 * x) \div 32 = 0 /\ (2 * x) % 32 = 2 * x
  BY <1>1, SMT
<1>3. x >= 16 => (2 * x) \div 32 = 1 /\ (2 * x) % 32 = 2 * x - 32
  BY <1>1, SMT
<1> QED
  BY <1>1, <1>2, <1>3, SMT DEF Ids!Doubled, Ids!Char

LEMMA AddendIs ==
  ASSUME NEW chars \in Seq(Ids!Char), NEW n \in 1 .. Len(chars)
  PROVE  Ids!Addend(chars, n) \in Ids!Char /\ Ids!Addend(chars, n) \in Nat
<1>1. chars[n] \in Ids!Char
  OBVIOUS
<1>2. Ids!Doubled(chars[n]) \in Ids!Char
  BY <1>1, DoubledIs, Zenon
<1>3. Ids!Addend(chars, n) \in Ids!Char
  BY <1>1, <1>2, Zenon DEF Ids!Addend
<1>4. \A c \in Ids!Char : c \in Nat
  BY SMT DEF Ids!Char
<1> QED
  BY <1>3, <1>4, Zenon

Positions(chars) == [i \in DOMAIN chars |-> i]
SumIter(chars) ==
  CHOOSE iter : iter = [s \in SUBSET DOMAIN Positions(chars) |->
    IF s = {} THEN 0
    ELSE iter[s \ {Ids!Max(s)}] + Ids!Addend(chars, Positions(chars)[Ids!Max(s)])]
Check(sum) == (32 - (sum % 32)) % 32

\* LuhnMod32Checksum, one character at a time.
LEMMA SumRuns ==
  ASSUME NEW chars \in Seq(Ids!Char)
  PROVE  \E run \in [0 .. Len(chars) -> Nat] :
           /\ run[0] = 0
           /\ \A k \in 1 .. Len(chars) : run[k] = run[k - 1] + Ids!Addend(chars, k)
           /\ Ids!LuhnMod32Checksum(chars) = Check(run[Len(chars)])
<1> DEFINE n == Len(chars)
           step == [i \in 1 .. n |-> [acc \in Nat |-> acc + Ids!Addend(chars, Positions(chars)[i])]]
<1>1. /\ n \in Nat /\ DOMAIN Positions(chars) = 1 .. n
      /\ \A i \in 1 .. n : Positions(chars)[i] = i /\ Ids!Addend(chars, i) \in Nat
  <2>1. n \in Nat /\ DOMAIN chars = 1 .. n
    OBVIOUS
  <2> HIDE DEF n
  <2>2. \A i \in 1 .. n : Ids!Addend(chars, i) \in Nat
    BY <2>1, AddendIs
  <2> QED
    BY <2>1, <2>2 DEF Positions
<1>2. 0 \in Nat
  OBVIOUS
<1>3. step \in [1 .. n -> [Nat -> Nat]]
  BY <1>1
<1>4. PICK g \in [SUBSET (1 .. n) -> Nat] : Recursion(g, n, 0, step)
  <2> HIDE DEF n, step
  <2> QED
    BY <1>1, <1>2, <1>3, FoldExists
<1>5. ASSUME NEW s \in SUBSET (1 .. n), s # {}
      PROVE  Max(s) \in 1 .. n /\ s \ {Max(s)} \in SUBSET (1 .. n) /\ Ids!Max(s) = Max(s)
  <2> HIDE DEF n
  <2> QED
    BY <1>1, <1>5, MaxOfPositions, SameMax
<1> DEFINE Eq(iter) == iter = [s \in SUBSET DOMAIN Positions(chars) |->
              IF s = {} THEN 0 ELSE iter[s \ {Ids!Max(s)}] + Ids!Addend(chars, Positions(chars)[Ids!Max(s)])]
<1>6. Eq(g)
  <2>1. ASSUME NEW s \in SUBSET (1 .. n)
        PROVE  g[s] = IF s = {} THEN 0
                      ELSE g[s \ {Ids!Max(s)}] + Ids!Addend(chars, Positions(chars)[Ids!Max(s)])
    <3>1. CASE s = {}
      BY <1>4, <3>1 DEF Recursion
    <3>2. CASE s # {}
      <4>1. Max(s) \in 1 .. n /\ s \ {Max(s)} \in SUBSET (1 .. n) /\ Ids!Max(s) = Max(s)
        BY <1>5, <3>2
      <4>2. g[s] = step[Max(s)][g[s \ {Max(s)}]]
        BY <1>4, <3>2 DEF Recursion
      <4>3. g[s \ {Max(s)}] \in Nat
        BY <1>4, <4>1
      <4> QED
        BY <3>2, <4>1, <4>2, <4>3
    <3> QED
      BY <3>1, <3>2
  <2> QED
    BY <1>1, <1>4, <2>1
<1>7. Eq(SumIter(chars))
  <2> HIDE DEF n, step
  <2> QED
    BY <1>6 DEF SumIter
<1> DEFINE iter == SumIter(chars)
<1>8. iter[{}] = 0
  <2>1. {} \in SUBSET DOMAIN Positions(chars)
    OBVIOUS
  <2> HIDE DEF iter
  <2> QED
    BY <1>7, <2>1 DEF iter
<1>9. ASSUME NEW s \in SUBSET (1 .. n), s # {}, iter[s \ {Max(s)}] \in Nat
      PROVE  iter[s] = step[Max(s)][iter[s \ {Max(s)}]]
  <2>1. Max(s) \in 1 .. n /\ Ids!Max(s) = Max(s)
    BY <1>5, <1>9
  <2>2. iter[s] = iter[s \ {Max(s)}] + Ids!Addend(chars, Positions(chars)[Max(s)])
    <3> HIDE DEF iter, n, step
    <3> QED
      BY <1>1, <1>7, <1>9, <2>1 DEF iter
  <2> HIDE DEF iter
  <2> QED
    BY <1>9, <2>1, <2>2
<1>10. PICK run : IsRun(run, n, Nat, 0, step) /\ run[n] = iter[1 .. n]
  <2> DEFINE zero == 0
             Sums == Nat
  <2>1. IsFold(iter, n, Sums, zero, step)
    <3> HIDE DEF iter, n, step
    <3> QED
      BY <1>8, <1>9, Zenon DEF IsFold
  <2>2. step \in Steps(n, Sums)
    <3> HIDE DEF step, n
    <3> QED
      BY <1>3 DEF Steps
  <2>3. n \in Nat /\ zero \in Sums
    BY <1>1
  <2> HIDE DEF iter, n, step, zero, Sums
  <2>4. \E run : IsRun(run, n, Sums, zero, step) /\ run[n] = iter[1 .. n]
    BY <2>1, <2>2, <2>3, RunOfFold, SMT
  <2> QED
    BY <2>4, Zenon DEF zero, Sums
<1>11. \A k \in 1 .. n : run[k] = run[k - 1] + Ids!Addend(chars, k)
  <2> SUFFICES ASSUME NEW k \in 1 .. n PROVE run[k] = run[k - 1] + Ids!Addend(chars, k)
    OBVIOUS
  <2>1. k - 1 \in 0 .. n /\ Positions(chars)[k] = k
    BY <1>1
  <2>2. run[k - 1] \in Nat /\ run[k] = step[k][run[k - 1]]
    <3> HIDE DEF step, n
    <3> QED
      BY <1>10, <2>1 DEF IsRun
  <2>3. step[k] = [acc \in Nat |-> acc + Ids!Addend(chars, k)]
    BY <2>1
  <2> HIDE DEF step
  <2> QED
    BY <2>2, <2>3
<1>12. Ids!LuhnMod32Checksum(chars) = Check(SumIter(chars)[DOMAIN Positions(chars)])
  BY DEF Ids!LuhnMod32Checksum, Ids!FoldLeftDomain, Ids!FoldLeft, Ids!MapThenFoldSet, SumIter,
         Positions, Check
<1> QED
  BY <1>1, <1>10, <1>11, <1>12 DEF IsRun

LEMMA Unchanging ==
  ASSUME NEW n \in Nat, NEW f, NEW c \in 0 .. n, NEW e \in c .. n,
         \A k \in c + 1 .. e : f[k] = f[k - 1]
  PROVE  f[e] = f[c]
<1> DEFINE S == {m \in Nat : c + m <= e => f[c + m] = f[c]}
<1>1. 0 \in S
  <2>1. c + 0 = c
    OBVIOUS
  <2> QED
    BY <2>1
<1>2. ASSUME NEW m \in Nat, m \in S PROVE m + 1 \in S
  <2>1. SUFFICES ASSUME c + (m + 1) <= e PROVE f[c + (m + 1)] = f[c]
    OBVIOUS
  <2>2. c + (m + 1) \in c + 1 .. e /\ (c + (m + 1)) - 1 = c + m /\ c + m <= e
    BY <2>1
  <2>3. f[c + (m + 1)] = f[c + m]
    BY <2>2
  <2> QED
    BY <1>2, <2>2, <2>3
<1>3. Nat \subseteq S
  <2> HIDE DEF S
  <2> QED
    BY <1>1, <1>2, InductionOnSet
<1>4. e - c \in Nat /\ c + (e - c) = e
  OBVIOUS
<1> QED
  BY <1>3, <1>4

Within(s, t, n, a, b) == \A i \in 1 .. n : i \notin a + 1 .. b => s[i] = t[i]
Sums(p, q, s, t, n, a, b) ==
  /\ p \in [0 .. n -> Nat] /\ q \in [0 .. n -> Nat]
  /\ Ids!LuhnMod32Checksum(s) = Check(p[n]) /\ Ids!LuhnMod32Checksum(t) = Check(q[n])
  /\ p[a] = q[a]
  /\ p[n] - q[n] = p[b] - q[b]
  /\ \A k \in 1 .. n : /\ p[k] = p[k - 1] + Ids!Addend(s, k)
                       /\ q[k] = q[k - 1] + Ids!Addend(t, k)

\* Two texts that differ from position a + 1 to position b, and their sums.
LEMMA SumsDiffer ==
  ASSUME NEW n \in Nat, NEW s \in Seq(Ids!Char), NEW t \in Seq(Ids!Char), Len(s) = n, Len(t) = n,
         NEW a \in 0 .. n, NEW b \in a .. n,
         Within(s, t, n, a, b)
  PROVE  \E p, q : Sums(p, q, s, t, n, a, b)
<1>1. PICK p \in [0 .. n -> Nat] :
        /\ p[0] = 0
        /\ \A k \in 1 .. n : p[k] = p[k - 1] + Ids!Addend(s, k)
        /\ Ids!LuhnMod32Checksum(s) = Check(p[n])
  BY SumRuns, Zenon
<1>2. PICK q \in [0 .. n -> Nat] :
        /\ q[0] = 0
        /\ \A k \in 1 .. n : q[k] = q[k - 1] + Ids!Addend(t, k)
        /\ Ids!LuhnMod32Checksum(t) = Check(q[n])
  BY SumRuns, Zenon
<1> DEFINE f == [k \in 0 .. n |-> p[k] - q[k]]
<1>3. ASSUME NEW k \in 1 .. n, k \notin a + 1 .. b PROVE f[k] = f[k - 1]
  <2>1. s[k] = t[k]
    BY <1>3 DEF Within
  <2>2. Ids!Addend(s, k) = Ids!Addend(t, k)
    BY <2>1, Zenon DEF Ids!Addend
  <2>3. Ids!Addend(s, k) \in Nat
    BY AddendIs
  <2>4. k \in 0 .. n /\ k - 1 \in 0 .. n
    OBVIOUS
  <2>5. p[k] = p[k - 1] + Ids!Addend(s, k) /\ q[k] = q[k - 1] + Ids!Addend(s, k)
    BY <1>1, <1>2, <2>2
  <2>6. p[k - 1] \in Nat /\ q[k - 1] \in Nat
    BY <2>4
  <2> QED
    BY <2>3, <2>4, <2>5, <2>6
<1>4. f[a] = f[0]
  <2>1. \A k \in 0 + 1 .. a : k \in 1 .. n /\ k \notin a + 1 .. b
    OBVIOUS
  <2>2. \A k \in 0 + 1 .. a : f[k] = f[k - 1]
    BY <1>3, <2>1
  <2>3. 0 \in 0 .. n /\ a \in 0 .. n
    OBVIOUS
  <2> HIDE DEF f
  <2> QED
    BY <2>2, <2>3, Unchanging
<1>5. f[n] = f[b]
  <2>1. \A k \in b + 1 .. n : k \in 1 .. n /\ k \notin a + 1 .. b
    OBVIOUS
  <2>2. \A k \in b + 1 .. n : f[k] = f[k - 1]
    BY <1>3, <2>1
  <2>3. b \in 0 .. n /\ n \in b .. n
    OBVIOUS
  <2> HIDE DEF f
  <2> QED
    BY <2>2, <2>3, Unchanging
<1>6. 0 \in 0 .. n /\ n \in 0 .. n /\ b \in 0 .. n
  OBVIOUS
<1>7. p[a] = q[a]
  <2>1. p[a] - q[a] = 0
    BY <1>1, <1>2, <1>4, <1>6
  <2>2. p[a] \in Nat /\ q[a] \in Nat
    OBVIOUS
  <2> QED
    BY <2>1, <2>2
<1>8. p[n] - q[n] = p[b] - q[b]
  BY <1>5, <1>6
<1> QED
  BY <1>1, <1>2, <1>7, <1>8 DEF Sums

LEMMA SameCheck ==
  ASSUME NEW u \in Nat, NEW v \in Nat, Check(u) = Check(v)
  PROVE  u % 32 = v % 32
BY SMT DEF Check

LEMMA NotSame ==
  ASSUME NEW u \in Nat, NEW v \in Nat, NEW d \in Nat, NEW e \in Nat, d <= 31, e <= 31, d # e,
         u + e = v + d
  PROVE  u % 32 # v % 32
BY SMT

\* A character in its place is a permutation of the characters, doubled or not.
LEMMA DoubledDiffers ==
  ASSUME NEW x \in Ids!Char, NEW y \in Ids!Char, x # y
  PROVE  Ids!Doubled(x) # Ids!Doubled(y)
<1> DEFINE X == Ids!Doubled(x)
           Y == Ids!Doubled(y)
<1>1. /\ (x < 16 => X = 2 * x) /\ (x >= 16 => X = 2 * x - 31)
      /\ (y < 16 => Y = 2 * y) /\ (y >= 16 => Y = 2 * y - 31)
  BY DoubledIs, SMT
<1>2. x \in Nat /\ y \in Nat /\ x <= 31 /\ y <= 31
  BY SMT DEF Ids!Char
<1> HIDE DEF X, Y
<1>3. X # Y
  BY <1>1, <1>2, SMT
<1> QED
  BY <1>3, Zenon DEF X, Y

\* One wrong character changes the check character.
LEMMA OneChanged ==
  ASSUME NEW n \in Nat, NEW s \in Seq(Ids!Char), NEW t \in Seq(Ids!Char), Len(s) = n, Len(t) = n,
         NEW m \in 1 .. n, s[m] # t[m], \A i \in 1 .. n : i # m => s[i] = t[i]
  PROVE  Ids!LuhnMod32Checksum(s) # Ids!LuhnMod32Checksum(t)
<1>1. SUFFICES ASSUME Ids!LuhnMod32Checksum(s) = Ids!LuhnMod32Checksum(t) PROVE FALSE
  OBVIOUS
<1> DEFINE a == m - 1
<1>2. a \in 0 .. n /\ m \in a .. n /\ Within(s, t, n, a, m)
  BY DEF Within
<1>12. m - 1 = a
  OBVIOUS
<1> HIDE DEF a
<1>3. PICK p, q : Sums(p, q, s, t, n, a, m)
  BY <1>2, SumsDiffer, Zenon
<1> DEFINE d == Ids!Addend(s, m)
           e == Ids!Addend(t, m)
<1>4. s[m] \in Ids!Char /\ t[m] \in Ids!Char
  OBVIOUS
<1>5. d # e
  BY <1>4, DoubledDiffers, Zenon DEF Ids!Addend
<1>6. d \in Ids!Char /\ e \in Ids!Char
  BY AddendIs
<1> HIDE DEF d, e
<1>7. d \in Nat /\ e \in Nat /\ d <= 31 /\ e <= 31
  BY <1>6, SMT DEF Ids!Char
<1>8. p[m] = p[a] + d /\ q[m] = q[a] + e /\ p[a] = q[a] /\ p[n] - q[n] = p[m] - q[m]
  BY <1>3, <1>12 DEF Sums, d, e
<1>9. p[n] \in Nat /\ q[n] \in Nat /\ p[a] \in Nat
  BY <1>2, <1>3 DEF Sums
<1> DEFINE u == p[n]
           v == q[n]
<1>10. u \in Nat /\ v \in Nat /\ Check(u) = Check(v) /\ u + e = v + d
  <2>1. Check(u) = Check(v)
    BY <1>1, <1>3, Zenon DEF Sums
  <2> HIDE DEF u, v
  <2>2. u \in Nat /\ v \in Nat
    BY <1>9, Zenon DEF u, v
  <2> DEFINE r == p[a]
  <2>3. r \in Nat /\ u - v = (r + d) - (r + e)
    BY <1>8, <1>9, Zenon DEF u, v
  <2> HIDE DEF r
  <2>4. u + e = v + d
    BY <1>7, <2>2, <2>3, SMT
  <2> QED
    BY <2>1, <2>2, <2>4, Zenon
<1> HIDE DEF u, v
<1>11. u % 32 = v % 32
  BY <1>10, SameCheck, SMT
<1> QED
  BY <1>5, <1>7, <1>10, <1>11, NotSame, SMT

\* The pair of characters for which an exchange keeps the sum.
Alike(x, y) == (x = 0 /\ y = 31) \/ (x = 31 /\ y = 0)

LEMMA NotSameExchanged ==
  ASSUME NEW x \in Ids!Char, NEW y \in Ids!Char, x # y, ~Alike(x, y), NEW u \in Nat, NEW v \in Nat,
         u + (Ids!Doubled(y) + x) = v + (Ids!Doubled(x) + y)
  PROVE  u % 32 # v % 32
<1> DEFINE X == Ids!Doubled(x)
           Y == Ids!Doubled(y)
<1>1. /\ (x < 16 => X = 2 * x) /\ (x >= 16 => X = 2 * x - 31)
      /\ (y < 16 => Y = 2 * y) /\ (y >= 16 => Y = 2 * y - 31)
  BY DoubledIs, SMT
<1>2. x \in Nat /\ y \in Nat /\ x <= 31 /\ y <= 31
  BY SMT DEF Ids!Char
<1>3. u + (Y + x) = v + (X + y)
  OBVIOUS
<1> HIDE DEF X, Y
<1>4. ~(x = 0 /\ y = 31) /\ ~(x = 31 /\ y = 0)
  BY Zenon DEF Alike
<1> DEFINE d == IF x < 16 THEN x ELSE x - 31
           e == IF y < 16 THEN y ELSE y - 31
<1>5. u + e = v + d
  BY <1>1, <1>2, <1>3, SMT
<1>6. d \in Int /\ e \in Int /\ d # e /\ d - e <= 31 /\ e - d <= 31
  BY <1>2, <1>4, SMT
<1> HIDE DEF d, e
<1> QED
  BY <1>5, <1>6, SMT

\* Exchanging two neighbours of the body changes the check character.
LEMMA NeighboursExchanged ==
  ASSUME NEW n \in Nat, NEW s \in Seq(Ids!Char), NEW t \in Seq(Ids!Char), Len(s) = n, Len(t) = n,
         NEW m \in 1 .. n - 1, s[m] # s[m + 1], ~Alike(s[m], s[m + 1]),
         t[m] = s[m + 1], t[m + 1] = s[m],
         \A i \in 1 .. n : i \notin {m, m + 1} => s[i] = t[i]
  PROVE  Ids!LuhnMod32Checksum(s) # Ids!LuhnMod32Checksum(t)
<1>1. SUFFICES ASSUME Ids!LuhnMod32Checksum(s) = Ids!LuhnMod32Checksum(t) PROVE FALSE
  OBVIOUS
<1> DEFINE a == m - 1
           b == m + 1
<1>2. a \in 0 .. n /\ b \in a .. n /\ Within(s, t, n, a, b) /\ m \in 1 .. n /\ b \in 1 .. n
  BY DEF Within
<1>3. m - 1 = a /\ b - 1 = m /\ (n - m) % 2 \in {0, 1} /\ ((n - m) % 2 = 0 <=> (n - b) % 2 = 1)
      /\ ((n - b) % 2 = 0 <=> (n - m) % 2 = 1)
  BY SMT
<1>4. s[m] \in Ids!Char /\ s[b] \in Ids!Char /\ s[m] # s[b] /\ ~Alike(s[m], s[b])
      /\ t[m] = s[b] /\ t[b] = s[m]
  OBVIOUS
<1> HIDE DEF a, b
<1>5. PICK p, q : Sums(p, q, s, t, n, a, b)
  BY <1>2, SumsDiffer, Zenon
<1> DEFINE x == s[m]
           y == s[b]
           u == p[n]
           v == q[n]
           r == p[a]
<1>6. u \in Nat /\ v \in Nat /\ r \in Nat
  BY <1>2, <1>5 DEF Sums
<1>7. Check(u) = Check(v)
  BY <1>1, <1>5, Zenon DEF Sums
<1>8. /\ p[m] = r + Ids!Addend(s, m) /\ p[b] = p[m] + Ids!Addend(s, b)
      /\ q[m] = r + Ids!Addend(t, m) /\ q[b] = q[m] + Ids!Addend(t, b)
      /\ u - v = p[b] - q[b]
  BY <1>2, <1>3, <1>5, Zenon DEF Sums
<1>9. x \in Ids!Char /\ y \in Ids!Char /\ x # y /\ ~Alike(x, y)
  BY <1>4, Zenon
<1>10. Ids!Doubled(x) \in Nat /\ Ids!Doubled(y) \in Nat /\ x \in Nat /\ y \in Nat
  <2> HIDE DEF x, y
  <2>1. Ids!Doubled(x) \in Ids!Char /\ Ids!Doubled(y) \in Ids!Char
    BY <1>9, DoubledIs, Zenon
  <2>2. \A c \in Ids!Char : c \in Nat
    BY SMT DEF Ids!Char
  <2> QED
    BY <1>9, <2>1, <2>2, Zenon
<1> DEFINE X == Ids!Doubled(x)
           Y == Ids!Doubled(y)
<1>13. u % 32 = v % 32
  <2> HIDE DEF u, v
  <2> QED
    BY <1>6, <1>7, SameCheck, SMT
<1>11. CASE (n - m) % 2 = 0
  <2>1. (n - b) % 2 # 0
    BY <1>3, <1>11, SMT
  <2>2. /\ Ids!Addend(s, m) = X /\ Ids!Addend(s, b) = y
        /\ Ids!Addend(t, m) = Y /\ Ids!Addend(t, b) = x
    BY <1>4, <1>11, <2>1, Zenon DEF Ids!Addend
  <2>3. u - v = ((r + X) + y) - ((r + Y) + x)
    BY <1>8, <2>2, Zenon
  <2>4. X \in Nat /\ Y \in Nat
    BY <1>10, Zenon
  <2> HIDE DEF x, y, u, v, r
  <2>5. u + (Y + x) = v + (X + y)
    <3> HIDE DEF X, Y
    <3> QED
      BY <1>6, <1>10, <2>3, <2>4, SMT
  <2>7. u % 32 # v % 32
    BY <1>6, <1>9, <2>5, NotSameExchanged, SMT
  <2> QED
    BY <1>13, <2>7, SMT
<1>12. CASE (n - m) % 2 # 0
  <2>1. (n - b) % 2 = 0
    BY <1>3, <1>12, SMT
  <2>2. /\ Ids!Addend(s, m) = x /\ Ids!Addend(s, b) = Y
        /\ Ids!Addend(t, m) = y /\ Ids!Addend(t, b) = X
    BY <1>4, <1>12, <2>1, Zenon DEF Ids!Addend
  <2>3. u - v = ((r + x) + Y) - ((r + y) + X)
    BY <1>8, <2>2, Zenon
  <2>4. X \in Nat /\ Y \in Nat
    BY <1>10, Zenon
  <2> HIDE DEF x, y, u, v, r
  <2>5. v + (Y + x) = u + (X + y)
    <3> HIDE DEF X, Y
    <3> QED
      BY <1>6, <1>10, <2>3, <2>4, SMT
  <2>7. v % 32 # u % 32
    BY <1>6, <1>9, <2>5, NotSameExchanged, SMT
  <2> QED
    BY <1>13, <2>7, SMT
<1> QED
  BY <1>11, <1>12, Zenon

\* The last character and the check character.
LEMMA LastExchanged ==
  ASSUME NEW n \in Nat \ {0}, NEW s \in Seq(Ids!Char), NEW t \in Seq(Ids!Char), Len(s) = n, Len(t) = n,
         NEW y \in Ids!Char, y = Ids!LuhnMod32Checksum(s), s[n] # y, ~Alike(s[n], y), t[n] = y,
         \A i \in 1 .. n : i # n => s[i] = t[i]
  PROVE  Ids!LuhnMod32Checksum(t) # s[n]
<1>1. SUFFICES ASSUME Ids!LuhnMod32Checksum(t) = s[n] PROVE FALSE
  OBVIOUS
<1> DEFINE a == n - 1
<1>2. a \in 0 .. n /\ n \in a .. n /\ Within(s, t, n, a, n) /\ n \in 1 .. n /\ n \in Nat
  BY DEF Within
<1>3. n - 1 = a /\ (n - n) % 2 = 0
  BY SMT
<1> HIDE DEF a
<1>5. PICK p, q : Sums(p, q, s, t, n, a, n)
  BY <1>2, SumsDiffer, Zenon
<1> DEFINE x == s[n]
           u == p[n]
           v == q[n]
           r == p[a]
<1>6. u \in Nat /\ v \in Nat /\ r \in Nat
  BY <1>2, <1>5 DEF Sums
<1>7. Check(u) = y /\ Check(v) = x
  BY <1>1, <1>5, Zenon DEF Sums
<1>8. u = r + Ids!Addend(s, n) /\ v = r + Ids!Addend(t, n)
  BY <1>2, <1>3, <1>5, Zenon DEF Sums
<1>9. x \in Ids!Char /\ y \in Ids!Char /\ x # y /\ ~Alike(x, y)
  BY <1>2
<1>10. Ids!Addend(s, n) = Ids!Doubled(x) /\ Ids!Addend(t, n) = Ids!Doubled(y)
  BY <1>3, Zenon DEF Ids!Addend
<1> HIDE DEF x, u, v, r
<1> DEFINE X == Ids!Doubled(x)
           Y == Ids!Doubled(y)
<1>11. X \in Nat /\ Y \in Nat /\ x \in Nat /\ y \in Nat
  <2>1. Ids!Doubled(x) \in Ids!Char /\ Ids!Doubled(y) \in Ids!Char
    BY <1>9, DoubledIs, Zenon
  <2>2. \A c \in Ids!Char : c \in Nat
    BY SMT DEF Ids!Char
  <2> QED
    BY <1>9, <2>1, <2>2, Zenon
<1> DEFINE U == u + y
           V == v + x
<1>12. U \in Nat /\ V \in Nat
  BY <1>6, <1>11, SMT
<1>13. U + (Y + x) = V + (X + y)
  <2>1. u = r + X /\ v = r + Y
    BY <1>8, <1>10, Zenon
  <2> HIDE DEF X, Y
  <2> QED
    BY <1>6, <1>11, <2>1, SMT
<1>14. U % 32 = 0 /\ V % 32 = 0
  <2>1. (32 - (u % 32)) % 32 = y /\ (32 - (v % 32)) % 32 = x
    BY <1>7, SMT DEF Check
  <2> QED
    BY <1>6, <2>1, SMT
<1> HIDE DEF U, V
<1> QED
  BY <1>9, <1>12, <1>13, <1>14, NotSameExchanged, SMT

-----------------------------------------------------------------------------
(* Peer ids.                                                               *)

LEMMA FrontIs ==
  ASSUME NEW n \in Nat, NEW d \in Seq(Ids!Char), Len(d) = n + 1
  PROVE  /\ Ids!Front(d) \in Seq(Ids!Char) /\ Len(Ids!Front(d)) = n
         /\ \A i \in 1 .. n : Ids!Front(d)[i] = d[i]
         /\ Ids!Last(d) = d[n + 1]
BY SMT DEF Ids!Front, Ids!Last

\* The characters of an id, as they are encoded.
Issued(key, n, body, check) ==
  /\ n \in Nat \ {0} /\ n = Ids!BodyLength
  /\ body \in Seq(Ids!Char) /\ Len(body) = n
  /\ check \in Ids!Char /\ check = Ids!LuhnMod32Checksum(body)
  /\ Ids!DecodeBase32(body) = key
  /\ Ids!EncodePeerId(key) = [prefix |-> "PB-", chars |-> Append(body, check)]

\* Every key has an id of the length that the decoder expects, whose body decodes to it.
LEMMA IdIsIssued ==
  ASSUME CodecAssumption, NEW key \in Keys
  PROVE  \E n, body, check : Issued(key, n, body, check)
<1> DEFINE n == Ids!BodyLength
           body == Ids!EncodeBase32(key)
           check == Ids!LuhnMod32Checksum(body)
<1>1. KeyLength \in Nat /\ KeyLength > 0 /\ key \in [1 .. KeyLength -> Byte]
  BY SMT DEF CodecAssumption, Byte
<1>2. key \in Seq(Byte) /\ Len(key) = KeyLength
  BY <1>1, SMT
<1>3. /\ body \in Seq(Ids!Char)
      /\ 5 * Len(body) \in 8 * KeyLength .. 8 * KeyLength + 4
      /\ Ids!DecodeBase32(body) = key
  BY <1>2, Base32RoundTrip, Zenon
<1> HIDE DEF body
<1>4. n \in Nat \ {0} /\ Len(body) = n
  <2> DEFINE L == Len(body)
  <2>1. L \in Nat /\ 5 * L \in 8 * KeyLength .. 8 * KeyLength + 4
    BY <1>3, SMT
  <2> HIDE DEF L
  <2>2. L = (8 * KeyLength + 4) \div 5 /\ L # 0
    BY <1>1, <2>1, SMT
  <2> QED
    BY <2>1, <2>2, SMT DEF Ids!BodyLength, L
<1>5. check \in Ids!Char
  <2>1. PICK run \in [0 .. Len(body) -> Nat] : check = Check(run[Len(body)])
    BY <1>3, SumRuns, Zenon
  <2>2. run[Len(body)] \in Nat
    BY <1>3, SMT
  <2> DEFINE u == run[Len(body)]
  <2>3. u \in Nat
    BY <2>2, Zenon
  <2> HIDE DEF u
  <2>4. Check(u) \in Ids!Char
    BY <2>3, SMT DEF Check, Ids!Char
  <2> QED
    BY <2>1, <2>4, Zenon DEF u
<1>6. Ids!EncodePeerId(key) = [prefix |-> "PB-", chars |-> Append(body, check)]
  BY Zenon DEF Ids!EncodePeerId, body
<1> HIDE DEF n, check
<1>7. n = Ids!BodyLength /\ check = Ids!LuhnMod32Checksum(body)
  BY Zenon DEF n, check
<1> QED
  BY <1>3, <1>4, <1>5, <1>6, <1>7, Zenon DEF Issued

LEMMA StrippedIs ==
  ASSUME NEW text, text.chars \in Seq(Ids!Char), text.prefix # "pb-"
  PROVE  Ids!Stripped(text) = text.chars
<1>1. Ids!Stripped(text) = <<>> \o text.chars
  BY SMT DEF Ids!Stripped
<1> DEFINE s == text.chars
<1>2. s \in Seq(Ids!Char)
  OBVIOUS
<1> HIDE DEF s
<1>3. <<>> \o s = s
  BY <1>2, SMT
<1> QED
  BY <1>1, <1>3, Zenon DEF s

\* What the decoder makes of characters that a person has typed.
LEMMA DecodedIs ==
  ASSUME NEW n \in Nat, n = Ids!BodyLength,
         NEW text, NEW d \in Seq(Ids!Char), text.chars = d, text.prefix # "pb-", Len(d) = n + 1
  PROVE  Ids!DecodePeerId(text) = IF Ids!LuhnMod32Checksum(Ids!Front(d)) = d[n + 1]
                                    THEN Ids!DecodeBase32(Ids!Front(d)) ELSE Rejected
<1>1. Ids!Stripped(text) = d
  BY StrippedIs, Zenon
<1>2. Ids!Last(d) = d[n + 1]
  BY FrontIs, Zenon
<1>3. Ids!VerifyLuhnMod32(d) <=> Ids!LuhnMod32Checksum(Ids!Front(d)) = d[n + 1]
  BY <1>2, Zenon DEF Ids!VerifyLuhnMod32
<1> QED
  BY <1>1, <1>3, Zenon DEF Ids!DecodePeerId

LEMMA FrontOfAppend ==
  ASSUME NEW n \in Nat, NEW body \in Seq(Ids!Char), Len(body) = n, NEW c \in Ids!Char
  PROVE  /\ Append(body, c) \in Seq(Ids!Char) /\ Len(Append(body, c)) = n + 1
         /\ \A i \in 1 .. n : Append(body, c)[i] = body[i]
         /\ Append(body, c)[n + 1] = c
         /\ Ids!Front(Append(body, c)) = body
<1> DEFINE d == Append(body, c)
<1>1. /\ d \in Seq(Ids!Char) /\ Len(d) = n + 1
      /\ \A i \in 1 .. n : d[i] = body[i]
      /\ d[n + 1] = c
  BY SMT
<1> HIDE DEF d
<1>2. /\ Ids!Front(d) \in Seq(Ids!Char) /\ Len(Ids!Front(d)) = n
      /\ \A i \in 1 .. n : Ids!Front(d)[i] = d[i]
  BY <1>1, FrontIs
<1> DEFINE f == Ids!Front(d)
<1>3. f \in Seq(Ids!Char) /\ Len(f) = n /\ \A i \in 1 .. n : f[i] = body[i]
  BY <1>1, <1>2
<1> HIDE DEF f
<1>4. f = body
  BY <1>3, SMT
<1> QED
  BY <1>1, <1>4, Zenon DEF d, f

\* A text with the characters of a.
Spells(text, a) == text.chars = a /\ text.prefix # "pb-"

\* An id that is typed as it was issued, with the prefix or without.
LEMMA IssuedIsDecoded ==
  ASSUME NEW key, NEW n, NEW body, NEW check, Issued(key, n, body, check),
         NEW text, Spells(text, Append(body, check))
  PROVE  Ids!DecodePeerId(text) = key
<1> SUFFICES ASSUME text.chars = Append(body, check), text.prefix # "pb-"
             PROVE  Ids!DecodePeerId(text) = key
  BY Zenon DEF Spells
<1>1. /\ n \in Nat /\ n = Ids!BodyLength /\ body \in Seq(Ids!Char) /\ Len(body) = n
      /\ check \in Ids!Char /\ check = Ids!LuhnMod32Checksum(body) /\ Ids!DecodeBase32(body) = key
  BY DEF Issued
<1> DEFINE d == Append(body, check)
<1>2. d \in Seq(Ids!Char) /\ Len(d) = n + 1 /\ d[n + 1] = check /\ Ids!Front(d) = body
  BY <1>1, FrontOfAppend, Zenon
<1>3. text.chars = d
  BY Zenon
<1> HIDE DEF d
<1>4. Ids!DecodePeerId(text) = IF Ids!LuhnMod32Checksum(Ids!Front(d)) = d[n + 1]
                                 THEN Ids!DecodeBase32(Ids!Front(d)) ELSE Rejected
  BY <1>1, <1>2, <1>3, DecodedIs, Zenon
<1> QED
  BY <1>1, <1>2, <1>4, Zenon

\* One wrong character: d was read for a.
Misread(a, n, m, d, text) ==
  /\ d \in Seq(Ids!Char) /\ text.chars = d /\ text.prefix # "pb-" /\ Len(d) = n + 1
  /\ m \in 1 .. n + 1 /\ d[m] # a[m]
  /\ \A i \in 1 .. n + 1 : i # m => d[i] = a[i]

LEMMA SubstitutedIsRejected ==
  ASSUME NEW key, NEW n, NEW body, NEW check, Issued(key, n, body, check),
         NEW m, NEW d, NEW text, Misread(Append(body, check), n, m, d, text)
  PROVE  Ids!DecodePeerId(text) = Rejected
<1> SUFFICES
      ASSUME d \in Seq(Ids!Char), text.chars = d, text.prefix # "pb-", Len(d) = n + 1,
             m \in 1 .. n + 1, d[m] # Append(body, check)[m],
             \A i \in 1 .. n + 1 : i # m => d[i] = Append(body, check)[i]
      PROVE  Ids!DecodePeerId(text) = Rejected
  BY Zenon DEF Misread
<1>1. /\ n \in Nat /\ n = Ids!BodyLength /\ body \in Seq(Ids!Char) /\ Len(body) = n
      /\ check \in Ids!Char /\ check = Ids!LuhnMod32Checksum(body)
  BY DEF Issued
<1> DEFINE a == Append(body, check)
           f == Ids!Front(d)
<1>2. a[n + 1] = check /\ \A i \in 1 .. n : a[i] = body[i]
  BY <1>1, FrontOfAppend, Zenon
<1>3. f \in Seq(Ids!Char) /\ Len(f) = n /\ \A i \in 1 .. n : f[i] = d[i]
  BY <1>1, FrontIs
<1>4. d[m] # a[m] /\ \A i \in 1 .. n + 1 : i # m => d[i] = a[i]
  BY Zenon
<1> HIDE DEF a, f
<1>5. Ids!LuhnMod32Checksum(f) # d[n + 1]
  <2>1. CASE m = n + 1
    <3>1. \A i \in 1 .. n : f[i] = body[i]
      <4>1. \A i \in 1 .. n : i \in 1 .. n + 1 /\ i # m
        BY <1>1, <2>1, SMT
      <4> QED
        BY <1>2, <1>3, <1>4, <4>1, Zenon
    <3>2. f = body
      BY <1>1, <1>3, <3>1, SMT
    <3> QED
      BY <1>1, <1>2, <1>4, <2>1, <3>2, Zenon
  <2>2. CASE m # n + 1
    <3>1. m \in 1 .. n /\ n + 1 \in 1 .. n + 1 /\ \A i \in 1 .. n : i \in 1 .. n + 1
      BY <1>1, <2>2, SMT
    <3>2. d[n + 1] = check
      BY <1>2, <1>4, <2>2, <3>1, Zenon
    <3>3. body[m] # f[m] /\ \A i \in 1 .. n : i # m => body[i] = f[i]
      BY <1>2, <1>3, <1>4, <3>1, Zenon
    <3>4. Ids!LuhnMod32Checksum(body) # Ids!LuhnMod32Checksum(f)
      BY <1>1, <1>3, <3>1, <3>3, OneChanged, Zenon
    <3> QED
      BY <1>1, <3>2, <3>4, Zenon
  <2> QED
    BY <2>1, <2>2, Zenon
<1> QED
  BY <1>1, <1>5, DecodedIs, Zenon DEF f

\* Two neighbours exchanged.
Exchanged(a, n, m, x, y, d, text) ==
  /\ d \in Seq(Ids!Char) /\ text.chars = d /\ text.prefix # "pb-" /\ Len(d) = n + 1
  /\ m \in 1 .. n /\ x = a[m] /\ y = a[m + 1] /\ x # y /\ ~Alike(x, y) /\ d[m] = y /\ d[m + 1] = x
  /\ \A i \in 1 .. n + 1 : i \notin {m, m + 1} => d[i] = a[i]

LEMMA ExchangedIsRejected ==
  ASSUME NEW key, NEW n, NEW body, NEW check, Issued(key, n, body, check),
         NEW m, NEW x, NEW y, NEW d, NEW text, Exchanged(Append(body, check), n, m, x, y, d, text)
  PROVE  Ids!DecodePeerId(text) = Rejected
<1> SUFFICES
      ASSUME d \in Seq(Ids!Char), text.chars = d, text.prefix # "pb-", Len(d) = n + 1, m \in 1 .. n,
             x = Append(body, check)[m], y = Append(body, check)[m + 1],
             x # y, ~Alike(x, y), d[m] = y, d[m + 1] = x,
             \A i \in 1 .. n + 1 : i \notin {m, m + 1} => d[i] = Append(body, check)[i]
      PROVE  Ids!DecodePeerId(text) = Rejected
  BY Zenon DEF Exchanged
<1>1. /\ n \in Nat /\ n \in Nat \ {0} /\ n = Ids!BodyLength /\ body \in Seq(Ids!Char) /\ Len(body) = n
      /\ check \in Ids!Char /\ check = Ids!LuhnMod32Checksum(body)
  BY DEF Issued
<1> DEFINE a == Append(body, check)
           f == Ids!Front(d)
<1>2. a[n + 1] = check /\ \A i \in 1 .. n : a[i] = body[i]
  BY <1>1, FrontOfAppend, Zenon
<1>3. f \in Seq(Ids!Char) /\ Len(f) = n /\ \A i \in 1 .. n : f[i] = d[i]
  BY <1>1, FrontIs
<1>4. x = a[m] /\ y = a[m + 1] /\ \A i \in 1 .. n + 1 : i \notin {m, m + 1} => d[i] = a[i]
  BY Zenon
<1> HIDE DEF a, f
<1>5. Ids!LuhnMod32Checksum(f) # d[n + 1]
  <2>1. CASE m = n
    <3>1. \A i \in 1 .. n : i \in 1 .. n + 1 /\ (i # n => i \notin {m, m + 1})
      BY <1>1, <2>1, SMT
    <3>2. \A i \in 1 .. n : i # n => body[i] = f[i]
      BY <1>2, <1>3, <1>4, <3>1, Zenon
    <3>3. body[n] = x /\ y = check /\ f[n] = y /\ d[n + 1] = x
      BY <1>2, <1>3, <1>4, <2>1, Zenon
    <3>4. body[n] # y /\ ~Alike(body[n], y) /\ y = Ids!LuhnMod32Checksum(body) /\ y \in Ids!Char
      BY <1>1, <3>3, Zenon
    <3>5. Ids!LuhnMod32Checksum(f) # body[n]
      BY <1>1, <1>3, <3>2, <3>3, <3>4, LastExchanged, Zenon
    <3> QED
      BY <3>3, <3>5, Zenon
  <2>2. CASE m # n
    <3>1. /\ m \in 1 .. n - 1 /\ m + 1 \in 1 .. n /\ n + 1 \in 1 .. n + 1 /\ n + 1 \notin {m, m + 1}
          /\ \A i \in 1 .. n : i \in 1 .. n + 1
      BY <1>1, <2>2, SMT
    <3>2. d[n + 1] = check
      BY <1>2, <1>4, <3>1, Zenon
    <3>3. /\ body[m] = x /\ body[m + 1] = y /\ f[m] = y /\ f[m + 1] = x
          /\ \A i \in 1 .. n : i \notin {m, m + 1} => body[i] = f[i]
      BY <1>2, <1>3, <1>4, <3>1, Zenon
    <3>4. Ids!LuhnMod32Checksum(body) # Ids!LuhnMod32Checksum(f)
      <4>1. /\ body[m] # body[m + 1] /\ ~Alike(body[m], body[m + 1])
            /\ f[m] = body[m + 1] /\ f[m + 1] = body[m]
        BY <3>3, Zenon
      <4>2. \A i \in 1 .. n : i \notin {m, m + 1} => body[i] = f[i]
        BY <3>3, Zenon
      <4> QED
        BY <1>1, <1>3, <3>1, <4>1, <4>2, NeighboursExchanged, Zenon
    <3> QED
      BY <1>1, <3>2, <3>4, Zenon
  <2> QED
    BY <2>1, <2>2, Zenon
<1> QED
  BY <1>1, <1>5, DecodedIs, Zenon DEF f

-----------------------------------------------------------------------------
(* Frames.                                                                 *)

FieldNames == {"type", "room_id", "sender_peer_id", "body", "kind", "seq",
               "sha256", "note", "version", "capabilities", "file_id", "name",
               "size", "data", "reason", "ts",
               "seq_num"}
MapKeys == 0 .. 99

\* The fields of every message; no message has both fields that share a key.
LEMMA LayoutIs ==
  ASSUME NEW t \in Frames!Types
  PROVE  /\ Frames!Layout[t] \in Seq(FieldNames)
         /\ "type" \in Frames!FieldsOf(t)
         /\ ~("seq" \in Frames!FieldsOf(t) /\ "seq_num" \in Frames!FieldsOf(t))
<1>1. CASE t = "hello"
  <2>1. Frames!FieldsOf("hello") =
          {"type", "version", "capabilities", "ts"}
    BY SMT DEF Frames!FieldsOf, Frames!Layout, Frames!Range
  <2>2. Frames!Layout["hello"] \in Seq(FieldNames)
    BY SMT DEF Frames!Layout, FieldNames
  <2> QED
    BY <1>1, <2>1, <2>2, SMT
<1>2. CASE t = "ping"
  <2>1. Frames!FieldsOf("ping") =
          {"type", "ts"}
    BY SMT DEF Frames!FieldsOf, Frames!Layout, Frames!Range
  <2>2. Frames!Layout["ping"] \in Seq(FieldNames)
    BY SMT DEF Frames!Layout, FieldNames
  <2> QED
    BY <1>2, <2>1, <2>2, SMT
<1>3. CASE t = "pong"
  <2>1. Frames!FieldsOf("pong") =
          {"type", "ts"}
    BY SMT DEF Frames!FieldsOf, Frames!Layout, Frames!Range
  <2>2. Frames!Layout["pong"] \in Seq(FieldNames)
    BY SMT DEF Frames!Layout, FieldNames
  <2> QED
    BY <1>3, <2>1, <2>2, SMT
<1>4. CASE t = "msg"
  <2>1. Frames!FieldsOf("msg") =
          {"type", "room_id", "sender_peer_id", "body", "kind", "seq", "ts"}
    BY SMT DEF Frames!FieldsOf, Frames!Layout, Frames!Range
  <2>2. Frames!Layout["msg"] \in Seq(FieldNames)
    BY SMT DEF Frames!Layout, FieldNames
  <2> QED
    BY <1>4, <2>1, <2>2, SMT
<1>5. CASE t = "file_offer"
  <2>1. Frames!FieldsOf("file_offer") =
          {"type", "room_id", "file_id", "sender_peer_id", "name", "size", "sha256", "note", "seq", "ts"}
    BY SMT DEF Frames!FieldsOf, Frames!Layout, Frames!Range
  <2>2. Frames!Layout["file_offer"] \in Seq(FieldNames)
    BY SMT DEF Frames!Layout, FieldNames
  <2> QED
    BY <1>5, <2>1, <2>2, SMT
<1>6. CASE t = "file_accept"
  <2>1. Frames!FieldsOf("file_accept") =
          {"type", "room_id", "file_id", "ts"}
    BY SMT DEF Frames!FieldsOf, Frames!Layout, Frames!Range
  <2>2. Frames!Layout["file_accept"] \in Seq(FieldNames)
    BY SMT DEF Frames!Layout, FieldNames
  <2> QED
    BY <1>6, <2>1, <2>2, SMT
<1>7. CASE t = "file_reject"
  <2>1. Frames!FieldsOf("file_reject") =
          {"type", "room_id", "file_id", "reason", "ts"}
    BY SMT DEF Frames!FieldsOf, Frames!Layout, Frames!Range
  <2>2. Frames!Layout["file_reject"] \in Seq(FieldNames)
    BY SMT DEF Frames!Layout, FieldNames
  <2> QED
    BY <1>7, <2>1, <2>2, SMT
<1>8. CASE t = "file_chunk"
  <2>1. Frames!FieldsOf("file_chunk") =
          {"type", "file_id", "seq_num", "data"}
    BY SMT DEF Frames!FieldsOf, Frames!Layout, Frames!Range
  <2>2. Frames!Layout["file_chunk"] \in Seq(FieldNames)
    BY SMT DEF Frames!Layout, FieldNames
  <2> QED
    BY <1>8, <2>1, <2>2, SMT
<1>9. CASE t = "file_done"
  <2>1. Frames!FieldsOf("file_done") =
          {"type", "file_id", "ts"}
    BY SMT DEF Frames!FieldsOf, Frames!Layout, Frames!Range
  <2>2. Frames!Layout["file_done"] \in Seq(FieldNames)
    BY SMT DEF Frames!Layout, FieldNames
  <2> QED
    BY <1>9, <2>1, <2>2, SMT
<1>10. CASE t = "file_abort"
  <2>1. Frames!FieldsOf("file_abort") =
          {"type", "room_id", "file_id", "reason", "ts"}
    BY SMT DEF Frames!FieldsOf, Frames!Layout, Frames!Range
  <2>2. Frames!Layout["file_abort"] \in Seq(FieldNames)
    BY SMT DEF Frames!Layout, FieldNames
  <2> QED
    BY <1>10, <2>1, <2>2, SMT
<1>11. t \in {"hello", "ping", "pong", "msg", "file_offer", "file_accept", "file_reject",
              "file_chunk", "file_done", "file_abort"}
  BY SMT DEF Frames!Types, Frames!Layout
<1> QED
  BY <1>1, <1>2, <1>3, <1>4, <1>5, <1>6, <1>7, <1>8, <1>9, <1>10, <1>11, SMT

\* The field that has a key.
NameOf(key) ==
  CASE key = 0 -> "type"
    [] key = 1 -> "room_id"
    [] key = 2 -> "sender_peer_id"
    [] key = 3 -> "body"
    [] key = 4 -> "kind"
    [] key = 5 -> "seq"
    [] key = 6 -> "sha256"
    [] key = 7 -> "note"
    [] key = 8 -> "version"
    [] key = 9 -> "capabilities"
    [] key = 10 -> "file_id"
    [] key = 11 -> "name"
    [] key = 12 -> "size"
    [] key = 13 -> "data"
    [] key = 14 -> "reason"
    [] key = 99 -> "ts"

\* A key determines the field, but for seq and seq_num.
LEMMA KeyOfIs ==
  ASSUME NEW f \in FieldNames
  PROVE  /\ Frames!KeyOf(f) \in MapKeys
         /\ NameOf(Frames!KeyOf(f)) = IF f = "seq_num" THEN "seq" ELSE f
<1>1. CASE f = "type"
  <2>1. Frames!KeyOf("type") = 0
    BY SMT DEF Frames!KeyOf, Frames!CBOR_KEYS
  <2>2. NameOf(0) = "type" /\ 0 \in MapKeys
    BY SMT DEF NameOf, MapKeys
  <2> QED
    BY <1>1, <2>1, <2>2, SMT
<1>2. CASE f = "room_id"
  <2>1. Frames!KeyOf("room_id") = 1
    BY SMT DEF Frames!KeyOf, Frames!CBOR_KEYS
  <2>2. NameOf(1) = "room_id" /\ 1 \in MapKeys
    BY SMT DEF NameOf, MapKeys
  <2> QED
    BY <1>2, <2>1, <2>2, SMT
<1>3. CASE f = "sender_peer_id"
  <2>1. Frames!KeyOf("sender_peer_id") = 2
    BY SMT DEF Frames!KeyOf, Frames!CBOR_KEYS
  <2>2. NameOf(2) = "sender_peer_id" /\ 2 \in MapKeys
    BY SMT DEF NameOf, MapKeys
  <2> QED
    BY <1>3, <2>1, <2>2, SMT
<1>4. CASE f = "body"
  <2>1. Frames!KeyOf("body") = 3
    BY SMT DEF Frames!KeyOf, Frames!CBOR_KEYS
  <2>2. NameOf(3) = "body" /\ 3 \in MapKeys
    BY SMT DEF NameOf, MapKeys
  <2> QED
    BY <1>4, <2>1, <2>2, SMT
<1>5. CASE f = "kind"
  <2>1. Frames!KeyOf("kind") = 4
    BY SMT DEF Frames!KeyOf, Frames!CBOR_KEYS
  <2>2. NameOf(4) = "kind" /\ 4 \in MapKeys
    BY SMT DEF NameOf, MapKeys
  <2> QED
    BY <1>5, <2>1, <2>2, SMT
<1>6. CASE f = "seq"
  <2>1. Frames!KeyOf("seq") = 5
    BY SMT DEF Frames!KeyOf, Frames!CBOR_KEYS
  <2>2. NameOf(5) = "seq" /\ 5 \in MapKeys
    BY SMT DEF NameOf, MapKeys
  <2> QED
    BY <1>6, <2>1, <2>2, SMT
<1>7. CASE f = "sha256"
  <2>1. Frames!KeyOf("sha256") = 6
    BY SMT DEF Frames!KeyOf, Frames!CBOR_KEYS
  <2>2. NameOf(6) = "sha256" /\ 6 \in MapKeys
    BY SMT DEF NameOf, MapKeys
  <2> QED
    BY <1>7, <2>1, <2>2, SMT
<1>8. CASE f = "note"
  <2>1. Frames!KeyOf("note") = 7
    BY SMT DEF Frames!KeyOf, Frames!CBOR_KEYS
  <2>2. NameOf(7) = "note" /\ 7 \in MapKeys
    BY SMT DEF NameOf, MapKeys
  <2> QED
    BY <1>8, <2>1, <2>2, SMT
<1>9. CASE f = "version"
  <2>1. Frames!KeyOf("version") = 8
    BY SMT DEF Frames!KeyOf, Frames!CBOR_KEYS
  <2>2. NameOf(8) = "version" /\ 8 \in MapKeys
    BY SMT DEF NameOf, MapKeys
  <2> QED
    BY <1>9, <2>1, <2>2, SMT
<1>10. CASE f = "capabilities"
  <2>1. Frames!KeyOf("capabilities") = 9
    BY SMT DEF Frames!KeyOf, Frames!CBOR_KEYS
  <2>2. NameOf(9) = "capabilities" /\ 9 \in MapKeys
    BY SMT DEF NameOf, MapKeys
  <2> QED
    BY <1>10, <2>1, <2>2, SMT
<1>11. CASE f = "file_id"
  <2>1. Frames!KeyOf("file_id") = 10
    BY SMT DEF Frames!KeyOf, Frames!CBOR_KEYS
  <2>2. NameOf(10) = "file_id" /\ 10 \in MapKeys
    BY SMT DEF NameOf, MapKeys
  <2> QED
    BY <1>11, <2>1, <2>2, SMT
<1>12. CASE f = "name"
  <2>1. Frames!KeyOf("name") = 11
    BY SMT DEF Frames!KeyOf, Frames!CBOR_KEYS
  <2>2. NameOf(11) = "name" /\ 11 \in MapKeys
    BY SMT DEF NameOf, MapKeys
  <2> QED
    BY <1>12, <2>1, <2>2, SMT
<1>13. CASE f = "size"
  <2>1. Frames!KeyOf("size") = 12
    BY SMT DEF Frames!KeyOf, Frames!CBOR_KEYS
  <2>2. NameOf(12) = "size" /\ 12 \in MapKeys
    BY SMT DEF NameOf, MapKeys
  <2> QED
    BY <1>13, <2>1, <2>2, SMT
<1>14. CASE f = "data"
  <2>1. Frames!KeyOf("data") = 13
    BY SMT DEF Frames!KeyOf, Frames!CBOR_KEYS
  <2>2. NameOf(13) = "data" /\ 13 \in MapKeys
    BY SMT DEF NameOf, MapKeys
  <2> QED
    BY <1>14, <2>1, <2>2, SMT
<1>15. CASE f = "reason"
  <2>1. Frames!KeyOf("reason") = 14
    BY SMT DEF Frames!KeyOf, Frames!CBOR_KEYS
  <2>2. NameOf(14) = "reason" /\ 14 \in MapKeys
    BY SMT DEF NameOf, MapKeys
  <2> QED
    BY <1>15, <2>1, <2>2, SMT
<1>16. CASE f = "ts"
  <2>1. Frames!KeyOf("ts") = 99
    BY SMT DEF Frames!KeyOf, Frames!CBOR_KEYS
  <2>2. NameOf(99) = "ts" /\ 99 \in MapKeys
    BY SMT DEF NameOf, MapKeys
  <2> QED
    BY <1>16, <2>1, <2>2, SMT
<1>17. CASE f = "seq_num"
  <2>1. Frames!KeyOf("seq_num") = 5
    BY SMT DEF Frames!KeyOf, Frames!CBOR_KEYS
  <2>2. NameOf(5) = "seq" /\ 5 \in MapKeys
    BY SMT DEF NameOf, MapKeys
  <2> QED
    BY <1>17, <2>1, <2>2, SMT
<1> QED
  BY <1>1, <1>2, <1>3, <1>4, <1>5, <1>6, <1>7, <1>8, <1>9, <1>10, <1>11, <1>12,
     <1>13, <1>14, <1>15, <1>16, <1>17, SMT DEF FieldNames

\* Within a message no two fields have the same key.
LEMMA KeysDiffer ==
  ASSUME NEW t \in Frames!Types, NEW f \in Frames!FieldsOf(t), NEW g \in Frames!FieldsOf(t),
         Frames!KeyOf(f) = Frames!KeyOf(g)
  PROVE  f = g
<1>1. f \in FieldNames /\ g \in FieldNames
  <2> DEFINE L == Frames!Layout[t]
  <2>1. L \in Seq(FieldNames)
    BY LayoutIs
  <2>2. Frames!FieldsOf(t) = {L[i] : i \in DOMAIN L}
    BY DEF Frames!FieldsOf, Frames!Range
  <2> HIDE DEF L
  <2>3. \A i \in DOMAIN L : L[i] \in FieldNames
    BY <2>1
  <2> QED
    BY <2>2, <2>3
<1>2. (IF f = "seq_num" THEN "seq" ELSE f) = (IF g = "seq_num" THEN "seq" ELSE g)
  BY <1>1, KeyOfIs, Zenon
<1>3. ~("seq" \in Frames!FieldsOf(t) /\ "seq_num" \in Frames!FieldsOf(t))
  BY LayoutIs, Zenon
<1> QED
  BY <1>2, <1>3, SMT

Values(msg) == {msg[f] : f \in Frames!FieldsOf(msg.type)}
Maps(msg) == UNION {[keys -> Values(msg)] : keys \in SUBSET MapKeys}

LEMMA FieldHasKey ==
  ASSUME NEW t \in Frames!Types, NEW i \in 1 .. Len(Frames!Layout[t])
  PROVE  /\ Frames!Layout[t][i] \in Frames!FieldsOf(t)
         /\ Frames!KeyOf(Frames!Layout[t][i]) \in MapKeys
<1> DEFINE L == Frames!Layout[t]
<1>1. L \in Seq(FieldNames)
  BY LayoutIs
<1>2. Frames!FieldsOf(t) = {L[j] : j \in DOMAIN L}
  BY DEF Frames!FieldsOf, Frames!Range
<1> HIDE DEF L
<1>3. i \in DOMAIN L /\ L[i] \in FieldNames
  BY <1>1 DEF L
<1> QED
  BY <1>2, <1>3, KeyOfIs DEF L

\* A field more is still a map from keys to values of the message.
LEMMA PutType ==
  ASSUME NEW msg, NEW map \in Maps(msg), NEW f \in Frames!FieldsOf(msg.type),
         Frames!KeyOf(f) \in MapKeys
  PROVE  Frames!Put(msg, map, f) \in Maps(msg)
<1>1. PICK keys \in SUBSET MapKeys : map \in [keys -> Values(msg)]
  BY DEF Maps
<1>2. CASE f = "note" /\ msg.note \in Frames!Falsy
  <2>1. Frames!Put(msg, map, f) = map
    BY <1>2, Zenon DEF Frames!Put
  <2> QED
    BY <2>1, Zenon
<1>3. CASE ~(f = "note" /\ msg.note \in Frames!Falsy)
  <2> DEFINE k == Frames!KeyOf(f)
             more == keys \union {k}
             put == [key \in DOMAIN map \union {k} |-> IF key = k THEN msg[f] ELSE map[key]]
  <2>1. Frames!Put(msg, map, f) = put
    BY <1>3, Zenon DEF Frames!Put
  <2>2. DOMAIN map = keys /\ more \in SUBSET MapKeys /\ msg[f] \in Values(msg)
    BY <1>1 DEF Values
  <2>3. put \in [more -> Values(msg)]
    <3> HIDE DEF k
    <3> QED
      BY <1>1, <2>2
  <2> HIDE DEF put, more
  <2> QED
    BY <2>1, <2>2, <2>3 DEF Maps
<1> QED
  BY <1>2, <1>3, Zenon

Nothing == << >>
MapIter(msg) ==
  CHOOSE iter : iter = [s \in SUBSET DOMAIN Frames!Layout[msg.type] |->
    IF s = {} THEN Nothing
    ELSE Frames!Put(msg, iter[s \ {Frames!Max(s)}], Frames!Layout[msg.type][Frames!Max(s)])]

\* MessageToCBORMap, one field at a time.
LEMMA MapRuns ==
  ASSUME NEW msg, msg.type \in Frames!Types
  PROVE  \E run \in [0 .. Len(Frames!Layout[msg.type]) -> Maps(msg)] :
           /\ run[0] = Nothing
           /\ \A k \in 1 .. Len(Frames!Layout[msg.type]) :
                run[k] = Frames!Put(msg, run[k - 1], Frames!Layout[msg.type][k])
           /\ Frames!MessageToCBORMap(msg) = run[Len(Frames!Layout[msg.type])]
<1> DEFINE L == Frames!Layout[msg.type]
           n == Len(L)
           step == [i \in 1 .. n |-> [acc \in Maps(msg) |-> Frames!Put(msg, acc, L[i])]]
<1>1. /\ n \in Nat /\ DOMAIN L = 1 .. n
      /\ \A i \in 1 .. n : L[i] \in Frames!FieldsOf(msg.type) /\ Frames!KeyOf(L[i]) \in MapKeys
  <2>1. L \in Seq(FieldNames)
    BY LayoutIs
  <2>2. n \in Nat /\ DOMAIN L = 1 .. n
    <3> HIDE DEF L
    <3> QED
      BY <2>1
  <2>3. \A i \in 1 .. n : L[i] \in Frames!FieldsOf(msg.type) /\ Frames!KeyOf(L[i]) \in MapKeys
    BY FieldHasKey
  <2> QED
    BY <2>2, <2>3
<1>2. Nothing \in Maps(msg)
  <2>1. Nothing \in [{} -> Values(msg)]
    BY DEF Nothing
  <2> QED
    BY <2>1 DEF Maps
<1>3. step \in [1 .. n -> [Maps(msg) -> Maps(msg)]]
  <2> HIDE DEF L, n
  <2>1. \A i \in 1 .. n, acc \in Maps(msg) : Frames!Put(msg, acc, L[i]) \in Maps(msg)
    BY <1>1, PutType, Zenon
  <2> QED
    BY <2>1
<1>4. PICK g \in [SUBSET (1 .. n) -> Maps(msg)] : Recursion(g, n, Nothing, step)
  <2> HIDE DEF L, n, step
  <2> QED
    BY <1>1, <1>2, <1>3, FoldExists
<1>5. ASSUME NEW s \in SUBSET (1 .. n), s # {}
      PROVE  Max(s) \in 1 .. n /\ s \ {Max(s)} \in SUBSET (1 .. n) /\ Frames!Max(s) = Max(s)
  <2> HIDE DEF L, n
  <2> QED
    BY <1>1, <1>5, MaxOfPositions, SameMax
<1> DEFINE Eq(iter) == iter = [s \in SUBSET DOMAIN L |->
              IF s = {} THEN Nothing ELSE Frames!Put(msg, iter[s \ {Frames!Max(s)}], L[Frames!Max(s)])]
<1>6. Eq(g)
  <2>1. ASSUME NEW s \in SUBSET (1 .. n)
        PROVE  g[s] = IF s = {} THEN Nothing ELSE Frames!Put(msg, g[s \ {Frames!Max(s)}], L[Frames!Max(s)])
    <3>1. CASE s = {}
      BY <1>4, <3>1 DEF Recursion
    <3>2. CASE s # {}
      <4>1. Max(s) \in 1 .. n /\ s \ {Max(s)} \in SUBSET (1 .. n) /\ Frames!Max(s) = Max(s)
        BY <1>5, <3>2
      <4>2. g[s] = step[Max(s)][g[s \ {Max(s)}]]
        BY <1>4, <3>2 DEF Recursion
      <4>3. g[s \ {Max(s)}] \in Maps(msg)
        BY <1>4, <4>1
      <4> QED
        BY <3>2, <4>1, <4>2, <4>3
    <3> QED
      BY <3>1, <3>2
  <2> QED
    BY <1>1, <1>4, <2>1
<1>7. Eq(MapIter(msg))
  <2> HIDE DEF n, step
  <2> QED
    BY <1>6 DEF MapIter
<1> DEFINE iter == MapIter(msg)
<1>8. iter[{}] = Nothing
  <2>1. {} \in SUBSET DOMAIN L
    OBVIOUS
  <2> HIDE DEF iter
  <2> QED
    BY <1>7, <2>1 DEF iter
<1>9. ASSUME NEW s \in SUBSET (1 .. n), s # {}, iter[s \ {Max(s)}] \in Maps(msg)
      PROVE  iter[s] = step[Max(s)][iter[s \ {Max(s)}]]
  <2>1. Max(s) \in 1 .. n /\ Frames!Max(s) = Max(s)
    BY <1>5, <1>9
  <2>2. iter[s] = Frames!Put(msg, iter[s \ {Max(s)}], L[Max(s)])
    <3> HIDE DEF iter, L, n, step
    <3> QED
      BY <1>1, <1>7, <1>9, <2>1 DEF iter
  <2> HIDE DEF iter
  <2> QED
    BY <1>9, <2>1, <2>2
<1>10. PICK run : IsRun(run, n, Maps(msg), Nothing, step) /\ run[n] = iter[1 .. n]
  <2>0. n \in Nat
    BY <1>1
  <2>1. IsFold(iter, n, Maps(msg), Nothing, step)
    <3> HIDE DEF iter, L, n, step
    <3> QED
      BY <1>8, <1>9, Zenon DEF IsFold
  <2>2. step \in Steps(n, Maps(msg))
    <3> HIDE DEF step, L, n
    <3> QED
      BY <1>3 DEF Steps
  <2> HIDE DEF iter, L, n, step
  <2> QED
    BY <2>0, <1>2, <2>1, <2>2, RunOfFold, SMT
<1>11. \A k \in 1 .. n : run[k] = Frames!Put(msg, run[k - 1], L[k])
  <2>1. \A k \in 1 .. n : k - 1 \in 0 .. n
    BY <1>1
  <2> QED
    BY <1>10, <2>1 DEF IsRun
<1>12. Frames!MessageToCBORMap(msg) = MapIter(msg)[DOMAIN L]
  BY DEF Frames!MessageToCBORMap, Frames!FoldLeft, Frames!MapThenFoldSet, MapIter, Nothing
<1> QED
  BY <1>1, <1>10, <1>11, <1>12 DEF IsRun

\* An empty note is not sent.
Sent(msg, f) == ~(f = "note" /\ msg.note \in Frames!Falsy)
\* The entries of the first k fields.
Holds(map, msg, k) ==
  LET L == Frames!Layout[msg.type] IN
  /\ \A j \in 1 .. k : Sent(msg, L[j]) =>
       Frames!KeyOf(L[j]) \in DOMAIN map /\ map[Frames!KeyOf(L[j])] = msg[L[j]]
  /\ \A key \in DOMAIN map : \E j \in 1 .. k : Sent(msg, L[j]) /\ key = Frames!KeyOf(L[j])

\* What an entry more makes of a map.
OneEntry(msg, map, f, put) ==
  /\ ~Sent(msg, f) => put = map
  /\ Sent(msg, f) =>
       /\ DOMAIN put = DOMAIN map \union {Frames!KeyOf(f)}
       /\ \A key \in DOMAIN map \union {Frames!KeyOf(f)} :
            put[key] = IF key = Frames!KeyOf(f) THEN msg[f] ELSE map[key]

LEMMA PutIs ==
  ASSUME NEW msg, NEW map, NEW f
  PROVE  OneEntry(msg, map, f, Frames!Put(msg, map, f))
<1>1. ASSUME ~Sent(msg, f) PROVE Frames!Put(msg, map, f) = map
  BY <1>1, Zenon DEF Sent, Frames!Put
<1>2. ASSUME Sent(msg, f)
      PROVE  Frames!Put(msg, map, f) = [key \in DOMAIN map \union {Frames!KeyOf(f)} |->
                                          IF key = Frames!KeyOf(f) THEN msg[f] ELSE map[key]]
  BY <1>2, Zenon DEF Sent, Frames!Put
<1> DEFINE put == Frames!Put(msg, map, f)
<1>3. /\ ~Sent(msg, f) => put = map
      /\ Sent(msg, f) => put = [key \in DOMAIN map \union {Frames!KeyOf(f)} |->
                                 IF key = Frames!KeyOf(f) THEN msg[f] ELSE map[key]]
  BY <1>1, <1>2, Zenon
<1> HIDE DEF put
<1>4. OneEntry(msg, map, f, put)
  BY <1>3 DEF OneEntry
<1> QED
  BY <1>4, Zenon DEF put

\* One field more.
LEMMA HoldsNext ==
  ASSUME NEW msg, msg.type \in Frames!Types, NEW map, NEW k \in Nat,
         k + 1 <= Len(Frames!Layout[msg.type]), Holds(map, msg, k)
  PROVE  Holds(Frames!Put(msg, map, Frames!Layout[msg.type][k + 1]), msg, k + 1)
<1> DEFINE L == Frames!Layout[msg.type]
           n == Len(L)
           f == L[k + 1]
           put == Frames!Put(msg, map, f)
<1>1. L \in Seq(FieldNames)
  BY LayoutIs
<1>2. \A j \in 1 .. n : L[j] \in Frames!FieldsOf(msg.type)
  BY FieldHasKey
<1>3. \A i \in 1 .. n, j \in 1 .. n : Frames!KeyOf(L[i]) = Frames!KeyOf(L[j]) => L[i] = L[j]
  <2> HIDE DEF L, n
  <2> QED
    BY <1>2, KeysDiffer
<1>4. /\ n \in Nat /\ k + 1 \in 1 .. n
      /\ \A j \in 1 .. k + 1 : j \in 1 .. n /\ (j \in 1 .. k \/ j = k + 1)
      /\ \A j \in 1 .. k : j \in 1 .. n /\ j \in 1 .. k + 1
      /\ k + 1 \in 1 .. k + 1
  <2>1. n \in Nat /\ k + 1 <= n
    <3> HIDE DEF L
    <3> QED
      BY <1>1 DEF L
  <2> HIDE DEF n
  <2> QED
    BY <2>1
<1>5. /\ \A j \in 1 .. k : Sent(msg, L[j]) =>
           Frames!KeyOf(L[j]) \in DOMAIN map /\ map[Frames!KeyOf(L[j])] = msg[L[j]]
      /\ \A key \in DOMAIN map : \E j \in 1 .. k : Sent(msg, L[j]) /\ key = Frames!KeyOf(L[j])
  BY DEF Holds
<1>6. /\ ~Sent(msg, f) => put = map
      /\ Sent(msg, f) => /\ DOMAIN put = DOMAIN map \union {Frames!KeyOf(f)}
                         /\ \A key \in DOMAIN map \union {Frames!KeyOf(f)} :
                              put[key] = IF key = Frames!KeyOf(f) THEN msg[f] ELSE map[key]
  <2>1. OneEntry(msg, map, f, put)
    BY PutIs, Zenon
  <2> HIDE DEF L, f, put
  <2> QED
    BY <2>1, Zenon DEF OneEntry
<1> HIDE DEF L, n, put
<1>7. ASSUME NEW j \in 1 .. k + 1, Sent(msg, L[j])
      PROVE  Frames!KeyOf(L[j]) \in DOMAIN put /\ put[Frames!KeyOf(L[j])] = msg[L[j]]
  <2>1. CASE j \in 1 .. k
    BY <1>3, <1>4, <1>5, <1>6, <1>7, <2>1
  <2>2. CASE j = k + 1
    BY <1>6, <1>7, <2>2
  <2> QED
    BY <1>4, <2>1, <2>2
<1>8. ASSUME NEW key \in DOMAIN put
      PROVE  \E j \in 1 .. k + 1 : Sent(msg, L[j]) /\ key = Frames!KeyOf(L[j])
  <2>1. CASE key \in DOMAIN map
    BY <1>4, <1>5, <2>1
  <2>2. CASE key \notin DOMAIN map
    BY <1>4, <1>6, <1>8, <2>2
  <2> QED
    BY <2>1, <2>2
<1>9. Holds(put, msg, k + 1)
  BY <1>7, <1>8 DEF Holds, L
<1> QED
  BY <1>9 DEF put, L

\* The map of a message: what is sent is in it, and nothing else.
LEMMA MapIs ==
  ASSUME NEW msg, msg.type \in Frames!Types
  PROVE  /\ \A f \in Frames!FieldsOf(msg.type) :
              /\ Frames!KeyOf(f) \in DOMAIN Frames!MessageToCBORMap(msg) <=> Sent(msg, f)
              /\ Sent(msg, f) => Frames!MessageToCBORMap(msg)[Frames!KeyOf(f)] = msg[f]
         /\ Cardinality(DOMAIN Frames!MessageToCBORMap(msg)) \in Nat
<1> DEFINE L == Frames!Layout[msg.type]
           n == Len(L)
           map == Frames!MessageToCBORMap(msg)
<1>1. PICK run \in [0 .. n -> Maps(msg)] :
        /\ run[0] = Nothing
        /\ \A k \in 1 .. n : run[k] = Frames!Put(msg, run[k - 1], L[k])
        /\ map = run[n]
  BY MapRuns, Zenon
<1>2. L \in Seq(FieldNames)
  BY LayoutIs
<1>3. n \in Nat /\ DOMAIN L = 1 .. n
  <2> HIDE DEF L
  <2> QED
    BY <1>2
<1>4. \A k \in Nat : k <= n => Holds(run[k], msg, k)
  <2> DEFINE S == {k \in Nat : k <= n => Holds(run[k], msg, k)}
  <2>1. 0 \in S
    <3>1. Holds(run[0], msg, 0)
      <4>1. 1 .. 0 = {} /\ DOMAIN Nothing = {}
        BY DEF Nothing
      <4> QED
        BY <1>1, <4>1 DEF Holds
    <3> QED
      BY <3>1
  <2>2. ASSUME NEW k \in Nat, k \in S PROVE k + 1 \in S
    <3> HIDE DEF L
    <3>1. SUFFICES ASSUME k + 1 <= n PROVE Holds(run[k + 1], msg, k + 1)
      OBVIOUS
    <3>2. k + 1 \in 1 .. n /\ (k + 1) - 1 = k /\ k <= n
      BY <1>3, <3>1
    <3>3. run[k + 1] = Frames!Put(msg, run[k], L[k + 1])
      BY <1>1, <3>2
    <3>4. Holds(run[k], msg, k)
      BY <2>2, <3>2
    <3>5. k + 1 <= Len(Frames!Layout[msg.type])
      BY <3>1, Zenon DEF L
    <3>6. Holds(Frames!Put(msg, run[k], Frames!Layout[msg.type][k + 1]), msg, k + 1)
      BY <3>4, <3>5, HoldsNext
    <3> QED
      BY <3>3, <3>6, Zenon DEF L
  <2>3. Nat \subseteq S
    <3> HIDE DEF S
    <3> QED
      BY <2>1, <2>2, InductionOnSet
  <2> QED
    BY <2>3
<1>5. Holds(map, msg, n)
  <2>1. Holds(run[n], msg, n)
    <3> HIDE DEF L, map, n
    <3> QED
      BY <1>3, <1>4
  <2> QED
    BY <1>1, <2>1, Zenon
<1>6. Frames!FieldsOf(msg.type) = {L[j] : j \in 1 .. n}
  BY <1>3 DEF Frames!FieldsOf, Frames!Range
<1>7. ASSUME NEW f \in Frames!FieldsOf(msg.type)
      PROVE  /\ Frames!KeyOf(f) \in DOMAIN map <=> Sent(msg, f)
             /\ Sent(msg, f) => map[Frames!KeyOf(f)] = msg[f]
  <2>1. PICK j \in 1 .. n : f = L[j]
    BY <1>6
  <2>2. /\ Sent(msg, f) => Frames!KeyOf(f) \in DOMAIN map /\ map[Frames!KeyOf(f)] = msg[f]
        /\ \A key \in DOMAIN map : \E i \in 1 .. n : Sent(msg, L[i]) /\ key = Frames!KeyOf(L[i])
    BY <1>5, <2>1 DEF Holds
  <2>3. ASSUME Frames!KeyOf(f) \in DOMAIN map PROVE Sent(msg, f)
    <3>1. PICK i \in 1 .. n : Sent(msg, L[i]) /\ Frames!KeyOf(f) = Frames!KeyOf(L[i])
      BY <2>2, <2>3
    <3>2. L[i] \in Frames!FieldsOf(msg.type)
      BY <1>6
    <3>3. f = L[i]
      BY <3>1, <3>2, KeysDiffer, Zenon
    <3> QED
      BY <3>1, <3>3, Zenon
  <2> QED
    BY <2>2, <2>3, Zenon
<1>8. Cardinality(DOMAIN map) \in Nat
  <2>1. run[n] \in Maps(msg)
    <3> HIDE DEF n
    <3> QED
      BY <1>3
  <2>2. PICK keys \in SUBSET MapKeys : map \in [keys -> Values(msg)]
    BY <1>1, <2>1, Zenon DEF Maps
  <2>3. IsFiniteSet(MapKeys)
    <3>1. \A a, b \in Int : IsFiniteSet(a .. b)
      BY FS_Interval, Zenon
    <3> DEFINE last == 99
    <3>2. 0 \in Int /\ last \in Int
      BY SMT
    <3>3. MapKeys = 0 .. last
      BY SMT DEF MapKeys
    <3> HIDE DEF last
    <3> QED
      BY <3>1, <3>2, <3>3, Zenon
  <2>4. IsFiniteSet(keys)
    BY <2>2, <2>3, FS_Subset
  <2>5. DOMAIN map = keys
    BY <2>2
  <2> QED
    BY <2>4, <2>5, FS_CardinalityType
<1> QED
  BY <1>7, <1>8, Zenon

\* A message is a record of the fields of its type.
LEMMA MessageIs ==
  ASSUME NEW msg \in Messages
  PROVE  /\ msg.type \in Frames!Types /\ msg = [f \in Frames!FieldsOf(msg.type) |-> msg[f]]
         /\ "type" \in Frames!FieldsOf(msg.type)
<1>1. PICK t \in Frames!Types, note \in Notes, k \in Kinds : msg = Message(t, note, k)
  BY SMT DEF Messages
<1>2. "type" \in Frames!FieldsOf(t)
  BY LayoutIs
<1>3. msg.type = t
  BY <1>1, <1>2 DEF Message
<1> QED
  BY <1>1, <1>2, <1>3 DEF Message

\* A message as it arrives: an empty note is none.
Delivered(msg) ==
  IF "note" \in DOMAIN msg /\ msg.note = "" THEN [msg EXCEPT !.note = Undefined] ELSE msg

\* What is read from the map of a message is the message.
LEMMA MapIsRead ==
  ASSUME NEW msg \in Messages
  PROVE  Frames!CborMapToMessage(Frames!MessageToCBORMap(msg)) = Delivered(msg)
<1> DEFINE t == msg.type
           map == Frames!MessageToCBORMap(msg)
           fields == Frames!FieldsOf(t)
           get(f) == IF Frames!KeyOf(f) \in DOMAIN map THEN map[Frames!KeyOf(f)] ELSE Frames!Default(f)
<1>1. t \in Frames!Types /\ msg = [f \in fields |-> msg[f]] /\ "type" \in fields
  BY MessageIs
<1>2. \A f \in fields : /\ Frames!KeyOf(f) \in DOMAIN map <=> Sent(msg, f)
                        /\ Sent(msg, f) => map[Frames!KeyOf(f)] = msg[f]
  BY <1>1, MapIs
<1>3. map[Frames!KeyOf("type")] = t
  <2>1. Sent(msg, "type") /\ msg["type"] = t
    BY DEF Sent
  <2> QED
    BY <1>1, <1>2, <2>1, Zenon
<1>4. Frames!CborMapToMessage(map) = [f \in fields |-> get(f)]
  BY <1>1, <1>3, Zenon DEF Frames!CborMapToMessage
<1>5. Delivered(msg) = [f \in fields |-> IF f = "note" /\ msg.note = "" THEN Undefined ELSE msg[f]]
  <2> HIDE DEF fields, t
  <2>1. DOMAIN msg = fields
    BY <1>1
  <2>2. CASE "note" \in fields /\ msg.note = ""
    <3>1. [msg EXCEPT !.note = Undefined] = [f \in fields |-> IF f = "note" THEN Undefined ELSE msg[f]]
      BY <1>1, <2>1
    <3> QED
      BY <2>1, <2>2, <3>1 DEF Delivered
  <2>3. CASE ~("note" \in fields /\ msg.note = "")
    <3>1. \A f \in fields : (IF f = "note" /\ msg.note = "" THEN Undefined ELSE msg[f]) = msg[f]
      BY <2>3
    <3> QED
      BY <1>1, <2>1, <2>3, <3>1 DEF Delivered
  <2> QED
    BY <2>2, <2>3, Zenon
<1>6. ASSUME NEW f \in fields
      PROVE  get(f) = IF f = "note" /\ msg.note = "" THEN Undefined ELSE msg[f]
  <2>1. CASE Sent(msg, f)
    <3>1. get(f) = msg[f]
      BY <1>2, <2>1, Zenon
    <3>2. ~(f = "note" /\ msg.note = "")
      <4>1. msg.note = "" => msg.note \in Frames!Falsy
        BY Zenon DEF Frames!Falsy
      <4> QED
        BY <2>1, <4>1, Zenon DEF Sent
    <3> QED
      BY <3>1, <3>2, Zenon
  <2>2. CASE ~Sent(msg, f)
    <3>1. f = "note" /\ msg.note \in {Undefined, ""}
      BY <2>2, Zenon DEF Sent, Frames!Falsy
    <3>2. Frames!Default("note") = Undefined
      BY SMT DEF Frames!Default
    <3>3. get(f) = Undefined
      BY <1>2, <2>2, <3>1, <3>2, Zenon
    <3>4. msg[f] = msg.note
      BY <3>1
    <3> QED
      BY <3>1, <3>3, <3>4, Zenon
  <2> QED
    BY <2>1, <2>2, Zenon
<1> HIDE DEF get, fields, map
<1>7. [f \in fields |-> get(f)] = [f \in fields |-> IF f = "note" /\ msg.note = "" THEN Undefined ELSE msg[f]]
  BY <1>6
<1> QED
  BY <1>4, <1>5, <1>7, Zenon DEF map

\* The library defines the cardinality once more in every instance.
LEMMA SameCardinality ==
  ASSUME NEW S
  PROVE  Frames!Cardinality(S) = Cardinality(S)
BY Zenon DEF Frames!Cardinality, Cardinality

\* What EncodeFrame makes.
LEMMA FrameIs ==
  ASSUME NEW msg \in Messages
  PROVE  \E length \in Nat :
           Frames!EncodeFrame(msg) =
             [length |-> length, bytes |-> 4 + length, map |-> Frames!MessageToCBORMap(msg)]
<1>1. Cardinality(DOMAIN Frames!MessageToCBORMap(msg)) \in Nat
  BY MessageIs, MapIs
<1> DEFINE length == Cardinality(DOMAIN Frames!MessageToCBORMap(msg))
<1>2. Frames!EncodeFrame(msg) =
        [length |-> length, bytes |-> 4 + length, map |-> Frames!MessageToCBORMap(msg)]
  <2> DEFINE c == Frames!Cardinality(DOMAIN Frames!MessageToCBORMap(msg))
  <2>1. Frames!EncodeFrame(msg) =
          [length |-> c, bytes |-> 4 + c, map |-> Frames!MessageToCBORMap(msg)]
    BY Zenon DEF Frames!EncodeFrame
  <2>2. c = length
    BY SameCardinality, Zenon
  <2> HIDE DEF c, length
  <2> QED
    BY <2>1, <2>2, Zenon
<1> HIDE DEF length
<1> QED
  BY <1>1, <1>2, Zenon DEF length

\* A frame that is all there, whatever follows it.
LEMMA FrameIsDecoded ==
  ASSUME NEW msg \in Messages, NEW frame, NEW length \in Nat, NEW bytes \in Nat, bytes >= 4 + length,
         frame = [length |-> length, bytes |-> bytes, map |-> Frames!MessageToCBORMap(msg)]
  PROVE  Frames!DecodeFrame(frame) = Delivered(msg)
<1> DEFINE map == Frames!MessageToCBORMap(msg)
<1>1. frame = [length |-> length, bytes |-> bytes, map |-> map]
  BY Zenon
<1> HIDE DEF map
<1>2. frame.length = length /\ frame.bytes = bytes /\ frame.map = map
  BY <1>1, SMT
<1>3. ~(frame.bytes < 4 \/ frame.bytes < 4 + frame.length)
  BY <1>2, SMT
<1>4. Frames!DecodeFrame(frame) = Frames!CborMapToMessage(map)
  BY <1>2, <1>3, Zenon DEF Frames!DecodeFrame
<1> QED
  BY <1>4, MapIsRead, Zenon DEF map

\* A frame of which there is only a part.
LEMMA PartIsRejected ==
  ASSUME NEW frame, NEW length \in Nat, NEW bytes \in Nat, bytes < 4 + length,
         frame.length = length, frame.bytes = bytes
  PROVE  Frames!DecodeFrame(frame) = Rejected
<1>1. frame.bytes < 4 \/ frame.bytes < 4 + frame.length
  BY SMT
<1> QED
  BY <1>1, Zenon DEF Frames!DecodeFrame

\* A frame of a type that is not in the table.
LEMMA NewTypeIsRejected ==
  ASSUME NEW frame, frame.map[0] = "resync_request"
  PROVE  Frames!DecodeFrame(frame) = Rejected
<1>1. "resync_request" \notin Frames!Types
  BY SMT DEF Frames!Types, Frames!Layout
<1>2. Frames!KeyOf("type") = 0
  BY SMT DEF Frames!KeyOf, Frames!CBOR_KEYS
<1>3. Frames!CborMapToMessage(frame.map) = Rejected
  BY <1>1, <1>2, Zenon DEF Frames!CborMapToMessage
<1> QED
  BY <1>3, Zenon DEF Frames!DecodeFrame

-----------------------------------------------------------------------------
(* Invite codes.                                                           *)

WordIndex == 0 .. 481

\* The first 256 words are different: the word of a byte is found where it was taken.
LEMMA WordIsFound ==
  ASSUME NEW a \in Byte
  PROVE  /\ Invites!IndexOf(Invites!PGP_WORD_LIST[a]) = a
         /\ Invites!PGP_WORD_LIST[a] \in Invites!Range(Invites!PGP_WORD_LIST)
<1> DEFINE list == Invites!PGP_WORD_LIST
           word == list[a]
           First(i) == list[i] = word /\ \A j \in 0 .. i - 1 : list[j] # word
<1>1. a \in WordIndex /\ (\A j \in 0 .. a - 1 : j \in Byte /\ j # a) /\ WordIndex = DOMAIN list
  BY SMT DEF Byte, WordIndex, Invites!PGP_WORD_LIST
<1>2. ASSUME NEW i \in Byte PROVE list[i] = i
  <2>1. i \in Nat /\ i <= 255
    BY SMT DEF Byte
  <2> HIDE DEF list
  <2>2. i \in 0 .. 481 /\ i \notin 269 .. 272 /\ i \notin 275 .. 481
    BY <2>1, SMT
  <2> QED
    BY <2>2, SMT DEF list, Invites!PGP_WORD_LIST
<1>3. Invites!IndexOf(word) = CHOOSE i \in WordIndex : First(i)
  BY Zenon DEF Invites!IndexOf, WordIndex
<1> HIDE DEF list
<1>4. First(a)
  BY <1>1, <1>2, Zenon
<1>5. ASSUME NEW i \in WordIndex, First(i) PROVE i = a
  <2>1. ~(a \in 0 .. i - 1) /\ ~(i \in 0 .. a - 1)
    BY <1>4, <1>5, Zenon
  <2> QED
    BY <2>1, SMT DEF Byte, WordIndex
<1>6. (CHOOSE i \in WordIndex : First(i)) = a
  <2> HIDE DEF First
  <2> QED
    BY <1>1, <1>4, <1>5, Zenon
<1>7. word \in Invites!Range(list)
  BY <1>1, Zenon DEF Invites!Range
<1> QED
  BY <1>3, <1>6, <1>7, Zenon DEF list

\* FlattenSeq of a pair of sequences.
LEMMA TwoFlattened ==
  ASSUME NEW s \in Seq(Int), NEW t \in Seq(Int), NEW pairs, pairs = <<s, t>>
  PROVE  Invites!FlattenSeq(pairs) = s \o t
<1> DEFINE Eq(g) == g = [i \in 1 .. 2 |-> IF i = 1 THEN pairs[i] ELSE g[i - 1] \o pairs[i]]
           f == CHOOSE g : Eq(g)
           h == [i \in 1 .. 2 |-> IF i = 1 THEN s ELSE s \o t]
<1>1. Len(pairs) = 2 /\ pairs[1] = s /\ pairs[2] = t
  OBVIOUS
<1>2. Invites!FlattenSeq(pairs) = f[2]
  BY <1>1 DEF Invites!FlattenSeq
<1>3. Eq(h)
  BY <1>1
<1>4. Eq(f)
  <2> HIDE DEF Eq, h
  <2> QED
    BY <1>3
<1>5. f[1] = s /\ f[2] = f[1] \o t
  <2> HIDE DEF f
  <2>1. f = [i \in 1 .. 2 |-> IF i = 1 THEN pairs[i] ELSE f[i - 1] \o pairs[i]]
    BY <1>4, Zenon
  <2>2. 1 \in 1 .. 2 /\ 2 \in 1 .. 2 /\ 2 # 1 /\ 2 - 1 = 1
    BY SMT
  <2>3. f[2] = f[2 - 1] \o pairs[2]
    BY <2>1, <2>2, Zenon
  <2>4. f[1] = pairs[1]
    BY <2>1, <2>2, Zenon
  <2> QED
    BY <1>1, <2>2, <2>3, <2>4, Zenon
<1> QED
  BY <1>2, <1>5, Zenon

LEMMA Joined ==
  ASSUME NEW s \in Seq(Int), NEW t \in Seq(Int)
  PROVE  /\ s \o t \in Seq(Int) /\ Len(s \o t) = Len(s) + Len(t)
         /\ \A i \in 1 .. Len(s) : (s \o t)[i] = s[i]
         /\ \A i \in 1 .. Len(t) : (s \o t)[Len(s) + i] = t[i]
<1>1. s \o t \in Seq(Int) /\ Len(s \o t) = Len(s) + Len(t)
  OBVIOUS
<1>2. \A i \in 1 .. Len(s) : (s \o t)[i] = s[i]
  OBVIOUS
<1>3. \A i \in 1 .. Len(t) : (s \o t)[Len(s) + i] = t[i]
  OBVIOUS
<1> QED
  BY <1>1, <1>2, <1>3, Zenon

\* A byte as two hexadecimal digits.
LEMMA DigitsOfByte ==
  ASSUME NEW b \in Byte
  PROVE  b \div 16 \in Int /\ b % 16 \in Int /\ 16 * (b \div 16) + (b % 16) = b
BY SMT DEF Byte

LEMMA HexIs ==
  ASSUME NEW n \in [1 .. 2 -> Byte]
  PROVE  Invites!Hex(n) = <<n[1] \div 16, n[1] % 16, n[2] \div 16, n[2] % 16>>
<1> DEFINE a == n[1] \div 16
           b == n[1] % 16
           c == n[2] \div 16
           d == n[2] % 16
           pairs == [i \in DOMAIN n |-> <<n[i] \div 16, n[i] % 16>>]
<1>1. n[1] \in Byte /\ n[2] \in Byte
  OBVIOUS
<1>2. a \in Int /\ b \in Int /\ c \in Int /\ d \in Int
  BY <1>1, DigitsOfByte, Zenon
<1>3. Invites!Hex(n) = Invites!FlattenSeq(pairs)
  BY Zenon DEF Invites!Hex
<1>4. pairs = [i \in 1 .. 2 |-> IF i = 1 THEN <<a, b>> ELSE <<c, d>>]
  <2>1. \A i \in 1 .. 2 : i = 1 \/ i = 2
    OBVIOUS
  <2>2. DOMAIN n = 1 .. 2
    OBVIOUS
  <2>3. \A i \in 1 .. 2 : <<n[i] \div 16, n[i] % 16>> = IF i = 1 THEN <<a, b>> ELSE <<c, d>>
    BY <2>1, Zenon
  <2> QED
    BY <2>2, <2>3, Zenon
<1> HIDE DEF a, b, c, d, pairs
<1>5. pairs = <<<<a, b>>, <<c, d>>>>
  BY <1>4
<1> DEFINE s == <<a, b>>
           t == <<c, d>>
           u == s \o t
<1>6. /\ s \in Seq(Int) /\ Len(s) = 2 /\ s[1] = a /\ s[2] = b
      /\ t \in Seq(Int) /\ Len(t) = 2 /\ t[1] = c /\ t[2] = d
  BY <1>2
<1>7. Invites!FlattenSeq(pairs) = u
  BY <1>5, <1>6, TwoFlattened, Zenon
<1> HIDE DEF s, t
<1>8. u \in Seq(Int) /\ Len(u) = 4 /\ u[1] = a /\ u[2] = b /\ u[3] = c /\ u[4] = d
  <2>1. /\ u \in Seq(Int) /\ Len(u) = Len(s) + Len(t)
        /\ \A i \in 1 .. Len(s) : u[i] = s[i]
        /\ \A i \in 1 .. Len(t) : u[Len(s) + i] = t[i]
    BY <1>6, Joined, Zenon
  <2> HIDE DEF u
  <2>2. /\ Len(u) = 2 + 2 /\ \A i \in 1 .. 2 : u[i] = s[i]
        /\ \A i \in 1 .. 2 : u[2 + i] = t[i]
    BY <1>6, <2>1, Zenon
  <2>3. 1 \in 1 .. 2 /\ 2 \in 1 .. 2 /\ 2 + 1 = 3 /\ 2 + 2 = 4
    BY SMT
  <2> QED
    BY <1>6, <2>1, <2>2, <2>3, Zenon
<1> HIDE DEF u
<1>9. u = <<a, b, c, d>>
  BY <1>8
<1> QED
  BY <1>3, <1>7, <1>9, Zenon DEF a, b, c, d

\* What GenerateInviteCode makes of four words and two bytes is decoded to them.
LEMMA CodeIsDecoded ==
  ASSUME NEW words \in [1 .. 4 -> Byte], NEW nonce \in [1 .. 2 -> Byte]
  PROVE  Invites!DecodeInviteCode(Invites!GenerateInviteCode(words, nonce)) =
           [wordIndices |-> words, nonceBytes |-> nonce]
<1> DEFINE ws == [i \in 1 .. 4 |-> Invites!PGP_WORD_LIST[words[i]]]
           hex == Invites!Hex(nonce)
           code == [words |-> ws, nonce |-> hex]
<1>1. Invites!GenerateInviteCode(words, nonce) = code
  BY Zenon DEF Invites!GenerateInviteCode
<1>2. \A i \in 1 .. 4 : /\ Invites!IndexOf(ws[i]) = words[i]
                        /\ ws[i] \in Invites!Range(Invites!PGP_WORD_LIST)
  <2>1. \A i \in 1 .. 4 : words[i] \in Byte /\ ws[i] = Invites!PGP_WORD_LIST[words[i]]
    BY Zenon
  <2> QED
    BY <2>1, WordIsFound, Zenon
<1>3. Invites!Range(ws) \subseteq Invites!Range(Invites!PGP_WORD_LIST)
  <2>1. Invites!Range(ws) = {ws[i] : i \in 1 .. 4}
    BY Zenon DEF Invites!Range
  <2> HIDE DEF ws
  <2> QED
    BY <1>2, <2>1, Zenon
<1>4. nonce[1] \in Byte /\ nonce[2] \in Byte
  OBVIOUS
<1>5. /\ Len(hex) = 4
      /\ \A i \in 1 .. 2 : 16 * hex[2 * i - 1] + hex[2 * i] = nonce[i]
  <2> DEFINE a == nonce[1] \div 16
             b == nonce[1] % 16
             c == nonce[2] \div 16
             d == nonce[2] % 16
  <2>1. hex = <<a, b, c, d>>
    BY HexIs, Zenon
  <2>2. a \in Int /\ b \in Int /\ c \in Int /\ d \in Int /\ 16 * a + b = nonce[1] /\ 16 * c + d = nonce[2]
    BY <1>4, DigitsOfByte, Zenon
  <2> HIDE DEF a, b, c, d, hex
  <2>3. Len(hex) = 4 /\ hex[1] = a /\ hex[2] = b /\ hex[3] = c /\ hex[4] = d
    BY <2>1, SMT
  <2>4. ASSUME NEW i \in 1 .. 2 PROVE 16 * hex[2 * i - 1] + hex[2 * i] = nonce[i]
    <3>1. i = 1 \/ i = 2
      OBVIOUS
    <3>2. CASE i = 1
      <4>1. 2 * 1 - 1 = 1 /\ 2 * 1 = 2
        BY SMT
      <4> QED
        BY <2>2, <2>3, <3>2, <4>1, Zenon
    <3>3. CASE i = 2
      <4>1. 2 * 2 - 1 = 3 /\ 2 * 2 = 4
        BY SMT
      <4> QED
        BY <2>2, <2>3, <3>3, <4>1, Zenon
    <3> QED
      BY <3>1, <3>2, <3>3, Zenon
  <2> QED
    BY <2>3, <2>4, Zenon
<1> HIDE DEF ws, hex
<1>6. code.words = ws /\ code.nonce = hex
  BY SMT
<1> HIDE DEF code
<1>7. ~(Len(code.nonce) # 4 \/ ~(Invites!Range(code.words) \subseteq Invites!Range(Invites!PGP_WORD_LIST)))
  BY <1>3, <1>5, <1>6, Zenon
<1>8. Invites!DecodeInviteCode(code) =
        [wordIndices |-> [i \in 1 .. 4 |-> Invites!IndexOf(ws[i])],
         nonceBytes |-> [i \in 1 .. 2 |-> 16 * hex[2 * i - 1] + hex[2 * i]]]
  BY <1>6, <1>7, Zenon DEF Invites!DecodeInviteCode
<1>9. [i \in 1 .. 4 |-> Invites!IndexOf(ws[i])] = words
  BY <1>2
<1>10. [i \in 1 .. 2 |-> 16 * hex[2 * i - 1] + hex[2 * i]] = nonce
  BY <1>5
<1> QED
  BY <1>1, <1>8, <1>9, <1>10, Zenon

-----------------------------------------------------------------------------
(* What happens on the way.                                                *)

\* A sequence with another element at m.
With(a, m, char) == [a EXCEPT ![m] = char]

Element(n, a, m, char) ==
  n \in Nat /\ a \in Seq(Ids!Char) /\ Len(a) = n /\ m \in 1 .. n /\ char \in Ids!Char
IsWith(n, a, m, char, d) ==
  d \in Seq(Ids!Char) /\ Len(d) = n /\ d[m] = char /\ \A i \in 1 .. n : i # m => d[i] = a[i]

\* It differs there and nowhere else.
LEMMA WithIs ==
  ASSUME NEW n, NEW a, NEW m, NEW char, Element(n, a, m, char)
  PROVE  IsWith(n, a, m, char, With(a, m, char))
<1> SUFFICES ASSUME n \in Nat, a \in Seq(Ids!Char), Len(a) = n, m \in 1 .. n, char \in Ids!Char
             PROVE  IsWith(n, a, m, char, With(a, m, char))
  BY Zenon DEF Element
<1> DEFINE C == Ids!Char
           d == With(a, m, char)
<1> HIDE DEF C
<1>0. a \in Seq(C) /\ char \in C
  BY Zenon DEF C
<1>1. d \in [1 .. n -> C]
  BY <1>0 DEF With
<1>2. d \in Seq(C) /\ Len(d) = n
  <2>1. \A e \in [1 .. n -> C] : e \in Seq(C) /\ Len(e) = n
    OBVIOUS
  <2> QED
    BY <1>1, <2>1, Zenon
<1>3. d[m] = char /\ \A i \in 1 .. n : i # m => d[i] = a[i]
  BY <1>0 DEF With
<1> QED
  BY <1>2, <1>3, Zenon DEF C, IsWith

\* A peer id with another character at m.
Mistyped(a, m, char, text) ==
  /\ m \in DOMAIN a /\ char \in Ids!Char /\ char # a[m]
  /\ text.chars = With(a, m, char) /\ text.prefix # "pb-"

LEMMA WrongCharacter ==
  ASSUME NEW key, NEW n, NEW body, NEW check, Issued(key, n, body, check),
         NEW m, NEW char, NEW text, Mistyped(Append(body, check), m, char, text)
  PROVE  Ids!DecodePeerId(text) = Rejected
<1> DEFINE a == Append(body, check)
           d == With(a, m, char)
           N == n + 1
<1>1. n \in Nat /\ body \in Seq(Ids!Char) /\ Len(body) = n /\ check \in Ids!Char
  BY DEF Issued
<1>2. a \in Seq(Ids!Char) /\ Len(a) = N
  BY <1>1, FrontOfAppend, Zenon
<1>3. Mistyped(a, m, char, text)
  BY Zenon
<1> HIDE DEF a
<1>4. /\ m \in DOMAIN a /\ char \in Ids!Char /\ char # a[m] /\ text.chars = d /\ text.prefix # "pb-"
  BY <1>3, Zenon DEF Mistyped
<1> HIDE DEF d, N
<1>5. N \in Nat
  BY <1>1, SMT DEF N
<1>6. m \in 1 .. N
  BY <1>2, <1>4, <1>5, SMT
<1>7. N \in Nat /\ a \in Seq(Ids!Char) /\ Len(a) = N /\ m \in 1 .. N /\ char \in Ids!Char
  BY <1>2, <1>4, <1>5, <1>6, Zenon
<1> DEFINE w == With(a, m, char)
<1>8. /\ w \in Seq(Ids!Char) /\ Len(w) = N /\ w[m] = char
      /\ \A i \in 1 .. N : i # m => w[i] = a[i]
  <2>1. Element(N, a, m, char)
    BY <1>7, Zenon DEF Element
  <2>2. IsWith(N, a, m, char, w)
    BY <2>1, WithIs, Zenon
  <2> HIDE DEF w
  <2> QED
    BY <2>2, Zenon DEF IsWith
<1>9. w = d
  BY Zenon DEF d
<1> HIDE DEF w
<1>10. Misread(a, n, m, d, text)
  BY <1>4, <1>7, <1>8, <1>9, Zenon DEF Misread, N
<1> QED
  BY <1>10, SubstitutedIsRejected, Zenon DEF a

\* A peer id with the characters at m and m + 1 exchanged.
Misordered(a, m, text) ==
  /\ m \in 1 .. Len(a) - 1 /\ a[m] # a[m + 1] /\ ~Alike(a[m], a[m + 1])
  /\ text.chars = With(With(a, m, a[m + 1]), m + 1, a[m]) /\ text.prefix # "pb-"

LEMMA WrongOrder ==
  ASSUME NEW key, NEW n, NEW body, NEW check, Issued(key, n, body, check),
         NEW m, NEW text, Misordered(Append(body, check), m, text)
  PROVE  Ids!DecodePeerId(text) = Rejected
<1> DEFINE a == Append(body, check)
           N == n + 1
           b == m + 1
           x == a[m]
           y == a[b]
           d == With(With(a, m, y), b, x)
<1>1. n \in Nat /\ body \in Seq(Ids!Char) /\ Len(body) = n /\ check \in Ids!Char
  BY DEF Issued
<1>2. a \in Seq(Ids!Char) /\ Len(a) = N
  BY <1>1, FrontOfAppend, Zenon
<1>3. Misordered(a, m, text)
  BY Zenon
<1> HIDE DEF a
<1>4. m \in 1 .. Len(a) - 1 /\ x # y /\ ~Alike(x, y) /\ text.chars = d /\ text.prefix # "pb-"
  BY <1>3, Zenon DEF Misordered
<1> HIDE DEF x, y, d
<1>5. N \in Nat /\ b \in 1 .. N /\ m \in 1 .. N /\ b # m /\ m \in 1 .. n
  <2> HIDE DEF N
  <2>1. m \in 1 .. N - 1
    BY <1>2, <1>4, Zenon
  <2> QED
    BY <1>1, <2>1, SMT DEF N
<1> HIDE DEF N, b
<1>6. x \in Ids!Char /\ y \in Ids!Char
  BY <1>2, <1>5, SMT DEF x, y
<1> DEFINE e == With(a, m, y)
<1>7. d = With(e, b, x)
  BY Zenon DEF d
<1>8. N \in Nat /\ a \in Seq(Ids!Char) /\ Len(a) = N /\ m \in 1 .. N /\ y \in Ids!Char
  BY <1>2, <1>5, <1>6, Zenon
<1>9. e \in Seq(Ids!Char) /\ Len(e) = N /\ e[m] = y /\ \A i \in 1 .. N : i # m => e[i] = a[i]
  <2>1. Element(N, a, m, y)
    BY <1>8, Zenon DEF Element
  <2>2. IsWith(N, a, m, y, e)
    BY <2>1, WithIs, Zenon
  <2> HIDE DEF e
  <2> QED
    BY <2>2, Zenon DEF IsWith
<1> HIDE DEF e
<1>10. N \in Nat /\ e \in Seq(Ids!Char) /\ Len(e) = N /\ b \in 1 .. N /\ x \in Ids!Char
  BY <1>5, <1>6, <1>9, Zenon
<1> DEFINE w == With(e, b, x)
<1>11. w \in Seq(Ids!Char) /\ Len(w) = N /\ w[b] = x /\ \A i \in 1 .. N : i # b => w[i] = e[i]
  <2>1. Element(N, e, b, x)
    BY <1>10, Zenon DEF Element
  <2>2. IsWith(N, e, b, x, w)
    BY <2>1, WithIs, Zenon
  <2> HIDE DEF w
  <2> QED
    BY <2>2, Zenon DEF IsWith
<1> HIDE DEF w
<1>12. w = d
  BY <1>7, Zenon DEF w
<1>13. w[m] = y /\ \A i \in 1 .. N : i \notin {m, b} => w[i] = a[i]
  BY <1>5, <1>9, <1>11, Zenon
<1>14. Exchanged(a, n, m, x, y, d, text)
  BY <1>4, <1>5, <1>11, <1>12, <1>13, Zenon DEF Exchanged, N, b, x, y
<1> QED
  BY <1>14, ExchangedIsRejected, Zenon DEF a

\* The id on the wire before anything has happened to it.
LEMMA IssuedWire ==
  ASSUME CodecAssumption, PeerIdEncoded
  PROVE  \E n, body, check : /\ Issued(value, n, body, check)
                             /\ wire = [prefix |-> "PB-", chars |-> Append(body, check)]
<1>1. value \in Keys /\ wire = Ids!EncodePeerId(value)
  BY DEF PeerIdEncoded
<1>2. PICK n, body, check : Issued(value, n, body, check)
  BY <1>1, IdIsIssued, Zenon
<1>3. wire = [prefix |-> "PB-", chars |-> Append(body, check)]
  BY <1>1, <1>2, Zenon DEF Issued
<1> QED
  BY <1>2, <1>3, Zenon

\* The inductive invariant: until something happens to it, what is on the wire is what
\* was encoded, and every change starts from there.
IInv ==
  /\ change = "none" => Encoded
  /\ DecodeInvertsEncode
  /\ ErrorsAreDetected

\* What arrives unchanged is decoded.
LEMMA EncodedIsDecoded ==
  ASSUME CodecAssumption, Encoded
  PROVE  Decoded = Arrives
<1>1. CASE PeerIdEncoded
  <2>1. kind = "peer id"
    BY <1>1 DEF PeerIdEncoded
  <2>2. Decoded = Ids!DecodePeerId(wire) /\ Arrives = value
    <3>1. kind # "frame"
      BY <2>1
    <3>2. Decoded = Ids!DecodePeerId(wire)
      BY <2>1 DEF Decoded
    <3> QED
      BY <3>1, <3>2, Zenon DEF Arrives
  <2>3. PICK n, body, check : /\ Issued(value, n, body, check)
                              /\ wire = [prefix |-> "PB-", chars |-> Append(body, check)]
    BY <1>1, IssuedWire, Zenon
  <2>4. wire.prefix # "pb-" /\ wire.chars = Append(body, check)
    BY <2>3
  <2>5. Issued(value, n, body, check)
    BY <2>3
  <2>6. Spells(wire, Append(body, check))
    BY <2>4, Zenon DEF Spells
  <2>7. Ids!DecodePeerId(wire) = value
    BY <2>5, <2>6, IssuedIsDecoded, Zenon
  <2> QED
    BY <2>2, <2>7, Zenon
<1>2. CASE FrameEncoded
  <2>1. kind = "frame" /\ value \in Messages /\ wire = Frames!EncodeFrame(value)
    BY <1>2 DEF FrameEncoded
  <2>2. Decoded = Frames!DecodeFrame(wire) /\ Arrives = Delivered(value)
    BY <2>1 DEF Decoded, Arrives, Delivered
  <2>3. PICK length \in Nat :
          wire = [length |-> length, bytes |-> 4 + length, map |-> Frames!MessageToCBORMap(value)]
    BY <2>1, FrameIs
  <2>4. 4 + length \in Nat /\ 4 + length >= 4 + length
    BY SMT
  <2> QED
    BY <2>1, <2>2, <2>3, <2>4, FrameIsDecoded
<1>3. CASE CodeEncoded
  <2>1. /\ kind = "code" /\ value \in Codes
        /\ wire = Invites!GenerateInviteCode(value.wordIndices, value.nonceBytes)
    BY <1>3 DEF CodeEncoded
  <2>2. Decoded = Invites!DecodeInviteCode(wire) /\ Arrives = value
    BY <2>1, SMT DEF Decoded, Arrives
  <2>3. value \in [wordIndices : [1 .. 4 -> Byte], nonceBytes : [1 .. 2 -> Byte]]
    BY <2>1, SMT DEF CodecAssumption, Byte
  <2>4. /\ value.wordIndices \in [1 .. 4 -> Byte] /\ value.nonceBytes \in [1 .. 2 -> Byte]
        /\ value = [wordIndices |-> value.wordIndices, nonceBytes |-> value.nonceBytes]
    BY <2>3
  <2> QED
    BY <2>1, <2>2, <2>4, CodeIsDecoded, Zenon
<1> QED
  BY <1>1, <1>2, <1>3 DEF Encoded

LEMMA InitInv ==
  ASSUME CodecAssumption, Init
  PROVE  IInv
<1>1. change = "none" /\ Encoded
  BY DEF Init
<1>2. Decoded = Arrives
  BY <1>1, EncodedIsDecoded, Zenon
<1>3. DecodeInvertsEncode
  BY <1>2, Zenon DEF DecodeInvertsEncode
<1>4. ErrorsAreDetected
  BY <1>1, SMT DEF ErrorsAreDetected
<1> QED
  BY <1>1, <1>3, <1>4 DEF IInv

\* What has been changed is known by its name.
LEMMA Changes ==
  ASSUME NEW how
  PROVE  /\ how \in {"prefix", "padded"} =>
              how # "none" /\ how \notin {"character", "lowered", "cut", "type"}
         /\ how \in {"character", "lowered", "cut", "type"} => how \notin {"none", "prefix", "padded"}
<1>1. CASE how = "prefix"
  BY <1>1
<1>2. CASE how = "padded"
  BY <1>2
<1>3. CASE how \in {"character", "lowered", "cut", "type"}
  BY <1>3
<1> QED
  BY <1>1, <1>2, <1>3

\* A step that leaves what can be decoded, and one that does not.
LEMMA Kept ==
  ASSUME change' \in {"prefix", "padded"}, Decoded' = Arrives'
  PROVE  IInv'
<1>1. change' # "none" /\ change' \notin {"character", "lowered", "cut", "type"}
  BY Changes, Zenon
<1> QED
  BY <1>1 DEF IInv, DecodeInvertsEncode, ErrorsAreDetected

LEMMA Damaged ==
  ASSUME change' \in {"character", "lowered", "cut", "type"}, Decoded' = Rejected
  PROVE  IInv'
<1>1. change' \notin {"none", "prefix", "padded"}
  BY Changes, Zenon
<1> QED
  BY <1>1 DEF IInv, DecodeInvertsEncode, ErrorsAreDetected

LEMMA SubstituteInv ==
  ASSUME CodecAssumption, IInv, Substitute
  PROVE  IInv'
<1>1. /\ kind = "peer id" /\ change = "none" /\ change' = "character" /\ kind' = kind /\ value' = value
  BY DEF Substitute, Changed
<1>2. PICK m \in DOMAIN wire.chars, char \in Ids!Char :
        char # wire.chars[m] /\ wire' = [wire EXCEPT !.chars[m] = char]
  BY Zenon DEF Substitute
<1>3. PeerIdEncoded
  BY <1>1 DEF IInv, Encoded, PeerIdEncoded, FrameEncoded, CodeEncoded
<1>4. PICK n, body, check : /\ Issued(value, n, body, check)
                            /\ wire = [prefix |-> "PB-", chars |-> Append(body, check)]
  BY <1>3, IssuedWire, Zenon
<1> DEFINE a == Append(body, check)
<1>5. wire = [prefix |-> "PB-", chars |-> a]
  BY <1>4, Zenon
<1> HIDE DEF a
<1>6. wire.chars = a
  BY <1>5, SMT
<1>7. wire' = [prefix |-> "PB-", chars |-> With(a, m, char)]
  <2>1. \A c : [wire EXCEPT !.chars = c] = [prefix |-> "PB-", chars |-> c]
    BY <1>5, SMT
  <2>2. wire' = [wire EXCEPT !.chars = With(a, m, char)]
    BY <1>2, <1>6, SMT DEF With
  <2> QED
    BY <2>1, <2>2, Zenon
<1>8. wire'.prefix # "pb-" /\ wire'.chars = With(a, m, char)
  BY <1>7
<1>9. Mistyped(a, m, char, wire')
  BY <1>2, <1>6, <1>8 DEF Mistyped
<1>10. Ids!DecodePeerId(wire') = Rejected
  BY <1>4, <1>9, WrongCharacter, Zenon DEF a
<1>11. Decoded' = Rejected
  BY <1>1, <1>10 DEF Decoded
<1> QED
  BY <1>1, <1>11, Damaged

LEMMA TransposeInv ==
  ASSUME CodecAssumption, IInv, Transpose
  PROVE  IInv'
<1>1. PICK m \in 1 .. Len(wire.chars) - 1 :
        /\ wire.chars[m] # wire.chars[m + 1]
        /\ wire' = [wire EXCEPT !.chars = [@ EXCEPT ![m] = wire.chars[m + 1],
                                                    ![m + 1] = wire.chars[m]]]
        /\ Changed(IF {wire.chars[m], wire.chars[m + 1]} = {0, 31} THEN "A and 7" ELSE "character")
  BY Zenon DEF Transpose
<1>2. kind = "peer id" /\ change = "none" /\ kind' = kind /\ value' = value
  BY <1>1 DEF Transpose, Changed
<1>3. PeerIdEncoded
  BY <1>2 DEF IInv, Encoded, PeerIdEncoded, FrameEncoded, CodeEncoded
<1>4. PICK n, body, check : /\ Issued(value, n, body, check)
                            /\ wire = [prefix |-> "PB-", chars |-> Append(body, check)]
  BY <1>3, IssuedWire, Zenon
<1> DEFINE a == Append(body, check)
           x == a[m]
           y == a[m + 1]
<1>5. wire = [prefix |-> "PB-", chars |-> a]
  BY <1>4, Zenon
<1> HIDE DEF a
<1>6. wire.chars = a
  BY <1>5, SMT
<1>7. /\ m \in 1 .. Len(a) - 1 /\ x # y /\ change' = IF {x, y} = {0, 31} THEN "A and 7" ELSE "character"
      /\ wire' = [wire EXCEPT !.chars = [@ EXCEPT ![m] = y, ![m + 1] = x]]
  BY <1>1, <1>6 DEF Changed
<1>8. wire' = [prefix |-> "PB-", chars |-> With(With(a, m, y), m + 1, x)]
  <2> HIDE DEF x, y
  <2>1. \A c : [wire EXCEPT !.chars = c] = [prefix |-> "PB-", chars |-> c]
    BY <1>5, SMT
  <2> DEFINE z == [a EXCEPT ![m] = y, ![m + 1] = x]
  <2>0. wire' = [wire EXCEPT !.chars = [@ EXCEPT ![m] = y, ![m + 1] = x]]
    BY <1>7
  <2>2. wire' = [wire EXCEPT !.chars = z]
    BY <1>6, <2>0
  <2>3. z = With(With(a, m, y), m + 1, x)
    BY SMT DEF With
  <2> HIDE DEF z
  <2> QED
    BY <2>1, <2>2, <2>3, Zenon
<1>9. wire'.prefix # "pb-" /\ wire'.chars = With(With(a, m, y), m + 1, x)
  <2> HIDE DEF x, y
  <2> QED
    BY <1>8
<1>10. CASE {x, y} = {0, 31}
  <2>1. change' = "A and 7"
    BY <1>7, <1>10
  <2> QED
    BY <2>1 DEF IInv, DecodeInvertsEncode, ErrorsAreDetected
<1>11. CASE {x, y} # {0, 31}
  <2>1. change' = "character"
    BY <1>7, <1>11
  <2>2. ~Alike(x, y)
    BY <1>11 DEF Alike
  <2>3. Misordered(a, m, wire')
    BY <1>7, <1>9, <2>2, Zenon DEF Misordered
  <2>4. Ids!DecodePeerId(wire') = Rejected
    BY <1>4, <2>3, WrongOrder, Zenon DEF a
  <2>5. Decoded' = Rejected
    BY <1>2, <2>4 DEF Decoded
  <2> QED
    BY <2>1, <2>5, Damaged
<1> QED
  BY <1>10, <1>11

LEMMA DropPrefixInv ==
  ASSUME CodecAssumption, IInv, DropPrefix
  PROVE  IInv'
<1>1. /\ kind = "peer id" /\ change = "none" /\ change' = "prefix" /\ kind' = kind /\ value' = value
      /\ wire' = [wire EXCEPT !.prefix = ""]
  BY DEF DropPrefix, Changed
<1>2. PeerIdEncoded
  BY <1>1 DEF IInv, Encoded, PeerIdEncoded, FrameEncoded, CodeEncoded
<1>3. PICK n, body, check : /\ Issued(value, n, body, check)
                            /\ wire = [prefix |-> "PB-", chars |-> Append(body, check)]
  BY <1>2, IssuedWire, Zenon
<1>4. wire' = [prefix |-> "", chars |-> Append(body, check)]
  <2> DEFINE a == Append(body, check)
  <2>1. wire = [prefix |-> "PB-", chars |-> a]
    BY <1>3, Zenon
  <2> HIDE DEF a
  <2>2. \A p : [wire EXCEPT !.prefix = p] = [prefix |-> p, chars |-> a]
    BY <2>1, SMT
  <2> QED
    BY <1>1, <2>2, Zenon DEF a
<1>5. wire'.prefix # "pb-" /\ wire'.chars = Append(body, check)
  BY <1>4
<1>6. Ids!DecodePeerId(wire') = value
  <2>1. Issued(value, n, body, check)
    BY <1>3
  <2>2. Spells(wire', Append(body, check))
    BY <1>5, Zenon DEF Spells
  <2> QED
    BY <2>1, <2>2, IssuedIsDecoded, Zenon
<1>7. Decoded' = Ids!DecodePeerId(wire') /\ Arrives' = value'
  <2>1. kind' = "peer id" /\ kind' # "frame"
    BY <1>1
  <2>2. Decoded' = Ids!DecodePeerId(wire')
    BY <2>1 DEF Decoded
  <2>3. Arrives' = value'
    BY <2>1, Zenon DEF Arrives
  <2> QED
    BY <2>2, <2>3, Zenon
<1> QED
  BY <1>1, <1>6, <1>7, Kept

\* Two characters more than an id has.
LEMMA LowerIsRejected ==
  ASSUME NEW n \in Nat, n = Ids!BodyLength,
         NEW text, NEW d \in Seq(Ids!Char), text.chars = d, text.prefix = "pb-", Len(d) = n + 1
  PROVE  Ids!DecodePeerId(text) = Rejected
<1> DEFINE typed == <<15, 1>> \o d
<1>1. Ids!Stripped(text) = typed
  BY SMT DEF Ids!Stripped
<1>2. Len(typed) = n + 3
  BY SMT
<1> HIDE DEF typed
<1>3. Len(typed) # Ids!BodyLength + 1
  BY <1>2, SMT
<1>4. ~Ids!VerifyLuhnMod32(typed)
  BY <1>3, Zenon DEF Ids!VerifyLuhnMod32
<1> QED
  BY <1>1, <1>4, Zenon DEF Ids!DecodePeerId

LEMMA LowerPrefixInv ==
  ASSUME CodecAssumption, IInv, LowerPrefix
  PROVE  IInv'
<1>1. /\ kind = "peer id" /\ change = "none" /\ change' = "lowered" /\ kind' = kind /\ value' = value
      /\ wire' = [wire EXCEPT !.prefix = "pb-"]
  BY DEF LowerPrefix, Changed
<1>2. PeerIdEncoded
  BY <1>1 DEF IInv, Encoded, PeerIdEncoded, FrameEncoded, CodeEncoded
<1>3. PICK n, body, check : /\ Issued(value, n, body, check)
                            /\ wire = [prefix |-> "PB-", chars |-> Append(body, check)]
  BY <1>2, IssuedWire, Zenon
<1> DEFINE a == Append(body, check)
<1>4. /\ n \in Nat /\ n = Ids!BodyLength /\ body \in Seq(Ids!Char) /\ Len(body) = n /\ check \in Ids!Char
  BY <1>3 DEF Issued
<1>5. a \in Seq(Ids!Char) /\ Len(a) = n + 1
  BY <1>4, FrontOfAppend, Zenon
<1>6. wire = [prefix |-> "PB-", chars |-> a]
  BY <1>3, Zenon
<1> HIDE DEF a
<1>7. wire'.prefix = "pb-" /\ wire'.chars = a
  BY <1>1, <1>6
<1>8. Ids!DecodePeerId(wire') = Rejected
  BY <1>4, <1>5, <1>7, LowerIsRejected
<1>9. Decoded' = Rejected
  BY <1>1, <1>8 DEF Decoded
<1> QED
  BY <1>1, <1>9, Damaged

\* The frame that arrives, unless something has happened to it.
LEMMA FrameWire ==
  ASSUME IInv, kind = "frame", change = "none"
  PROVE  /\ value \in Messages
         /\ \E length \in Nat : wire = [length |-> length, bytes |-> 4 + length,
                                        map |-> Frames!MessageToCBORMap(value)]
<1>1. FrameEncoded
  BY DEF IInv, Encoded, PeerIdEncoded, FrameEncoded, CodeEncoded
<1> QED
  BY <1>1, FrameIs DEF FrameEncoded

LEMMA FrameChanged ==
  ASSUME NEW map, NEW length \in Nat, NEW w, w = [length |-> length, bytes |-> 4 + length, map |-> map],
         NEW n, NEW type
  PROVE  /\ w.bytes = 4 + length
         /\ [w EXCEPT !.bytes = n] = [length |-> length, bytes |-> n, map |-> map]
         /\ [w EXCEPT !.bytes = @ + 1] = [length |-> length, bytes |-> 4 + length + 1, map |-> map]
         /\ [w EXCEPT !.map[0] = type] =
              [length |-> length, bytes |-> 4 + length, map |-> [map EXCEPT ![0] = type]]
BY SMT

LEMMA CutFrameInv ==
  ASSUME IInv, CutFrame
  PROVE  IInv'
<1>1. /\ kind = "frame" /\ change = "none" /\ change' = "cut" /\ kind' = kind /\ value' = value
  BY DEF CutFrame, Changed
<1>2. PICK n \in 0 .. wire.bytes - 1 : wire' = [wire EXCEPT !.bytes = n]
  BY DEF CutFrame
<1> DEFINE map == Frames!MessageToCBORMap(value)
<1>3. PICK length \in Nat : wire = [length |-> length, bytes |-> 4 + length, map |-> map]
  BY <1>1, FrameWire
<1> HIDE DEF map
<1>4. wire.bytes = 4 + length /\ wire' = [length |-> length, bytes |-> n, map |-> map]
  BY <1>2, <1>3, FrameChanged
<1>5. n \in Nat /\ n < 4 + length
  BY <1>2, <1>4
<1>6. wire'.length = length /\ wire'.bytes = n
  BY <1>4
<1>7. Frames!DecodeFrame(wire') = Rejected
  BY <1>5, <1>6, PartIsRejected, Zenon
<1>8. Decoded' = Rejected
  BY <1>1, <1>7 DEF Decoded
<1> QED
  BY <1>1, <1>8, Damaged

LEMMA PadFrameInv ==
  ASSUME IInv, PadFrame
  PROVE  IInv'
<1>1. /\ kind = "frame" /\ change = "none" /\ change' = "padded" /\ kind' = kind /\ value' = value
      /\ wire' = [wire EXCEPT !.bytes = @ + 1]
  BY DEF PadFrame, Changed
<1> DEFINE map == Frames!MessageToCBORMap(value)
<1>2. PICK length \in Nat : wire = [length |-> length, bytes |-> 4 + length, map |-> map]
  BY <1>1, FrameWire
<1>3. value \in Messages
  BY <1>1, FrameWire
<1> HIDE DEF map
<1>4. wire' = [length |-> length, bytes |-> 4 + length + 1, map |-> map]
  BY <1>1, <1>2, FrameChanged
<1>5. 4 + length + 1 \in Nat /\ 4 + length + 1 >= 4 + length
  BY SMT
<1>6. Frames!DecodeFrame(wire') = Delivered(value)
  BY <1>3, <1>4, <1>5, FrameIsDecoded DEF map
<1>7. Decoded' = Frames!DecodeFrame(wire') /\ Arrives' = Delivered(value)
  BY <1>1 DEF Decoded, Arrives, Delivered
<1> QED
  BY <1>1, <1>6, <1>7, Kept

LEMMA NewTypeInv ==
  ASSUME IInv, NewType
  PROVE  IInv'
<1>1. /\ kind = "frame" /\ change = "none" /\ change' = "type" /\ kind' = kind /\ value' = value
      /\ wire' = [wire EXCEPT !.map[0] = "resync_request"]
  BY DEF NewType, Changed
<1> DEFINE map == Frames!MessageToCBORMap(value)
<1>2. PICK length \in Nat : wire = [length |-> length, bytes |-> 4 + length, map |-> map]
  BY <1>1, FrameWire
<1>3. 0 \in DOMAIN map
  <2>1. value \in Messages
    BY <1>1, FrameWire
  <2>2. value.type \in Frames!Types /\ "type" \in Frames!FieldsOf(value.type)
    BY <2>1, MessageIs
  <2>3. Sent(value, "type")
    BY SMT DEF Sent
  <2>4. Frames!KeyOf("type") \in DOMAIN map
    BY <2>2, <2>3, MapIs
  <2>5. Frames!KeyOf("type") = 0
    BY SMT DEF Frames!KeyOf, Frames!CBOR_KEYS
  <2> QED
    BY <2>4, <2>5, Zenon
<1> HIDE DEF map
<1>4. wire' = [length |-> length, bytes |-> 4 + length, map |-> [map EXCEPT ![0] = "resync_request"]]
  BY <1>1, <1>2, FrameChanged
<1>5. wire'.map[0] = "resync_request"
  BY <1>3, <1>4
<1>6. Frames!DecodeFrame(wire') = Rejected
  BY <1>5, NewTypeIsRejected, Zenon
<1>7. Decoded' = Rejected
  BY <1>1, <1>6 DEF Decoded
<1> QED
  BY <1>1, <1>7, Damaged

\* Every step keeps the invariant: one lemma for each action.
LEMMA Inductive ==
  ASSUME CodecAssumption, IInv, [Next]_vars
  PROVE  IInv'
<1>1. CASE Next
  BY <1>1, SubstituteInv, TransposeInv, DropPrefixInv, LowerPrefixInv, CutFrameInv, PadFrameInv, NewTypeInv DEF Next
<1>2. CASE UNCHANGED vars
  BY <1>2 DEF vars, IInv, Encoded, PeerIdEncoded, FrameEncoded, CodeEncoded, DecodeInvertsEncode,
              ErrorsAreDetected, Decoded, Arrives
<1> QED
  BY <1>1, <1>2

\* Whatever is encoded, a peer id, a message or an invite code, is decoded to
\* itself: for keys of every length and contents, although the groups of five
\* bits cross the bytes and fields of different messages share integer keys
\* (decodePeerId, decodeFrame, decodeInviteCode).
THEOREM DecodersInvert == Spec => []DecodeInvertsEncode
<1>1. Init => IInv
  BY InitInv, CodecAssumption
<1>2. IInv /\ [Next]_vars => IInv'
  BY Inductive, CodecAssumption
<1>3. IInv => DecodeInvertsEncode
  BY DEF IInv
<1> QED
  BY <1>1, <1>2, <1>3, PTL DEF Spec

\* A peer id with one wrong character, or with two neighbours exchanged that
\* are not A and 7, or with its prefix in lower case, is rejected whatever key
\* it was the id of; so is a frame that is cut anywhere, and one of an unknown type (verifyLuhnMod32,
\* decodeFrame, cborMapToMessage).
THEOREM ErrorsDetected == Spec => []ErrorsAreDetected
<1>1. Init => IInv
  BY InitInv, CodecAssumption
<1>2. IInv /\ [Next]_vars => IInv'
  BY Inductive, CodecAssumption
<1>3. IInv => ErrorsAreDetected
  BY DEF IInv
<1> QED
  BY <1>1, <1>2, <1>3, PTL DEF Spec

=============================================================================
