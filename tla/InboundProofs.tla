------------------------------ MODULE InboundProofs ------------------------------
(* Proofs about Inbound: what the rate limiter lets through and what it refuses, for  *)
(* every limit, window and sequence of calls, whatever frames arrive in between.      *)
EXTENDS Inbound, SequenceTheorems, TLAPS

USE SMTT(30), ZenonT(30)

\* What an integer division leaves.
LEMMA Division ==
  ASSUME NEW a \in Nat, NEW b \in Nat \ {0}
  PROVE  /\ a \div b \in Nat
         /\ (a \div b) * b <= a
         /\ a - (a \div b) * b < b
  OBVIOUS

LEMMA IntervalType == Interval \in Nat \ {0}
  BY LimiterAssumption DEF Interval

LEMMA MinOfTwo ==
  ASSUME NEW a \in Nat, NEW b \in Nat
  PROVE  Min({a, b}) = IF a <= b THEN a ELSE b
  BY DEF Min

LEMMA WholeParts ==
  ASSUME NEW a \in Nat, NEW b \in Nat \ {0}, NEW n \in Nat, n * b <= a
  PROVE  n <= a \div b
<1>1. a \div b \in Nat /\ a - (a \div b) * b < b
  BY Division
<1>2. ASSUME n >= (a \div b) + 1 PROVE FALSE
  <2>1. n * b >= ((a \div b) + 1) * b
    BY <1>1, <1>2
  <2> QED
    BY <1>1, <2>1
<1> QED
  BY <1>1, <1>2

LEMMA MaxWithZero ==
  ASSUME NEW a \in Nat, NEW b \in Nat
  PROVE  Max({0, a - b}) = IF a >= b THEN a - b ELSE 0
  BY DEF Max

\* What a call of Allow finds: the bucket filled up to its rim, and the time that was
\* counted not ahead of the clock and less than an interval behind it.
LEMMA RefillFacts ==
  ASSUME LimiterTypeOK
  PROVE  /\ Refill \in Nat
         /\ Refilled \in 0 .. Limit
         /\ Refill = 0 => Refilled = tokens
         /\ Advance \in 0 .. clock
         /\ clock - Advance < Interval
<1>1. clock \in Nat /\ last \in Nat /\ tokens \in Nat /\ clock - last \in Nat /\ tokens <= Limit
  BY LimiterAssumption DEF LimiterTypeOK
<1>2. Refill \in Nat /\ Refill * Interval <= clock - last /\ clock - last - Refill * Interval < Interval
  BY <1>1, IntervalType, Division DEF Refill
<1>3. Refilled = IF Limit <= tokens + Refill THEN Limit ELSE tokens + Refill
  BY <1>1, <1>2, MinOfTwo, LimiterAssumption DEF Refilled
<1>4. Refilled \in 0 .. Limit /\ (Refill = 0 => Refilled = tokens)
  BY <1>1, <1>2, <1>3, LimiterAssumption
<1>5. Refill * Interval \in Nat
  BY <1>2, IntervalType
<1>6. Advance \in 0 .. clock /\ clock - Advance < Interval
  BY <1>1, <1>2, <1>5, IntervalType DEF Advance
<1> QED
  BY <1>2, <1>4, <1>6

\* A refusal leaves the limiter as it was: there is nothing in the bucket, and no interval
\* has passed that could be refilled.
LEMMA RefusalFacts ==
  ASSUME LimiterTypeOK, Refilled = 0
  PROVE  tokens = 0 /\ Refill = 0 /\ Advance = last /\ clock - last < Interval
<1>1. clock \in Nat /\ last \in Nat /\ tokens \in Nat /\ tokens <= Limit
  BY LimiterAssumption DEF LimiterTypeOK
<1>2. Refill \in Nat /\ clock - Advance < Interval
  BY RefillFacts
<1>3. Refilled = IF Limit <= tokens + Refill THEN Limit ELSE tokens + Refill
  BY <1>1, <1>2, MinOfTwo, LimiterAssumption DEF Refilled
<1>4. tokens = 0 /\ Refill = 0
  BY <1>1, <1>2, <1>3, LimiterAssumption
<1>5. Advance = last
  BY <1>1, <1>4, IntervalType DEF Advance
<1> QED
  BY <1>2, <1>4, <1>5

\* Why a bucket bounds what it lets through.  From any moment s on, what was let through
\* and what is left are together at most a full bucket and one more for each interval
\* that was refilled since then, the one that s falls into included.  And once something
\* was let through at s or later, the refilled time is less than an interval behind s.
RateInv ==
  \A s \in 0 .. clock :
    /\ \/ AllowedFrom(s) + tokens <= Limit
       \/ (AllowedFrom(s) + tokens - Limit - 1) * Interval < last - s
    /\ AllowedFrom(s) > 0 => s - last < Interval

\* Why it refuses nobody who keeps to the rate.  From any moment s on, what was let through
\* and what is left are together at least a full bucket, or, if s is not the start, one for
\* each interval that was refilled since then.
SpentInv ==
  \A s \in 0 .. clock :
    \/ AllowedFrom(s) + tokens >= Limit
    \/ s > 0 /\ (AllowedFrom(s) + tokens) * Interval >= last - s

LimiterInv == LimiterTypeOK /\ RateInv /\ SpentInv

LEMMA InitLimiterInv == NewLimiter => LimiterInv
<1> SUFFICES ASSUME NewLimiter PROVE LimiterInv
  OBVIOUS
<1>1. LimiterTypeOK
  BY LimiterAssumption DEF NewLimiter, LimiterTypeOK
<1>2. \A s \in 0 .. clock : s = 0 /\ AllowedFrom(s) + tokens = Limit /\ AllowedFrom(s) = 0
  BY LimiterAssumption DEF NewLimiter, AllowedFrom
<1> QED
  BY <1>1, <1>2, LimiterAssumption DEF LimiterInv, RateInv, SpentInv

LEMMA Distributes ==
  ASSUME NEW a \in Int, NEW b \in Int, NEW i \in Int
  PROVE  (a + b) * i = a * i + b * i
  OBVIOUS

\* More tokens, more time.
LEMMA Product ==
  ASSUME NEW a \in Int, NEW b \in Int, NEW r \in Nat, NEW i \in Nat, a <= b + r
  PROVE  a * i <= b * i + r * i
<1>1. \A c \in Nat : c * i >= 0
  OBVIOUS
<1>2. (b + r - a) * i >= 0
  BY <1>1
<1> QED
  BY <1>2

LEMMA AllowsOneKeeps == LimiterInv /\ AllowsOne => LimiterInv'
<1> SUFFICES ASSUME LimiterInv, AllowsOne PROVE LimiterInv'
  OBVIOUS
<1> USE LimiterAssumption
<1>1. /\ clock \in 0 .. MaxClock /\ clock' = clock /\ clock \in Nat
      /\ allowed \in Nat /\ allowed' = allowed + 1
      /\ before \in [0 .. MaxClock -> 0 .. allowed] /\ before' = before
      /\ last \in Nat /\ last' = Advance /\ tokens \in Nat /\ tokens <= Limit
      /\ tokens' = Refilled - 1 /\ Refilled > 0
  BY DEF LimiterInv, LimiterTypeOK, AllowsOne
<1>2. Refill \in Nat /\ Refilled \in 0 .. Limit /\ Advance \in 0 .. clock /\ clock - Advance < Interval
  BY RefillFacts DEF LimiterInv
<1>3. Refilled = IF Limit <= tokens + Refill THEN Limit ELSE tokens + Refill
  BY <1>1, <1>2, MinOfTwo DEF Refilled
<1>4. LimiterTypeOK'
  BY <1>1, <1>2 DEF LimiterTypeOK
<1>5. Interval' = Interval /\ Interval \in Nat \ {0} /\ last' = last + Refill * Interval
  <2>1. Interval' = Interval
    BY DEF Interval
  <2>2. last' = last + Refill * Interval
    BY <1>1 DEF Advance
  <2> QED
    BY <2>1, <2>2, IntervalType
<1>6. ASSUME NEW s \in 0 .. clock
      PROVE  /\ AllowedFrom(s) \in Nat
             /\ AllowedFrom(s)' = AllowedFrom(s) + 1
             /\ AllowedFrom(s)' + tokens' = AllowedFrom(s) + Refilled
  <2>1. before[s] \in 0 .. allowed /\ before'[s] = before[s]
    BY <1>1
  <2>2. AllowedFrom(s) \in Nat /\ AllowedFrom(s)' = AllowedFrom(s) + 1
    BY <1>1, <2>1 DEF AllowedFrom
  <2> QED
    BY <1>1, <1>2, <2>2
<1>7. RateInv'
  <2> SUFFICES ASSUME NEW s \in 0 .. clock
               PROVE  /\ \/ AllowedFrom(s)' + tokens' <= Limit
                         \/ (AllowedFrom(s)' + tokens' - Limit - 1) * Interval < last' - s
                      /\ s - last' < Interval
    BY <1>1, <1>5 DEF RateInv
  <2> DEFINE X == AllowedFrom(s)' + tokens' - Limit - 1
             Y == AllowedFrom(s) + tokens - Limit - 1
             XTime == X * Interval
             YTime == Y * Interval
             Added == Refill * Interval
  <2>0. /\ X \in Int /\ Y \in Int /\ X <= Y + Refill
        /\ AllowedFrom(s) \in Nat /\ s \in Nat
        /\ AllowedFrom(s)' + tokens' = AllowedFrom(s) + Refilled
    <3>1. /\ AllowedFrom(s) \in Nat /\ s \in Nat
          /\ AllowedFrom(s)' \in Nat /\ tokens' \in Int
          /\ AllowedFrom(s)' + tokens' = AllowedFrom(s) + Refilled
      BY <1>1, <1>2, <1>6
    <3>2. Refilled <= tokens + Refill /\ Refilled \in Nat
      BY <1>1, <1>2, <1>3
    <3>3. Limit \in Nat /\ tokens \in Nat /\ Refill \in Nat
      BY <1>1, <1>2
    <3> QED
      BY <3>1, <3>2, <3>3
  <2> HIDE DEF X, Y
  <2>5. Added \in Nat /\ XTime \in Int /\ YTime \in Int
    BY <1>2, <1>5, <2>0
  <2>6. last' = last + Added /\ Interval \in Nat
    BY <1>5
  <2> HIDE DEF XTime, YTime, Added
  <2>1. s - last' < Interval
    BY <1>1, <1>2, <1>5
  <2>2. CASE AllowedFrom(s) = 0
    BY <1>2, <2>0, <2>1, <2>2
  <2>3. CASE AllowedFrom(s) > 0 /\ Y <= -1
    <3>1. X <= -1 + Refill
      BY <1>2, <2>0, <2>3
    <3>2. X * Interval <= (-1) * Interval + Refill * Interval
      BY <1>2, <2>0, <2>6, <3>1, Product
    <3>3. XTime <= Added - Interval
      BY <2>5, <2>6, <3>2 DEF XTime, Added
    <3>4. s - last < Interval
      BY <2>3 DEF LimiterInv, RateInv
    <3>5. last \in Int /\ s \in Int
      BY <1>1
    <3>6. XTime < last' - s
      BY <2>5, <2>6, <3>3, <3>4, <3>5
    <3> QED
      BY <2>1, <3>6 DEF XTime, X
  <2>4. CASE AllowedFrom(s) > 0 /\ Y > -1
    <3>1. YTime < last - s
      <4>1. ~(AllowedFrom(s) + tokens <= Limit)
        BY <1>1, <2>0, <2>4 DEF Y
      <4> QED
        BY <4>1 DEF LimiterInv, RateInv, YTime, Y
    <3>2. X * Interval <= Y * Interval + Refill * Interval
      BY <1>2, <2>0, <2>6, Product
    <3>3. XTime <= YTime + Added
      BY <3>2 DEF XTime, YTime, Added
    <3>4. last \in Int /\ s \in Int
      BY <1>1
    <3>5. XTime < last' - s
      BY <2>5, <2>6, <3>1, <3>3, <3>4
    <3> QED
      BY <2>1, <3>5 DEF XTime, X
  <2> QED
    BY <2>0, <2>2, <2>3, <2>4
<1>8. SpentInv'
  <2> SUFFICES ASSUME NEW s \in 0 .. clock, AllowedFrom(s) + Refilled < Limit
               PROVE  /\ s > 0
                      /\ (AllowedFrom(s) + Refilled) * Interval >= last + Refill * Interval - s
    BY <1>1, <1>2, <1>5, <1>6 DEF SpentInv
  <2> DEFINE Y == AllowedFrom(s) + tokens
             YTime == Y * Interval
             Added == Refill * Interval
  <2>0. AllowedFrom(s) \in Nat /\ Y \in Nat /\ s \in Nat
    BY <1>1, <1>6
  <2>1. Refilled = tokens + Refill /\ Y < Limit
    BY <1>1, <1>2, <1>3, <2>0
  <2>2. s > 0 /\ YTime >= last - s
    BY <2>0, <2>1 DEF LimiterInv, SpentInv
  <2>3. (AllowedFrom(s) + Refilled) * Interval = YTime + Added
    <3>1. AllowedFrom(s) + Refilled = Y + Refill
      BY <1>1, <1>2, <2>0, <2>1
    <3> HIDE DEF Y
    <3> QED
      BY <1>2, <1>5, <2>0, <3>1, Distributes
  <2>4. YTime \in Nat /\ Added \in Nat /\ last \in Nat /\ s \in Nat
    BY <1>1, <1>2, <1>5, <2>0
  <2>5. (AllowedFrom(s) + Refilled) * Interval >= last + Added - s
    <3> HIDE DEF YTime, Added
    <3> QED
      BY <2>2, <2>3, <2>4
  <2> QED
    BY <2>2, <2>5
<1> QED
  BY <1>4, <1>7, <1>8 DEF LimiterInv

LEMMA TickKeeps == LimiterInv /\ Tick => LimiterInv'
<1> SUFFICES ASSUME LimiterInv, Tick PROVE LimiterInv'
  OBVIOUS
<1> USE LimiterAssumption
<1>1. /\ clock \in 0 .. MaxClock /\ last \in 0 .. clock /\ clock' \in clock + 1 .. MaxClock
      /\ allowed \in Nat /\ before \in [0 .. MaxClock -> 0 .. allowed] /\ tokens \in 0 .. Limit
      /\ tokens' = tokens /\ last' = last /\ allowed' = allowed
      /\ before' = [t \in 0 .. MaxClock |-> IF t > clock THEN allowed ELSE before[t]]
      /\ Interval' = Interval /\ Interval \in Nat \ {0}
  BY IntervalType DEF LimiterInv, LimiterTypeOK, Tick, Interval
<1>2. LimiterTypeOK'
  BY <1>1 DEF LimiterTypeOK
<1>3. \A s \in 0 .. clock : AllowedFrom(s)' = AllowedFrom(s)
  BY <1>1 DEF AllowedFrom
<1>4. ASSUME NEW s \in 0 .. clock', s \notin 0 .. clock
      PROVE  AllowedFrom(s)' = 0 /\ s > 0 /\ last - s < 0
  BY <1>1, <1>4 DEF AllowedFrom
<1>5. RateInv'
  BY <1>1, <1>3, <1>4 DEF LimiterInv, RateInv
<1>6. SpentInv'
  <2>1. tokens * Interval \in Nat
    BY <1>1
  <2>2. ASSUME NEW s \in 0 .. clock', s \notin 0 .. clock
        PROVE  s > 0 /\ (AllowedFrom(s)' + tokens) * Interval >= last - s
    <3>1. AllowedFrom(s)' + tokens = tokens /\ s > 0 /\ last - s < 0 /\ last - s \in Int
      BY <1>1, <1>4, <2>2
    <3> QED
      BY <2>1, <3>1
  <2> QED
    BY <1>1, <1>3, <2>2 DEF LimiterInv, SpentInv
<1> QED
  BY <1>2, <1>5, <1>6 DEF LimiterInv

LEMMA StutterKeeps == LimiterInv /\ UNCHANGED limiter => LimiterInv'
  BY DEF LimiterInv, LimiterTypeOK, RateInv, SpentInv, AllowedFrom, limiter, Interval

LEMMA AllowsNoneKeeps == LimiterInv /\ AllowsNone => LimiterInv'
<1> SUFFICES ASSUME LimiterInv, AllowsNone PROVE LimiterInv'
  OBVIOUS
<1>1. UNCHANGED limiter
  BY RefusalFacts DEF LimiterInv, AllowsNone, limiter
<1> QED
  BY <1>1, StutterKeeps

----------------------------------------------------------------------------------
(* Frames and calls of the limiter together. *)

IInv == TypeOK /\ RateInv /\ SpentInv

LEMMA InitIInv == Init => IInv
  BY InitLimiterInv DEF Init, IInv, TypeOK, LimiterInv

LEMMA ReadingKeeps ==
  ASSUME NEW t \in DOMAIN Body, NEW p \in Parcel(t), sent' = p
  PROVE  sent' \in Parcel(sent'.type)
  BY DEF Parcel

\* A step of Inbound is, for the limiter, a call, a tick or nothing.
LEMMA NextLimiter == Next => AllowsOne \/ AllowsNone \/ Tick \/ UNCHANGED limiter
<1>1. ASSUME NEW t \in DOMAIN Body, NEW p \in Parcel(t),
             DoRecv(p) \/ HandleChunk(p) \/ HandlePending(p) \/ HandleAccepted(p)
      PROVE  AllowsOne \/ AllowsNone \/ Tick \/ UNCHANGED limiter
  BY <1>1 DEF DoRecv, HandleChunk, HandlePending, HandleAccepted
<1> QED
  BY <1>1 DEF Next, Accept, Done, Wait

LEMMA NextIInv == IInv /\ [Next]_vars => IInv'
<1> SUFFICES ASSUME IInv, [Next]_vars PROVE IInv'
  OBVIOUS
<1>1. LimiterInv'
  <2>1. LimiterInv
    BY DEF IInv, TypeOK, LimiterInv
  <2> QED
    BY <2>1, NextLimiter, AllowsOneKeeps, AllowsNoneKeeps, TickKeeps, StutterKeeps DEF vars
<1>2. /\ status' \in {"handshake", "pending", "accepted"}
      /\ sent' # None => sent' \in Parcel(sent'.type)
  <2>1. ASSUME NEW t \in DOMAIN Body, NEW p \in Parcel(t),
               DoRecv(p) \/ HandleChunk(p) \/ HandlePending(p) \/ HandleAccepted(p)
        PROVE  sent' = p /\ status' \in {"handshake", "pending", "accepted"}
    BY <2>1 DEF DoRecv, HandleChunk, HandlePending, HandleAccepted, Reading, IInv, TypeOK
  <2>2. ASSUME Accept \/ Done \/ Wait \/ UNCHANGED vars PROVE <1>2!1 /\ <1>2!2
    BY <2>2 DEF Accept, Done, Wait, vars, IInv, TypeOK, Parcel
  <2> QED
    BY <2>1, <2>2, ReadingKeeps DEF Next
<1> QED
  BY <1>1, <1>2 DEF IInv, TypeOK, LimiterInv

LEMMA InvCorrect == Spec => []IInv
<1>1. Init => IInv
  BY InitIInv
<1>2. IInv /\ [Next]_vars => IInv'
  BY NextIInv
<1> QED
  BY <1>1, <1>2, PTL DEF Spec

\* For every limit and window, and whatever frames arrive when: the bucket is never below
\* zero nor over its limit, and the limiter's time never ahead of the clock
\* (msgLimiter.Allow).
THEOREM LimiterKeepsBounds == Spec => []TypeOK
<1>1. IInv => TypeOK
  BY DEF IInv
<1> QED
  BY <1>1, InvCorrect, PTL

\* Whatever the limit and the window and however the calls fall, the signals let through
\* from any moment until now are at most one full bucket and one for each interval that
\* was completed or begun (msgLimiter.Allow).
THEOREM BurstsAreBounded == Spec => []BurstBounded
<1>1. IInv => BurstBounded
  <2> SUFFICES ASSUME IInv, NEW s \in 0 .. clock
               PROVE  AllowedFrom(s) <= Limit + (clock - s + Interval - 1) \div Interval
    BY DEF BurstBounded
  <2> USE LimiterAssumption
  <2> DEFINE D == clock - s + Interval - 1
             N == AllowedFrom(s) - Limit
  <2>1. /\ clock \in 0 .. MaxClock /\ last \in 0 .. clock /\ tokens \in 0 .. Limit
        /\ Interval \in Nat \ {0} /\ AllowedFrom(s) \in Nat
    BY IntervalType DEF IInv, TypeOK, LimiterTypeOK, AllowedFrom
  <2>2. D \in Nat /\ N \in Int /\ D \div Interval \in Nat
    BY <2>1, Division
  <2>3. CASE N <= 0
    BY <2>1, <2>2, <2>3
  <2>4. CASE N > 0
    <3>1. (AllowedFrom(s) + tokens - Limit - 1) * Interval < last - s
      BY <2>1, <2>4 DEF IInv, RateInv
    <3>2. N <= (AllowedFrom(s) + tokens - Limit - 1) + 1
      BY <2>1
    <3>3. N * Interval <= (AllowedFrom(s) + tokens - Limit - 1) * Interval + 1 * Interval
      BY <2>1, <2>2, <3>2, Product
    <3>4. N * Interval <= D
      BY <2>1, <2>2, <3>1, <3>3
    <3> HIDE DEF D, N
    <3>5. N \in Nat
      BY <2>2, <2>4
    <3>6. N <= D \div Interval
      BY <2>1, <2>2, <3>4, <3>5, WholeParts
    <3> QED
      BY <2>1, <2>2, <3>6 DEF N, D
  <2> QED
    BY <2>2, <2>3, <2>4
<1> QED
  BY <1>1, InvCorrect, PTL

\* Whatever the limit and the window, a signal is refused only when Limit signals were let
\* through during the last Limit intervals: a peer that keeps to the rate is never refused
\* (msgLimiter.Allow).
THEOREM RefusesOnlyWhenSpent == Spec => []RefusedOnlyWhenSpent
<1>1. IInv => RefusedOnlyWhenSpent
  <2> SUFFICES ASSUME IInv, Refilled = 0
               PROVE  AllowedFrom(Max({0, clock - Limit * Interval})) >= Limit
    BY DEF RefusedOnlyWhenSpent
  <2> USE LimiterAssumption
  <2>1. /\ clock \in 0 .. MaxClock /\ last \in 0 .. clock /\ tokens = 0
        /\ Interval \in Nat \ {0} /\ clock - last < Interval
    BY IntervalType, RefusalFacts DEF IInv, TypeOK, LimiterTypeOK
  <2>2. Limit * Interval \in Nat
    BY <2>1
  <2>3. Max({0, clock - Limit * Interval})
          = IF clock >= Limit * Interval THEN clock - Limit * Interval ELSE 0
    BY <2>1, <2>2, MaxWithZero
  <2> DEFINE s == Max({0, clock - Limit * Interval})
             A == AllowedFrom(s)
  <2>4. s \in 0 .. clock
    BY <2>1, <2>2, <2>3
  <2>5. A \in Nat
    BY <2>1, <2>4 DEF IInv, TypeOK, LimiterTypeOK, AllowedFrom
  <2> HIDE DEF A
  <2>6. A >= Limit \/ (s > 0 /\ A * Interval >= last - s)
    BY <2>1, <2>4, <2>5 DEF IInv, SpentInv, A
  <2>7. CASE s > 0 /\ A * Interval >= last - s
    <3>1. s = clock - Limit * Interval
      BY <2>1, <2>2, <2>3, <2>7
    <3>2. A * Interval > Limit * Interval - Interval
      BY <2>1, <2>2, <2>4, <2>5, <2>7, <3>1
    <3>3. ASSUME A <= Limit - 1 PROVE FALSE
      <4>1. A <= (Limit - 1) + 0
        BY <2>5, <3>3
      <4>2. A * Interval <= (Limit - 1) * Interval + 0 * Interval
        BY <2>1, <2>5, <4>1, Product
      <4> QED
        BY <2>1, <2>2, <2>5, <3>2, <4>2
    <3> QED
      BY <2>5, <3>3 DEF A
  <2> QED
    BY <2>6, <2>7 DEF A
<1> QED
  BY <1>1, InvCorrect, PTL

----------------------------------------------------------------------------------
(* Chunks of files. *)

\* A slice of two sequences, one after the other, at the place where they meet.
LEMMA Slices ==
  ASSUME NEW S, NEW s \in Seq(S), NEW t \in Seq(S)
  PROVE  /\ s \o t \in Seq(S) /\ Len(s \o t) = Len(s) + Len(t)
         /\ Slice(s \o t, 0, Len(s)) = s
         /\ Slice(s \o t, Len(s), Len(t)) = t
<1>1. Len(s) \in Nat /\ Len(t) \in Nat
  OBVIOUS
<1>2. /\ s \o t \in Seq(S) /\ Len(s \o t) = Len(s) + Len(t)
      /\ \A i \in 1 .. Len(s) : (s \o t)[i] = s[i]
      /\ \A i \in 1 .. Len(t) : (s \o t)[Len(s) + i] = t[i]
  BY <1>1
<1>3. SubSeq(s \o t, 0 + 1, 0 + Len(s)) = s
  <2> DEFINE u == SubSeq(s \o t, 1, Len(s))
  <2>1. u \in Seq(S) /\ Len(u) = Len(s) /\ \A i \in 1 .. Len(s) : u[i] = s[i]
    BY <1>1, <1>2
  <2> HIDE DEF u
  <2>2. u = s
    BY <2>1, SeqEqual
  <2> QED
    BY <1>1, <2>2 DEF u
<1>4. SubSeq(s \o t, Len(s) + 1, Len(s) + Len(t)) = t
  <2> DEFINE u == SubSeq(s \o t, Len(s) + 1, Len(s) + Len(t))
  <2>1. u \in Seq(S) /\ Len(u) = Len(t) /\ \A i \in 1 .. Len(t) : u[i] = t[i]
    BY <1>1, <1>2
  <2> HIDE DEF u
  <2>2. u = t
    BY <2>1, SeqEqual
  <2> QED
    BY <2>2 DEF u
<1> QED
  BY <1>1, <1>2, <1>3, <1>4 DEF Slice

LEMMA ZeroFirst ==
  ASSUME NEW S, NEW z \in S, NEW s \in Seq(S), NEW t \in Seq(S)
  PROVE  (<<z>> \o s \o t)[1] = z /\ Tail(<<z>> \o s \o t) = s \o t
<1> DEFINE f == <<z>> \o s \o t
           u == s \o t
<1>1. u \in Seq(S) /\ Len(u) = Len(s) + Len(t) /\ Len(s) \in Nat /\ Len(t) \in Nat
  OBVIOUS
<1>2. \A i \in 1 .. Len(u) : u[i] = IF i <= Len(s) THEN s[i] ELSE t[i - Len(s)]
  BY <1>1
<1> DEFINE g == <<z>> \o s
<1>3. /\ g \in Seq(S) /\ Len(g) = 1 + Len(s) /\ g[1] = z
      /\ \A i \in 1 .. Len(s) : g[i + 1] = s[i]
  BY <1>1
<1>4. f = g \o t
  OBVIOUS
<1> HIDE DEF g
<1>5. /\ g \o t \in Seq(S) /\ Len(g \o t) = 1 + Len(s) + Len(t) /\ (g \o t)[1] = z
      /\ \A i \in 1 .. Len(s) + Len(t) :
           (g \o t)[i + 1] = IF i <= Len(s) THEN g[i + 1] ELSE t[i - Len(s)]
  <2>1. /\ g \o t \in Seq(S) /\ Len(g \o t) = Len(g) + Len(t)
        /\ \A i \in 1 .. Len(g) + Len(t) : (g \o t)[i] = IF i <= Len(g) THEN g[i] ELSE t[i - Len(g)]
    <3>1. g \in Seq(S)
      BY <1>3
    <3>2. g \o t \in Seq(S) /\ Len(g \o t) = Len(g) + Len(t)
      BY <3>1
    <3>3. \A i \in 1 .. Len(g) + Len(t) : (g \o t)[i] = IF i <= Len(g) THEN g[i] ELSE t[i - Len(g)]
      BY <3>1
    <3> QED
      BY <3>2, <3>3
  <2> DEFINE h == g \o t
  <2> HIDE DEF h
  <2>2. /\ h \in Seq(S) /\ Len(h) = 1 + Len(s) + Len(t)
        /\ \A i \in 1 .. 1 + Len(s) + Len(t) :
             h[i] = IF i <= 1 + Len(s) THEN g[i] ELSE t[i - (1 + Len(s))]
    BY <1>3, <2>1 DEF h
  <2>3. h[1] = z
    BY <1>1, <1>3, <2>2
  <2>4. ASSUME NEW i \in 1 .. Len(s) + Len(t)
        PROVE  h[i + 1] = IF i <= Len(s) THEN g[i + 1] ELSE t[i - Len(s)]
    <3>1. i + 1 \in 1 .. 1 + Len(s) + Len(t) /\ (i + 1) - (1 + Len(s)) = i - Len(s)
      BY <1>1
    <3> QED
      BY <1>1, <2>2, <3>1
  <2> QED
    BY <2>2, <2>3, <2>4 DEF h
<1> HIDE DEF f, u
<1>6. /\ f \in Seq(S) /\ Len(f) = 1 + Len(u) /\ f[1] = z
      /\ \A i \in 1 .. Len(u) : f[i + 1] = u[i]
  <2>1. f \in Seq(S) /\ Len(f) = 1 + Len(u) /\ f[1] = z
    BY <1>1, <1>4, <1>5
  <2>2. ASSUME NEW i \in 1 .. Len(u) PROVE f[i + 1] = u[i]
    <3>1. i \in 1 .. Len(s) + Len(t) /\ i \in Nat
      BY <1>1
    <3>2. f[i + 1] = IF i <= Len(s) THEN g[i + 1] ELSE t[i - Len(s)]
      BY <1>4, <1>5, <3>1, ZenonT(30)
    <3>3. i <= Len(s) => g[i + 1] = s[i]
      BY <1>1, <1>3, <3>1
    <3>4. u[i] = IF i <= Len(s) THEN s[i] ELSE t[i - Len(s)]
      BY <1>2, ZenonT(30)
    <3> QED
      BY <3>2, <3>3, <3>4, ZenonT(30)
  <2> QED
    BY <2>1, <2>2
<1>7. f # <<>>
  BY <1>1, <1>6
<1> DEFINE r == Tail(f)
<1>8. r \in Seq(S) /\ Len(r) = Len(u) /\ \A i \in 1 .. Len(r) : r[i] = u[i]
  BY <1>1, <1>6, <1>7
<1> HIDE DEF r
<1>9. r = u
  BY <1>1, <1>8, SeqEqual
<1> QED
  BY <1>6, <1>9 DEF f, u, r

\* sendFile's frame begins with a zero, not with the marker of a signal, and
\* handleFileChunk takes it apart where it was put together.
LEMMA ChunkFrame ==
  ASSUME "chunk" \in DOMAIN Body, NEW p \in Parcel("chunk")
  PROVE  ~IsSignal(Frame(p)) /\ ReadChunk(Frame(p)) = p
<1> DEFINE Byte == 0 .. Base - 1
<1>1. PICK id \in Ids, body \in Body["chunk"] : p = [type |-> "chunk", id |-> id, body |-> body]
  BY DEF Parcel
<1>2. id \in Seq(Byte) /\ Len(id) = IdSize /\ body \in Seq(Byte)
  BY <1>1, ParcelAssumption
<1>3. IdSize \in Nat /\ Len(body) \in Nat /\ 0 \in Byte
  BY <1>2, WireAssumption
<1>4. Frame(p) = <<0>> \o id \o body
  BY <1>1 DEF Frame
<1> HIDE DEF Byte
<1>5. Frame(p)[1] = 0 /\ Tail(Frame(p)) = id \o body
  <2>1. (<<0>> \o id \o body)[1] = 0 /\ Tail(<<0>> \o id \o body) = id \o body
    BY <1>2, <1>3, ZeroFirst
  <2> QED
    BY <1>4, <2>1
<1>6. /\ Len(id \o body) = IdSize + Len(body)
      /\ Slice(id \o body, 0, IdSize) = id /\ Slice(id \o body, IdSize, Len(body)) = body
  BY <1>2, Slices
<1>7. ~IsSignal(Frame(p))
  BY <1>5 DEF IsSignal, Marker
<1>8. ReadChunk(Frame(p)) = [type |-> "chunk", id |-> id, body |-> body]
  <2>1. Len(id \o body) - IdSize = Len(body) /\ ~(Len(id \o body) < IdSize)
    BY <1>3, <1>6
  <2> QED
    BY <1>5, <1>6, <2>1, ZenonT(30) DEF ReadChunk
<1> QED
  BY <1>1, <1>7, <1>8

\* Whatever the size of an id and the bytes of a chunk, and whatever the state of the
\* session: a chunk of a file that arrives is handled as a chunk, with the id and the bytes
\* it was sent with; it is never taken for a signal, dropped or held back by the rate
\* limiter (sendFile, handleDecrypted, handleFileChunk).
THEOREM ChunksAreReadBack == Spec => [](sent # None /\ sent.type = "chunk" => got = sent)
<1> DEFINE ReadBack == sent # None /\ sent.type = "chunk" => got = sent
<1>1. Init => ReadBack
  BY DEF Init
<1>2. ReadBack /\ [Next]_vars => ReadBack'
  <2> SUFFICES ASSUME ReadBack, [Next]_vars PROVE ReadBack'
    OBVIOUS
  <2>1. ASSUME NEW t \in DOMAIN Body, NEW p \in Parcel(t),
               DoRecv(p) \/ HandleChunk(p) \/ HandlePending(p) \/ HandleAccepted(p)
        PROVE  ReadBack'
    <3>1. sent' = p
      BY <2>1 DEF DoRecv, HandleChunk, HandlePending, HandleAccepted, Reading
    <3> SUFFICES ASSUME p.type = "chunk" PROVE got' = p
      BY <3>1
    <3>2. t = "chunk"
      BY DEF Parcel
    <3>3. ~IsSignal(Frame(p)) /\ ReadChunk(Frame(p)) = p
      BY <3>2, ChunkFrame
    <3>4. HandleChunk(p)
      BY <2>1, <3>3 DEF DoRecv, HandlePending, HandleAccepted
    <3> QED
      BY <3>3, <3>4 DEF HandleChunk, Reading
  <2>2. CASE Done
    BY <2>2 DEF Done
  <2>3. CASE Accept \/ Wait \/ UNCHANGED vars
    BY <2>3 DEF Accept, Wait, vars
  <2> QED
    BY <2>1, <2>2, <2>3 DEF Next
<1> QED
  BY <1>1, <1>2, PTL DEF Spec
==================================================================================
