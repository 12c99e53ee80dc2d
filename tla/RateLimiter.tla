------------------------------- MODULE RateLimiter -------------------------------
(* msgLimiter, the token bucket that a session's read loop asks before it handles a *)
(* signal of an accepted peer.  Allow holds the limiter's mutex throughout, so it    *)
(* is one step; the clock advances between calls by any amount.                     *)
EXTENDS Naturals, FiniteSetsExt

CONSTANTS Limit,      \* -rate-limit
          Window,     \* -rate-window, in units of the clock
          MaxClock    \* bound: the clock stops here

ASSUME LimiterAssumption == Limit \in Nat \ {0} /\ Window \in Nat \ {0} /\ MaxClock \in Nat

VARIABLES
  clock,     \* time.Now()
  tokens,
  last,      \* the time up to which tokens were refilled
  allowed,   \* history: the number of signals that were let through,
  before     \*   and before[t], how many of them before time t

limiter == <<clock, tokens, last, allowed, before>>

\* The time that earns one token; at least one unit.
Interval == IF Window \div Limit = 0 THEN 1 ELSE Window \div Limit

NewLimiter ==
  /\ clock = 0
  /\ tokens = Limit
  /\ last = 0
  /\ allowed = 0
  /\ before = [t \in 0 .. MaxClock |-> 0]

Refill == (clock - last) \div Interval

\* Mutant: the time since the last token was earned is dropped.
Advance_ToNow == clock

\* Mutant: the time that was refilled can be refilled again.
Advance_Forgotten == last

\* The refilled time is counted in whole intervals: a remainder is kept for later.
Advance == last + Refill * Interval

Refilled == Min({Limit, tokens + Refill})

\* Allow answers TRUE ...
AllowsOne ==
  /\ Refilled > 0
  /\ last' = Advance
  /\ tokens' = Refilled - 1
  /\ allowed' = allowed + 1
  /\ UNCHANGED <<clock, before>>

\* ... or FALSE.
AllowsNone ==
  /\ Refilled = 0
  /\ last' = Advance
  /\ tokens' = 0
  /\ UNCHANGED <<clock, allowed, before>>

Tick ==
  /\ clock' \in clock + 1 .. MaxClock
  /\ before' = [t \in 0 .. MaxClock |-> IF t > clock THEN allowed ELSE before[t]]
  /\ UNCHANGED <<tokens, last, allowed>>

--------------------------------------------------------------------------------
(* Properties *)

\* The signals that were let through from the moment s until now.
AllowedFrom(s) == allowed - before[s]

\* The bucket is never negative nor over its limit, and the limiter's time does not
\* run ahead of the clock (Allow subtracts the two).
LimiterTypeOK ==
  /\ clock \in 0 .. MaxClock
  /\ tokens \in 0 .. Limit
  /\ last \in 0 .. clock
  /\ allowed \in Nat /\ before \in [0 .. MaxClock -> 0 .. allowed]

\* However the calls fall, the signals let through from any moment s until now are at
\* most one full bucket and one for each interval that was completed or begun.
BurstBounded == \A s \in 0 .. clock : AllowedFrom(s) <= Limit + (clock - s + Interval - 1) \div Interval

\* A signal is refused only if the peer has used its rate up: Limit signals were let
\* through during the last Limit intervals.
RefusedOnlyWhenSpent ==
  Refilled = 0 => AllowedFrom(Max({0, clock - Limit * Interval})) >= Limit
==================================================================================
