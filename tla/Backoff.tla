------------------------------ MODULE Backoff ------------------------------
(***************************************************************************)
(* The delay before a reconnection (tokio-electrum, client.rs,             *)
(* next_reconnect_interval) and the loop of connection_task that counts    *)
(* the attempts.  Durations are numbers of milliseconds, up to the largest *)
(* Duration; the attempt is a u32 that saturates.                          *)
(***************************************************************************)
EXTENDS Integers, Sequences

CONSTANTS
  DurationMax,  \* Duration::MAX
  AttemptMax,   \* u32::MAX
  Initials,     \* values of Config::reconnect_delay_initial to consider
  Maxima        \* values of Config::reconnect_delay_max to consider

\* The sanitized initial delay and the largest jitter are durations, and the
\* count goes beyond the largest exponent.
ASSUME DurationAssumption == DurationMax \in Nat /\ DurationMax >= 250
ASSUME AttemptAssumption == AttemptMax \in Nat /\ AttemptMax > 11
ASSUME DelaysAssumption == Initials \subseteq 0 .. DurationMax /\ Maxima \subseteq 0 .. DurationMax

VARIABLES
  attempt,  \* reconnect_attempt, the attempts made by this connection task
  delay,    \* the interval of the last sleep, 0 before the first
  initial,  \* Config::reconnect_delay_initial, never changed
  max       \* Config::reconnect_delay_max, never changed

vars == <<attempt, delay, initial, max>>

Lesser(a, b) == IF a <= b THEN a ELSE b
Greater(a, b) == IF a >= b THEN a ELSE b

-----------------------------------------------------------------------------
\* A zero delay configured by the consumer counts as 250 ms.
SanitizedInitial(i) == IF i = 0 THEN 250 ELSE i

\* The maximum is never below the sanitized initial delay.
SanitizedMax(i, m) == Greater(m, SanitizedInitial(i))

\* 1 << attempt.min(10)
Factor(a) == <<1, 2, 4, 8, 16, 32, 64, 128, 256, 512, 1024>>[Lesser(a, 10) + 1]

\* Deterministic jitter of at most 250 ms.
Jitter(a) == (a * 73) % 251

\* Duration::checked_mul and unwrap_or.
CheckedMulOr(d, f, other) == IF d * f > DurationMax THEN other ELSE d * f

\* Duration::saturating_add.
SaturatingAdd(d, e) == Lesser(d + e, DurationMax)

\* Variant of Base with the sanitized initial delay as the fallback.
BaseRestarts(a, i, m) ==
  Lesser(CheckedMulOr(SanitizedInitial(i), Factor(a), SanitizedInitial(i)), SanitizedMax(i, m))

\* Exponential growth up to the maximum, which also stands in for an overflow.
Base(a, i, m) ==
  Lesser(CheckedMulOr(SanitizedInitial(i), Factor(a), SanitizedMax(i, m)), SanitizedMax(i, m))

\* Variant of NextReconnectInterval that adds the jitter after the cap.
NextIntervalUncapped(a, i, m) == SaturatingAdd(Base(a, i, m), Jitter(a))

NextReconnectInterval(a, i, m) ==
  Lesser(SaturatingAdd(Base(a, i, m), Jitter(a)), SanitizedMax(i, m))

-----------------------------------------------------------------------------
\* A connection task starts its count at zero, with any configured delays.
Init ==
  /\ attempt = 0
  /\ delay = 0
  /\ initial \in Initials
  /\ max \in Maxima

\* Variant of Reconnect with an addition that does not saturate.
ReconnectUnbounded ==
  /\ delay' = NextReconnectInterval(attempt, initial, max)
  /\ attempt' = attempt + 1
  /\ UNCHANGED <<initial, max>>

\* Variant of Reconnect with an addition that wraps around.
ReconnectWraps ==
  /\ delay' = NextReconnectInterval(attempt, initial, max)
  /\ attempt' = (attempt + 1) % (AttemptMax + 1)
  /\ UNCHANGED <<initial, max>>

\* The connection failed or ended: compute the interval, count the attempt.
\* The count is not reset by a connection that succeeded.
Reconnect ==
  /\ delay' = NextReconnectInterval(attempt, initial, max)
  /\ attempt' = Lesser(attempt + 1, AttemptMax)
  /\ UNCHANGED <<initial, max>>

Next == Reconnect

Spec == Init /\ [][Next]_vars

-----------------------------------------------------------------------------
TypeOK ==
  /\ attempt \in 0 .. AttemptMax
  /\ delay \in 0 .. DurationMax
  /\ initial \in 0 .. DurationMax
  /\ max \in 0 .. DurationMax

\* Every sleep lasts at least the initial delay and at most the larger of the
\* two configured ones, even where the multiplication or the addition
\* overflows a Duration: never zero, so never a busy loop of attempts.
DelayBounds ==
  attempt > 0 =>
    /\ delay >= SanitizedInitial(initial)
    /\ delay <= SanitizedMax(initial, max)
    /\ delay > 0

\* The delay is that of unbounded arithmetic: the capped exponential plus the
\* jitter, capped again.  The overflow fallbacks never show.
DelayIsReference ==
  (attempt > 0 /\ attempt < AttemptMax) =>
    delay = Lesser(SanitizedInitial(initial) * 2 ^ Lesser(attempt - 1, 10) + Jitter(attempt - 1),
                   SanitizedMax(initial, max))

\* The jitter falls by 178 ms now and then, for the first time when the doubling
\* adds eight times the initial delay.  So while the exponent grows, the delay
\* falls by no more than what that leaves of the 178 ms: never with an initial
\* delay of 23 ms or more (the default is 2 s).  Later it falls with the jitter
\* alone, whatever the number of attempts.
DelayFallsLittle ==
  [][LET fall == IF attempt' <= 11 THEN Greater(178 - 8 * SanitizedInitial(initial), 0) ELSE 178
     IN delay' >= delay - fall]_vars

=============================================================================
