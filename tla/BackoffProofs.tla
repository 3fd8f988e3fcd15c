--------------------------- MODULE BackoffProofs ---------------------------
(***************************************************************************)
(* Theorems about Backoff: for every pair of configured delays and every   *)
(* attempt the interval is within its bounds, it is that of unbounded      *)
(* arithmetic, and it hardly falls while the exponent grows.               *)
(***************************************************************************)
EXTENDS Backoff, TLAPS

\* The factor is a power of two between 1 and 1024.
LEMMA FactorRange ==
  ASSUME NEW a \in Nat
  PROVE  Factor(a) \in {1, 2, 4, 8, 16, 32, 64, 128, 256, 512, 1024}
<1>1. Lesser(a, 10) \in 0 .. 10
  BY DEF Lesser
<1> QED
  BY <1>1 DEF Factor

\* The factor doubles up to the tenth attempt.
LEMMA FactorDoubles ==
  ASSUME NEW a \in 0 .. 9
  PROVE  Factor(a + 1) = 2 * Factor(a)
<1>1. a \in {0, 1, 2, 3, 4, 5, 6, 7, 8, 9}
  OBVIOUS
<1> QED
  BY <1>1 DEF Factor, Lesser

\* The powers of two that Factor lists.
LEMMA Powers ==
  ASSUME NEW e \in 0 .. 10
  PROVE  <<1, 2, 4, 8, 16, 32, 64, 128, 256, 512, 1024>>[e + 1] = 2 ^ e
<1>1. CASE e = 0
  BY <1>1, 2 ^ 0 = 1
<1>2. CASE e = 1
  BY <1>2, 2 ^ 1 = 2
<1>3. CASE e = 2
  BY <1>3, 2 ^ 2 = 4
<1>4. CASE e = 3
  BY <1>4, 2 ^ 3 = 8
<1>5. CASE e = 4
  BY <1>5, 2 ^ 4 = 16
<1>6. CASE e = 5
  BY <1>6, 2 ^ 5 = 32
<1>7. CASE e = 6
  BY <1>7, 2 ^ 6 = 64
<1>8. CASE e = 7
  BY <1>8, 2 ^ 7 = 128
<1>9. CASE e = 8
  BY <1>9, 2 ^ 8 = 256
<1>10. CASE e = 9
  BY <1>10, 2 ^ 9 = 512
<1>11. CASE e = 10
  BY <1>11, 2 ^ 10 = 1024
<1> QED
  BY <1>1, <1>2, <1>3, <1>4, <1>5, <1>6, <1>7, <1>8, <1>9, <1>10, <1>11

\* The factor is the power of two that a shift to the left gives.
LEMMA FactorIsPower ==
  ASSUME NEW a \in Nat
  PROVE  Factor(a) = 2 ^ Lesser(a, 10)
<1> DEFINE e == Lesser(a, 10)
<1>1. e \in 0 .. 10
  BY DEF Lesser
<1>2. Factor(a) = <<1, 2, 4, 8, 16, 32, 64, 128, 256, 512, 1024>>[e + 1]
  BY Zenon DEF Factor
<1> HIDE DEF e
<1>3. <<1, 2, 4, 8, 16, 32, 64, 128, 256, 512, 1024>>[e + 1] = 2 ^ e
  BY <1>1, Powers
<1>4. Factor(a) = 2 ^ e
  BY <1>2, <1>3
<1> QED
  BY <1>4 DEF e

\* The jitter is below 251 ms, falls by 178 ms at most, and not before the third
\* attempt.
LEMMA JitterRange ==
  ASSUME NEW a \in Nat
  PROVE  /\ Jitter(a) \in 0 .. 250
         /\ Jitter(a) - Jitter(a + 1) <= 178
         /\ a < 3 => Jitter(a) <= Jitter(a + 1)
<1>1. Jitter(a) \in 0 .. 250 /\ Jitter(a) - Jitter(a + 1) <= 178
  BY DEF Jitter
<1>2. ASSUME a < 3
      PROVE  Jitter(a) <= Jitter(a + 1)
  <2>1. a \in {0, 1, 2}
    BY <1>2
  <2> QED
    BY <2>1 DEF Jitter
<1> QED
  BY <1>1, <1>2

\* Multiplying by a factor does not make a delay smaller.
LEMMA ProductRange ==
  ASSUME NEW i \in Nat, NEW a \in Nat
  PROVE  i * Factor(a) \in Nat /\ i * Factor(a) >= i
BY FactorRange

\* The bounds of the sanitized configuration.
LEMMA SanitizedRange ==
  ASSUME NEW i \in 0 .. DurationMax, NEW m \in 0 .. DurationMax
  PROVE  /\ SanitizedInitial(i) \in 1 .. DurationMax
         /\ SanitizedMax(i, m) \in SanitizedInitial(i) .. DurationMax
<1>1. SanitizedInitial(i) \in 1 .. DurationMax
  BY DurationAssumption DEF SanitizedInitial
<1>2. SanitizedMax(i, m) \in SanitizedInitial(i) .. DurationMax
  BY <1>1, DurationAssumption DEF SanitizedMax, Greater
<1> QED
  BY <1>1, <1>2

\* The bounds of the capped exponential.
LEMMA BaseRange ==
  ASSUME NEW a \in Nat, NEW i \in 0 .. DurationMax, NEW m \in 0 .. DurationMax
  PROVE  Base(a, i, m) \in SanitizedInitial(i) .. SanitizedMax(i, m)
<1>1. SanitizedInitial(i) \in 1 .. DurationMax
  BY SanitizedRange
<1>2. SanitizedMax(i, m) \in SanitizedInitial(i) .. DurationMax
  BY SanitizedRange
<1>3. SanitizedInitial(i) * Factor(a) \in Nat /\ SanitizedInitial(i) * Factor(a) >= SanitizedInitial(i)
  <2>1. SanitizedInitial(i) \in Nat
    BY <1>1, DurationAssumption
  <2> QED
    BY Zenon, <2>1, ProductRange
<1>4. Base(a, i, m) \in SanitizedInitial(i) .. SanitizedMax(i, m)
  <2> DEFINE p == SanitizedInitial(i) * Factor(a)
             s == SanitizedInitial(i)
             x == SanitizedMax(i, m)
  <2>1. Base(a, i, m) = Lesser(IF p > DurationMax THEN x ELSE p, x)
    BY DEF Base, CheckedMulOr
  <2>2. p \in Nat /\ p >= s
    BY <1>3
  <2> HIDE DEF p, s, x
  <2>3. s \in 1 .. DurationMax /\ x \in s .. DurationMax
    BY <1>1, <1>2 DEF s, x
  <2>4. Lesser(IF p > DurationMax THEN x ELSE p, x) \in s .. x
    BY <2>2, <2>3, DurationAssumption DEF Lesser
  <2> QED
    BY <2>1, <2>4 DEF s, x
<1> QED
  BY <1>4

\* The bounds of the interval.
LEMMA IntervalRange ==
  ASSUME NEW a \in Nat, NEW i \in 0 .. DurationMax, NEW m \in 0 .. DurationMax
  PROVE  NextReconnectInterval(a, i, m) \in SanitizedInitial(i) .. SanitizedMax(i, m)
<1>1. /\ SanitizedInitial(i) \in 1 .. DurationMax
      /\ SanitizedMax(i, m) \in SanitizedInitial(i) .. DurationMax
      /\ Base(a, i, m) \in SanitizedInitial(i) .. SanitizedMax(i, m)
  BY SanitizedRange, BaseRange
<1>2. Jitter(a) \in 0 .. 250
  BY JitterRange
<1> QED
  BY <1>1, <1>2, DurationAssumption DEF NextReconnectInterval, SaturatingAdd, Lesser

\* Two successive intervals, while the exponent grows: before the third attempt
\* the jitter does not fall, afterwards the doubling adds eight times the initial
\* delay at least.
LEMMA IntervalGrows ==
  ASSUME NEW a \in 0 .. 9, NEW i \in 0 .. DurationMax, NEW m \in 0 .. DurationMax
  PROVE  NextReconnectInterval(a + 1, i, m)
           >= NextReconnectInterval(a, i, m) - Greater(178 - 8 * SanitizedInitial(i), 0)
<1> DEFINE s == SanitizedInitial(i)
           x == SanitizedMax(i, m)
           p == s * Factor(a)
           q == s * Factor(a + 1)
           j == Jitter(a)
           k == Jitter(a + 1)
<1>1. s \in 1 .. DurationMax /\ x \in s .. DurationMax
  BY SanitizedRange
<1>2. p \in Nat /\ p >= s
  <2>1. s \in Nat /\ a \in Nat
    BY <1>1, DurationAssumption
  <2> QED
    BY Zenon, <2>1, ProductRange
<1>3. q = 2 * p
  BY <1>1, FactorDoubles, FactorRange, DurationAssumption
<1>4. j \in 0 .. 250 /\ k \in 0 .. 250 /\ j - k <= 178
  BY JitterRange
<1>5. j <= k \/ p >= 8 * s
  <2>1. CASE a < 3
    BY <2>1, JitterRange
  <2>2. CASE a >= 3
    <3>1. a \in {3, 4, 5, 6, 7, 8, 9}
      BY <2>2
    <3>2. Factor(a) \in {8, 16, 32, 64, 128, 256, 512}
      BY <3>1 DEF Factor, Lesser
    <3>3. s \in Nat
      BY <1>1, DurationAssumption
    <3> QED
      BY <3>2, <3>3
  <2> QED
    BY <2>1, <2>2
<1>6. NextReconnectInterval(a, i, m)
        = Lesser(Lesser(Lesser(IF p > DurationMax THEN x ELSE p, x) + j, DurationMax), x)
  BY Zenon DEF NextReconnectInterval, SaturatingAdd, Base, CheckedMulOr
<1>7. NextReconnectInterval(a + 1, i, m)
        = Lesser(Lesser(Lesser(IF q > DurationMax THEN x ELSE q, x) + k, DurationMax), x)
  BY Zenon DEF NextReconnectInterval, SaturatingAdd, Base, CheckedMulOr
<1> HIDE DEF x, p, q, j, k
<1> DEFINE d == Lesser(Lesser(Lesser(IF p > DurationMax THEN x ELSE p, x) + j, DurationMax), x)
           e == Lesser(Lesser(Lesser(IF q > DurationMax THEN x ELSE q, x) + k, DurationMax), x)
           fall == Greater(178 - 8 * s, 0)
<1>8. e >= d - fall
  <2> HIDE DEF s
  <2>1. d = Lesser(p + j, x) /\ e = Lesser(q + k, x)
    BY <1>1, <1>2, <1>3, <1>4, DurationAssumption DEF Lesser
  <2>2. fall \in Nat /\ fall >= 178 - 8 * s
    BY <1>1, DurationAssumption DEF Greater
  <2> HIDE DEF d, e, fall
  <2>3. q + k >= p + j - fall
    BY <1>1, <1>2, <1>3, <1>4, <1>5, <2>2, DurationAssumption
  <2> QED
    BY <1>1, <1>2, <1>3, <1>4, <2>1, <2>2, <2>3, DurationAssumption DEF Lesser
<1> HIDE DEF d, e, fall
<1>9. NextReconnectInterval(a + 1, i, m) >= NextReconnectInterval(a, i, m) - fall
  BY Zenon, <1>6, <1>7, <1>8 DEF d, e
<1> QED
  BY Zenon, <1>9 DEF fall

\* Two successive intervals, whatever the attempt: once the exponent stays, the
\* base does, too.
LEMMA IntervalSettles ==
  ASSUME NEW a \in Nat, a >= 10, NEW i \in 0 .. DurationMax, NEW m \in 0 .. DurationMax
  PROVE  NextReconnectInterval(a + 1, i, m) >= NextReconnectInterval(a, i, m) - 178
<1> DEFINE x == SanitizedMax(i, m)
           b == Base(a, i, m)
           j == Jitter(a)
           k == Jitter(a + 1)
<1>1. x \in Nat /\ b \in Nat
  <2>1. /\ SanitizedInitial(i) \in 1 .. DurationMax
        /\ x \in SanitizedInitial(i) .. DurationMax
    BY SanitizedRange
  <2>2. b \in SanitizedInitial(i) .. x
    BY BaseRange
  <2> QED
    BY <2>1, <2>2, DurationAssumption
<1>2. j \in 0 .. 250 /\ k \in 0 .. 250 /\ j - k <= 178
  BY JitterRange
<1>3. Base(a + 1, i, m) = b
  <2>1. Factor(a + 1) = Factor(a)
    BY DEF Factor, Lesser
  <2> QED
    BY Zenon, <2>1 DEF Base
<1>4. /\ NextReconnectInterval(a, i, m) = Lesser(Lesser(b + j, DurationMax), x)
      /\ NextReconnectInterval(a + 1, i, m) = Lesser(Lesser(b + k, DurationMax), x)
  BY Zenon, <1>3 DEF NextReconnectInterval, SaturatingAdd
<1> HIDE DEF x, b, j, k
<1>5. Lesser(Lesser(b + k, DurationMax), x) >= Lesser(Lesser(b + j, DurationMax), x) - 178
  BY <1>1, <1>2, DurationAssumption DEF Lesser
<1> QED
  BY <1>4, <1>5

\* The fallbacks of the overflows never show: a product or a sum that no
\* Duration holds is above the maximum, which caps it anyway.
LEMMA IntervalIsReference ==
  ASSUME NEW a \in Nat, NEW i \in 0 .. DurationMax, NEW m \in 0 .. DurationMax
  PROVE  NextReconnectInterval(a, i, m)
           = Lesser(SanitizedInitial(i) * 2 ^ Lesser(a, 10) + Jitter(a), SanitizedMax(i, m))
<1> DEFINE s == SanitizedInitial(i)
           x == SanitizedMax(i, m)
           p == s * Factor(a)
           j == Jitter(a)
<1>1. s \in 1 .. DurationMax /\ x \in s .. DurationMax
  BY SanitizedRange
<1>2. p \in Nat /\ p >= s
  <2>1. s \in Nat
    BY <1>1, DurationAssumption
  <2> QED
    BY Zenon, <2>1, ProductRange
<1>3. j \in 0 .. 250
  BY JitterRange
<1>4. NextReconnectInterval(a, i, m)
        = Lesser(Lesser(Lesser(IF p > DurationMax THEN x ELSE p, x) + j, DurationMax), x)
  BY Zenon DEF NextReconnectInterval, SaturatingAdd, Base, CheckedMulOr
<1>5. SanitizedInitial(i) * 2 ^ Lesser(a, 10) + Jitter(a) = p + j
  BY Zenon, FactorIsPower
<1> HIDE DEF s, x, p, j
<1>6. Lesser(Lesser(Lesser(IF p > DurationMax THEN x ELSE p, x) + j, DurationMax), x)
        = Lesser(p + j, x)
  BY <1>1, <1>2, <1>3, DurationAssumption DEF Lesser
<1> QED
  BY Zenon, <1>4, <1>5, <1>6 DEF x

-----------------------------------------------------------------------------
\* The delay is the interval of the attempt before, or of the last one when
\* the count is saturated; there is none before the first sleep.
DelayOfAttempt ==
  /\ attempt = 0 => delay = 0
  /\ attempt > 0 =>
       \/ delay = NextReconnectInterval(attempt - 1, initial, max)
       \/ attempt = AttemptMax /\ delay = NextReconnectInterval(attempt, initial, max)

\* The inductive invariant.
IInv == TypeOK /\ DelayOfAttempt

\* The inductive invariant holds at first.
LEMMA InitIInv == Init => IInv
BY DurationAssumption, AttemptAssumption, DelaysAssumption DEF Init, IInv, TypeOK, DelayOfAttempt

\* Every step preserves it.
LEMMA NextIInv == IInv /\ [Next]_vars => IInv'
<1> SUFFICES ASSUME IInv, [Next]_vars
             PROVE  IInv'
  OBVIOUS
<1>1. CASE Reconnect
  <2>1. delay' \in SanitizedInitial(initial) .. SanitizedMax(initial, max)
    BY <1>1, IntervalRange DEF IInv, TypeOK, Reconnect
  <2>2. /\ SanitizedInitial(initial) \in 1 .. DurationMax
        /\ SanitizedMax(initial, max) \in SanitizedInitial(initial) .. DurationMax
    BY SanitizedRange DEF IInv, TypeOK
  <2>3. TypeOK'
    BY <1>1, <2>1, <2>2, DurationAssumption, AttemptAssumption DEF IInv, TypeOK, Reconnect, Lesser
  <2>4. attempt' = attempt + 1 \/ (attempt' = attempt /\ attempt = AttemptMax)
    BY <1>1, AttemptAssumption DEF IInv, TypeOK, Reconnect, Lesser
  <2>5. (attempt + 1) - 1 = attempt
    BY DEF IInv, TypeOK
  <2>6. delay' = NextReconnectInterval(attempt, initial', max')
    BY <1>1 DEF Reconnect
  <2>7. DelayOfAttempt'
    BY <2>4, <2>5, <2>6, <1>1, AttemptAssumption DEF IInv, TypeOK, DelayOfAttempt, Reconnect
  <2> QED
    BY <2>3, <2>7 DEF IInv
<1>2. CASE UNCHANGED vars
  BY <1>2 DEF vars, IInv, TypeOK, DelayOfAttempt
<1> QED
  BY <1>1, <1>2 DEF Next

\* The attempt saturates and a delay is a Duration.
THEOREM TypeCorrect == Spec => []TypeOK
<1>1. IInv => TypeOK
  BY DEF IInv
<1> QED
  BY <1>1, InitIInv, NextIInv, PTL DEF Spec

\* Every sleep of the reconnection loop is within the configured bounds and
\* never zero, for any delays, attempt and width of the integers
\* (next_reconnect_interval).
THEOREM DelayBounded == Spec => []DelayBounds
<1>1. IInv => DelayBounds
  <2> SUFFICES ASSUME IInv, attempt > 0
               PROVE  /\ delay >= SanitizedInitial(initial)
                      /\ delay <= SanitizedMax(initial, max)
                      /\ delay > 0
    BY DEF DelayBounds
  <2>1. PICK a \in Nat : delay = NextReconnectInterval(a, initial, max)
    <3>1. attempt \in Nat /\ attempt - 1 \in Nat
      BY AttemptAssumption DEF IInv, TypeOK
    <3> QED
      BY <3>1 DEF IInv, DelayOfAttempt
  <2>2. delay \in SanitizedInitial(initial) .. SanitizedMax(initial, max)
    BY <2>1, IntervalRange DEF IInv, TypeOK
  <2>3. /\ SanitizedInitial(initial) \in 1 .. DurationMax
        /\ SanitizedMax(initial, max) \in SanitizedInitial(initial) .. DurationMax
    BY SanitizedRange DEF IInv, TypeOK
  <2> QED
    BY <2>2, <2>3, DurationAssumption
<1> QED
  BY <1>1, InitIInv, NextIInv, PTL DEF Spec

\* Every delay is the capped exponential plus the jitter, capped again, of
\* arithmetic without a width: neither checked_mul nor saturating_add shows.
THEOREM DelayMatchesReference == Spec => []DelayIsReference
<1>1. IInv => DelayIsReference
  <2> SUFFICES ASSUME IInv, attempt > 0, attempt < AttemptMax
               PROVE  delay = Lesser(SanitizedInitial(initial) * 2 ^ Lesser(attempt - 1, 10)
                                       + Jitter(attempt - 1),
                                     SanitizedMax(initial, max))
    BY Zenon DEF DelayIsReference
  <2> DEFINE a == attempt - 1
  <2>1. a \in Nat
    BY AttemptAssumption DEF IInv, TypeOK
  <2>2. delay = NextReconnectInterval(a, initial, max)
    BY AttemptAssumption DEF IInv, TypeOK, DelayOfAttempt
  <2>3. initial \in 0 .. DurationMax /\ max \in 0 .. DurationMax
    BY DEF IInv, TypeOK
  <2> QED
    BY Zenon, <2>1, <2>2, <2>3, IntervalIsReference
<1> QED
  BY <1>1, InitIInv, NextIInv, PTL DEF Spec

\* While the exponent grows, the delay falls by no more than what eight times
\* the initial delay leaves of the fall of the jitter; later by the fall of the
\* jitter alone (next_reconnect_interval).
THEOREM DelayNearlyGrows == Spec => DelayFallsLittle
<1> DEFINE fall == IF attempt' <= 11 THEN Greater(178 - 8 * SanitizedInitial(initial), 0) ELSE 178
<1>1. IInv /\ [Next]_vars => [delay' >= delay - fall]_vars
  <2> SUFFICES ASSUME IInv, Reconnect
               PROVE  delay' >= delay - fall
    BY DEF Next
  <2>1. delay' = NextReconnectInterval(attempt, initial, max)
    BY DEF Reconnect
  <2>2. initial \in 0 .. DurationMax /\ max \in 0 .. DurationMax /\ attempt \in Nat
    BY AttemptAssumption DEF IInv, TypeOK
  <2>3. SanitizedInitial(initial) \in Nat /\ SanitizedMax(initial, max) \in Nat
    <3>1. /\ SanitizedInitial(initial) \in 1 .. DurationMax
          /\ SanitizedMax(initial, max) \in SanitizedInitial(initial) .. DurationMax
      BY <2>2, SanitizedRange
    <3> QED
      BY <3>1, DurationAssumption
  <2>4. delay' \in Nat
    <3>1. delay' \in SanitizedInitial(initial) .. SanitizedMax(initial, max)
      BY <2>1, <2>2, IntervalRange
    <3> QED
      BY <2>3, <3>1
  <2>5. fall \in Nat
    BY <2>3 DEF Greater
  <2>6. CASE attempt = 0
    <3>1. delay = 0
      BY <2>6 DEF IInv, DelayOfAttempt
    <3>2. \A d, f \in Nat : d >= 0 - f
      OBVIOUS
    <3>3. delay' >= 0 - fall
      BY <2>4, <2>5, <3>2, Zenon
    <3> QED
      BY <3>1, <3>3, Zenon
  <2>7. CASE attempt > 0 /\ delay = NextReconnectInterval(attempt, initial, max)
    <3>1. delay = delay'
      BY <2>1, <2>7
    <3>2. \A d, f \in Nat : d >= d - f
      OBVIOUS
    <3>3. delay' >= delay' - fall
      BY <2>4, <2>5, <3>2, Zenon
    <3> QED
      BY <3>1, <3>3, Zenon
  <2>8. CASE attempt > 0 /\ delay = NextReconnectInterval(attempt - 1, initial, max)
    <3>1. (attempt - 1) + 1 = attempt
      BY <2>2
    <3>2. CASE attempt - 1 \in 0 .. 9
      <4>1. attempt' <= 11
        BY <2>2, <3>2, AttemptAssumption DEF Reconnect, Lesser
      <4>2. fall = Greater(178 - 8 * SanitizedInitial(initial), 0)
        BY <4>1
      <4>3. delay' >= delay - Greater(178 - 8 * SanitizedInitial(initial), 0)
        BY <2>1, <2>2, <2>8, <3>1, <3>2, IntervalGrows
      <4> QED
        BY <4>2, <4>3, Zenon
    <3>3. CASE attempt - 1 >= 10
      <4>1. attempt' \in Nat /\ attempt' > 11
        BY <2>2, <3>3, AttemptAssumption DEF Reconnect, Lesser
      <4>2. ~ attempt' <= 11
        BY <4>1
      <4>3. fall = 178
        BY <4>2
      <4>4. attempt - 1 \in Nat
        BY <2>2, <2>8
      <4>5. delay' >= delay - 178
        BY <2>1, <2>2, <2>8, <3>1, <3>3, <4>4, IntervalSettles
      <4> QED
        BY <4>3, <4>5, Zenon
    <3> QED
      BY <2>2, <2>8, <3>2, <3>3
  <2> QED
    BY <2>2, <2>6, <2>7, <2>8 DEF IInv, DelayOfAttempt
<1>2. IInv /\ [Next]_vars =>
        [LET bound == IF attempt' <= 11 THEN Greater(178 - 8 * SanitizedInitial(initial), 0) ELSE 178
         IN  delay' >= delay - bound]_vars
  BY <1>1
<1> QED
  BY <1>2, InitIInv, NextIInv, PTL DEF Spec, DelayFallsLittle

=============================================================================
