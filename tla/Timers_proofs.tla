--------------------------- MODULE Timers_proofs ----------------------------
(***************************************************************************)
(* Proofs about the timers, for every width of the counter, every scale and*)
(* every set of timers: no wrap of the counter is missed or counted twice, *)
(* so that the slow clock always reads the time, and no timer fires before *)
(* its time, nor later than the register and the tasks delay it.           *)
(***************************************************************************)
EXTENDS Timers, TLAPS

-----------------------------------------------------------------------------
(* Numbers.                                                                *)
LEMMA Wraps ==
  ASSUME NEW M \in Nat \ {0}, NEW x \in 0..(M - 1)
  PROVE  x % M = x /\ (x - M) % M = x /\ (x + M) % M = x
OBVIOUS

LEMMA Differences ==
  ASSUME NEW M \in Nat \ {0}, NEW a \in 0..(M - 1), NEW b \in 0..(M - 1)
  PROVE  (a - b) % M = IF a >= b THEN a - b ELSE a - b + M
<1>1. CASE a >= b
  BY <1>1, Wraps
<1>2. CASE ~(a >= b)
  <2>1. a - b + M \in 0..(M - 1) /\ (a - b + M) - M = a - b
    BY <1>2
  <2>2. ((a - b + M) - M) % M = a - b + M
    BY <2>1, Wraps
  <2> QED  BY <1>2, <2>1, <2>2
<1> QED  BY <1>1, <1>2

LEMMA Sums ==
  ASSUME NEW M \in Nat \ {0}, NEW a \in 0..(M - 1), NEW b \in 0..(M - 1)
  PROVE  (a + b) % M = IF a + b < M THEN a + b ELSE a + b - M
<1>1. CASE a + b < M
  <2>1. a + b \in 0..(M - 1)
    BY <1>1
  <2> QED  BY <1>1, <2>1, Wraps
<1>2. CASE ~(a + b < M)
  <2>1. a + b - M \in 0..(M - 1) /\ (a + b - M) + M = a + b
    BY <1>2
  <2>2. ((a + b - M) + M) % M = a + b - M
    BY <2>1, Wraps
  <2> QED  BY <1>2, <2>1, <2>2
<1> QED  BY <1>1, <1>2

LEMMA Division ==
  ASSUME NEW M \in Nat \ {0}, NEW x \in Nat
  PROVE  /\ x \div M \in Nat /\ x % M \in 0..(M - 1)
         /\ x = M * (x \div M) + (x % M)
<1>1. x % M \in 0..(M - 1)
  OBVIOUS
<1>2. x \div M \in Int
  OBVIOUS
<1>3. x = M * (x \div M) + (x % M)
  OBVIOUS
<1>4. x \div M >= 0
  BY <1>1, <1>2, <1>3
<1> QED BY <1>1, <1>2, <1>3, <1>4

LEMMA TheQuotient ==
  ASSUME NEW M \in Nat \ {0}, NEW q \in Nat, NEW r \in 0..(M - 1)
  PROVE  (M * q + r) \div M = q /\ (M * q + r) % M = r
OBVIOUS

-----------------------------------------------------------------------------
(* The constants.                                                          *)
Half == Modulus \div 2
Bound == Half + MinTimeout

LEMMA ConstantsAre ==
  /\ Modulus \in Nat \ {0} /\ Half \in Nat /\ 2 * Half <= Modulus /\ Half < Modulus
  /\ Scale \in Nat \ {0} /\ Epochs = Scale /\ Slack \in Nat /\ Latest \in Nat
  /\ MinTimeout \in Nat \ {0} /\ StoppedTimeout \in Nat
  /\ StoppedTimeout < Half /\ MinTimeout + Slack < Half
  /\ Bound \in Nat /\ Bound + Slack < Modulus
  /\ Delays \subseteq 0..Half /\ NumTimers \in Nat \ {0}
<1>1. Modulus \in Nat /\ Half \in Int /\ 2 * Half <= Modulus /\ Half <= Modulus
  BY RtcAssumption DEF Half
<1>2. StoppedTimeout < Half /\ MinTimeout + Slack < Half /\ Delays \subseteq 0..Half
  BY RtcAssumption, TimersAssumption DEF Half
<1> HIDE DEF Half
<1> QED
  BY <1>1, <1>2, RtcAssumption, MuxAssumption, TimersAssumption DEF Bound

(* Elapsed time: the moments between two others add up, and a tick makes   *)
(* the time since a moment one more, until it wraps, and the time until it *)
(* one less.                                                               *)
LEMMA ClockElapsed ==
  ASSUME NEW a \in 0..(Modulus - 1), NEW b \in 0..(Modulus - 1)
  PROVE  /\ Elapsed(a, b) = IF a >= b THEN a - b ELSE a - b + Modulus
         /\ Elapsed(a, b) \in 0..(Modulus - 1)
         /\ Elapsed(a, b) = 0 <=> a = b
<1>1. Modulus \in Nat \ {0}
  BY ConstantsAre
<1>2. Elapsed(a, b) = IF a >= b THEN a - b ELSE a - b + Modulus
  BY <1>1, Differences DEF Elapsed
<1> QED  BY <1>1, <1>2

LEMMA Between ==
  ASSUME NEW s \in 0..(Modulus - 1), NEW a \in 0..(Modulus - 1),
         NEW b \in 0..(Modulus - 1), Elapsed(b, s) <= Elapsed(a, s)
  PROVE  Elapsed(a, b) = Elapsed(a, s) - Elapsed(b, s)
<1>1. Modulus \in Nat \ {0}
  BY ConstantsAre
<1>2. /\ Elapsed(b, s) = IF b >= s THEN b - s ELSE b - s + Modulus
      /\ Elapsed(a, s) = IF a >= s THEN a - s ELSE a - s + Modulus
      /\ Elapsed(a, b) = IF a >= b THEN a - b ELSE a - b + Modulus
  BY ClockElapsed
<1> QED  BY <1>1, <1>2

LEMMA TickElapsed ==
  ASSUME NEW n \in 0..(Modulus - 1), NEW t \in 0..(Modulus - 1),
         NEW k, k = IF n + 1 = Modulus THEN 0 ELSE n + 1
  PROVE  /\ k \in 0..(Modulus - 1)
         /\ Elapsed(k, t) = IF Elapsed(n, t) = Modulus - 1 THEN 0 ELSE Elapsed(n, t) + 1
         /\ t # n => Elapsed(t, k) = Elapsed(t, n) - 1
         /\ k = t <=> Elapsed(t, n) = 1
<1>1. Modulus \in Nat \ {0} /\ Modulus # 1
  BY ConstantsAre
<1>2. k \in 0..(Modulus - 1)
  BY <1>1
<1>3. /\ Elapsed(k, t) = IF k >= t THEN k - t ELSE k - t + Modulus
      /\ Elapsed(n, t) = IF n >= t THEN n - t ELSE n - t + Modulus
      /\ Elapsed(t, k) = IF t >= k THEN t - k ELSE t - k + Modulus
      /\ Elapsed(t, n) = IF t >= n THEN t - n ELSE t - n + Modulus
  BY <1>2, ClockElapsed
<1>4. Elapsed(k, t) = IF Elapsed(n, t) = Modulus - 1 THEN 0 ELSE Elapsed(n, t) + 1
  BY <1>1, <1>3
<1>5. t # n => Elapsed(t, k) = Elapsed(t, n) - 1
  BY <1>1, <1>3
<1>6. k = t <=> Elapsed(t, n) = 1
  BY <1>1, <1>3
<1> QED  BY <1>2, <1>4, <1>5, <1>6

LEMMA TickedCount ==
  ASSUME NEW n \in 0..(Modulus - 1)
  PROVE  (n + 1) % Modulus = IF n + 1 = Modulus THEN 0 ELSE n + 1
<1>1. Modulus \in Nat \ {0} /\ Modulus # 1
  BY ConstantsAre
<1>2. 1 \in 0..(Modulus - 1)
  BY <1>1
<1>3. (n + 1) % Modulus = IF n + 1 < Modulus THEN n + 1 ELSE n + 1 - Modulus
  BY <1>1, <1>2, Sums
<1> QED  BY <1>1, <1>3

(* What is reached from a after k ticks.                                   *)
LEMMA Reached ==
  ASSUME NEW a \in 0..(Modulus - 1), NEW k \in 0..(Modulus - 1)
  PROVE  /\ (a + k) % Modulus \in 0..(Modulus - 1)
         /\ Elapsed((a + k) % Modulus, a) = k
<1> DEFINE b == (a + k) % Modulus
<1>1. Modulus \in Nat \ {0}
  BY ConstantsAre
<1>2. b = IF a + k < Modulus THEN a + k ELSE a + k - Modulus
  BY <1>1, Sums
<1> HIDE DEF b
<1>3. b \in 0..(Modulus - 1)
  BY <1>1, <1>2
<1>4. Elapsed(b, a) = IF b >= a THEN b - a ELSE b - a + Modulus
  BY <1>3, ClockElapsed
<1>5. Elapsed(b, a) = k
  BY <1>1, <1>2, <1>4
<1> QED  BY <1>3, <1>5 DEF b

-----------------------------------------------------------------------------
(* The driver.  The next interrupt comes, or has come, before half a period*)
(* and MinTimeout have passed since the last reading; and when it comes,   *)
(* the timer that runs is over, so that its task arms the register anew    *)
(* instead of only reading the counter.                                    *)
pending == rtcEvent \/ timerEventPosted
Wrapped == clock \div Modulus

EpochInv ==
  overflows = IF lastNow <= Count THEN Wrapped ELSE (Wrapped - 1) % Epochs
ReadInv ==
  IF pending
    THEN Elapsed(Count, lastNow) <= Bound + lag
    ELSE /\ 1 <= Elapsed(nextEvent, Count)
         /\ Elapsed(Count, lastNow) + Elapsed(nextEvent, Count) <= Bound
RunInv ==
  running =>
    /\ timeoutFromStartTime <= Elapsed(nextEvent, startTime)
    /\ Elapsed(nextEvent, startTime) <= Half
    /\ \/ Elapsed(Count, startTime) < Elapsed(nextEvent, startTime)
       \/ /\ pending
          /\ Elapsed(Count, startTime) <= Elapsed(nextEvent, startTime) + lag
RtcInv == /\ RtcTypeOK /\ lag \in 0..Slack
          /\ EpochInv /\ ReadInv /\ RunInv

LEMMA CountIs ==
  ASSUME clock \in 0..(Modulus * Epochs - 1)
  PROVE  /\ Count \in 0..(Modulus - 1) /\ Wrapped \in 0..(Epochs - 1)
         /\ clock = Modulus * Wrapped + Count
<1>1. Modulus \in Nat \ {0} /\ Epochs \in Nat \ {0}
  BY ConstantsAre
<1>2. clock \in Nat
  <2>1. Modulus * Epochs \in Int
    BY <1>1
  <2> QED  BY <2>1
<1>3. Count \in 0..(Modulus - 1) /\ Wrapped \in Nat /\ clock = Modulus * Wrapped + Count
  BY <1>1, <1>2, Division DEF Count, Wrapped
<1> HIDE DEF Count, Wrapped
<1>4. Wrapped < Epochs
  <2>1. \A w \in Nat, e \in Nat, m \in Nat \ {0} : e <= w => m * e <= m * w
    OBVIOUS
  <2>2. Epochs <= Wrapped => Modulus * Epochs <= Modulus * Wrapped
    BY <1>1, <1>3, <2>1
  <2>3. Modulus * Epochs \in Int /\ Modulus * Wrapped \in Int
    BY <1>1, <1>3
  <2> QED  BY <1>1, <1>3, <2>2, <2>3
<1> QED  BY <1>1, <1>3, <1>4

LEMMA TimesAre ==
  ASSUME RtcTypeOK
  PROVE  /\ Count \in 0..(Modulus - 1) /\ Wrapped \in 0..(Epochs - 1)
         /\ \A t \in 0..(Modulus - 1) :
              /\ Elapsed(Count, t) \in 0..(Modulus - 1)
              /\ Elapsed(t, Count) \in 0..(Modulus - 1)
         /\ Elapsed(nextEvent, startTime) \in 0..(Modulus - 1)
         /\ Elapsed(Count, Count) = 0
<1>1. Modulus \in Nat \ {0} /\ Count \in 0..(Modulus - 1) /\ Wrapped \in 0..(Epochs - 1)
      /\ nextEvent \in 0..(Modulus - 1) /\ startTime \in 0..(Modulus - 1)
  BY ConstantsAre, CountIs DEF RtcTypeOK
<1> HIDE DEF Count
<1>2. \A a, b \in 0..(Modulus - 1) :
        Elapsed(a, b) \in 0..(Modulus - 1) /\ Elapsed(a, a) = 0
  BY <1>1, ClockElapsed
<1> QED  BY <1>1, <1>2

(* A reading of the counter notices the wrap that there may have been.     *)
LEMMA ReadClock ==
  ASSUME RtcTypeOK, EpochInv, getNow
  PROVE  /\ lastNow' = Count /\ lastNow' \in 0..(Modulus - 1)
         /\ overflows' = Wrapped /\ overflows' \in 0..(Epochs - 1)
<1>1. /\ Count \in 0..(Modulus - 1) /\ Wrapped \in 0..(Epochs - 1)
      /\ Epochs \in Nat \ {0} /\ lastNow \in 0..(Modulus - 1)
  BY TimesAre, ConstantsAre DEF RtcTypeOK
<1>2. lastNow' = Count
  BY DEF getNow
<1>3. overflows' = Wrapped
  <2>1. CASE lastNow <= Count
    <3>1. ~(Count < lastNow) /\ overflows = Wrapped
      BY <1>1, <2>1 DEF EpochInv
    <3> QED  BY <3>1 DEF getNow
  <2>2. CASE ~(lastNow <= Count)
    <3>1. Count < lastNow /\ overflows = (Wrapped - 1) % Epochs
      BY <1>1, <2>2 DEF EpochInv
    <3>2. overflows' = (((Wrapped - 1) % Epochs) + 1) % Epochs
      BY <3>1 DEF getNow
    <3> HIDE DEF Wrapped
    <3>3. CASE Wrapped = 0
      <4>1. Epochs - 1 \in 0..(Epochs - 1) /\ (Epochs - 1) - Epochs = Wrapped - 1
            /\ 0 \in 0..(Epochs - 1) /\ (Epochs - 1) + 1 = 0 + Epochs
        BY <1>1, <3>3
      <4>2. (Wrapped - 1) % Epochs = Epochs - 1
        BY <1>1, <4>1, Wraps
      <4>3. ((Epochs - 1) + 1) % Epochs = 0
        BY <1>1, <4>1, Wraps
      <4> QED  BY <3>2, <3>3, <4>2, <4>3
    <3>4. CASE Wrapped # 0
      <4>1. Wrapped - 1 \in 0..(Epochs - 1) /\ (Wrapped - 1) + 1 = Wrapped
        BY <1>1, <3>4
      <4> QED  BY <1>1, <3>2, <4>1, Wraps
    <3> QED  BY <3>3, <3>4
  <2> QED  BY <2>1, <2>2
<1> QED  BY <1>1, <1>2, <1>3

(* arm() for a delay from now.                                             *)
LEMMA Arms ==
  ASSUME Count \in 0..(Modulus - 1), NEW dt \in 0..Half, arm(Count, dt)
  PROVE  /\ nextEvent' \in 0..(Modulus - 1)
         /\ Elapsed(nextEvent', Count) = IF dt < MinTimeout THEN MinTimeout ELSE dt
<1> DEFINE c == Count
           e == (c + MinTimeout) % Modulus
           x == (c + dt) % Modulus
<1>1. /\ Modulus \in Nat \ {0} /\ Half \in Nat /\ 2 * Half <= Modulus
      /\ MinTimeout \in Nat \ {0} /\ MinTimeout < Half /\ Half < Modulus
      /\ MinTimeout \in 0..(Modulus - 1) /\ dt \in 0..(Modulus - 1)
  <2> HIDE DEF Half
  <2> QED  BY ConstantsAre
<1> HIDE DEF Half
<1>2. c \in 0..(Modulus - 1)
  OBVIOUS
<1>3. nextEvent' = IF IsAfter(e, x) THEN e ELSE x
  BY DEF arm
<1> HIDE DEF c
<1>4. /\ e \in 0..(Modulus - 1) /\ Elapsed(e, c) = MinTimeout
      /\ x \in 0..(Modulus - 1) /\ Elapsed(x, c) = dt
  BY <1>1, <1>2, Reached
<1> HIDE DEF e, x
<1>5. CASE dt < MinTimeout
  <2>1. (e - x) % Modulus = MinTimeout - dt
    <3>1. Elapsed(x, c) <= Elapsed(e, c)
      BY <1>1, <1>4, <1>5
    <3>2. Elapsed(e, x) = MinTimeout - dt
      BY <1>2, <1>4, <3>1, Between
    <3> QED  BY <3>2 DEF Elapsed
  <2>2. 0 < MinTimeout - dt /\ MinTimeout - dt < Half
    BY <1>1, <1>5
  <2>3. IsAfter(e, x)
    BY <2>1, <2>2 DEF IsAfter, Half
  <2> QED  BY <1>3, <1>4, <1>5, <2>3 DEF c
<1>6. CASE ~(dt < MinTimeout)
  <2>1. Elapsed(x, e) = dt - MinTimeout
    <3>1. Elapsed(e, c) <= Elapsed(x, c)
      BY <1>1, <1>4, <1>6
    <3> QED  BY <1>2, <1>4, <3>1, Between
  <2>2. Elapsed(e, x) = IF dt = MinTimeout THEN 0 ELSE Modulus - (dt - MinTimeout)
    <3>1. /\ Elapsed(x, e) = IF x >= e THEN x - e ELSE x - e + Modulus
          /\ Elapsed(e, x) = IF e >= x THEN e - x ELSE e - x + Modulus
      BY <1>4, ClockElapsed
    <3> QED  BY <1>1, <1>4, <2>1, <3>1
  <2>3. ~(0 < Elapsed(e, x) /\ Elapsed(e, x) < Half)
    BY <1>1, <1>6, <2>2
  <2>4. ~IsAfter(e, x)
    BY <2>3 DEF IsAfter, Half, Elapsed
  <2> QED  BY <1>3, <1>4, <1>6, <2>4 DEF c
<1> QED  BY <1>5, <1>6

-----------------------------------------------------------------------------
(* What the operations of the driver do to its invariant.  The lag is kept *)
(* as long as an interrupt or its task is waiting.                         *)
LagKept == lag' \in 0..Slack /\ (pending' => lag' = lag)

LEMMA RestsRtc ==
  ASSUME RtcInv, UNCHANGED rtcVars, LagKept
  PROVE  RtcInv'
<1>1. /\ UNCHANGED <<clock, lastNow, overflows, running, startTime,
                     timeoutFromStartTime, nextEvent, rtcEvent, timerEventPosted>>
      /\ pending' = pending /\ (pending => lag' = lag) /\ lag' \in 0..Slack
  BY DEF rtcVars, pending, LagKept
<1>2. RtcTypeOK' /\ EpochInv'
  BY <1>1 DEF RtcInv, RtcTypeOK, EpochInv, Count, Wrapped
<1>3. ReadInv' /\ RunInv'
  BY <1>1 DEF RtcInv, ReadInv, RunInv, Count, Elapsed
<1> QED  BY <1>1, <1>2, <1>3 DEF RtcInv

(* After a reading only the next interrupt matters.                        *)
LEMMA ReadingIs ==
  ASSUME RtcInv, getNow, clock' = clock, lag' \in 0..Slack,
         rtcEvent' \in BOOLEAN, timerEventPosted' \in BOOLEAN,
         running' \in BOOLEAN, startTime' \in 0..(Modulus - 1),
         timeoutFromStartTime' \in 0..(Modulus - 1), nextEvent' \in 0..(Modulus - 1),
         RunInv',
         ~pending' => Elapsed(nextEvent', Count) \in 1..Bound
  PROVE  RtcInv'
<1>1. /\ lastNow' = Count /\ lastNow' \in 0..(Modulus - 1)
      /\ overflows' = Wrapped /\ overflows' \in 0..(Epochs - 1)
  BY ReadClock DEF RtcInv
<1>2. Count' = Count /\ Wrapped' = Wrapped
  BY DEF Count, Wrapped
<1>3. RtcTypeOK'
  BY <1>1 DEF RtcTypeOK, RtcInv
<1>4. /\ Count \in 0..(Modulus - 1) /\ Elapsed(Count, Count) = 0
  BY TimesAre DEF RtcInv
<1>5. EpochInv'
  BY <1>1, <1>2, <1>4 DEF EpochInv
<1>6. ReadInv'
  <2>1. Elapsed(Count, lastNow)' = 0
    BY <1>1, <1>2, <1>4 DEF Elapsed
  <2>2. Elapsed(nextEvent, Count)' = Elapsed(nextEvent', Count)
    BY <1>2 DEF Elapsed
  <2>3. Bound \in Nat /\ lag' \in Nat
    BY ConstantsAre
  <2>4. CASE pending'
    <3>1. 0 <= Bound + lag'
      <4>1. \A b, l \in Nat : 0 <= b + l
        OBVIOUS
      <4> QED  BY <2>3, <4>1
    <3> QED  BY <2>1, <2>4, <3>1 DEF ReadInv, Bound, Half
  <2>5. CASE ~pending'
    <3>1. 1 <= Elapsed(nextEvent', Count) /\ 0 + Elapsed(nextEvent', Count) <= Bound
      BY <2>3, <2>5
    <3> QED  BY <2>1, <2>2, <2>5, <3>1 DEF ReadInv, Bound, Half
  <2> QED  BY <2>4, <2>5
<1> QED  BY <1>3, <1>5, <1>6 DEF RtcInv

LEMMA ReadsRtc ==
  ASSUME RtcInv, Reads, LagKept
  PROVE  RtcInv'
<1>1. /\ getNow /\ UNCHANGED <<clock, running, startTime, timeoutFromStartTime,
                               nextEvent, rtcEvent, timerEventPosted>>
      /\ pending' = pending /\ (pending => lag' = lag) /\ lag' \in 0..Slack
  BY DEF Reads, LagKept, pending
<1>2. RunInv'
  BY <1>1 DEF RtcInv, RunInv, Count, Elapsed
<1>3. ASSUME ~pending' PROVE Elapsed(nextEvent', Count) \in 1..Bound
  <2>1. /\ 1 <= Elapsed(nextEvent, Count)
        /\ Elapsed(Count, lastNow) + Elapsed(nextEvent, Count) <= Bound
    BY <1>1, <1>3 DEF RtcInv, ReadInv
  <2>2. Elapsed(Count, lastNow) \in Nat /\ Elapsed(nextEvent, Count) \in Nat
        /\ Bound \in Nat
    BY TimesAre, ConstantsAre DEF RtcInv, RtcTypeOK
  <2> QED  BY <1>1, <2>1, <2>2
<1> QED  BY <1>1, <1>2, <1>3, ReadingIs DEF RtcInv, RtcTypeOK

LEMMA ArmsRtc ==
  ASSUME RtcInv, NEW dt \in 0..Half, arm(Count, dt), startTime' = Count,
         timeoutFromStartTime' = dt, running' \in BOOLEAN, clock' = clock,
         rtcEvent' \in BOOLEAN, timerEventPosted' \in BOOLEAN, lag' \in 0..Slack
  PROVE  RtcInv'
<1>1. /\ Count \in 0..(Modulus - 1) /\ Elapsed(Count, Count) = 0
  BY TimesAre DEF RtcInv
<1>2. /\ Half \in Nat /\ Half < Modulus /\ MinTimeout \in Nat \ {0}
      /\ MinTimeout < Half /\ Bound = Half + MinTimeout
  <2>1. Half \in Nat /\ Half < Modulus /\ MinTimeout \in Nat \ {0}
        /\ MinTimeout + Slack < Half /\ Slack \in Nat /\ Bound = Half + MinTimeout
    BY ConstantsAre DEF Bound
  <2> HIDE DEF Half
  <2> QED  BY <2>1
<1>3. /\ nextEvent' \in 0..(Modulus - 1)
      /\ Elapsed(nextEvent', Count) = IF dt < MinTimeout THEN MinTimeout ELSE dt
  BY <1>1, Arms
<1>4. getNow
  BY DEF arm
<1> DEFINE e == Elapsed(nextEvent', Count)
<1> HIDE DEF Half
<1>5. e \in 1..Half /\ dt <= e /\ e \in 1..Bound /\ dt \in 0..(Modulus - 1)
  <2>1. e = IF dt < MinTimeout THEN MinTimeout ELSE dt
    BY <1>3
  <2> HIDE DEF e
  <2>2. Modulus \in Nat
    BY ConstantsAre
  <2>3. dt \in Nat /\ dt <= Half
    BY <1>2
  <2>4. CASE dt < MinTimeout
    BY <1>2, <2>1, <2>2, <2>3, <2>4
  <2>5. CASE ~(dt < MinTimeout)
    BY <1>2, <2>1, <2>2, <2>3, <2>5
  <2> QED  BY <2>4, <2>5
<1> HIDE DEF e
<1>6. Elapsed(nextEvent, startTime)' = e /\ Elapsed(Count, startTime)' = 0
  BY <1>1 DEF Elapsed, e, Count
<1>7. RunInv'
  <2>1. 0 < e /\ e <= Half /\ dt <= e
    BY <1>5
  <2> QED  BY <1>6, <2>1 DEF RunInv, Half
<1> QED  BY <1>1, <1>3, <1>4, <1>5, <1>7, ReadingIs DEF e

LEMMA StopRtcKeeps ==
  ASSUME RtcInv, StopRtc, clock' = clock, rtcEvent' \in BOOLEAN,
         timerEventPosted' \in BOOLEAN, lag' \in 0..Slack
  PROVE  RtcInv'
<1>1. StoppedTimeout \in 0..Half
  <2>1. StoppedTimeout \in Nat /\ Half \in Nat /\ StoppedTimeout < Half
    BY ConstantsAre
  <2> HIDE DEF Half
  <2> QED  BY <2>1
<1> QED  BY <1>1, ArmsRtc DEF StopRtc

LEMMA StartRtcKeeps ==
  ASSUME RtcInv, NEW dt \in 0..Half, StartRtc(Count, dt), clock' = clock,
         rtcEvent' \in BOOLEAN, timerEventPosted' \in BOOLEAN, lag' \in 0..Slack
  PROVE  RtcInv'
BY ArmsRtc DEF StartRtc

LEMMA RTCInterruptKeeps ==
  ASSUME RtcInv, RTCInterrupt, LagKept
  PROVE  RtcInv'
<1>1. /\ UNCHANGED <<clock, lastNow, overflows, running, startTime,
                     timeoutFromStartTime, nextEvent>>
      /\ rtcEvent' = FALSE /\ timerEventPosted' = TRUE
      /\ pending /\ pending' /\ lag' = lag /\ lag' \in 0..Slack
  BY DEF RTCInterrupt, pending, LagKept
<1>2. RtcTypeOK' /\ EpochInv'
  BY <1>1 DEF RtcInv, RtcTypeOK, EpochInv, Count, Wrapped
<1>3. ReadInv' /\ RunInv'
  BY <1>1 DEF RtcInv, ReadInv, RunInv, Count, Elapsed
<1> QED  BY <1>1, <1>2, <1>3 DEF RtcInv

(* The task of the driver. If its timer still runs, it has not come to     *)
(* nextEvent, which therefore is still ahead.                              *)
LEMMA TimerEventKeeps ==
  ASSUME RtcInv, TimerEvent, LagKept
  PROVE  RtcInv'
<1>1. /\ clock' = clock /\ rtcEvent' = rtcEvent /\ timerEventPosted' = FALSE
      /\ lag' \in 0..Slack /\ (pending' => lag' = lag)
      /\ rtcEvent' \in BOOLEAN /\ timerEventPosted' \in BOOLEAN
  BY DEF TimerEvent, LagKept, RtcInv, RtcTypeOK
<1>2. CASE StopRtc
  BY <1>1, <1>2, StopRtcKeeps
<1>3. CASE /\ running /\ ~Expired /\ getNow
           /\ UNCHANGED <<running, startTime, timeoutFromStartTime, nextEvent>>
  <2> DEFINE e == Elapsed(nextEvent, startTime)
             x == Elapsed(Count, startTime)
  <2>1. /\ timeoutFromStartTime <= e /\ e <= Half /\ ~(x >= timeoutFromStartTime)
    BY <1>3 DEF RtcInv, RunInv, Expired
  <2>2. /\ timeoutFromStartTime \in Nat /\ e \in Nat /\ x \in Nat
    BY TimesAre DEF RtcInv, RtcTypeOK
  <2>3. Half \in Nat /\ Bound = Half + MinTimeout /\ MinTimeout \in Nat
        /\ Modulus \in Nat \ {0}
    BY ConstantsAre DEF Bound
  <2>4. x < e /\ x <= e
    BY <2>1, <2>2
  <2>5. Elapsed(nextEvent, Count) = e - x
    <3>1. /\ Count \in 0..(Modulus - 1) /\ nextEvent \in 0..(Modulus - 1)
          /\ startTime \in 0..(Modulus - 1)
      BY TimesAre DEF RtcInv, RtcTypeOK
    <3> HIDE DEF Count
    <3> QED  BY <2>4, <3>1, Between
  <2>6. x' = x /\ e' = e
    BY <1>1, <1>3 DEF Elapsed, Count
  <2> HIDE DEF e, x, Half
  <2>7. Elapsed(nextEvent, Count) \in 1..Bound
    BY <2>1, <2>2, <2>3, <2>4, <2>5
  <2>8. RunInv'
    <3>1. timeoutFromStartTime' <= e' /\ e' <= Half /\ x' < e'
      BY <1>3, <2>1, <2>4, <2>6
    <3> QED  BY <3>1 DEF RunInv, e, x, Half
  <2> QED  BY <1>1, <1>3, <2>7, <2>8, ReadingIs DEF RtcInv, RtcTypeOK
<1> QED  BY <1>2, <1>3 DEF TimerEvent

-----------------------------------------------------------------------------
(* A tick of the counter.                                                  *)
LEMMA CounterIs ==
  ASSUME clock \in 0..(Modulus * Epochs - 1), CounterTicks
  PROVE  /\ clock' \in 0..(Modulus * Epochs - 1)
         /\ Count' = IF Count + 1 = Modulus THEN 0 ELSE Count + 1
         /\ Wrapped' = IF Count + 1 # Modulus THEN Wrapped
                       ELSE IF Wrapped + 1 = Epochs THEN 0 ELSE Wrapped + 1
<1> DEFINE M == Modulus
           w == Wrapped
           c == Count
           all == M * Epochs
<1>1. M \in Nat \ {0} /\ Epochs \in Nat \ {0}
  BY ConstantsAre
<1>2. c \in 0..(M - 1) /\ w \in 0..(Epochs - 1) /\ clock = M * w + c
  BY CountIs
<1>3. clock' = (clock + 1) % all
  BY DEF CounterTicks
<1>4. Count' = clock' % M /\ Wrapped' = clock' \div M
  BY DEF Count, Wrapped
<1> HIDE DEF M, w, c
<1>5. \A k \in Nat : k + 1 <= Epochs => M * k + M <= M * Epochs
  <2>1. \A a \in Nat \ {0}, k, e \in Nat : k + 1 <= e => a * (k + 1) <= a * e
    OBVIOUS
  <2>2. \A a \in Nat \ {0}, k \in Nat : a * (k + 1) = a * k + a
    OBVIOUS
  <2> QED  BY <1>1, <2>1, <2>2
<1>6. all \in Nat \ {0}
  <2>1. \A a, e \in Nat \ {0} : a * e \in Nat \ {0}
    OBVIOUS
  <2> QED  BY <1>1, <2>1
<1>7. M * w + M <= all /\ M * w \in Nat
  <2>1. w \in Nat /\ w + 1 <= Epochs
    BY <1>1, <1>2
  <2>2. \A a, e \in Nat : a * e \in Nat
    OBVIOUS
  <2> QED  BY <1>1, <1>5, <2>1, <2>2
<1>8. CASE c + 1 # M
  <2>1. clock + 1 = M * w + (c + 1) /\ c + 1 \in 0..(M - 1)
    BY <1>1, <1>2, <1>7, <1>8
  <2>2. clock + 1 \in 0..(all - 1)
    BY <1>1, <1>6, <1>7, <2>1
  <2> HIDE DEF all
  <2>3. clock' = M * w + (c + 1)
    BY <1>3, <1>6, <2>1, <2>2, Wraps
  <2>4. clock' \div M = w /\ clock' % M = c + 1
    <3>1. w \in Nat /\ M \in Nat \ {0} /\ c + 1 \in 0..(M - 1)
      BY <1>1, <1>2, <2>1
    <3> QED  BY <2>3, <3>1, TheQuotient
  <2> QED  BY <1>4, <1>8, <2>1, <2>2, <2>3, <2>4 DEF M, w, c, all
<1>9. CASE c + 1 = M /\ w + 1 # Epochs
  <2>1. /\ M * (w + 1) + 0 = M * w + M /\ w + 1 \in Nat /\ w + 1 + 1 <= Epochs
        /\ 0 \in 0..(M - 1)
    BY <1>1, <1>2, <1>9
  <2>2. clock + 1 = M * (w + 1) + 0
    BY <1>1, <1>2, <1>7, <1>9, <2>1
  <2>3. M * (w + 1) + M <= all
    BY <1>5, <2>1
  <2>4. clock + 1 \in 0..(all - 1)
    BY <1>1, <1>2, <1>6, <1>7, <1>9, <2>1, <2>2, <2>3
  <2> HIDE DEF all
  <2>5. clock' = M * (w + 1) + 0
    BY <1>3, <1>6, <2>2, <2>4, Wraps
  <2>6. clock' \div M = w + 1 /\ clock' % M = 0
    BY <1>1, <2>1, <2>5, TheQuotient
  <2> QED  BY <1>4, <1>9, <2>2, <2>4, <2>5, <2>6 DEF M, w, c, all
<1>10. CASE c + 1 = M /\ w + 1 = Epochs
  <2>1. clock + 1 = all
    <3>1. \A a, k \in Nat : a * (k + 1) = a * k + a
      OBVIOUS
    <3>2. all = M * w + M
      BY <1>1, <1>2, <1>10, <3>1
    <3> QED  BY <1>1, <1>2, <1>7, <1>10, <3>2
  <2> HIDE DEF all
  <2>2. 0 \in 0..(all - 1) /\ clock + 1 = 0 + all
    BY <1>6, <2>1
  <2>3. clock' = 0
    BY <1>3, <1>6, <2>2, Wraps
  <2>4. 0 \in Nat /\ 0 \in 0..(M - 1) /\ M * 0 + 0 = 0
    BY <1>1
  <2>5. clock' \div M = 0 /\ clock' % M = 0
    BY <1>1, <2>3, <2>4, TheQuotient
  <2> QED  BY <1>4, <1>10, <2>2, <2>3, <2>5 DEF M, w, c, all
<1> QED  BY <1>8, <1>9, <1>10 DEF M, w, c

LEMMA TickKeepsRtc ==
  ASSUME RtcInv, CounterTicks, Busy => lag < Slack,
         lag' = IF Busy THEN lag + 1 ELSE 0
  PROVE  RtcInv'
<1> DEFINE c == Count
           k == (c + 1) % Modulus
           age == Elapsed(c, lastNow)
           ahead == Elapsed(nextEvent, c)
           x == Elapsed(c, startTime)
           e == Elapsed(nextEvent, startTime)
<1>1. /\ Modulus \in Nat \ {0} /\ Half \in Nat /\ 2 * Half <= Modulus /\ Slack \in Nat
      /\ Half + Slack + 1 < Modulus /\ Bound \in Nat /\ Bound + Slack < Modulus
  <2>1. /\ Modulus \in Nat \ {0} /\ Half \in Nat /\ 2 * Half <= Modulus /\ Slack \in Nat
        /\ MinTimeout \in Nat \ {0} /\ MinTimeout + Slack < Half
        /\ Bound \in Nat /\ Bound + Slack < Modulus
    BY ConstantsAre
  <2> HIDE DEF Half
  <2> QED  BY <2>1
<1>2. /\ RtcTypeOK /\ EpochInv /\ ReadInv /\ RunInv /\ lag \in 0..Slack
  BY DEF RtcInv
<1>3. /\ c \in 0..(Modulus - 1) /\ lastNow \in 0..(Modulus - 1) /\ nextEvent \in 0..(Modulus - 1)
      /\ startTime \in 0..(Modulus - 1) /\ timeoutFromStartTime \in 0..(Modulus - 1)
      /\ Wrapped \in 0..(Epochs - 1) /\ Epochs \in Nat \ {0}
  BY <1>2, TimesAre, ConstantsAre DEF RtcTypeOK
<1>4. /\ age \in 0..(Modulus - 1) /\ ahead \in 0..(Modulus - 1) /\ x \in 0..(Modulus - 1) /\ e \in 0..(Modulus - 1)
  BY <1>2, <1>3, TimesAre
<1>5. /\ UNCHANGED <<lastNow, overflows, running, startTime, timeoutFromStartTime,
                     nextEvent, timerEventPosted>>
      /\ rtcEvent' = (rtcEvent \/ k = nextEvent)
  BY DEF CounterTicks
<1>6. /\ clock' \in 0..(Modulus * Epochs - 1)
      /\ Count' = IF c + 1 = Modulus THEN 0 ELSE c + 1
      /\ Wrapped' = IF c + 1 # Modulus THEN Wrapped
                    ELSE IF Wrapped + 1 = Epochs THEN 0 ELSE Wrapped + 1
  BY <1>2, CounterIs DEF RtcTypeOK
<1>7. pending => Busy
  BY DEF pending, Busy
<1>8. lag' \in 0..Slack /\ (pending => lag' = lag + 1 /\ lag < Slack)
  BY <1>1, <1>2, <1>7
<1> DEFINE cc == Count'
<1> HIDE DEF c
<1>9. k = cc
  BY <1>3, <1>6, TickedCount
<1>10. /\ cc \in 0..(Modulus - 1)
       /\ Elapsed(cc, lastNow) = IF age = Modulus - 1 THEN 0 ELSE age + 1
       /\ Elapsed(cc, startTime) = IF x = Modulus - 1 THEN 0 ELSE x + 1
       /\ nextEvent # c => Elapsed(nextEvent, cc) = ahead - 1
       /\ cc = nextEvent <=> ahead = 1
  BY <1>3, <1>6, TickElapsed
<1> DEFINE age1 == Elapsed(cc, lastNow)
           x1 == Elapsed(cc, startTime)
           ahead1 == Elapsed(nextEvent, cc)
<1>11. age' = age1 /\ x' = x1 /\ ahead' = ahead1 /\ e' = e
  BY <1>5 DEF Elapsed, c
<1>12. pending' = (pending \/ cc = nextEvent)
  BY <1>5, <1>9 DEF pending
<1>13. /\ pending => age <= Bound + lag
       /\ ~pending => 1 <= ahead /\ age + ahead <= Bound
  BY <1>2 DEF ReadInv, c
<1>14. age + 1 < Modulus
  <2>1. CASE pending
    <3>1. lag \in Nat /\ lag + 1 <= Slack /\ age <= Bound + lag
      BY <1>1, <1>2, <1>8, <1>13, <2>1
    <3> HIDE DEF age
    <3> QED  BY <1>1, <1>4, <3>1
  <2>2. CASE ~pending
    <3>1. 1 <= ahead /\ age + ahead <= Bound
      BY <1>13, <2>2
    <3> HIDE DEF age, ahead
    <3> QED  BY <1>1, <1>4, <3>1
  <2> QED  BY <2>1, <2>2
<1>15. age1 = age + 1
  <2>1. age \in Int /\ age # Modulus - 1
    BY <1>1, <1>4, <1>14
  <2> QED  BY <1>10, <2>1
<1>16. /\ running => timeoutFromStartTime <= e /\ e <= Half
       /\ running => x < e \/ (pending /\ x <= e + lag)
  BY <1>2 DEF RunInv, c
<1> HIDE DEF age1, x1, ahead1, cc, k, x, ahead, age, e
<1>17. RtcTypeOK'
  <2>1. rtcEvent' \in BOOLEAN
    BY <1>2, <1>5 DEF RtcTypeOK
  <2> QED  BY <1>2, <1>5, <1>6, <2>1 DEF RtcTypeOK
<1>18. EpochInv'
  <2>1. overflows = IF lastNow <= c THEN Wrapped ELSE (Wrapped - 1) % Epochs
    BY <1>2 DEF EpochInv, c
  <2>2. age = IF c >= lastNow THEN c - lastNow ELSE c - lastNow + Modulus
    BY <1>3, ClockElapsed DEF age
  <2>3. cc = IF c + 1 = Modulus THEN 0 ELSE c + 1
    BY <1>6 DEF cc
  <2>4. overflows = IF lastNow <= cc THEN Wrapped' ELSE (Wrapped' - 1) % Epochs
    <3>1. CASE c + 1 # Modulus
      <4>1. lastNow <= cc <=> lastNow <= c
        BY <1>1, <1>3, <1>14, <2>2, <2>3, <3>1
      <4> QED  BY <1>6, <2>1, <3>1, <4>1
    <3>2. CASE c + 1 = Modulus
      <4>1. lastNow <= c /\ ~(lastNow <= cc)
        BY <1>1, <1>3, <1>14, <2>2, <2>3, <3>2
      <4>2. (Wrapped' - 1) % Epochs = Wrapped
        <5>1. CASE Wrapped + 1 = Epochs
          <6>1. Wrapped' - 1 = Wrapped - Epochs
            BY <1>3, <1>6, <3>2, <5>1
          <6> QED  BY <1>3, <6>1, Wraps
        <5>2. CASE Wrapped + 1 # Epochs
          <6>1. Wrapped' - 1 = Wrapped
            BY <1>3, <1>6, <3>2, <5>2
          <6> QED  BY <1>3, <6>1, Wraps
        <5> QED  BY <5>1, <5>2
      <4> QED  BY <2>1, <4>1, <4>2
    <3> QED  BY <3>1, <3>2
  <2> QED  BY <1>5, <2>4 DEF EpochInv, cc
<1>19. ReadInv'
  <2>1. CASE pending
    <3>1. age1 <= Bound + lag'
      BY <1>1, <1>2, <1>4, <1>8, <1>13, <1>15, <2>1
    <3> QED  BY <1>11, <1>12, <2>1, <3>1 DEF ReadInv, age, Bound, Half, c
  <2>2. CASE ~pending /\ cc = nextEvent
    <3>1. age1 <= Bound + lag'
      <4>1. lag' \in Nat /\ 1 <= ahead /\ age + ahead <= Bound
        BY <1>1, <1>8, <1>13, <2>2
      <4> QED  BY <1>1, <1>4, <1>15, <4>1
    <3> QED  BY <1>11, <1>12, <2>2, <3>1 DEF ReadInv, age, Bound, Half, c
  <2>3. CASE ~pending /\ cc # nextEvent
    <3>1. 1 <= ahead /\ age + ahead <= Bound /\ ahead # 1
      BY <1>10, <1>13, <2>3
    <3>2. nextEvent # c
      <4>1. ahead = 0 <=> nextEvent = c
        BY <1>3, ClockElapsed DEF ahead
      <4> QED  BY <1>4, <3>1, <4>1
    <3>3. ahead1 = ahead - 1
      BY <1>10, <3>2 DEF ahead1
    <3>4. 1 <= ahead1 /\ age1 + ahead1 <= Bound
      BY <1>1, <1>4, <1>15, <3>1, <3>3
    <3> QED  BY <1>11, <1>12, <2>3, <3>4 DEF ReadInv, age, ahead, Bound, Half, c
  <2> QED  BY <2>1, <2>2, <2>3
<1>20. ASSUME running
       PROVE  x1 < e \/ (pending' /\ x1 <= e + lag')
  <2>1. timeoutFromStartTime <= e /\ e <= Half /\ e \in Nat /\ x \in Nat
        /\ lag \in Nat /\ lag' \in Nat /\ lag <= Slack
    BY <1>1, <1>2, <1>4, <1>8, <1>16, <1>20
  <2>2. x < Modulus - 1 => x1 = x + 1
    BY <1>4, <1>10 DEF x1
  <2>3. CASE x < e
    <3>1. x1 = x + 1 /\ x1 <= e
      BY <1>1, <2>1, <2>2, <2>3
    <3>2. CASE x1 < e
      BY <3>2
    <3>3. CASE x1 = e
      <4>1. x = e - 1 /\ x <= e
        BY <2>1, <3>1, <3>3
      <4>2. ahead = 1
        <5>1. ahead = e - x
          <6>1. Elapsed(c, startTime) <= Elapsed(nextEvent, startTime)
            BY <4>1 DEF x, e
          <6> QED  BY <1>3, <6>1, Between DEF ahead, e, x
        <5> QED  BY <2>1, <4>1, <5>1
      <4>3. pending'
        BY <1>10, <1>12, <4>2
      <4>4. x1 <= e + lag'
        BY <2>1, <3>3
      <4> QED  BY <4>3, <4>4
    <3> QED  BY <2>1, <3>1, <3>2, <3>3
  <2>4. CASE pending /\ x <= e + lag
    <3>1. lag' = lag + 1 /\ lag < Slack
      BY <1>8, <2>4
    <3>2. x1 = x + 1 /\ x1 <= e + lag'
      BY <1>1, <2>1, <2>2, <2>4, <3>1
    <3> QED  BY <1>12, <2>4, <3>2
  <2> QED  BY <1>16, <1>20, <2>3, <2>4
<1>21. RunInv'
  BY <1>5, <1>11, <1>16, <1>20 DEF RunInv, e, x, c, Half
<1> QED  BY <1>8, <1>17, <1>18, <1>19, <1>21 DEF RtcInv

-----------------------------------------------------------------------------
(* The slow clock.  Its tick is Scale of the fast one's, and as many of its*)
(* readings are told apart: it wraps when the wraps that are counted do.   *)
SlowTime == clock \div Scale

LEMMA ScaleIs ==
  /\ MAX_DELAY \in Nat /\ Half = MAX_DELAY * Scale
  /\ Modulus \div Scale \in Nat /\ Modulus = (Modulus \div Scale) * Scale
  /\ MAX_DELAY < Modulus /\ Modulus = 2 * Half
<1> DEFINE k == MAX_DELAY
<1>1. Modulus \in Nat \ {0} /\ Scale \in Nat \ {0} /\ Half < Modulus
  BY ConstantsAre
<1>2. Modulus % (2 * Scale) = 0
  BY TimersAssumption
<1>3. 2 * Scale \in Nat \ {0}
  BY <1>1
<1>4. k \in Nat /\ Modulus = (2 * Scale) * k
  <2>1. /\ Modulus \div (2 * Scale) \in Nat
        /\ Modulus = (2 * Scale) * (Modulus \div (2 * Scale)) + (Modulus % (2 * Scale))
    BY <1>1, <1>3, Division
  <2>2. \A a \in Nat, b \in Nat : a = (2 * Scale) * b + 0 => a = (2 * Scale) * b
    BY <1>1
  <2> QED  BY <1>1, <1>2, <2>1, <2>2 DEF MAX_DELAY
<1> HIDE DEF k
<1>5. Modulus = 2 * (Scale * k) + 0 /\ Modulus = Scale * (2 * k) + 0
      /\ Modulus = Scale * (2 * k)
      /\ Scale * k \in Nat /\ 2 * k \in Nat
  <2>1. \A a, b \in Nat : (2 * a) * b = 2 * (a * b) /\ (2 * a) * b = a * (2 * b)
                          /\ a * b \in Nat /\ 2 * b \in Nat
    OBVIOUS
  <2> QED  BY <1>1, <1>4, <2>1
<1>6. Half = Scale * k
  <2>1. 2 \in Nat \ {0} /\ 0 \in 0..(2 - 1)
    OBVIOUS
  <2> QED  BY <1>5, <2>1, TheQuotient DEF Half
<1>7. Modulus \div Scale = 2 * k
  <2>1. 0 \in 0..(Scale - 1)
    BY <1>1
  <2> QED  BY <1>1, <1>5, <2>1, TheQuotient
<1>8. Scale * k = k * Scale /\ Scale * (2 * k) = (2 * k) * Scale
  BY <1>1, <1>4
<1>9. k < Modulus
  <2>1. \A a \in Nat \ {0}, b \in Nat : b <= b * a
    OBVIOUS
  <2> QED  BY <1>1, <1>4, <1>6, <1>8, <2>1
<1>10. Modulus \div Scale \in Nat /\ Modulus = (Modulus \div Scale) * Scale
  <2>1. Modulus \div Scale \in Nat
    BY <1>5, <1>7
  <2>2. Modulus = (2 * k) * Scale
    BY <1>5, <1>8
  <2> QED  BY <1>7, <2>1, <2>2
<1>11. Half = k * Scale
  BY <1>6, <1>8
<1>12. Modulus = 2 * Half
  BY <1>1, <1>4, <1>5, <1>6
<1> QED  BY <1>4, <1>9, <1>10, <1>11, <1>12 DEF k

LEMMA SlowTimeIs ==
  ASSUME RtcTypeOK
  PROVE  /\ SlowTime \in 0..(Modulus - 1) /\ SlowTime % Modulus = SlowTime
         /\ SlowNow(Count, Wrapped) = SlowTime
         /\ Wrapped = 0 => SlowNow(Count, Epochs) = SlowTime
         /\ Count = Scale * (Count \div Scale) + (clock % Scale)
         /\ clock % Scale \in 0..(Scale - 1)
         /\ \E w \in Nat : SlowTime = (Modulus \div Scale) * w + (Count \div Scale)
<1> DEFINE h == Modulus \div Scale
           w == Wrapped
           c == Count
           a == c \div Scale
           r == c % Scale
<1>1. /\ Modulus \in Nat \ {0} /\ Scale \in Nat \ {0} /\ Epochs = Scale
      /\ h \in Nat /\ Modulus = h * Scale
  BY ConstantsAre, ScaleIs
<1>2. c \in 0..(Modulus - 1) /\ w \in 0..(Epochs - 1) /\ clock = Modulus * w + c
      /\ clock \in Nat
  <2>1. c \in 0..(Modulus - 1) /\ w \in 0..(Epochs - 1) /\ clock = Modulus * w + c
    BY CountIs DEF RtcTypeOK
  <2>2. Modulus * Epochs \in Nat
    BY <1>1
  <2>3. clock \in Nat
    BY <2>2 DEF RtcTypeOK
  <2> QED  BY <2>1, <2>3
<1> HIDE DEF w, c, h
<1>3. a \in Nat /\ r \in 0..(Scale - 1) /\ c = Scale * a + r
  <2>1. c \in Nat
    BY <1>1, <1>2
  <2>2. c \div Scale \in Nat /\ c % Scale \in 0..(Scale - 1)
        /\ c = Scale * (c \div Scale) + (c % Scale)
    BY <1>1, <2>1, Division
  <2> QED  BY <2>2
<1> HIDE DEF a, r
<1>4. w \in Nat /\ w <= Scale - 1
  BY <1>1, <1>2
<1>5. h * w + a \in Nat /\ clock = Scale * (h * w + a) + r
  <2>1. \A s, x, y, z \in Nat : (x * s) * y + (s * z + r) = s * (x * y + z) + r
                                /\ x * y + z \in Nat
    BY <1>1, <1>3
  <2> QED  BY <1>1, <1>2, <1>3, <1>4, <2>1
<1>6. SlowTime = h * w + a /\ clock % Scale = r
  BY <1>1, <1>3, <1>5, TheQuotient DEF SlowTime
<1>7. a < h
  <2>1. h <= a => Scale * h <= Scale * a
    <3>1. \A s, x, y \in Nat : x <= y => s * x <= s * y
      OBVIOUS
    <3> QED  BY <1>1, <1>3, <3>1
  <2>2. Scale * h = h * Scale
    BY <1>1
  <2>3. Scale * a \in Nat /\ r \in Nat /\ c < h * Scale
    BY <1>1, <1>2, <1>3
  <2> QED  BY <1>1, <1>3, <2>1, <2>2, <2>3
<1>8. h * w + h <= Modulus
  <2>1. \A x, y, s \in Nat : y <= s - 1 => x * y + x <= x * s
    <3>1. \A x, y, z \in Nat : y <= z => x * y <= x * z
      OBVIOUS
    <3>2. ASSUME NEW x \in Nat, NEW y \in Nat, NEW s \in Nat, y <= s - 1
          PROVE  x * y + x <= x * s
      <4>1. y + 1 <= s /\ x * (y + 1) = x * y + x /\ y + 1 \in Nat
        BY <3>2
      <4>2. x * (y + 1) <= x * s
        BY <3>1, <4>1
      <4> QED  BY <4>1, <4>2
    <3> QED  BY <3>2
  <2> QED  BY <1>1, <1>4, <2>1
<1>9. h * w \in Nat
  BY <1>1, <1>4
<1>10. SlowTime \in 0..(Modulus - 1)
  BY <1>1, <1>3, <1>6, <1>7, <1>8, <1>9
<1>11. SlowTime % Modulus = SlowTime /\ (SlowTime + Modulus) % Modulus = SlowTime
  BY <1>1, <1>10, Wraps
<1>12. SlowNow(c, w) = SlowTime
  <2>1. a + w * h = h * w + a
    BY <1>1, <1>3, <1>4
  <2>2. SlowNow(c, w) = (a + w * h) % Modulus
    BY DEF SlowNow, a, h
  <2> QED  BY <1>6, <1>11, <2>1, <2>2
<1>13. ASSUME w = 0 PROVE SlowNow(c, Epochs) = SlowTime
  <2>1. h * w = 0
    BY <1>1, <1>13
  <2>2. Epochs * h = Modulus
    BY <1>1
  <2>3. a + Epochs * h = SlowTime + Modulus
    BY <1>1, <1>3, <1>6, <2>1, <2>2
  <2>4. SlowNow(c, Epochs) = (a + Epochs * h) % Modulus
    BY DEF SlowNow, a, h
  <2> QED  BY <1>11, <2>3, <2>4
<1>14. \E v \in Nat : SlowTime = h * v + a
  BY <1>4, <1>6
<1> QED
  BY <1>3, <1>6, <1>10, <1>11, <1>12, <1>13, <1>14 DEF w, c, h, a, r

(* What the slow clock reads when the last wrap is told, or not yet.       *)
LEMMA SlowNowIs ==
  ASSUME RtcInv
  PROVE  /\ SlowNow(Count, IF Count < lastNow THEN overflows + 1 ELSE overflows)
              = SlowTime % Modulus
         /\ getNow => SlowNow(Count, overflows') = SlowTime
<1>1. RtcTypeOK /\ EpochInv
  BY DEF RtcInv
<1>2. /\ Count \in 0..(Modulus - 1) /\ Wrapped \in 0..(Epochs - 1)
      /\ Epochs \in Nat \ {0} /\ lastNow \in 0..(Modulus - 1)
  BY <1>1, TimesAre, ConstantsAre DEF RtcTypeOK
<1>3. /\ SlowTime % Modulus = SlowTime /\ SlowNow(Count, Wrapped) = SlowTime
      /\ Wrapped = 0 => SlowNow(Count, Epochs) = SlowTime
  BY <1>1, SlowTimeIs
<1>4. getNow => overflows' = Wrapped
  BY <1>1, ReadClock
<1> HIDE DEF Count, Wrapped
<1>5. CASE lastNow <= Count
  <2>1. ~(Count < lastNow) /\ overflows = Wrapped
    BY <1>1, <1>2, <1>5 DEF EpochInv
  <2> QED  BY <1>3, <1>4, <2>1
<1>6. CASE ~(lastNow <= Count)
  <2>1. Count < lastNow /\ overflows = (Wrapped - 1) % Epochs
    BY <1>1, <1>2, <1>6 DEF EpochInv
  <2>2. overflows + 1 = IF Wrapped = 0 THEN Epochs ELSE Wrapped
    <3>1. CASE Wrapped = 0
      <4>1. Epochs - 1 \in 0..(Epochs - 1) /\ (Epochs - 1) - Epochs = Wrapped - 1
        BY <1>2, <3>1
      <4>2. (Wrapped - 1) % Epochs = Epochs - 1
        BY <1>2, <4>1, Wraps
      <4> QED  BY <1>2, <2>1, <3>1, <4>2
    <3>2. CASE Wrapped # 0
      <4>1. Wrapped - 1 \in 0..(Epochs - 1)
        BY <1>2, <3>2
      <4>2. (Wrapped - 1) % Epochs = Wrapped - 1
        BY <1>2, <4>1, Wraps
      <4> QED  BY <1>2, <2>1, <3>2, <4>2
    <3> QED  BY <3>1, <3>2
  <2>3. CASE Wrapped = 0
    BY <1>3, <1>4, <2>1, <2>2, <2>3
  <2>4. CASE Wrapped # 0
    BY <1>3, <1>4, <2>1, <2>2, <2>4
  <2> QED  BY <2>3, <2>4
<1> QED  BY <1>5, <1>6

-----------------------------------------------------------------------------
(* The timers of the multiplexer.  None is armed for more than half a      *)
(* period of the counter.                                                  *)
TimerArray == [Numbers -> [t0 : Time, dt : 0..Half,
                           running : BOOLEAN, fire_queued : BOOLEAN]]
Dues == -(Latest + 1) .. Modulus * Scale

MuxInv ==
  /\ timers \in TimerArray
  /\ last_trigger \in [Relative -> Time]
  /\ updatePosted \in BOOLEAN /\ firePosted \in BOOLEAN
  /\ at \in 0 .. NumTimers
  /\ m_t0 \in Time /\ m_dt \in Time
  /\ signalled \in BOOLEAN
  /\ due \in [Numbers -> Dues]

TimersInv == RtcInv /\ MuxInv

LEMMA MuxTypes == TimersInv => TypeOK
<1>1. Half \in Nat /\ Half < Modulus /\ Modulus \in Nat
  BY ConstantsAre
<1>2. 0..Half \subseteq Time
  <2> HIDE DEF Half
  <2> QED  BY <1>1 DEF Time
<1>3. TimerArray \subseteq [Numbers -> [t0 : Time, dt : Time, running : BOOLEAN,
                                        fire_queued : BOOLEAN]]
  BY <1>2 DEF TimerArray
<1> QED  BY <1>3 DEF TimersInv, RtcInv, MuxInv, TypeOK, MuxTypeOK, Dues

LEMMA DuesAre ==
  /\ 0..(Modulus * Scale) \subseteq Dues /\ Half <= Modulus * Scale
  /\ \A d \in Dues : d >= -Latest => d - 1 \in Dues
<1>1. /\ Modulus \in Nat \ {0} /\ Scale \in Nat \ {0} /\ Half \in Nat
      /\ Half < Modulus /\ Latest \in Nat
  BY ConstantsAre
<1>2. Modulus * Scale \in Nat /\ Modulus <= Modulus * Scale
  <2>1. \A a \in Nat, b \in Nat \ {0} : a * b \in Nat /\ a <= a * b
    OBVIOUS
  <2> QED  BY <1>1, <2>1
<1> HIDE DEF Half
<1>3. \A m \in Nat, l \in Nat :
        /\ 0..m \subseteq -(l + 1)..m
        /\ \A d \in -(l + 1)..m : d >= -l => d - 1 \in -(l + 1)..m
  OBVIOUS
<1> QED  BY <1>1, <1>2, <1>3 DEF Dues

LEMMA DueIsDelay == 0..Half \subseteq Dues /\ 0 \in Dues
<1>1. Half \in Nat /\ Modulus * Scale \in Nat
  BY ConstantsAre
<1> HIDE DEF Half
<1>2. 0..Half \subseteq 0..(Modulus * Scale) /\ 0 \in 0..(Modulus * Scale)
  <2>1. \A a, b \in Nat : a <= b => 0..a \subseteq 0..b /\ 0 \in 0..b
    OBVIOUS
  <2> QED  BY <1>1, <2>1, DuesAre
<1> QED  BY <1>2, DuesAre

LEMMA TimersTyped ==
  ASSUME NEW ts \in TimerArray, NEW n \in Numbers
  PROVE  /\ \A t0 \in Time, dt \in 0..Half : Started(ts, n, t0, dt) \in TimerArray
         /\ Stopped(ts, n) \in TimerArray /\ Signalled(ts, n) \in TimerArray
BY DEF TimerArray, Started, Stopped, Signalled

LEMMA CountIsTime == TimersInv => Count \in Time /\ Elapsed(Count, Count) = 0
BY TimesAre DEF TimersInv, RtcInv, Time

LEMMA ModIsTime == \A x \in Int : x % Modulus \in Time
<1>1. Modulus \in Nat \ {0}
  BY ConstantsAre
<1> QED  BY <1>1 DEF Time

(* scheduleTimer arms the fast timer for no more than MAX_DELAY ticks of   *)
(* the slow clock.                                                         *)
LEMMA ScheduleTypes ==
  ASSUME TimersInv, getNow, NEW ts \in TimerArray, NEW t0 \in Time, NEW dt \in Time,
         scheduleTimer(ts, t0, dt)
  PROVE  timers' \in TimerArray /\ m_t0' \in Time /\ m_dt' \in Time
<1> DEFINE now == SlowNow(Count, overflows')
           remaining == SlowRemaining(t0, dt, now)
           delay == IF remaining > MAX_DELAY THEN MAX_DELAY ELSE remaining
<1>1. /\ Modulus \in Nat \ {0} /\ Scale \in Nat \ {0} /\ MAX_DELAY \in Nat
      /\ Half = MAX_DELAY * Scale /\ MAX_DELAY < Modulus
  BY ConstantsAre, ScaleIs
<1>2. now \in Time
  <2>1. now = SlowTime
    BY SlowNowIs DEF TimersInv
  <2> QED  BY <2>1, SlowTimeIs DEF TimersInv, RtcInv, Time
<1>3. /\ timers' = Started(ts, Scaled, (now * Scale) % Modulus, delay * Scale)
      /\ m_t0' = (IF remaining > MAX_DELAY THEN now + MAX_DELAY ELSE t0 + dt) % Modulus
      /\ m_dt' = remaining - delay
  BY DEF scheduleTimer
<1> HIDE DEF now
<1>4. remaining \in Time
  <2>1. remaining = 0 \/ remaining = (((t0 + dt) % Modulus) - now) % Modulus
    BY DEF SlowRemaining
  <2>2. (t0 + dt) % Modulus \in Time
    BY ModIsTime DEF Time
  <2>3. 0 \in Time
    BY <1>1 DEF Time
  <2>4. ((t0 + dt) % Modulus) - now \in Int
    BY <1>2, <2>2 DEF Time
  <2> QED  BY <2>1, <2>3, <2>4, ModIsTime
<1> HIDE DEF remaining
<1>5. delay \in 0..MAX_DELAY /\ remaining - delay \in Time
  BY <1>1, <1>4 DEF Time
<1> HIDE DEF delay
<1>6. delay * Scale \in 0..Half
  <2>1. \A a, b, s \in Nat : a <= b => a * s <= b * s /\ a * s \in Nat
    OBVIOUS
  <2> HIDE DEF MAX_DELAY
  <2>2. delay \in Nat /\ delay <= MAX_DELAY
    BY <1>1, <1>5
  <2>3. delay * Scale <= MAX_DELAY * Scale /\ delay * Scale \in Nat
    BY <1>1, <2>1, <2>2
  <2>4. Half \in Nat
    BY ConstantsAre
  <2> HIDE DEF Half
  <2> QED  BY <1>1, <2>3, <2>4
<1>7. (now * Scale) % Modulus \in Time
  <2>1. now * Scale \in Int
    BY <1>1, <1>2 DEF Time
  <2> QED  BY <2>1, ModIsTime
<1>8. Scaled \in Numbers
  BY MuxAssumption DEF Scaled, Numbers
<1>9. m_t0' \in Time
  <2>1. now + MAX_DELAY \in Int /\ t0 + dt \in Int
    BY <1>1, <1>2 DEF Time
  <2> QED  BY <1>3, <2>1, ModIsTime
<1> QED  BY <1>3, <1>5, <1>6, <1>7, <1>8, <1>9, TimersTyped

-----------------------------------------------------------------------------
(* The actions.                                                            *)
LEMMA StartFromNowKeeps ==
  ASSUME TimersInv, NEW n \in Clients, NEW dt \in Delays, StartFromNow(n, dt)
  PROVE  TimersInv'
<1>1. n \in Numbers /\ dt \in 0..Half
  BY ConstantsAre DEF Clients
<1>2. RtcInv'
  <2>1. LagKept
    BY DEF StartFromNow, LagKept, TimersInv, RtcInv
  <2> QED  BY <2>1, ReadsRtc DEF StartFromNow, TimersInv
<1>3. timers' \in TimerArray
  BY <1>1, CountIsTime, TimersTyped DEF StartFromNow, TimersInv, MuxInv
<1>4. due' \in [Numbers -> Dues]
  <2>1. dt \in Dues
    BY <1>1, DueIsDelay
  <2> QED  BY <1>1, <2>1 DEF StartFromNow, TimersInv, MuxInv
<1> QED  BY <1>2, <1>3, <1>4 DEF StartFromNow, Call, TimersInv, MuxInv

LEMMA StartFromLastTriggerKeeps ==
  ASSUME TimersInv, NEW n \in Relative, NEW dt \in Delays, StartFromLastTrigger(n, dt)
  PROVE  TimersInv'
<1>1. n \in Numbers /\ dt \in 0..Half
  BY ConstantsAre, TimersAssumption DEF Clients
<1>2. RtcInv'
  <2>1. LagKept
    BY DEF StartFromLastTrigger, LagKept, TimersInv, RtcInv
  <2> QED  BY <2>1, RestsRtc DEF StartFromLastTrigger, TimersInv
<1>3. last_trigger[n] \in Time
  BY DEF TimersInv, MuxInv
<1>4. timers' \in TimerArray
  BY <1>1, <1>3, TimersTyped DEF StartFromLastTrigger, TimersInv, MuxInv
<1>5. due' \in [Numbers -> Dues]
  <2>1. ToGo(last_trigger[n], dt) \in 0..Half
    <3>1. Elapsed(Count, last_trigger[n]) \in Nat
      BY <1>3, TimesAre, ConstantsAre DEF TimersInv, RtcInv, Time
    <3>2. Half \in Nat
      BY ConstantsAre
    <3> HIDE DEF Half
    <3> QED  BY <1>1, <3>1, <3>2 DEF ToGo
  <2> QED  BY <1>1, <2>1, DueIsDelay DEF StartFromLastTrigger, TimersInv, MuxInv
<1> QED  BY <1>2, <1>4, <1>5 DEF StartFromLastTrigger, Call, TimersInv, MuxInv

LEMMA StopKeeps ==
  ASSUME TimersInv, NEW n \in Numbers, Stop(n)
  PROVE  TimersInv'
<1>1. RtcInv'
  <2>1. LagKept
    BY DEF Stop, LagKept, TimersInv, RtcInv
  <2> QED  BY <2>1, RestsRtc DEF Stop, TimersInv
<1>2. timers' \in TimerArray
  BY TimersTyped DEF Stop, TimersInv, MuxInv
<1>3. due' \in [Numbers -> Dues]
  BY DueIsDelay DEF Stop, TimersInv, MuxInv
<1> QED  BY <1>1, <1>2, <1>3 DEF Stop, Call, TimersInv, MuxInv

(* A delay of the slow clock, less the part of its tick that is over.      *)
LEMMA SlowDue ==
  ASSUME TimersInv, NEW dt \in SlowDelays
  PROVE  (IF dt = 0 THEN 0 ELSE (dt * Scale) - (clock % Scale)) \in Dues
<1>1. /\ Modulus \in Nat \ {0} /\ Scale \in Nat \ {0} /\ clock % Scale \in 0..(Scale - 1)
      /\ dt \in Nat /\ dt <= Modulus
  BY ConstantsAre, SlowTimeIs, TimersAssumption DEF TimersInv, RtcInv
<1>2. CASE dt = 0
  BY <1>2, DueIsDelay
<1>3. CASE dt # 0
  <2>1. dt * Scale \in Nat /\ Scale <= dt * Scale /\ dt * Scale <= Modulus * Scale
        /\ Modulus * Scale \in Nat
    <3>1. \A a, b, k \in Nat : a <= b => a * k <= b * k /\ a * k \in Nat /\ b * k \in Nat
      OBVIOUS
    <3>2. 1 <= dt /\ 1 * Scale = Scale
      BY <1>1, <1>3
    <3> QED  BY <1>1, <3>1, <3>2
  <2>2. (dt * Scale) - (clock % Scale) \in 0..(Modulus * Scale)
    <3> DEFINE d == dt * Scale
               m == Modulus * Scale
               r == clock % Scale
    <3>1. d \in Nat /\ Scale <= d /\ d <= m /\ m \in Nat /\ r \in 0..(Scale - 1)
      BY <1>1, <2>1
    <3> HIDE DEF d, m, r
    <3>2. d - r \in 0..m
      BY <1>1, <3>1
    <3> QED  BY <3>2 DEF d, m, r
  <2> QED  BY <1>3, <2>2, DuesAre
<1> QED  BY <1>2, <1>3

LEMMA StartSlowKeeps ==
  ASSUME TimersInv, NEW dt \in SlowDelays, StartSlow(dt)
  PROVE  TimersInv'
<1>1. RtcInv'
  <2>1. LagKept
    BY DEF StartSlow, LagKept, TimersInv, RtcInv
  <2> QED  BY <2>1, ReadsRtc DEF StartSlow, TimersInv
<1>2. timers' \in TimerArray /\ m_t0' \in Time /\ m_dt' \in Time
  <2> DEFINE now == SlowNow(Count, overflows')
  <2>1. getNow /\ scheduleTimer(timers, now, dt)
    BY DEF StartSlow, Reads
  <2>2. now \in Time
    BY <2>1, SlowNowIs, SlowTimeIs DEF TimersInv, RtcInv, Time
  <2>3. dt \in Time
    BY TimersAssumption, ConstantsAre DEF Time
  <2>4. timers \in TimerArray
    BY DEF TimersInv, MuxInv
  <2> HIDE DEF now
  <2> QED  BY <2>1, <2>2, <2>3, <2>4, ScheduleTypes
<1>3. due' \in [Numbers -> Dues]
  <2> DEFINE d == IF dt = 0 THEN 0 ELSE (dt * Scale) - (clock % Scale)
  <2>1. d \in Dues
    BY SlowDue
  <2>2. due' = [due EXCEPT ![Scaled] = d]
    BY DEF StartSlow
  <2> HIDE DEF d
  <2> QED  BY <2>1, <2>2 DEF TimersInv, MuxInv
<1> QED  BY <1>1, <1>2, <1>3 DEF StartSlow, Call, TimersInv, MuxInv

(* The loop of fireTimers.                                                 *)
LEMMA GoesKeeps ==
  ASSUME TimersInv, NEW from, Goes(from), LagKept, firePosted' \in BOOLEAN
  PROVE  TimersInv'
<1>1. CASE /\ LoopEnds(from) /\ signalled' = FALSE
           /\ UNCHANGED <<rtcVars, timers, last_trigger, scalerVars, due>>
  <2>1. RtcInv'
    BY <1>1, RestsRtc DEF TimersInv
  <2>2. at' \in 0..NumTimers
    BY <1>1, ConstantsAre DEF LoopEnds
  <2> QED  BY <1>1, <2>1, <2>2 DEF LoopEnds, scalerVars, TimersInv, MuxInv
<1>2. ASSUME NEW n \in Queued, at' = n, Triggered(n)
      PROVE  /\ n \in Numbers /\ at' \in 0..NumTimers /\ last_trigger' \in [Relative -> Time]
             /\ Signalled(timers, n) \in TimerArray
  <2>1. n \in Numbers /\ timers \in TimerArray
    BY <1>2 DEF Queued, TimersInv, MuxInv
  <2>2. at' \in 0..NumTimers
    BY <1>2, <2>1, MuxAssumption DEF Numbers
  <2>3. (timers[n].t0 + timers[n].dt) % Modulus \in Time
    <3>1. timers[n].t0 \in Time /\ timers[n].dt \in 0..Half
      BY <2>1 DEF TimerArray
    <3>2. timers[n].t0 \in Int /\ timers[n].dt \in Int
      BY <3>1 DEF Time
    <3> QED  BY <3>2, ModIsTime
  <2>4. last_trigger' \in [Relative -> Time]
    BY <1>2, <2>3 DEF Triggered, TimersInv, MuxInv
  <2> QED  BY <2>1, <2>2, <2>4, TimersTyped
<1>3. CASE \E n \in Queued :
             /\ at' = n /\ Triggered(n)
             /\ timers' = Signalled(timers, n) /\ signalled' = TRUE
             /\ due' = [due EXCEPT ![n] = 0]
             /\ UNCHANGED <<rtcVars, updatePosted, m_t0, m_dt>>
  <2>1. RtcInv'
    BY <1>3, RestsRtc DEF TimersInv
  <2>2. due' \in [Numbers -> Dues]
    BY <1>3, DueIsDelay DEF TimersInv, MuxInv
  <2> QED  BY <1>2, <1>3, <2>1, <2>2 DEF TimersInv, MuxInv
<1>4. CASE \E n \in Queued :
             /\ at' = n /\ Triggered(n) /\ Reads
             /\ scheduleTimer(Signalled(timers, n), m_t0, m_dt)
             /\ signalled' = FALSE /\ updatePosted' = TRUE /\ UNCHANGED due
  <2>1. PICK n \in Queued :
             /\ at' = n /\ Triggered(n) /\ Reads
             /\ scheduleTimer(Signalled(timers, n), m_t0, m_dt)
             /\ signalled' = FALSE /\ updatePosted' = TRUE /\ UNCHANGED due
    BY <1>4
  <2>2. RtcInv'
    BY <2>1, ReadsRtc DEF TimersInv
  <2>3. timers' \in TimerArray /\ m_t0' \in Time /\ m_dt' \in Time
    <3>1. /\ getNow /\ Signalled(timers, n) \in TimerArray
          /\ m_t0 \in Time /\ m_dt \in Time
      BY <1>2, <2>1 DEF Reads, TimersInv, MuxInv
    <3> QED  BY <2>1, <3>1, ScheduleTypes
  <2> QED  BY <1>2, <2>1, <2>2, <2>3 DEF TimersInv, MuxInv
<1>5. \/ /\ LoopEnds(from) /\ signalled' = FALSE
         /\ UNCHANGED <<rtcVars, timers, last_trigger, scalerVars, due>>
      \/ \E n \in Queued :
             /\ at' = n /\ Triggered(n)
             /\ timers' = Signalled(timers, n) /\ signalled' = TRUE
             /\ due' = [due EXCEPT ![n] = 0]
             /\ UNCHANGED <<rtcVars, updatePosted, m_t0, m_dt>>
      \/ \E n \in Queued :
             /\ at' = n /\ Triggered(n) /\ Reads
             /\ scheduleTimer(Signalled(timers, n), m_t0, m_dt)
             /\ signalled' = FALSE /\ updatePosted' = TRUE /\ UNCHANGED due
  BY DEF Goes
<1> QED  BY <1>1, <1>3, <1>4, <1>5

LEMMA LagIsKept ==
  ASSUME TimersInv, lag' = IF Busy' THEN lag ELSE 0
  PROVE  LagKept
<1>1. pending' => Busy'
  BY DEF pending, Busy
<1>2. lag \in 0..Slack /\ 0 \in 0..Slack
  BY ConstantsAre DEF TimersInv, RtcInv
<1> QED  BY <1>1, <1>2 DEF LagKept

(* updateFromTimer: what remains of a delay is no more than the delay.     *)
LEMMA updateFromTimerKeeps ==
  ASSUME TimersInv, updateFromTimer, lag' \in 0..Slack,
         UNCHANGED <<scalerVars, signalled, due>>
  PROVE  TimersInv'
<1>1. /\ UNCHANGED <<clock, rtcEvent, timerEventPosted, last_trigger, at>>
      /\ updatePosted' = FALSE
      /\ timers' = [n \in Numbers |->
                      [timers[n] EXCEPT !.fire_queued = @ \/ (n \in Running /\ Over(n))]]
  BY DEF updateFromTimer
<1>2. timers' \in TimerArray
  <2>1. \A n \in Numbers : \A b \in BOOLEAN :
          [timers[n] EXCEPT !.fire_queued = b]
            \in [t0 : Time, dt : 0..Half, running : BOOLEAN, fire_queued : BOOLEAN]
    BY DEF TimersInv, MuxInv, TimerArray
  <2>2. \A n \in Numbers :
          (timers[n].fire_queued \/ (n \in Running /\ Over(n))) \in BOOLEAN
    OBVIOUS
  <2> QED  BY <1>1, <2>1, <2>2 DEF TimerArray
<1>3. RtcInv /\ clock' = clock /\ rtcEvent' \in BOOLEAN /\ timerEventPosted' \in BOOLEAN
  BY <1>1 DEF TimersInv, RtcInv, RtcTypeOK
<1>4. StopRtc \/ \E n \in Running : StartRtc(Count, Remaining(n))
  BY DEF updateFromTimer
<1>5. RtcInv'
  <2>1. CASE StopRtc
    BY <1>3, <2>1, StopRtcKeeps
  <2>2. CASE \E n \in Running : StartRtc(Count, Remaining(n))
    <3>1. PICK n \in Running : StartRtc(Count, Remaining(n))
      BY <2>2
    <3>2. timers[n].dt \in 0..Half /\ timers[n].t0 \in 0..(Modulus - 1)
      BY DEF Running, TimersInv, MuxInv, TimerArray, Time
    <3>3. Remaining(n) \in 0..Half
      <4>1. Elapsed(Count, timers[n].t0) \in Nat /\ Half \in Nat
        BY <1>3, <3>2, TimesAre, ConstantsAre DEF RtcInv
      <4> HIDE DEF Half
      <4> QED  BY <3>2, <4>1 DEF Remaining, Over
    <3> QED  BY <1>3, <3>1, <3>3, StartRtcKeeps
  <2> QED  BY <1>4, <2>1, <2>2
<1>6. firePosted' \in BOOLEAN
  BY DEF updateFromTimer, TimersInv, MuxInv
<1> QED  BY <1>1, <1>2, <1>5, <1>6 DEF scalerVars, TimersInv, MuxInv

LEMMA BelowKeeps ==
  ASSUME TimersInv, Below, lag' = IF Busy' THEN lag ELSE 0
  PROVE  TimersInv'
<1>1. LagKept /\ lag' \in 0..Slack
  BY LagIsKept DEF LagKept
<1>2. UNCHANGED <<scalerVars, signalled, due>>
  BY DEF Below
<1>3. CASE RTCInterrupt /\ UNCHANGED muxVars
  <2>1. RtcInv'
    BY <1>1, <1>3, RTCInterruptKeeps DEF TimersInv
  <2> QED  BY <1>2, <1>3, <2>1 DEF muxVars, scalerVars, TimersInv, MuxInv
<1>4. CASE HardwareFired
  <2>1. RtcInv'
    BY <1>1, <1>4, TimerEventKeeps DEF HardwareFired, TimersInv
  <2>2. firePosted' \in BOOLEAN
    <3>1. Expired \in BOOLEAN
      BY DEF Expired, TimersInv, RtcInv, RtcTypeOK
    <3> QED  BY <1>4, <3>1 DEF HardwareFired, TimersInv, MuxInv
  <2> QED  BY <1>2, <1>4, <2>1, <2>2 DEF HardwareFired, scalerVars, TimersInv, MuxInv
<1>5. CASE updateFromTimer
  BY <1>1, <1>2, <1>5, updateFromTimerKeeps
<1> QED  BY <1>3, <1>4, <1>5 DEF Below

LEMMA TickKeeps ==
  ASSUME TimersInv, Tick
  PROVE  TimersInv'
<1>1. RtcInv'
  BY TickKeepsRtc DEF Tick, TimersInv
<1>2. due' \in [Numbers -> Dues]
  <2>1. \A n \in Numbers : due[n] \in Dues /\ (due[n] >= -Latest => due[n] - 1 \in Dues)
    BY DuesAre DEF TimersInv, MuxInv
  <2> QED  BY <2>1 DEF Tick
<1> QED  BY <1>1, <1>2 DEF Tick, muxVars, scalerVars, TimersInv, MuxInv

LEMMA InitTimers == Init => TimersInv
<1> SUFFICES ASSUME Init PROVE TimersInv
  OBVIOUS
<1>1. /\ clock \in 0..(Modulus - 1) /\ lastNow = Count /\ overflows = 0 /\ lag = 0
      /\ running = FALSE /\ startTime = 0 /\ timeoutFromStartTime = 0
      /\ rtcEvent = FALSE /\ timerEventPosted = FALSE
      /\ nextEvent = IF IsAfter((Count + MinTimeout) % Modulus, 0)
                       THEN (Count + MinTimeout) % Modulus ELSE 0
  BY DEF Init, RtcInit
<1>2. /\ Modulus \in Nat \ {0} /\ Epochs \in Nat \ {0} /\ MinTimeout \in Nat \ {0}
      /\ Half \in Nat /\ MinTimeout < Half /\ Half < Modulus /\ 2 * Half <= Modulus
      /\ Bound = Half + MinTimeout /\ Slack \in Nat
  <2>1. /\ Modulus \in Nat \ {0} /\ Epochs \in Nat \ {0} /\ MinTimeout \in Nat \ {0}
        /\ Half \in Nat /\ MinTimeout + Slack < Half /\ Half < Modulus
        /\ 2 * Half <= Modulus /\ Slack \in Nat /\ Bound = Half + MinTimeout
    BY ConstantsAre DEF Bound
  <2> HIDE DEF Half
  <2> QED  BY <2>1
<1>3. Count = clock /\ Wrapped = 0
  <2>1. 0 \in Nat /\ Modulus * 0 + clock = clock
    BY <1>1, <1>2
  <2> QED  BY <1>1, <1>2, <2>1, TheQuotient DEF Count, Wrapped
<1>4. Count \in 0..(Modulus - 1)
  BY <1>1, <1>3
<1> DEFINE e == (Count + MinTimeout) % Modulus
           c == Count
<1> HIDE DEF Count, Half
<1>5. e = IF c + MinTimeout < Modulus THEN c + MinTimeout ELSE c + MinTimeout - Modulus
  <2>1. MinTimeout \in 0..(Modulus - 1)
    BY <1>2
  <2> QED  BY <1>2, <1>4, <2>1, Sums
<1> HIDE DEF e
<1>6. e \in 0..(Modulus - 1) /\ 0 \in 0..(Modulus - 1)
  BY <1>2, <1>4, <1>5
<1>7. nextEvent = IF 0 < e /\ e < Half THEN e ELSE 0
  <2>1. e - 0 = e /\ e % Modulus = e
    BY <1>2, <1>6, Wraps
  <2>2. IsAfter(e, 0) <=> 0 < e /\ e < Half
    BY <2>1 DEF IsAfter, Half
  <2> QED  BY <1>1, <2>2 DEF e
<1>8. nextEvent \in 0..(Modulus - 1)
  BY <1>6, <1>7
<1>9. Elapsed(nextEvent, c) \in 1..Bound
  <2>1. Elapsed(nextEvent, c) = IF nextEvent >= c THEN nextEvent - c
                                ELSE nextEvent - c + Modulus
    BY <1>4, <1>8, ClockElapsed
  <2>2. CASE 0 < e /\ e < Half
    BY <1>2, <1>4, <1>5, <1>6, <1>7, <2>1, <2>2
  <2>3. CASE ~(0 < e /\ e < Half)
    <3>1. Modulus = 2 * Half
      BY ScaleIs
    <3>2. nextEvent = 0 /\ c # 0
      BY <1>2, <1>5, <1>7, <2>3
    <3>3. Elapsed(nextEvent, c) = Modulus - c /\ c \in 1..(Modulus - 1)
      BY <1>2, <1>4, <2>1, <3>2
    <3>4. c >= Half - MinTimeout
      BY <1>2, <1>4, <1>5, <2>3
    <3> QED  BY <1>2, <3>1, <3>3, <3>4
  <2> QED  BY <2>2, <2>3
<1>10. RtcTypeOK
  <2>1. clock \in 0..(Modulus * Epochs - 1)
    <3>1. Modulus * Epochs \in Nat /\ Modulus <= Modulus * Epochs
      <4>1. \A a \in Nat, b \in Nat \ {0} : a * b \in Nat /\ a <= a * b
        OBVIOUS
      <4> QED  BY <1>2, <4>1
    <3> QED  BY <1>1, <1>2, <3>1
  <2>2. 0 \in 0..(Epochs - 1)
    BY <1>2
  <2> QED  BY <1>1, <1>4, <1>6, <1>8, <2>1, <2>2 DEF RtcTypeOK
<1>11. ReadInv
  <2>1. Elapsed(Count, lastNow) = 0
    BY <1>1, <1>4, ClockElapsed
  <2>2. Elapsed(nextEvent, Count) \in 1..Bound /\ Bound \in Nat
    BY <1>2, <1>9
  <2>3. 1 <= Elapsed(nextEvent, Count)
        /\ 0 + Elapsed(nextEvent, Count) <= Bound
    BY <2>2
  <2> QED  BY <1>1, <2>1, <2>3 DEF ReadInv, pending
<1>12. RtcInv
  BY <1>1, <1>2, <1>3, <1>4, <1>10, <1>11 DEF RtcInv, EpochInv, RunInv
<1>13. MuxInv
  <2>1. /\ 0 \in Time /\ 0 \in 0..Half /\ 0 \in Dues /\ 0 \in 0..NumTimers
    BY <1>2, DueIsDelay, MuxAssumption DEF Time
  <2> QED  BY <2>1 DEF Init, MuxInit, MuxInv, TimerArray
<1> QED  BY <1>12, <1>13 DEF TimersInv

LEMMA NextTimers == TimersInv /\ [Next]_vars => TimersInv'
<1> SUFFICES ASSUME TimersInv, [Next]_vars PROVE TimersInv'
  OBVIOUS
<1>1. CASE \E n \in Clients, dt \in Delays : StartFromNow(n, dt)
  BY <1>1, StartFromNowKeeps
<1>2. CASE \E n \in Relative, dt \in Delays : StartFromLastTrigger(n, dt)
  BY <1>2, StartFromLastTriggerKeeps
<1>3. CASE \E n \in Numbers : Stop(n)
  BY <1>3, StopKeeps
<1>4. CASE \E dt \in SlowDelays : StartSlow(dt)
  BY <1>4, StartSlowKeeps
<1>5. CASE Below /\ lag' = IF Busy' THEN lag ELSE 0
  BY <1>5, BelowKeeps
<1>6. CASE (FireTimers \/ HandlerReturns) /\ lag' = IF Busy' THEN lag ELSE 0
  <2>1. LagKept
    BY <1>6, LagIsKept
  <2>2. firePosted' \in BOOLEAN /\ \E from : Goes(from)
    BY <1>6 DEF FireTimers, HandlerReturns, TimersInv, MuxInv
  <2> QED  BY <2>1, <2>2, GoesKeeps
<1>7. CASE AskBeforeSleep
  <2>1. LagKept
    BY <1>7 DEF AskBeforeSleep, LagKept, TimersInv, RtcInv
  <2>2. RtcInv'
    BY <1>7, <2>1, ReadsRtc DEF AskBeforeSleep, TimersInv
  <2> QED  BY <1>7, <2>2 DEF AskBeforeSleep, muxVars, scalerVars, TimersInv, MuxInv
<1>8. CASE Tick
  BY <1>8, TickKeeps
<1>9. CASE UNCHANGED vars
  <2>1. LagKept
    BY <1>9 DEF vars, LagKept, TimersInv, RtcInv
  <2>2. RtcInv'
    BY <1>9, <2>1, RestsRtc DEF vars, TimersInv
  <2> QED  BY <1>9, <2>2 DEF vars, muxVars, TimersInv, MuxInv
<1> QED
  BY <1>1, <1>2, <1>3, <1>4, <1>5, <1>6, <1>7, <1>8, <1>9 DEF Next

THEOREM TimersInvariant == Spec => []TimersInv
BY InitTimers, NextTimers, PTL DEF Spec

(* No wrap of the counter is missed or counted twice, although the driver  *)
(* sees one only when it happens to read the counter: for every period,    *)
(* scale, number of timers and delays up to half a period, whatever starts *)
(* and stops they make, as long as the tasks come to their end in Slack    *)
(* ticks.                                                                  *)
THEOREM ClocksAlwaysAgree == Spec => []ClocksAgree
<1>1. TimersInv => ClocksAgree
  BY MuxTypes, SlowNowIs DEF ClocksAgree, SlowTime, TimersInv
<1> QED  BY <1>1, TimersInvariant, PTL

-----------------------------------------------------------------------------
(* No timer fires before its time.  What is due is not more than what the  *)
(* multiplexer still counts; for the scaler's timer, the two parts of a    *)
(* delay too long for the fast timer, the first of which the multiplexer   *)
(* counts and the second of which the scaler has still to schedule.        *)
Part == clock % Scale
ToCome(n) == timers[n].dt - Elapsed(Count, timers[n].t0)

FirstPart ==
  LET p == Elapsed(m_t0, SlowTime)
  IN  /\ 1 <= p /\ p + m_dt < Modulus
      /\ p * Scale - Part = ToCome(Scaled)
      /\ due[Scaled] <= (p + m_dt) * Scale - Part
SecondPart ==
  LET q == Elapsed(SlowTime, m_t0)
  IN  q < m_dt /\ due[Scaled] <= (m_dt - q) * Scale - Part

InTime(n) ==
  \/ due[n] <= 0
  \/ (n = Scaled => m_dt = 0) /\ due[n] <= ToCome(n)
  \/ n = Scaled /\ m_dt # 0 /\ (FirstPart \/ SecondPart)
MayFire(n) ==
  /\ n \in Running
  /\ due[n] <= 0 \/ (n = Scaled /\ m_dt # 0 /\ SecondPart)

AllInTime ==
  /\ \A n \in Running : InTime(n)
  /\ \A n \in Queued : MayFire(n)
EarlyInv == TimersInv /\ AllInTime

LEMMA ClockParts ==
  ASSUME RtcTypeOK
  PROVE  /\ SlowTime \in 0..(Modulus - 1) /\ Part \in 0..(Scale - 1)
         /\ clock = Scale * SlowTime + Part
         /\ Elapsed(Count, (SlowTime * Scale) % Modulus) = Part
<1> DEFINE h == Modulus \div Scale
           c == Count
           a == c \div Scale
<1>1. /\ Modulus \in Nat \ {0} /\ Scale \in Nat \ {0}
      /\ h \in Nat /\ Modulus = h * Scale
  BY ConstantsAre, ScaleIs
<1>2. /\ SlowTime \in 0..(Modulus - 1) /\ c = Scale * a + Part
      /\ Part \in 0..(Scale - 1) /\ \E w \in Nat : SlowTime = h * w + a
  BY SlowTimeIs DEF Part
<1>3. c \in 0..(Modulus - 1)
  BY TimesAre
<1>4. clock = Scale * SlowTime + Part
  <2>1. clock \in Nat
    <3>1. Modulus * Epochs \in Nat
      BY ConstantsAre
    <3> QED  BY <3>1 DEF RtcTypeOK
  <2> QED  BY <1>1, <2>1, Division DEF Part, SlowTime
<1> HIDE DEF h, c, a, Part, SlowTime
<1>5. PICK w \in Nat : SlowTime = h * w + a
  BY <1>2
<1>6. a \in Nat
  <2>1. c \in Nat
    BY <1>1, <1>3
  <2> QED  BY <1>1, <2>1, Division DEF a
<1>7. SlowTime * Scale = Modulus * w + (c - Part)
  <2>1. \A x, y, z, s \in Nat : (x * y + z) * s = (x * s) * y + s * z
    OBVIOUS
  <2>2. c - Part = Scale * a
    BY <1>1, <1>2, <1>6
  <2> QED  BY <1>1, <1>5, <1>6, <2>1, <2>2
<1>8. c - Part \in 0..(Modulus - 1)
  <2>1. c - Part = Scale * a /\ Scale * a \in Nat
    BY <1>1, <1>2, <1>6
  <2> QED  BY <1>1, <1>2, <1>3, <2>1
<1>9. (SlowTime * Scale) % Modulus = c - Part
  <2>1. (Modulus * w + (c - Part)) % Modulus = c - Part
    BY <1>1, <1>8, TheQuotient
  <2> QED  BY <1>7, <2>1
<1>10. Elapsed(c, c - Part) = Part
  <2>1. Elapsed(c, c - Part) = IF c >= c - Part THEN c - (c - Part)
                               ELSE c - (c - Part) + Modulus
    BY <1>3, <1>8, ClockElapsed
  <2> QED  BY <1>1, <1>2, <1>3, <2>1
<1> QED  BY <1>2, <1>4, <1>9, <1>10 DEF c

LEMMA SlowRemainingIs ==
  ASSUME NEW t0 \in Time, NEW dt \in Time, NEW now \in Time
  PROVE  SlowRemaining(t0, dt, now)
           = IF Elapsed(now, t0) >= dt THEN 0 ELSE dt - Elapsed(now, t0)
<1> DEFINE x == (t0 + dt) % Modulus
<1>1. /\ Modulus \in Nat \ {0} /\ t0 \in 0..(Modulus - 1) /\ dt \in 0..(Modulus - 1)
      /\ now \in 0..(Modulus - 1)
  BY ConstantsAre DEF Time
<1>2. x = IF t0 + dt < Modulus THEN t0 + dt ELSE t0 + dt - Modulus
  BY <1>1, Sums
<1>3. SlowRemaining(t0, dt, now) =
        IF \/ t0 <= now /\ t0 <= x /\ x <= now
           \/ t0 > now /\ (x >= t0 \/ x <= now)
          THEN 0 ELSE (x - now) % Modulus
  BY DEF SlowRemaining
<1> HIDE DEF x
<1>4. x \in 0..(Modulus - 1)
  BY <1>1, <1>2
<1>5. (x - now) % Modulus = IF x >= now THEN x - now ELSE x - now + Modulus
  BY <1>1, <1>4, Differences
<1>6. Elapsed(now, t0) = IF now >= t0 THEN now - t0 ELSE now - t0 + Modulus
  BY <1>1, ClockElapsed
<1>7. CASE t0 <= now
  BY <1>1, <1>2, <1>3, <1>4, <1>5, <1>6, <1>7
<1>8. CASE ~(t0 <= now)
  BY <1>1, <1>2, <1>3, <1>4, <1>5, <1>6, <1>8
<1> QED  BY <1>7, <1>8

LEMMA SlowTicks ==
  ASSUME RtcTypeOK, CounterTicks
  PROVE  IF Part + 1 < Scale
           THEN SlowTime' = SlowTime /\ Part' = Part + 1
           ELSE /\ SlowTime' = IF SlowTime + 1 = Modulus THEN 0 ELSE SlowTime + 1
                /\ Part' = 0 /\ Part + 1 = Scale
<1>1. /\ Modulus \in Nat \ {0} /\ Scale \in Nat \ {0} /\ Modulus * Epochs = Scale * Modulus
      /\ Modulus * Epochs \in Nat \ {0}
  <2>1. Modulus \in Nat \ {0} /\ Scale \in Nat \ {0} /\ Epochs = Scale
    BY ConstantsAre
  <2>2. \A a, b \in Nat \ {0} : a * b \in Nat \ {0} /\ a * b = b * a
    OBVIOUS
  <2> QED  BY <2>1, <2>2
<1>2. /\ SlowTime \in 0..(Modulus - 1) /\ Part \in 0..(Scale - 1)
      /\ clock = Scale * SlowTime + Part
  BY ClockParts
<1>3. clock' = (clock + 1) % (Modulus * Epochs)
  BY DEF CounterTicks
<1>4. clock \in 0..(Modulus * Epochs - 1)
  BY DEF RtcTypeOK
<1>5. SlowTime' = clock' \div Scale /\ Part' = clock' % Scale
  BY DEF SlowTime, Part
<1> DEFINE s == SlowTime
           p == Part
           m == Modulus * Epochs
<1> HIDE DEF SlowTime, Part, s, p, m
<1>6. clock + 1 = m => clock' = 0
  <2>1. clock + 1 = m => clock + 1 = m * 1 + 0
    BY <1>1 DEF m
  <2>2. 1 \in Nat /\ 0 \in 0..(m - 1)
    BY <1>1 DEF m
  <2> QED  BY <1>1, <1>3, <2>1, <2>2, TheQuotient DEF m
<1>7. clock + 1 # m => clock' = clock + 1
  <2>1. clock + 1 # m => clock + 1 \in 0..(m - 1)
    BY <1>1, <1>4 DEF m
  <2> QED  BY <1>1, <1>3, <2>1, Wraps DEF m
<1>8. m = Scale * Modulus
  BY <1>1 DEF m
<1>9. CASE Part + 1 < Scale
  <2>1. clock + 1 = Scale * SlowTime + (Part + 1) /\ Part + 1 \in 0..(Scale - 1)
    BY <1>1, <1>2, <1>9
  <2>2. clock + 1 # m
    <3>1. Scale * SlowTime + Scale <= Scale * Modulus
      <4>1. \A x, y, k \in Nat : y + 1 <= k => x * y + x <= x * k
        <5>1. \A x, y, k \in Nat : y <= k => x * y <= x * k
          OBVIOUS
        <5>2. \A x, y \in Nat : x * y + x = x * (y + 1) /\ y + 1 \in Nat
          OBVIOUS
        <5> QED  BY <5>1, <5>2
      <4> QED  BY <1>1, <1>2, <4>1
    <3>2. Scale * SlowTime \in Nat /\ Scale * Modulus \in Nat
      BY <1>1, <1>2
    <3> QED  BY <1>1, <1>2, <1>8, <1>9, <2>1, <3>1, <3>2
  <2>3. clock' = Scale * SlowTime + (Part + 1)
    BY <1>7, <2>1, <2>2
  <2>4. SlowTime \in Nat
    BY <1>2
  <2>5. SlowTime' = SlowTime /\ Part' = Part + 1
    BY <1>1, <1>5, <2>1, <2>3, <2>4, TheQuotient
  <2> QED  BY <1>9, <2>5
<1>10. CASE ~(Part + 1 < Scale)
  <2>1. Part + 1 = Scale
    BY <1>1, <1>2, <1>10
  <2>2. clock + 1 = Scale * (SlowTime + 1) + 0 /\ 0 \in 0..(Scale - 1)
        /\ SlowTime + 1 \in Nat /\ clock + 1 = Scale * (SlowTime + 1)
    <3>1. \A x, y \in Nat : x * (y + 1) = x * y + x /\ x * (y + 1) + 0 = x * (y + 1)
      OBVIOUS
    <3>2. Scale * SlowTime \in Nat /\ clock + 1 = Scale * SlowTime + Scale
      BY <1>1, <1>2, <2>1
    <3> QED  BY <1>1, <1>2, <3>1, <3>2
  <2>3. CASE SlowTime + 1 = Modulus
    <3>1. clock' = 0
      BY <1>6, <1>8, <2>2, <2>3
    <3>2. 0 = Scale * 0 + 0 /\ 0 \in Nat
      BY <1>1
    <3>3. SlowTime' = 0 /\ Part' = 0
      BY <1>1, <1>5, <2>2, <3>1, <3>2, TheQuotient
    <3> QED  BY <1>10, <2>1, <2>3, <3>3
  <2>4. CASE SlowTime + 1 # Modulus
    <3>1. clock + 1 # m
      <4>1. SlowTime + 1 < Modulus
        BY <1>1, <1>2, <2>4
      <4>2. \A x \in Nat \ {0}, y, k \in Nat : y < k => x * y < x * k
        OBVIOUS
      <4>3. Scale * (SlowTime + 1) < Scale * Modulus
        BY <1>1, <2>2, <4>1, <4>2
      <4>4. Scale * (SlowTime + 1) \in Nat /\ Scale * Modulus \in Nat
        BY <1>1, <2>2
      <4> QED  BY <1>8, <2>2, <4>3, <4>4
    <3>2. clock' = Scale * (SlowTime + 1) + 0
      BY <1>7, <2>2, <3>1
    <3>3. SlowTime' = SlowTime + 1 /\ Part' = 0
      BY <1>1, <1>5, <2>2, <3>2, TheQuotient
    <3> QED  BY <1>10, <2>1, <2>4, <3>3
  <2> QED  BY <2>3, <2>4
<1> QED  BY <1>9, <1>10

(* What scheduleTimer leaves: what remains of the delay, in one part or two.*)
LEMMA Schedules ==
  ASSUME TimersInv, getNow, clock' = clock, NEW ts \in TimerArray,
         NEW t0 \in Time, NEW dt \in Time, scheduleTimer(ts, t0, dt),
         due' \in [Numbers -> Dues],
         Elapsed(SlowTime, t0) < dt,
         due'[Scaled] <= ((dt - Elapsed(SlowTime, t0)) * Scale) - Part
  PROVE  InTime(Scaled)'
<1> DEFINE now == SlowTime
           r == dt - Elapsed(now, t0)
           d == IF r > MAX_DELAY THEN MAX_DELAY ELSE r
<1>1. /\ Modulus \in Nat \ {0} /\ Scale \in Nat \ {0} /\ MAX_DELAY \in Nat \ {0}
      /\ MAX_DELAY < Modulus
  <2>1. /\ Modulus \in Nat \ {0} /\ Scale \in Nat \ {0} /\ MAX_DELAY \in Nat
        /\ Half = MAX_DELAY * Scale /\ MAX_DELAY < Modulus /\ Half \in Nat /\ Half > 0
    <3>1. MinTimeout + Slack < Half /\ MinTimeout \in Nat /\ Slack \in Nat /\ Half \in Nat
      BY ConstantsAre
    <3>2. Half > 0
      <4> HIDE DEF Half
      <4> QED  BY <3>1
    <3> QED  BY <3>2, ConstantsAre, ScaleIs
  <2>2. MAX_DELAY # 0
    <3> HIDE DEF Half
    <3> QED  BY <2>1
  <2> QED  BY <2>1, <2>2
<1>2. /\ now \in Time /\ Part \in 0..(Scale - 1)
      /\ Elapsed(Count, (now * Scale) % Modulus) = Part
  BY ClockParts DEF TimersInv, RtcInv, Time
<1>3. SlowNow(Count, overflows') = now
  BY SlowNowIs DEF TimersInv
<1>4. r \in 1..(Modulus - 1) /\ SlowRemaining(t0, dt, now) = r
  <2>1. Elapsed(now, t0) \in 0..(Modulus - 1)
    BY <1>2, ClockElapsed DEF Time
  <2>2. r \in 1..(Modulus - 1) /\ ~(Elapsed(now, t0) >= dt)
    BY <1>1, <2>1 DEF Time
  <2>3. SlowRemaining(t0, dt, now)
           = IF Elapsed(now, t0) >= dt THEN 0 ELSE dt - Elapsed(now, t0)
    BY <1>2, SlowRemainingIs
  <2> QED  BY <2>2, <2>3
<1>5. /\ m_t0' = (IF r > MAX_DELAY THEN now + MAX_DELAY ELSE t0 + dt) % Modulus
      /\ m_dt' = r - d
      /\ timers' = Started(ts, Scaled, (now * Scale) % Modulus, d * Scale)
  BY <1>3, <1>4 DEF scheduleTimer
<1>6. due'[Scaled] <= (r * Scale) - Part
  OBVIOUS
<1>7. /\ SlowTime' = now /\ Part' = Part /\ Count' = Count
  BY DEF SlowTime, Part, Count
<1>8. timers'[Scaled].t0 = (now * Scale) % Modulus /\ timers'[Scaled].dt = d * Scale
  <2>1. Scaled \in Numbers
    BY MuxAssumption DEF Scaled, Numbers
  <2> QED  BY <1>5, <2>1 DEF Started, TimerArray
<1>9. ToCome(Scaled)' = (d * Scale) - Part
  <2>1. ToCome(Scaled)' = timers'[Scaled].dt - Elapsed(Count', timers'[Scaled].t0)
    BY DEF ToCome, Elapsed
  <2> QED  BY <1>2, <1>7, <1>8, <2>1
<1> HIDE DEF now, r, d, Part
<1>10. CASE r > MAX_DELAY
  <2>1. d = MAX_DELAY
    BY <1>10 DEF d
  <2>2. m_t0' = (now + MAX_DELAY) % Modulus /\ m_dt' = r - MAX_DELAY /\ m_dt' # 0
    BY <1>1, <1>4, <1>5, <1>10, <2>1
  <2>3. Elapsed(m_t0', now) = MAX_DELAY
    <3>1. MAX_DELAY \in 0..(Modulus - 1) /\ now \in 0..(Modulus - 1)
      BY <1>1, <1>2 DEF Time
    <3> QED  BY <2>2, <3>1, Reached
  <2>4. Elapsed(m_t0, SlowTime)' = MAX_DELAY
    BY <1>7, <2>3 DEF Elapsed
  <2>5. MAX_DELAY + m_dt' = r
    BY <1>1, <1>4, <2>2
  <2>6. FirstPart'
    <3>1. 1 <= MAX_DELAY /\ r < Modulus
      BY <1>1, <1>4
    <3>2. (MAX_DELAY * Scale) - Part = ToCome(Scaled)'
      BY <1>9, <2>1
    <3> QED  BY <1>6, <1>7, <2>4, <2>5, <3>1, <3>2 DEF FirstPart
  <2> QED  BY <2>2, <2>6 DEF InTime
<1>11. CASE ~(r > MAX_DELAY)
  <2>1. d = r /\ m_dt' = 0
    BY <1>1, <1>4, <1>5, <1>11 DEF d
  <2>2. due'[Scaled] <= ToCome(Scaled)'
    BY <1>6, <1>9, <2>1
  <2> QED  BY <2>1, <2>2 DEF InTime
<1> QED  BY <1>10, <1>11

(* What is left alone stays in time.                                       *)
LEMMA LeftAlone ==
  ASSUME NEW n, InTime(n), clock' = clock, due'[n] = due[n],
         timers'[n].t0 = timers[n].t0, timers'[n].dt = timers[n].dt,
         n = Scaled => m_t0' = m_t0 /\ m_dt' = m_dt
  PROVE  InTime(n)'
<1>1. Count' = Count /\ SlowTime' = SlowTime /\ Part' = Part
  BY DEF Count, SlowTime, Part
<1>2. ToCome(n)' = ToCome(n)
  BY <1>1 DEF ToCome, Elapsed
<1>3. n = Scaled => FirstPart' = FirstPart /\ SecondPart' = SecondPart
  BY <1>1, <1>2 DEF FirstPart, SecondPart, Elapsed
<1> QED  BY <1>2, <1>3 DEF InTime

LEMMA MarkLeftAlone ==
  ASSUME NEW n, MayFire(n), clock' = clock, due'[n] = due[n],
         timers'[n].running, timers[n].running,
         n = Scaled => m_t0' = m_t0 /\ m_dt' = m_dt
  PROVE  MayFire(n)'
<1>1. SlowTime' = SlowTime /\ Part' = Part
  BY DEF SlowTime, Part
<1>2. n = Scaled => SecondPart' = SecondPart
  BY <1>1 DEF SecondPart, Elapsed
<1>3. n \in Running'
  BY DEF MayFire, Running
<1> QED  BY <1>2, <1>3 DEF MayFire

(* A tick.  What is to come of a delay becomes one less; the first part of *)
(* a slow delay turns into the second one when the fast timer is over.     *)
LEMMA DelayTicks ==
  ASSUME TimersInv, CounterTicks, timers' = timers, NEW n \in Numbers, ToCome(n) > 0
  PROVE  ToCome(n)' = ToCome(n) - 1
<1> DEFINE t == timers[n].t0
           dt == timers[n].dt
           e == Elapsed(Count, t)
<1>1. Modulus \in Nat \ {0} /\ Half \in Nat /\ Half < Modulus
  BY ConstantsAre
<1>2. t \in 0..(Modulus - 1) /\ dt \in 0..Half
  BY DEF TimersInv, MuxInv, TimerArray, Time
<1>3. Count \in 0..(Modulus - 1) /\ e \in 0..(Modulus - 1)
  BY <1>2, TimesAre DEF TimersInv, RtcInv
<1>4. Count' = IF Count + 1 = Modulus THEN 0 ELSE Count + 1
  BY CounterIs DEF TimersInv, RtcInv, RtcTypeOK
<1>5. ToCome(n) = dt - e
  BY DEF ToCome
<1>6. ToCome(n)' = dt - Elapsed(Count', t)
  BY DEF ToCome, Elapsed
<1>7. Elapsed(Count', t) = IF e = Modulus - 1 THEN 0 ELSE e + 1
  <2> DEFINE c == Count
             k == Count'
  <2>1. c \in 0..(Modulus - 1) /\ k = IF c + 1 = Modulus THEN 0 ELSE c + 1
    BY <1>3, <1>4
  <2> HIDE DEF c, k, t
  <2>2. Elapsed(k, t) = IF Elapsed(c, t) = Modulus - 1 THEN 0 ELSE Elapsed(c, t) + 1
    BY <1>2, <2>1, TickElapsed
  <2> QED  BY <2>2 DEF c, k, t
<1> HIDE DEF t, dt, e, Half
<1>8. e < dt
  BY <1>2, <1>3, <1>5
<1>9. e # Modulus - 1
  BY <1>1, <1>2, <1>3, <1>8
<1>10. Elapsed(Count', t) = e + 1
  BY <1>7, <1>9
<1> QED  BY <1>2, <1>3, <1>5, <1>6, <1>10

LEMMA SlowTimeElapses ==
  ASSUME RtcTypeOK, CounterTicks, NEW t \in Time
  PROVE  /\ Elapsed(SlowTime, t) \in 0..(Modulus - 1)
         /\ Elapsed(t, SlowTime) \in 0..(Modulus - 1)
         /\ IF Part + 1 < Scale
              THEN /\ Elapsed(SlowTime', t) = Elapsed(SlowTime, t)
                   /\ Elapsed(t, SlowTime') = Elapsed(t, SlowTime)
                   /\ Part' = Part + 1
              ELSE /\ Part + 1 = Scale /\ Part' = 0
                   /\ Elapsed(SlowTime', t) = IF Elapsed(SlowTime, t) = Modulus - 1
                                                THEN 0 ELSE Elapsed(SlowTime, t) + 1
                   /\ Elapsed(t, SlowTime) > 0
                        => Elapsed(t, SlowTime') = Elapsed(t, SlowTime) - 1
                   /\ Elapsed(t, SlowTime) = 1 => Elapsed(SlowTime', t) = 0
<1> DEFINE s == SlowTime
           k == SlowTime'
<1>1. s \in 0..(Modulus - 1) /\ t \in 0..(Modulus - 1)
  BY ClockParts DEF Time
<1>2. IF Part + 1 < Scale
        THEN k = s /\ Part' = Part + 1
        ELSE k = (IF s + 1 = Modulus THEN 0 ELSE s + 1) /\ Part' = 0 /\ Part + 1 = Scale
  BY SlowTicks
<1> HIDE DEF s, k, Part
<1>3. /\ Elapsed(s, t) \in 0..(Modulus - 1) /\ Elapsed(t, s) \in 0..(Modulus - 1)
      /\ Elapsed(t, s) = 0 <=> t = s
  BY <1>1, ClockElapsed
<1>4. CASE Part + 1 < Scale
  BY <1>2, <1>3, <1>4 DEF s, k
<1>5. CASE ~(Part + 1 < Scale)
  <2>1. k = IF s + 1 = Modulus THEN 0 ELSE s + 1
    BY <1>2, <1>5
  <2>2. /\ k \in 0..(Modulus - 1)
        /\ Elapsed(k, t) = IF Elapsed(s, t) = Modulus - 1 THEN 0 ELSE Elapsed(s, t) + 1
        /\ t # s => Elapsed(t, k) = Elapsed(t, s) - 1
        /\ k = t <=> Elapsed(t, s) = 1
    BY <1>1, <2>1, TickElapsed
  <2>3. Elapsed(t, s) > 0 => t # s
    BY <1>3
  <2>4. k = t => Elapsed(k, t) = 0
    BY <2>2, ClockElapsed
  <2> QED  BY <1>2, <1>3, <1>5, <2>2, <2>3, <2>4 DEF s, k
<1> QED  BY <1>4, <1>5

LEMMA Products ==
  ASSUME NEW a \in Nat, NEW b \in Nat \ {0}
  PROVE  /\ a * b \in Nat
         /\ (a + 1) * b = a * b + b
         /\ a * b > 0 => a > 0
         /\ a > 0 => a * b >= b
OBVIOUS

LEMMA SecondPartTicks ==
  ASSUME TimersInv, CounterTicks, UNCHANGED scalerVars,
         due'[Scaled] = due[Scaled] - 1, due'[Scaled] > 0, due[Scaled] \in Int, SecondPart
  PROVE  SecondPart'
<1> DEFINE q == Elapsed(SlowTime, m_t0)
           qq == Elapsed(SlowTime', m_t0)
           p == Part
<1>1. /\ m_t0 \in Time /\ m_t0' = m_t0 /\ m_dt' = m_dt /\ m_dt \in 0..(Modulus - 1)
      /\ Modulus \in Nat \ {0} /\ Scale \in Nat \ {0}
  BY ConstantsAre DEF scalerVars, TimersInv, MuxInv, Time
<1>2. p \in 0..(Scale - 1)
  BY ClockParts DEF TimersInv, RtcInv
<1>3. q < m_dt /\ due[Scaled] <= ((m_dt - q) * Scale) - p
  BY DEF SecondPart
<1>4. /\ q \in 0..(Modulus - 1)
      /\ IF p + 1 < Scale THEN qq = q /\ Part' = p + 1
         ELSE p + 1 = Scale /\ Part' = 0 /\ qq = IF q = Modulus - 1 THEN 0 ELSE q + 1
  BY <1>1, SlowTimeElapses DEF TimersInv, RtcInv
<1>5. SecondPart' <=> qq < m_dt /\ due'[Scaled] <= ((m_dt - qq) * Scale) - Part'
  BY <1>1 DEF SecondPart, Elapsed
<1> HIDE DEF q, qq, p
<1>6. CASE p + 1 < Scale
  <2>1. (m_dt - q) * Scale \in Nat
    BY <1>1, <1>3, <1>4, Products
  <2> QED  BY <1>1, <1>2, <1>3, <1>4, <1>5, <1>6, <2>1
<1>7. CASE ~(p + 1 < Scale)
  <2>1. qq = q + 1 /\ p + 1 = Scale /\ Part' = 0
    BY <1>1, <1>3, <1>4, <1>7
  <2>2. /\ m_dt - qq \in Nat /\ (m_dt - qq) + 1 = m_dt - q
    BY <1>1, <1>3, <1>4, <2>1
  <2>3. /\ (m_dt - qq) * Scale \in Nat
        /\ (m_dt - q) * Scale = (m_dt - qq) * Scale + Scale
        /\ (m_dt - qq) * Scale > 0 => m_dt - qq > 0
    <3>1. \A a \in Nat : /\ a * Scale \in Nat /\ (a + 1) * Scale = a * Scale + Scale
                         /\ a * Scale > 0 => a > 0
      BY <1>1, Products
    <3> QED  BY <2>2, <3>1
  <2> DEFINE x == (m_dt - qq) * Scale
             y == (m_dt - q) * Scale
  <2>4. x \in Nat /\ y = x + Scale /\ due[Scaled] <= y - p
    BY <1>3, <2>3
  <2> HIDE DEF x, y
  <2>5. due'[Scaled] <= x /\ x > 0
    BY <1>1, <1>2, <2>1, <2>4
  <2>6. qq < m_dt
    BY <1>1, <1>4, <2>1, <2>3, <2>5 DEF x
  <2>7. x - Part' = x
    BY <2>1, <2>4
  <2> QED  BY <1>5, <2>5, <2>6, <2>7 DEF x
<1> QED  BY <1>6, <1>7

LEMMA FirstPartTicks ==
  ASSUME TimersInv, CounterTicks, UNCHANGED scalerVars, timers' = timers, m_dt # 0,
         due'[Scaled] = due[Scaled] - 1, due[Scaled] \in Int, FirstPart
  PROVE  FirstPart' \/ SecondPart'
<1> DEFINE p == Elapsed(m_t0, SlowTime)
           pp == Elapsed(m_t0, SlowTime')
           qq == Elapsed(SlowTime', m_t0)
           r == Part
           c == ToCome(Scaled)
           cc == ToCome(Scaled)'
<1>1. /\ m_t0 \in Time /\ m_t0' = m_t0 /\ m_dt' = m_dt /\ m_dt \in 0..(Modulus - 1)
      /\ Modulus \in Nat \ {0} /\ Scale \in Nat \ {0}
  BY ConstantsAre DEF scalerVars, TimersInv, MuxInv, Time
<1>2. r \in 0..(Scale - 1)
  BY ClockParts DEF TimersInv, RtcInv
<1>3. /\ 1 <= p /\ p + m_dt < Modulus /\ (p * Scale) - r = c
      /\ due[Scaled] <= ((p + m_dt) * Scale) - r
  BY DEF FirstPart
<1>4. /\ p \in 0..(Modulus - 1)
      /\ IF r + 1 < Scale THEN pp = p /\ Part' = r + 1
         ELSE /\ r + 1 = Scale /\ Part' = 0 /\ (p > 0 => pp = p - 1)
              /\ (p = 1 => qq = 0)
  BY <1>1, SlowTimeElapses DEF TimersInv, RtcInv
<1>5. /\ FirstPart' <=> /\ 1 <= pp /\ pp + m_dt < Modulus
                        /\ (pp * Scale) - Part' = cc
                        /\ due'[Scaled] <= ((pp + m_dt) * Scale) - Part'
      /\ SecondPart' <=> qq < m_dt /\ due'[Scaled] <= ((m_dt - qq) * Scale) - Part'
  BY <1>1 DEF FirstPart, SecondPart, Elapsed
<1>6. c > 0 => cc = c - 1
  <2>1. Scaled \in Numbers
    BY MuxAssumption DEF Scaled, Numbers
  <2> QED  BY <2>1, DelayTicks
<1> HIDE DEF p, pp, qq, r, c, cc
<1>7. p * Scale \in Nat /\ (p + m_dt) * Scale \in Nat /\ (p * Scale) - r > 0
  BY <1>1, <1>2, <1>3, <1>4, Products
<1>8. cc = c - 1 /\ c \in Int
  BY <1>2, <1>3, <1>6, <1>7
<1>9. CASE r + 1 < Scale
  BY <1>1, <1>2, <1>3, <1>4, <1>5, <1>7, <1>8, <1>9
<1>10. CASE ~(r + 1 < Scale)
  <2>1. pp = p - 1 /\ r + 1 = Scale /\ Part' = 0 /\ (p = 1 => qq = 0)
    BY <1>3, <1>4, <1>10
  <2>2. \A a \in Nat : a * Scale \in Nat /\ (a + 1) * Scale = a * Scale + Scale
    BY <1>1, Products
  <2>3. /\ pp \in Nat /\ pp + 1 = p /\ pp + m_dt \in Nat
        /\ (pp + m_dt) + 1 = p + m_dt
    BY <1>1, <1>3, <1>4, <2>1
  <2>4. /\ pp * Scale \in Nat /\ p * Scale = pp * Scale + Scale
        /\ (pp + m_dt) * Scale \in Nat
        /\ (p + m_dt) * Scale = (pp + m_dt) * Scale + Scale
    BY <2>2, <2>3
  <2>5. (pp * Scale) - Part' = cc /\ due'[Scaled] <= ((pp + m_dt) * Scale) - Part'
    BY <1>1, <1>2, <1>3, <1>8, <2>1, <2>4
  <2>6. CASE pp >= 1
    <3>1. pp + m_dt < Modulus
      BY <1>1, <1>3, <2>3
    <3> QED  BY <1>5, <2>5, <2>6, <3>1
  <2>7. CASE ~(pp >= 1)
    <3>1. pp = 0 /\ qq = 0
      BY <2>1, <2>3, <2>7
    <3>2. pp + m_dt = m_dt - qq /\ qq < m_dt
      BY <1>1, <3>1
    <3> QED  BY <1>5, <2>5, <3>2
  <2> QED  BY <2>6, <2>7
<1> QED  BY <1>9, <1>10

LEMMA TickInTime ==
  ASSUME EarlyInv, Tick
  PROVE  AllInTime'
<1>1. /\ TimersInv /\ CounterTicks /\ timers' = timers /\ UNCHANGED scalerVars
      /\ m_dt' = m_dt
      /\ due' = [n \in Numbers |-> IF timers[n].running /\ due[n] >= -Latest
                                     THEN due[n] - 1 ELSE due[n]]
  BY DEF EarlyInv, Tick, muxVars, scalerVars
<1>2. Running' = Running /\ Queued' = Queued
  BY <1>1 DEF Running, Queued
<1>3. ASSUME NEW n \in Running
      PROVE  n \in Numbers /\ due[n] \in Int /\ (due'[n] <= 0 \/ due'[n] = due[n] - 1)
  <2>1. n \in Numbers /\ timers[n].running
    BY DEF Running
  <2>2. due'[n] = IF due[n] >= -Latest THEN due[n] - 1 ELSE due[n]
    BY <1>1, <2>1
  <2>3. due[n] \in Int /\ Latest \in Nat
    BY <1>1, <2>1, ConstantsAre DEF TimersInv, MuxInv, Dues
  <2> QED  BY <2>1, <2>2, <2>3
<1>4. ASSUME NEW n \in Running PROVE InTime(n)'
  <2>1. CASE due'[n] <= 0
    BY <2>1 DEF InTime
  <2>2. CASE ~(due'[n] <= 0)
    <3>1. due'[n] = due[n] - 1 /\ due[n] \in Int /\ n \in Numbers /\ due'[n] > 0
          /\ ~(due[n] <= 0)
      BY <1>3, <2>2
    <3>2. CASE (n = Scaled => m_dt = 0) /\ due[n] <= ToCome(n)
      <4>1. ToCome(n) \in Int
        <5>1. timers[n].dt \in Int /\ timers[n].t0 \in 0..(Modulus - 1)
          BY <1>1, <3>1, ConstantsAre DEF TimersInv, MuxInv, TimerArray, Time
        <5>2. Elapsed(Count, timers[n].t0) \in Int
          BY <1>1, <5>1, TimesAre, ConstantsAre DEF TimersInv, RtcInv
        <5> QED  BY <5>1, <5>2 DEF ToCome
      <4>2. ToCome(n) > 0
        BY <3>1, <3>2, <4>1
      <4>3. ToCome(n)' = ToCome(n) - 1
        BY <1>1, <3>1, <4>2, DelayTicks
      <4>4. due'[n] <= ToCome(n)'
        BY <3>1, <3>2, <4>1, <4>3
      <4> QED  BY <1>1, <3>2, <4>4 DEF InTime
    <3>3. CASE n = Scaled /\ m_dt # 0 /\ FirstPart
      <4>1. FirstPart' \/ SecondPart'
        BY <1>1, <3>1, <3>3, FirstPartTicks
      <4> QED  BY <1>1, <3>3, <4>1 DEF InTime
    <3>4. CASE n = Scaled /\ m_dt # 0 /\ SecondPart
      <4>1. SecondPart'
        BY <1>1, <3>1, <3>4, SecondPartTicks
      <4> QED  BY <1>1, <3>4, <4>1 DEF InTime
    <3>5. InTime(n)
      BY DEF EarlyInv, AllInTime
    <3> QED  BY <3>1, <3>2, <3>3, <3>4, <3>5 DEF InTime
  <2> QED  BY <2>1, <2>2
<1>5. ASSUME NEW n \in Queued PROVE MayFire(n)'
  <2>1. MayFire(n) /\ n \in Running /\ n \in Running'
    BY <1>2 DEF EarlyInv, AllInTime, MayFire
  <2>2. CASE due'[n] <= 0
    BY <2>1, <2>2 DEF MayFire
  <2>3. CASE ~(due'[n] <= 0)
    <3>1. due'[n] = due[n] - 1 /\ due[n] \in Int /\ due'[n] > 0 /\ ~(due[n] <= 0)
      BY <1>3, <2>1, <2>3
    <3>2. n = Scaled /\ m_dt # 0 /\ SecondPart
      BY <2>1, <3>1 DEF MayFire
    <3>3. SecondPart'
      BY <1>1, <3>1, <3>2, SecondPartTicks
    <3> QED  BY <1>1, <2>1, <3>2, <3>3 DEF MayFire
  <2> QED  BY <2>2, <2>3
<1> QED  BY <1>2, <1>4, <1>5 DEF AllInTime

SameTimer(n) ==
  /\ timers'[n] = timers[n] /\ due'[n] = due[n]
  /\ n = Scaled => m_t0' = m_t0 /\ m_dt' = m_dt

(* A timer that a step leaves as it is.                                    *)
LEMMA SameInTime ==
  ASSUME EarlyInv, clock' = clock, NEW n, SameTimer(n)
  PROVE  /\ n \in Running' => InTime(n)'
         /\ n \in Queued' => MayFire(n)'
<1>1. n \in Running' => n \in Running
  BY DEF Running, SameTimer
<1>2. n \in Queued' => n \in Queued
  BY DEF Queued, SameTimer
<1>3. n \in Running => InTime(n)
  BY DEF EarlyInv, AllInTime
<1>4. n \in Queued => MayFire(n) /\ timers[n].running
  BY DEF EarlyInv, AllInTime, MayFire, Running
<1>5. n \in Running' => InTime(n)'
  BY <1>1, <1>3, LeftAlone DEF SameTimer
<1>6. n \in Queued' => MayFire(n)'
  BY <1>2, <1>4, MarkLeftAlone DEF SameTimer
<1> QED  BY <1>5, <1>6

LEMMA NobodyTouched ==
  ASSUME EarlyInv, clock' = clock, UNCHANGED <<timers, scalerVars, due>>
  PROVE  AllInTime'
<1>1. \A n : SameTimer(n)
  BY DEF SameTimer, scalerVars
<1> QED  BY <1>1, SameInTime DEF AllInTime

LEMMA OneStarted ==
  ASSUME EarlyInv, clock' = clock, UNCHANGED scalerVars, NEW n \in Clients,
         NEW t0 \in Time, NEW dt \in 0..Half, NEW d \in Dues,
         timers' = Started(timers, n, t0, dt), due' = [due EXCEPT ![n] = d],
         d <= 0 \/ d <= dt - Elapsed(Count, t0)
  PROVE  AllInTime'
<1>1. n \in Numbers /\ n # Scaled /\ timers \in TimerArray /\ due \in [Numbers -> Dues]
  BY DEF Clients, EarlyInv, TimersInv, MuxInv
<1>2. \A k \in Numbers \ {n} : SameTimer(k)
  BY <1>1 DEF SameTimer, Started, scalerVars, TimerArray
<1>3. /\ timers'[n].t0 = t0 /\ timers'[n].dt = dt /\ ~timers'[n].fire_queued
      /\ due'[n] = d
  BY <1>1 DEF Started, TimerArray
<1>4. InTime(n)'
  <2>1. ToCome(n)' = dt - Elapsed(Count, t0)
    <3>1. Count' = Count
      BY DEF Count
    <3> QED  BY <1>3, <3>1 DEF ToCome, Elapsed
  <2> QED  BY <1>1, <1>3, <2>1 DEF InTime
<1>5. n \notin Queued'
  BY <1>3 DEF Queued
<1>6. Running' \subseteq Numbers /\ Queued' \subseteq Numbers
  BY DEF Running, Queued
<1>7. \A k \in Running' : InTime(k)'
  BY <1>2, <1>4, <1>6, SameInTime
<1>8. \A k \in Queued' : MayFire(k)'
  BY <1>2, <1>5, <1>6, SameInTime
<1> QED  BY <1>7, <1>8 DEF AllInTime

(* A timer that stops or that fires.                                       *)
LEMMA OneStopped ==
  ASSUME EarlyInv, clock' = clock, UNCHANGED scalerVars, NEW n \in Numbers,
         timers' = Stopped(timers, n) \/ timers' = Signalled(timers, n),
         due' = [due EXCEPT ![n] = 0]
  PROVE  AllInTime'
<1>1. timers \in TimerArray /\ due \in [Numbers -> Dues]
  BY DEF EarlyInv, TimersInv, MuxInv
<1>2. \A k \in Numbers \ {n} : SameTimer(k)
  BY <1>1 DEF SameTimer, Stopped, Signalled, scalerVars, TimerArray
<1>3. ~timers'[n].fire_queued /\ ~timers'[n].running
  BY <1>1 DEF Stopped, Signalled, TimerArray
<1>4. n \notin Queued' /\ n \notin Running'
  BY <1>3 DEF Queued, Running
<1>5. Running' \subseteq Numbers /\ Queued' \subseteq Numbers
  BY DEF Running, Queued
<1>6. \A k \in Running' : InTime(k)'
  BY <1>2, <1>4, <1>5, SameInTime
<1>7. \A k \in Queued' : MayFire(k)'
  BY <1>2, <1>4, <1>5, SameInTime
<1> QED  BY <1>6, <1>7 DEF AllInTime

(* The scaler schedules its timer: what is due is no more than what remains*)
(* of its delay.                                                           *)
LEMMA SlowScheduled ==
  ASSUME EarlyInv, clock' = clock, getNow, NEW ts \in TimerArray,
         \A k \in Numbers \ {Scaled} : ts[k] = timers[k] /\ due'[k] = due[k],
         NEW t0 \in Time, NEW dt \in Time, scheduleTimer(ts, t0, dt),
         due' \in [Numbers -> Dues],
         \/ due'[Scaled] <= 0
         \/ /\ Elapsed(SlowTime, t0) < dt
            /\ due'[Scaled] <= ((dt - Elapsed(SlowTime, t0)) * Scale) - Part
  PROVE  AllInTime'
<1>1. TimersInv /\ Scaled \in Numbers
  BY MuxAssumption DEF EarlyInv, Scaled, Numbers
<1>2. InTime(Scaled)'
  <2>1. due'[Scaled] <= 0 => InTime(Scaled)'
    BY DEF InTime
  <2> QED  BY <1>1, <2>1, Schedules
<1>3. \E u, d : timers' = Started(ts, Scaled, u, d)
  BY DEF scheduleTimer
<1>4. ~timers'[Scaled].fire_queued /\ \A k \in Numbers \ {Scaled} : timers'[k] = ts[k]
  BY <1>1, <1>3 DEF Started, TimerArray
<1>5. \A k \in Numbers \ {Scaled} : SameTimer(k)
  BY <1>4 DEF SameTimer
<1>6. Scaled \notin Queued' /\ Running' \subseteq Numbers /\ Queued' \subseteq Numbers
  BY <1>4 DEF Queued, Running
<1>7. \A k \in Running' : InTime(k)'
  BY <1>2, <1>5, <1>6, SameInTime
<1>8. \A k \in Queued' : MayFire(k)'
  BY <1>5, <1>6, SameInTime
<1> QED  BY <1>7, <1>8 DEF AllInTime

-----------------------------------------------------------------------------
(* The actions.                                                            *)
LEMMA StartFromNowInTime ==
  ASSUME EarlyInv, NEW n \in Clients, NEW dt \in Delays, StartFromNow(n, dt)
  PROVE  AllInTime'
<1>1. /\ timers' = Started(timers, n, Count, dt) /\ due' = [due EXCEPT ![n] = dt]
      /\ clock' = clock /\ UNCHANGED scalerVars
  BY DEF StartFromNow, Reads, scalerVars
<1>2. Count \in Time /\ Elapsed(Count, Count) = 0
  BY CountIsTime DEF EarlyInv
<1>3. dt \in 0..Half /\ Half \in Nat
  BY ConstantsAre
<1>4. dt \in Dues
  BY <1>3, DueIsDelay
<1>5. dt <= dt - Elapsed(Count, Count)
  <2> HIDE DEF Half
  <2> QED  BY <1>2, <1>3
<1> QED  BY <1>1, <1>2, <1>3, <1>4, <1>5, OneStarted

LEMMA StartFromLastTriggerInTime ==
  ASSUME EarlyInv, NEW n \in Relative, NEW dt \in Delays, StartFromLastTrigger(n, dt)
  PROVE  AllInTime'
<1> DEFINE t0 == last_trigger[n]
           d == ToGo(t0, dt)
<1>1. /\ timers' = Started(timers, n, t0, dt) /\ due' = [due EXCEPT ![n] = d]
      /\ clock' = clock /\ UNCHANGED scalerVars
  BY DEF StartFromLastTrigger, rtcVars, scalerVars
<1>2. n \in Clients /\ t0 \in Time
  BY TimersAssumption DEF EarlyInv, TimersInv, MuxInv
<1>3. dt \in 0..Half /\ Half \in Nat
  BY ConstantsAre
<1>4. Elapsed(Count, t0) \in Nat
  BY <1>2, TimesAre, ConstantsAre DEF EarlyInv, TimersInv, RtcInv, Time
<1>5. d \in 0..Half /\ (d <= 0 \/ d <= dt - Elapsed(Count, t0))
  <2> HIDE DEF Half, t0
  <2> QED  BY <1>3, <1>4 DEF ToGo
<1>6. d \in Dues
  BY <1>5, DueIsDelay
<1> HIDE DEF d, t0
<1> QED  BY <1>1, <1>2, <1>3, <1>5, <1>6, OneStarted

LEMMA StartSlowInTime ==
  ASSUME EarlyInv, NEW dt \in SlowDelays, StartSlow(dt)
  PROVE  AllInTime'
<1> DEFINE d == IF dt = 0 THEN 0 ELSE (dt * Scale) - Part
<1>1. /\ getNow /\ clock' = clock /\ due' = [due EXCEPT ![Scaled] = d]
      /\ scheduleTimer(timers, SlowNow(Count, overflows'), dt)
  BY DEF StartSlow, Reads, Part
<1>2. SlowNow(Count, overflows') = SlowTime /\ TimersInv
  BY <1>1, SlowNowIs DEF EarlyInv, TimersInv
<1>3. SlowTime \in Time /\ Elapsed(SlowTime, SlowTime) = 0
  <2>1. SlowTime \in 0..(Modulus - 1)
    BY <1>2, ClockParts DEF TimersInv, RtcInv
  <2> HIDE DEF SlowTime
  <2> QED  BY <2>1, ClockElapsed DEF Time
<1>4. dt \in Time /\ dt \in Nat
  BY TimersAssumption, ConstantsAre DEF Time
<1>5. /\ timers \in TimerArray /\ due \in [Numbers -> Dues] /\ d \in Dues
      /\ Scaled \in Numbers
  BY <1>2, SlowDue, MuxAssumption DEF TimersInv, MuxInv, Scaled, Numbers, Part
<1>6. /\ due' \in [Numbers -> Dues] /\ due'[Scaled] = d
      /\ \A k \in Numbers \ {Scaled} : due'[k] = due[k]
  BY <1>1, <1>5
<1>7. \/ due'[Scaled] <= 0
      \/ /\ Elapsed(SlowTime, SlowTime) < dt
         /\ due'[Scaled] <= ((dt - Elapsed(SlowTime, SlowTime)) * Scale) - Part
  <2>1. CASE dt = 0
    BY <1>6, <2>1
  <2>2. CASE dt # 0
    <3>1. dt - 0 = dt /\ 0 < dt
      BY <1>4, <2>2
    <3>2. dt * Scale \in Int /\ Part \in Int
      BY <1>2, <1>4, ClockParts, ConstantsAre DEF TimersInv, RtcInv
    <3>3. due'[Scaled] <= (dt * Scale) - Part
      BY <1>6, <2>2, <3>2
    <3> QED  BY <1>3, <3>1, <3>3
  <2> QED  BY <2>1, <2>2
<1>8. scheduleTimer(timers, SlowTime, dt)
  BY <1>1, <1>2
<1> HIDE DEF d, SlowTime
<1> QED  BY <1>1, <1>3, <1>4, <1>5, <1>6, <1>7, <1>8, SlowScheduled

(* The loop of fireTimers: an event is signalled for a timer that is due,  *)
(* and the scaler schedules what remains of a delay.                       *)
FiresEvent(n) ==
  /\ at' = n /\ Triggered(n)
  /\ n = Scaled => m_dt = 0
  /\ timers' = Signalled(timers, n) /\ signalled' = TRUE
  /\ due' = [due EXCEPT ![n] = 0]
  /\ UNCHANGED <<rtcVars, updatePosted, m_t0, m_dt>>
Reschedules(n) ==
  /\ at' = n /\ Triggered(n)
  /\ n = Scaled /\ m_dt # 0 /\ Reads
  /\ scheduleTimer(Signalled(timers, n), m_t0, m_dt)
  /\ signalled' = FALSE /\ updatePosted' = TRUE /\ UNCHANGED due

LEMMA GoesCases ==
  ASSUME NEW from, Goes(from)
  PROVE  \/ \E n \in Queued : FiresEvent(n)
         \/ \E n \in Queued : Reschedules(n)
         \/ /\ LoopEnds(from) /\ signalled' = FALSE
            /\ UNCHANGED <<rtcVars, timers, last_trigger, scalerVars, due>>
BY DEF Goes, FiresEvent, Reschedules

LEMMA GoesInTime ==
  ASSUME EarlyInv, NEW from, Goes(from)
  PROVE  AllInTime'
<1>1. ASSUME NEW n \in Queued, FiresEvent(n) PROVE AllInTime'
  <2>1. /\ clock' = clock /\ UNCHANGED scalerVars /\ n \in Numbers
        /\ timers' = Signalled(timers, n) /\ due' = [due EXCEPT ![n] = 0]
    BY <1>1 DEF FiresEvent, rtcVars, scalerVars, Queued
  <2> QED  BY <2>1, OneStopped
<1>2. ASSUME NEW n \in Queued, Reschedules(n) PROVE AllInTime'
  <2> DEFINE ts == Signalled(timers, n)
  <2>1. /\ n = Scaled /\ m_dt # 0 /\ getNow /\ clock' = clock /\ due' = due
        /\ scheduleTimer(ts, m_t0, m_dt)
    BY <1>2 DEF Reschedules, Reads
  <2>2. /\ TimersInv /\ timers \in TimerArray /\ m_t0 \in Time /\ m_dt \in Time
        /\ due' \in [Numbers -> Dues] /\ n \in Numbers
    BY <2>1 DEF EarlyInv, TimersInv, MuxInv, Queued
  <2>3. ts \in TimerArray
    BY <2>2, TimersTyped
  <2>4. \A k \in Numbers \ {Scaled} : ts[k] = timers[k] /\ due'[k] = due[k]
    BY <2>1, <2>2 DEF Signalled, TimerArray
  <2>5. MayFire(n)
    BY DEF EarlyInv, AllInTime
  <2>6. \/ due'[Scaled] <= 0
        \/ /\ Elapsed(SlowTime, m_t0) < m_dt
           /\ due'[Scaled] <= ((m_dt - Elapsed(SlowTime, m_t0)) * Scale) - Part
    BY <2>1, <2>5 DEF MayFire, SecondPart
  <2> HIDE DEF ts
  <2> QED  BY <2>1, <2>2, <2>3, <2>4, <2>6, SlowScheduled
<1>3. CASE /\ LoopEnds(from) /\ signalled' = FALSE
           /\ UNCHANGED <<rtcVars, timers, last_trigger, scalerVars, due>>
  <2>1. clock' = clock
    BY <1>3 DEF rtcVars
  <2> QED  BY <1>3, <2>1, NobodyTouched
<1> QED  BY <1>1, <1>2, <1>3, GoesCases

(* A timer that updateFromTimer marks is over; of a slow delay, then only  *)
(* the second part is to come.                                             *)
LEMMA OverMayFire ==
  ASSUME EarlyInv, NEW n \in Running, Over(n)
  PROVE  MayFire(n)
<1>1. TimersInv /\ n \in Numbers /\ InTime(n)
  BY DEF EarlyInv, AllInTime, Running
<1>2. ToCome(n) <= 0 /\ ToCome(n) \in Int
  <2>1. timers[n].dt \in Int /\ timers[n].t0 \in 0..(Modulus - 1)
    BY <1>1, ConstantsAre DEF TimersInv, MuxInv, TimerArray, Time
  <2>2. Elapsed(Count, timers[n].t0) \in Int
    BY <1>1, <2>1, TimesAre, ConstantsAre DEF TimersInv, RtcInv
  <2> QED  BY <2>1, <2>2 DEF ToCome, Over
<1>3. due[n] \in Int
  BY <1>1, ConstantsAre DEF TimersInv, MuxInv, Dues
<1>4. n = Scaled => ~FirstPart
  <2>1. SUFFICES ASSUME n = Scaled, FirstPart PROVE FALSE
    OBVIOUS
  <2> DEFINE p == Elapsed(m_t0, SlowTime)
  <2>2. /\ p \in 0..(Modulus - 1) /\ Part \in 0..(Scale - 1)
        /\ Modulus \in Nat /\ Scale \in Nat \ {0}
    <3>1. SlowTime \in 0..(Modulus - 1) /\ Part \in 0..(Scale - 1)
      BY <1>1, ClockParts DEF TimersInv, RtcInv
    <3>2. m_t0 \in 0..(Modulus - 1)
      BY <1>1 DEF TimersInv, MuxInv, Time
    <3> HIDE DEF SlowTime
    <3> QED  BY <3>1, <3>2, ClockElapsed, ConstantsAre
  <2>3. 1 <= p /\ (p * Scale) - Part = ToCome(n)
    BY <2>1 DEF FirstPart
  <2> HIDE DEF p
  <2>4. p * Scale \in Nat /\ p * Scale >= Scale
    BY <2>2, <2>3, Products
  <2> QED  BY <1>2, <2>2, <2>3, <2>4
<1>5. due[n] <= ToCome(n) => due[n] <= 0
  BY <1>2, <1>3
<1> QED  BY <1>1, <1>4, <1>5 DEF InTime, MayFire

LEMMA updateFromTimerInTime ==
  ASSUME EarlyInv, updateFromTimer, UNCHANGED <<scalerVars, signalled, due>>
  PROVE  AllInTime'
<1>1. /\ clock' = clock /\ due' = due /\ m_t0' = m_t0 /\ m_dt' = m_dt
      /\ timers' = [n \in Numbers |->
                      [timers[n] EXCEPT !.fire_queued = @ \/ (n \in Running /\ Over(n))]]
  BY DEF updateFromTimer, scalerVars
<1>2. \A n \in Numbers :
        /\ timers'[n].t0 = timers[n].t0 /\ timers'[n].dt = timers[n].dt
        /\ timers'[n].running = timers[n].running
        /\ timers'[n].fire_queued = (timers[n].fire_queued \/ (n \in Running /\ Over(n)))
  BY <1>1 DEF EarlyInv, TimersInv, MuxInv, TimerArray
<1>3. Running' = Running /\ Running \subseteq Numbers
  BY <1>2 DEF Running
<1>4. \A n \in Queued' : n \in Queued \/ (n \in Running /\ Over(n))
  BY <1>2 DEF Queued
<1>5. \A n \in Running' : InTime(n)'
  <2> SUFFICES ASSUME NEW n \in Running PROVE InTime(n)'
    BY <1>3
  <2>1. InTime(n) /\ n \in Numbers
    BY <1>3 DEF EarlyInv, AllInTime
  <2> QED  BY <1>1, <1>2, <2>1, LeftAlone
<1>6. \A n \in Queued' : MayFire(n)'
  <2> SUFFICES ASSUME NEW n \in Queued' PROVE MayFire(n)'
    OBVIOUS
  <2>1. MayFire(n)
    BY <1>4, OverMayFire DEF EarlyInv, AllInTime
  <2>2. timers[n].running /\ timers'[n].running
    BY <1>2, <2>1 DEF MayFire, Running
  <2> QED  BY <1>1, <2>1, <2>2, MarkLeftAlone
<1> QED  BY <1>5, <1>6 DEF AllInTime

LEMMA BelowInTime ==
  ASSUME EarlyInv, Below
  PROVE  AllInTime'
<1>1. UNCHANGED <<scalerVars, signalled, due>>
  BY DEF Below
<1>2. CASE RTCInterrupt /\ UNCHANGED muxVars
  <2>1. clock' = clock /\ timers' = timers
    BY <1>2 DEF RTCInterrupt, muxVars
  <2> QED  BY <1>1, <2>1, NobodyTouched
<1>3. CASE HardwareFired
  <2>1. clock' = clock /\ timers' = timers
    BY <1>3 DEF HardwareFired, TimerEvent
  <2> QED  BY <1>1, <2>1, NobodyTouched
<1>4. CASE updateFromTimer
  BY <1>1, <1>4, updateFromTimerInTime
<1> QED  BY <1>2, <1>3, <1>4 DEF Below

LEMMA NextInTime ==
  ASSUME EarlyInv, [Next]_vars
  PROVE  EarlyInv'
<1> SUFFICES AllInTime'
  BY NextTimers DEF EarlyInv
<1>1. CASE \E n \in Clients, dt \in Delays : StartFromNow(n, dt)
  BY <1>1, StartFromNowInTime
<1>2. CASE \E n \in Relative, dt \in Delays : StartFromLastTrigger(n, dt)
  BY <1>2, StartFromLastTriggerInTime
<1>3. CASE \E n \in Numbers : Stop(n)
  <2>1. PICK n \in Numbers : Stop(n)
    BY <1>3
  <2>2. /\ clock' = clock /\ UNCHANGED scalerVars
        /\ timers' = Stopped(timers, n) /\ due' = [due EXCEPT ![n] = 0]
    BY <2>1 DEF Stop, rtcVars, scalerVars
  <2> QED  BY <2>2, OneStopped
<1>4. CASE \E dt \in SlowDelays : StartSlow(dt)
  BY <1>4, StartSlowInTime
<1>5. CASE Below
  BY <1>5, BelowInTime
<1>6. CASE FireTimers \/ HandlerReturns
  BY <1>6, GoesInTime DEF FireTimers, HandlerReturns
<1>7. CASE AskBeforeSleep
  <2>1. clock' = clock /\ UNCHANGED <<timers, scalerVars, due>>
    BY <1>7 DEF AskBeforeSleep, Reads, muxVars
  <2> QED  BY <2>1, NobodyTouched
<1>8. CASE Tick
  BY <1>8, TickInTime
<1>9. CASE UNCHANGED vars
  <2>1. clock' = clock /\ UNCHANGED <<timers, scalerVars, due>>
    BY <1>9 DEF vars, rtcVars, muxVars, scalerVars
  <2> QED  BY <2>1, NobodyTouched
<1> QED
  BY <1>1, <1>2, <1>3, <1>4, <1>5, <1>6, <1>7, <1>8, <1>9 DEF Next

THEOREM EarlyInvariant == Spec => []EarlyInv
<1>1. Init => EarlyInv
  <2> SUFFICES ASSUME Init PROVE EarlyInv
    OBVIOUS
  <2>1. Running = {} /\ Queued = {}
    BY DEF Init, MuxInit, Running, Queued
  <2> QED  BY <2>1, InitTimers DEF EarlyInv, AllInTime
<1>2. EarlyInv /\ [Next]_vars => EarlyInv'
  BY NextInTime
<1> QED  BY <1>1, <1>2, PTL DEF Spec

(* An event is signalled only for a timer that is running and due, for     *)
(* every delay and every interleaving of starts, stops, marks and signals; *)
(* a delay too long for the fast timer is not cut short by its parts.      *)
THEOREM TimersAreNeverEarly == Spec => NeverEarly
<1> DEFINE Due(n) == (signalled' /\ at' = n /\ at # n) => timers[n].running /\ due[n] <= 0
<1>1. ASSUME EarlyInv, [Next]_vars, NEW n \in Numbers PROVE Due(n)
  <2>1. SUFFICES ASSUME signalled', at' = n, at # n
                 PROVE  timers[n].running /\ due[n] <= 0
    OBVIOUS
  <2>2. n # 0 /\ signalled' # FALSE
    BY <2>1 DEF Numbers
  <2>3. FireTimers \/ HandlerReturns
    <3>1. UNCHANGED vars => at' = at
      BY DEF vars, muxVars
    <3>2. Below => at' = at
      BY DEF Below, muxVars, HardwareFired, updateFromTimer
    <3>3. AskBeforeSleep \/ Tick => at' = at
      BY DEF AskBeforeSleep, Tick, muxVars
    <3>4. ASSUME Call PROVE at' = at
      BY <3>4 DEF Call
    <3> QED
      BY <1>1, <2>1, <3>1, <3>2, <3>3, <3>4
      DEF Next, StartFromNow, StartFromLastTrigger, Stop, StartSlow
  <2>4. \E from : Goes(from)
    BY <2>3 DEF FireTimers, HandlerReturns
  <2>5. n \in Queued /\ FiresEvent(n)
    BY <2>1, <2>2, <2>4, GoesCases DEF FiresEvent, Reschedules, LoopEnds
  <2>6. MayFire(n) /\ (n = Scaled => m_dt = 0)
    BY <1>1, <2>5 DEF EarlyInv, AllInTime, FiresEvent
  <2> QED  BY <2>6 DEF MayFire, Running
<1>2. EarlyInv /\ [Next]_vars => [\A n \in Numbers : Due(n)]_vars
  BY <1>1
<1> QED  BY <1>2, EarlyInvariant, PTL DEF Spec, NeverEarly

-----------------------------------------------------------------------------
(* No timer fires too late.  When nothing runs, the register stands for a  *)
(* moment at most MinTimeout - 1 ticks after a timer is over; from then on *)
(* the lag counts.  The counter does not come around to the start of a     *)
(* timer before it has fired.                                              *)
K == MinTimeout - 1
Ahead == Elapsed(nextEvent, startTime) - Elapsed(Count, startTime)
Age(n) == Elapsed(Count, timers[n].t0)

SlowLeft ==
  /\ due[Scaled] >= ToCome(Scaled) + (m_dt * Scale)
  /\ \E s \in Int : /\ (s * Scale) - Part = ToCome(Scaled)
                    /\ (SlowTime + s) % Modulus = m_t0

Punctual(n, l) ==
  /\ due[n] >= -(K + l)
  /\ Age(n) + (Slack - l) < Modulus
  /\ due[n] >= ToCome(n) \/ ToCome(n) <= 0
  /\ n = Scaled /\ m_dt # 0 => SlowLeft
  /\ n \in Queued => ToCome(n) <= 0
AllPunctual(l) == Queued \subseteq Running /\ \A n \in Running : Punctual(n, l)

Quiet == ~updatePosted /\ ~firePosted /\ at = 0
Served(n) == running /\ ToCome(n) >= Ahead - K /\ due[n] >= Ahead - K
AllServed == \A n \in Running : Served(n)

LateInv == TimersInv /\ AllPunctual(lag) /\ (Quiet => AllServed)

LEMMA LateConstants ==
  /\ K \in Nat /\ Slack \in Nat /\ K + Slack <= Latest /\ MinTimeout = K + 1
  /\ Half + K + Slack + 1 < Modulus /\ Half < Modulus - 1 /\ Half \in Nat
  /\ MaxAge \in Nat /\ MaxAge + Slack < Modulus /\ Scale + Slack < Modulus
  /\ Modulus \in Nat \ {0} /\ Scale \in Nat \ {0} /\ Latest \in Nat
  /\ MAX_DELAY \in Nat \ {0} /\ MAX_DELAY < Modulus
<1>1. /\ Modulus \in Nat \ {0} /\ Half \in Nat /\ Scale \in Nat \ {0} /\ Slack \in Nat
      /\ Latest \in Nat /\ MinTimeout \in Nat \ {0} /\ MinTimeout + Slack < Half
  BY ConstantsAre
<1>2. /\ MaxAge \in Nat /\ MaxAge + Slack < Modulus /\ MinTimeout + Slack <= Latest + 1
  BY TimersAssumption
<1>3. MAX_DELAY \in Nat /\ Half = MAX_DELAY * Scale /\ Modulus = 2 * Half /\ MAX_DELAY < Modulus
  BY ScaleIs
<1> HIDE DEF Half, MAX_DELAY
<1>4. MAX_DELAY # 0
  BY <1>1, <1>3
<1>5. Scale <= Half
  <2>1. MAX_DELAY >= 1
    BY <1>3, <1>4
  <2>2. \A a, b \in Nat : a >= 1 => b <= a * b
    OBVIOUS
  <2> QED  BY <1>1, <1>3, <2>1, <2>2
<1> QED  BY <1>1, <1>2, <1>3, <1>4, <1>5 DEF K

LEMMA LateTypes ==
  ASSUME TimersInv, NEW n \in Numbers
  PROVE  /\ timers[n].dt \in 0..Half /\ timers[n].t0 \in 0..(Modulus - 1)
         /\ Age(n) \in 0..(Modulus - 1) /\ ToCome(n) = timers[n].dt - Age(n)
         /\ ToCome(n) \in Int /\ due[n] \in Int /\ lag \in 0..Slack
         /\ m_dt \in 0..(Modulus - 1) /\ m_t0 \in 0..(Modulus - 1)
         /\ SlowTime \in 0..(Modulus - 1) /\ Part \in 0..(Scale - 1)
<1>1. /\ timers[n].dt \in 0..Half /\ timers[n].t0 \in 0..(Modulus - 1) /\ due[n] \in Dues
      /\ m_dt \in 0..(Modulus - 1) /\ m_t0 \in 0..(Modulus - 1) /\ lag \in 0..Slack
  BY DEF TimersInv, RtcInv, MuxInv, TimerArray, Time
<1>2. Age(n) \in 0..(Modulus - 1)
  BY <1>1, TimesAre DEF Age, TimersInv, RtcInv
<1>3. ToCome(n) = timers[n].dt - Age(n)
  BY DEF ToCome, Age
<1>4. SlowTime \in 0..(Modulus - 1) /\ Part \in 0..(Scale - 1)
  BY ClockParts DEF TimersInv, RtcInv
<1>5. ToCome(n) \in Int
  <2> HIDE DEF Age, ToCome
  <2> QED  BY <1>1, <1>2, <1>3, ConstantsAre
<1>6. due[n] \in Int
  BY <1>1, ConstantsAre DEF Dues
<1> QED  BY <1>1, <1>2, <1>3, <1>4, <1>5, <1>6

LEMMA AheadIs ==
  ASSUME TimersInv
  PROVE  /\ Ahead \in Int
         /\ Elapsed(nextEvent, startTime) \in 0..(Modulus - 1)
         /\ Elapsed(Count, startTime) \in 0..(Modulus - 1)
BY TimesAre, ConstantsAre DEF TimersInv, RtcInv, RtcTypeOK, Ahead

(* When no interrupt is waiting, it is still ahead.                        *)
LEMMA IdleAhead ==
  ASSUME TimersInv, running, ~pending
  PROVE  Ahead >= 1
BY AheadIs DEF TimersInv, RtcInv, RunInv, Ahead

LEMMA IdlePunctual ==
  TimersInv /\ ~pending =>
    \A n \in Running : Served(n) => due[n] >= 1 - K /\ Age(n) + Slack + 1 < Modulus
<1> SUFFICES ASSUME TimersInv, ~pending, NEW n \in Running, Served(n)
             PROVE  due[n] >= 1 - K /\ Age(n) + Slack + 1 < Modulus
  OBVIOUS
<1>1. Ahead >= 1 /\ Ahead \in Int
  BY IdleAhead, AheadIs DEF Served
<1>2. /\ n \in Numbers /\ ToCome(n) >= Ahead - K /\ due[n] >= Ahead - K
  BY DEF Served, Running
<1>3. /\ timers[n].dt \in 0..Half /\ Age(n) \in 0..(Modulus - 1)
      /\ ToCome(n) = timers[n].dt - Age(n) /\ due[n] \in Int
  BY <1>2, LateTypes
<1>4. /\ K \in Nat /\ Slack \in Nat /\ Half + K + Slack + 1 < Modulus /\ Half \in Nat
      /\ Modulus \in Nat
  BY LateConstants
<1> HIDE DEF Half, K
<1> QED  BY <1>1, <1>2, <1>3, <1>4

LEMMA IdlePunctualNext ==
  TimersInv' /\ ~pending' =>
    \A n \in Running' : Served(n)' => due'[n] >= 1 - K /\ Age(n)' + Slack + 1 < Modulus
<1>1. (TimersInv /\ ~pending =>
        \A n \in Running : Served(n) => due[n] >= 1 - K /\ Age(n) + Slack + 1 < Modulus)'
  BY IdlePunctual, PTL
<1> QED  BY <1>1

(* What a step leaves alone stays punctual.                                *)
LEMMA SamePunctual ==
  ASSUME NEW l, AllPunctual(l), NEW n \in Running, clock' = clock, due'[n] = due[n],
         timers'[n].t0 = timers[n].t0, timers'[n].dt = timers[n].dt,
         n \in Queued' => n \in Queued \/ ToCome(n) <= 0,
         n = Scaled => m_t0' = m_t0 /\ m_dt' = m_dt
  PROVE  Punctual(n, l)'
<1>1. Count' = Count /\ SlowTime' = SlowTime /\ Part' = Part
  BY DEF Count, SlowTime, Part
<1>2. Age(n)' = Age(n) /\ ToCome(n)' = ToCome(n)
  BY <1>1 DEF Age, ToCome, Elapsed
<1>3. n = Scaled => SlowLeft' = SlowLeft
  BY <1>1, <1>2 DEF SlowLeft
<1>4. Punctual(n, l)
  BY DEF AllPunctual
<1> QED  BY <1>2, <1>3, <1>4 DEF Punctual

LEMMA RestPunctual ==
  ASSUME NEW l, AllPunctual(l), clock' = clock, NEW n \in Numbers, SameTimer(n)
  PROVE  /\ n \in Running' => Punctual(n, l)'
         /\ n \in Queued' => n \in Running'
<1>1. n \in Running' => n \in Running
  BY DEF Running, SameTimer
<1>2. n \in Queued' => n \in Queued
  BY DEF Queued, SameTimer
<1>3. n \in Running' => Punctual(n, l)'
  BY <1>1, <1>2, SamePunctual DEF SameTimer
<1>4. n \in Queued' => n \in Running'
  BY <1>2 DEF AllPunctual, Running, SameTimer
<1> QED  BY <1>3, <1>4

LEMMA NobodyLate ==
  ASSUME NEW l, AllPunctual(l), clock' = clock, UNCHANGED <<timers, scalerVars, due>>
  PROVE  AllPunctual(l)'
<1>1. \A n \in Numbers : SameTimer(n)
  BY DEF SameTimer, scalerVars
<1>2. Running' \subseteq Numbers /\ Queued' \subseteq Numbers
  BY DEF Running, Queued
<1> QED  BY <1>1, <1>2, RestPunctual DEF AllPunctual

LEMMA StartedPunctual ==
  ASSUME TimersInv, NEW l \in 0..Slack, AllPunctual(l), clock' = clock,
         UNCHANGED scalerVars, NEW n \in Clients,
         NEW t0 \in Time, NEW dt \in 0..Half, NEW d \in Nat,
         timers' = Started(timers, n, t0, dt), due' = [due EXCEPT ![n] = d],
         Elapsed(Count, t0) <= MaxAge,
         d >= dt - Elapsed(Count, t0)
  PROVE  AllPunctual(l)'
<1>1. n \in Numbers /\ n # Scaled /\ timers \in TimerArray /\ due \in [Numbers -> Dues]
  BY DEF Clients, TimersInv, MuxInv
<1>2. \A k \in Numbers \ {n} : SameTimer(k)
  BY <1>1 DEF SameTimer, Started, scalerVars, TimerArray
<1>3. /\ timers'[n].t0 = t0 /\ timers'[n].dt = dt /\ ~timers'[n].fire_queued
      /\ timers'[n].running /\ due'[n] = d
  BY <1>1 DEF Started, TimerArray
<1>4. Punctual(n, l)'
  <2>1. ToCome(n)' = dt - Elapsed(Count, t0) /\ Age(n)' = Elapsed(Count, t0)
    <3>1. Count' = Count
      BY DEF Count
    <3> QED  BY <1>3, <3>1 DEF ToCome, Age, Elapsed
  <2>2. Elapsed(Count, t0) \in 0..(Modulus - 1)
    BY TimesAre DEF TimersInv, RtcInv, Time
  <2>3. Elapsed(Count, t0) + (Slack - l) < Modulus
    <3> DEFINE a == Elapsed(Count, t0)
    <3> HIDE DEF a
    <3> QED  BY <2>2, LateConstants DEF a
  <2>4. d >= -(K + l)
    BY LateConstants
  <2>5. n \notin Queued'
    BY <1>3 DEF Queued
  <2> QED  BY <1>1, <1>3, <2>1, <2>3, <2>4, <2>5 DEF Punctual
<1>5. n \notin Queued' /\ n \in Running'
  BY <1>1, <1>3 DEF Queued, Running
<1>6. Running' \subseteq Numbers /\ Queued' \subseteq Numbers
  BY DEF Running, Queued
<1> QED  BY <1>2, <1>4, <1>5, <1>6, RestPunctual DEF AllPunctual

LEMMA StoppedPunctual ==
  ASSUME TimersInv, NEW l, AllPunctual(l), clock' = clock, UNCHANGED scalerVars,
         NEW n \in Numbers,
         timers' = Stopped(timers, n) \/ timers' = Signalled(timers, n),
         due' = [due EXCEPT ![n] = 0]
  PROVE  AllPunctual(l)'
<1>1. timers \in TimerArray /\ due \in [Numbers -> Dues]
  BY DEF TimersInv, MuxInv
<1>2. \A k \in Numbers \ {n} : SameTimer(k)
  BY <1>1 DEF SameTimer, Stopped, Signalled, scalerVars, TimerArray
<1>3. n \notin Queued' /\ n \notin Running'
  BY <1>1 DEF Stopped, Signalled, TimerArray, Queued, Running
<1>4. Running' \subseteq Numbers /\ Queued' \subseteq Numbers
  BY DEF Running, Queued
<1> QED  BY <1>2, <1>3, <1>4, RestPunctual DEF AllPunctual

(* The scaler schedules its timer.                                         *)
LEMMA ScheduledPunctual ==
  ASSUME TimersInv, NEW l \in 0..Slack, AllPunctual(l), clock' = clock, getNow,
         NEW ts \in TimerArray,
         \A k \in Numbers \ {Scaled} : ts[k] = timers[k] /\ due'[k] = due[k],
         NEW t0 \in Time, NEW dt \in Time, scheduleTimer(ts, t0, dt),
         due'[Scaled] >= -(K + l), due'[Scaled] \in Int,
         Elapsed(SlowTime, t0) < dt =>
           due'[Scaled] >= ((dt - Elapsed(SlowTime, t0)) * Scale) - Part
  PROVE  AllPunctual(l)'
<1> DEFINE now == SlowTime
           r == IF Elapsed(now, t0) >= dt THEN 0 ELSE dt - Elapsed(now, t0)
           d == IF r > MAX_DELAY THEN MAX_DELAY ELSE r
           x == due'[Scaled]
<1>1. /\ Modulus \in Nat \ {0} /\ Scale \in Nat \ {0} /\ MAX_DELAY \in Nat \ {0}
      /\ MAX_DELAY < Modulus /\ Slack \in Nat /\ Scale + Slack < Modulus
  BY LateConstants
<1>2. /\ now \in 0..(Modulus - 1) /\ Part \in 0..(Scale - 1)
      /\ Elapsed(Count, (now * Scale) % Modulus) = Part
  BY ClockParts DEF TimersInv, RtcInv
<1>3. SlowNow(Count, overflows') = now
  BY SlowNowIs DEF TimersInv
<1>4. Elapsed(now, t0) \in 0..(Modulus - 1) /\ dt \in 0..(Modulus - 1)
  <2>1. t0 \in 0..(Modulus - 1) /\ dt \in 0..(Modulus - 1)
    BY DEF Time
  <2> HIDE DEF now
  <2> QED  BY <1>2, <2>1, ClockElapsed
<1>5. r \in 0..(Modulus - 1) /\ SlowRemaining(t0, dt, now) = r
  <2>1. r \in 0..(Modulus - 1)
    <3> HIDE DEF now
    <3> QED  BY <1>1, <1>4
  <2> QED  BY <1>2, <2>1, SlowRemainingIs DEF Time
<1>6. /\ m_t0' = (IF r > MAX_DELAY THEN now + MAX_DELAY ELSE t0 + dt) % Modulus
      /\ m_dt' = r - d
      /\ timers' = Started(ts, Scaled, (now * Scale) % Modulus, d * Scale)
  BY <1>3, <1>5 DEF scheduleTimer
<1>7. r > 0 => x >= (r * Scale) - Part
  <2>1. r > 0 => Elapsed(now, t0) < dt /\ r = dt - Elapsed(now, t0)
    <3> HIDE DEF now
    <3> QED  BY <1>4
  <2> QED  BY <2>1
<1>8. /\ SlowTime' = now /\ Part' = Part /\ Count' = Count
  BY DEF SlowTime, Part, Count
<1>9. /\ timers'[Scaled].t0 = (now * Scale) % Modulus /\ timers'[Scaled].dt = d * Scale
      /\ ~timers'[Scaled].fire_queued /\ timers'[Scaled].running /\ Scaled \in Numbers
      /\ \A k \in Numbers \ {Scaled} : timers'[k] = ts[k]
  <2>1. Scaled \in Numbers
    BY MuxAssumption DEF Scaled, Numbers
  <2> QED  BY <1>6, <2>1 DEF Started, TimerArray
<1>10. ToCome(Scaled)' = (d * Scale) - Part /\ Age(Scaled)' = Part
  <2>1. /\ ToCome(Scaled)' = timers'[Scaled].dt - Elapsed(Count', timers'[Scaled].t0)
        /\ Age(Scaled)' = Elapsed(Count', timers'[Scaled].t0)
    BY DEF ToCome, Age, Elapsed
  <2> QED  BY <1>2, <1>8, <1>9, <2>1
<1>11. Scaled \notin Queued' /\ Scaled \in Running'
  BY <1>9 DEF Queued, Running
<1>12. m_dt' # 0 => SlowLeft'
  <2> HIDE DEF now, r, d, x, Part, MAX_DELAY
  <2>1. SUFFICES ASSUME m_dt' # 0 PROVE SlowLeft'
    OBVIOUS
  <2>2. r > MAX_DELAY /\ d = MAX_DELAY
    BY <1>1, <1>5, <1>6, <2>1 DEF d
  <2>3. m_t0' = (now + MAX_DELAY) % Modulus /\ m_dt' = r - MAX_DELAY
    BY <1>6, <2>2
  <2>4. r * Scale = (MAX_DELAY * Scale) + (m_dt' * Scale) /\ r > 0
    <3>1. m_dt' \in Nat /\ r = MAX_DELAY + m_dt'
      BY <1>1, <1>5, <2>2, <2>3
    <3>2. \A a, b, s \in Nat : (a + b) * s = (a * s) + (b * s)
      OBVIOUS
    <3>3. (MAX_DELAY + m_dt') * Scale = (MAX_DELAY * Scale) + (m_dt' * Scale)
      BY <1>1, <3>1, <3>2
    <3>4. r > 0
      BY <1>1, <1>5, <2>2
    <3> QED  BY <3>1, <3>3, <3>4
  <2>5. x >= ToCome(Scaled)' + (m_dt' * Scale)
    <3>1. MAX_DELAY * Scale \in Int /\ m_dt' * Scale \in Int /\ x \in Int
      BY <1>1, <1>5, <2>3 DEF x
    <3> DEFINE u == MAX_DELAY * Scale
               v == m_dt' * Scale
    <3>2. u \in Int /\ v \in Int /\ x >= (u + v) - Part /\ ToCome(Scaled)' = u - Part
      BY <1>7, <1>10, <2>2, <2>4, <3>1
    <3> HIDE DEF u, v
    <3>3. x >= ToCome(Scaled)' + v
      BY <1>1, <1>2, <3>1, <3>2
    <3> QED  BY <3>3 DEF v
  <2>6. /\ MAX_DELAY \in Int /\ (MAX_DELAY * Scale) - Part' = ToCome(Scaled)'
        /\ (SlowTime' + MAX_DELAY) % Modulus = m_t0'
    BY <1>1, <1>8, <1>10, <2>2, <2>3
  <2>7. \E s \in Int : /\ (s * Scale) - Part' = ToCome(Scaled)'
                       /\ (SlowTime' + s) % Modulus = m_t0'
    BY <2>6
  <2> QED  BY <2>5, <2>7 DEF SlowLeft, x
<1>13. x >= ToCome(Scaled)' \/ ToCome(Scaled)' <= 0
  <2> HIDE DEF now, r, d, x, Part, MAX_DELAY
  <2>1. CASE r = 0
    <3>1. d = 0 /\ 0 * Scale = 0
      BY <1>1, <2>1 DEF d
    <3>2. ToCome(Scaled)' = -Part
      BY <1>2, <1>10, <3>1
    <3> QED  BY <1>1, <1>2, <3>2
  <2>2. CASE r > 0
    <3>1. d <= r /\ d \in Nat
      BY <1>1, <1>5 DEF d
    <3>2. d * Scale <= r * Scale /\ d * Scale \in Nat /\ r * Scale \in Nat
      <4>1. \A a, b, s \in Nat : a <= b => a * s <= b * s /\ a * s \in Nat /\ b * s \in Nat
        OBVIOUS
      <4> QED  BY <1>1, <1>5, <3>1, <4>1
    <3> DEFINE u == d * Scale
               v == r * Scale
    <3>3. u <= v /\ u \in Nat /\ v \in Nat /\ x >= v - Part /\ ToCome(Scaled)' = u - Part
          /\ x \in Int
      BY <1>7, <1>10, <2>2, <3>2 DEF x
    <3> HIDE DEF u, v
    <3> QED  BY <1>1, <1>2, <3>3
  <2> QED  BY <1>5, <2>1, <2>2
<1>14. Punctual(Scaled, l)'
  <2>1. Age(Scaled)' + (Slack - l) < Modulus
    <3> HIDE DEF Part
    <3> QED  BY <1>1, <1>2, <1>10
  <2> QED  BY <1>11, <1>12, <1>13, <2>1 DEF Punctual
<1>15. \A k \in Numbers \ {Scaled} : SameTimer(k)
  BY <1>9 DEF SameTimer
<1>16. Running' \subseteq Numbers /\ Queued' \subseteq Numbers
  BY DEF Running, Queued
<1> QED  BY <1>11, <1>14, <1>15, <1>16, RestPunctual DEF AllPunctual

(* The actions other than the tick: with the lag as it was, nobody is late.*)
LEMMA StartFromNowPunctual ==
  ASSUME TimersInv, NEW l \in 0..Slack, AllPunctual(l),
         NEW n \in Clients, NEW dt \in Delays, StartFromNow(n, dt)
  PROVE  AllPunctual(l)'
<1>1. /\ timers' = Started(timers, n, Count, dt) /\ due' = [due EXCEPT ![n] = dt]
      /\ clock' = clock /\ UNCHANGED scalerVars
  BY DEF StartFromNow, Reads, scalerVars
<1>2. Count \in Time /\ Elapsed(Count, Count) = 0
  BY CountIsTime
<1>3. dt \in 0..Half /\ Half \in Nat /\ MaxAge \in Nat
  BY ConstantsAre, LateConstants
<1>4. dt \in Nat /\ dt >= dt - Elapsed(Count, Count) /\ Elapsed(Count, Count) <= MaxAge
  <2> HIDE DEF Half, Count
  <2> QED  BY <1>2, <1>3
<1> HIDE DEF Count
<1> QED  BY <1>1, <1>2, <1>3, <1>4, StartedPunctual

LEMMA StartFromLastTriggerPunctual ==
  ASSUME TimersInv, NEW l \in 0..Slack, AllPunctual(l),
         NEW n \in Relative, NEW dt \in Delays, StartFromLastTrigger(n, dt)
  PROVE  AllPunctual(l)'
<1> DEFINE t0 == last_trigger[n]
           d == ToGo(t0, dt)
<1>1. /\ timers' = Started(timers, n, t0, dt) /\ due' = [due EXCEPT ![n] = d]
      /\ clock' = clock /\ UNCHANGED scalerVars /\ Elapsed(Count, t0) <= MaxAge
  BY DEF StartFromLastTrigger, rtcVars, scalerVars
<1>2. n \in Clients /\ t0 \in Time
  BY TimersAssumption DEF TimersInv, MuxInv
<1>3. dt \in 0..Half /\ Half \in Nat
  BY ConstantsAre
<1>4. Elapsed(Count, t0) \in Nat
  BY <1>2, TimesAre, ConstantsAre DEF TimersInv, RtcInv, Time
<1>5. d \in Nat /\ d >= dt - Elapsed(Count, t0)
  <2> HIDE DEF Half, t0
  <2> QED  BY <1>3, <1>4 DEF ToGo
<1> HIDE DEF d, t0
<1> QED  BY <1>1, <1>2, <1>3, <1>5, StartedPunctual

LEMMA StartSlowPunctual ==
  ASSUME TimersInv, NEW l \in 0..Slack, AllPunctual(l), NEW dt \in SlowDelays, StartSlow(dt)
  PROVE  AllPunctual(l)'
<1> DEFINE d == IF dt = 0 THEN 0 ELSE (dt * Scale) - Part
<1>1. /\ getNow /\ clock' = clock /\ due' = [due EXCEPT ![Scaled] = d]
      /\ scheduleTimer(timers, SlowNow(Count, overflows'), dt)
  BY DEF StartSlow, Reads, Part
<1>2. SlowNow(Count, overflows') = SlowTime
  BY <1>1, SlowNowIs DEF TimersInv
<1>3. SlowTime \in Time /\ Elapsed(SlowTime, SlowTime) = 0
  <2>1. SlowTime \in 0..(Modulus - 1)
    BY ClockParts DEF TimersInv, RtcInv
  <2> HIDE DEF SlowTime
  <2> QED  BY <2>1, ClockElapsed DEF Time
<1>4. dt \in Time /\ dt \in Nat
  BY TimersAssumption, ConstantsAre DEF Time
<1>5. /\ timers \in TimerArray /\ due \in [Numbers -> Dues] /\ Scaled \in Numbers
  BY MuxAssumption DEF TimersInv, MuxInv, Scaled, Numbers
<1>6. due'[Scaled] = d /\ \A k \in Numbers \ {Scaled} : due'[k] = due[k]
  BY <1>1, <1>5
<1>7. d \in Nat
  <2>1. dt * Scale \in Nat /\ (dt # 0 => dt * Scale >= Scale) /\ Part \in 0..(Scale - 1)
        /\ Scale \in Nat \ {0}
    <3>1. Part \in 0..(Scale - 1) /\ Scale \in Nat \ {0}
      BY ClockParts, ConstantsAre DEF TimersInv, RtcInv
    <3> QED  BY <1>4, <3>1, Products
  <2> HIDE DEF Part
  <2> QED  BY <1>4, <2>1
<1>8. Elapsed(SlowTime, SlowTime) < dt =>
        due'[Scaled] >= ((dt - Elapsed(SlowTime, SlowTime)) * Scale) - Part
  <2>1. SUFFICES ASSUME 0 < dt
                 PROVE  due'[Scaled] >= ((dt - 0) * Scale) - Part
    BY <1>3
  <2>2. d = (dt * Scale) - Part /\ dt - 0 = dt
    BY <1>4, <2>1
  <2>3. d >= (dt * Scale) - Part
    <3> HIDE DEF d
    <3> QED  BY <1>7, <2>2
  <2> HIDE DEF d
  <2> QED  BY <1>6, <2>2, <2>3
<1>9. scheduleTimer(timers, SlowTime, dt)
  BY <1>1, <1>2
<1>10. due'[Scaled] >= -(K + l) /\ due'[Scaled] \in Int
  <2> HIDE DEF d
  <2> QED  BY <1>6, <1>7, LateConstants
<1> HIDE DEF d, SlowTime
<1> QED  BY <1>1, <1>3, <1>4, <1>5, <1>6, <1>8, <1>9, <1>10, ScheduledPunctual

(* The time that is over when the scaler gets to what remains.             *)
LEMMA SlowLeftOver ==
  ASSUME TimersInv, SlowLeft, ToCome(Scaled) <= 0, Elapsed(SlowTime, m_t0) < m_dt
  PROVE  due[Scaled] >= ((m_dt - Elapsed(SlowTime, m_t0)) * Scale) - Part
<1> DEFINE c == ToCome(Scaled)
           r == Part
           now == SlowTime
<1>1. /\ Modulus \in Nat \ {0} /\ Scale \in Nat \ {0} /\ now \in 0..(Modulus - 1)
      /\ r \in 0..(Scale - 1) /\ m_dt \in 0..(Modulus - 1) /\ due[Scaled] \in Int
      /\ c \in Int /\ c > -Modulus /\ c <= 0
  <2>1. Scaled \in Numbers
    BY MuxAssumption DEF Scaled, Numbers
  <2>2. /\ timers[Scaled].dt \in 0..Half /\ Half \in Nat /\ Age(Scaled) \in 0..(Modulus - 1)
        /\ c = timers[Scaled].dt - Age(Scaled) /\ Modulus \in Nat \ {0} /\ c \in Int
    BY <2>1, LateTypes, ConstantsAre
  <2>3. c > -Modulus
    <3> HIDE DEF c, Half
    <3> QED  BY <2>2
  <2> QED  BY <2>1, <2>2, <2>3, LateTypes, ConstantsAre
<1>2. PICK s \in Int : (s * Scale) - r = c /\ (now + s) % Modulus = m_t0
  BY DEF SlowLeft
<1>3. due[Scaled] >= c + (m_dt * Scale)
  BY DEF SlowLeft
<1> HIDE DEF c, r, now
<1>4. s <= 0 /\ s > -Modulus
  <2>1. \A x, y \in Int, k \in Nat \ {0} : x >= y => x * k >= y * k
    OBVIOUS
  <2>2. s * Scale \in Int /\ s * Scale < Scale /\ s * Scale > -Modulus
    BY <1>1, <1>2
  <2>3. s <= 0
    <3>1. s >= 1 => s * Scale >= 1 * Scale
      BY <1>1, <2>1
    <3> QED  BY <1>1, <1>2, <2>2, <3>1
  <2>4. s > -Modulus
    <3>1. s <= -Modulus => s * Scale <= -Modulus
      <4>1. \A x, m \in Nat, k \in Nat \ {0} : x >= m => x * k >= m
        OBVIOUS
      <4>2. -s \in Nat /\ (-s) * Scale = -(s * Scale)
        BY <1>1, <1>2, <2>3
      <4>3. -s >= Modulus => (-s) * Scale >= Modulus
        BY <1>1, <4>1, <4>2
      <4> QED  BY <1>1, <1>2, <2>2, <4>2, <4>3
    <3> QED  BY <1>1, <1>2, <2>2, <3>1
  <2> QED  BY <2>3, <2>4
<1>5. Elapsed(now, m_t0) = -s
  <2> DEFINE k == -s
  <2>1. k \in 0..(Modulus - 1) /\ now + s = now - k
    BY <1>1, <1>2, <1>4
  <2> HIDE DEF k
  <2>2. (now - k) % Modulus = IF now >= k THEN now - k ELSE now - k + Modulus
    BY <1>1, <2>1, Differences
  <2>3. m_t0 = IF now >= k THEN now - k ELSE now - k + Modulus
    BY <1>2, <2>1, <2>2
  <2>4. m_t0 \in 0..(Modulus - 1)
    BY DEF TimersInv, MuxInv, Time
  <2>5. Elapsed(now, m_t0) = IF now >= m_t0 THEN now - m_t0 ELSE now - m_t0 + Modulus
    BY <1>1, <2>4, ClockElapsed
  <2>6. Elapsed(now, m_t0) = k
    BY <1>1, <2>1, <2>3, <2>5
  <2> QED  BY <2>6 DEF k
<1>6. (m_dt - (-s)) * Scale = (m_dt * Scale) + (s * Scale)
  <2>1. \A x, y, k \in Int : (x - (-y)) * k = (x * k) + (y * k)
    OBVIOUS
  <2> QED  BY <1>1, <1>2, <2>1
<1>7. due[Scaled] >= ((m_dt - (-s)) * Scale) - r
  <2> DEFINE u == m_dt * Scale
             v == s * Scale
  <2>1. u \in Int /\ v \in Int /\ v - r = c /\ due[Scaled] >= c + u
    BY <1>1, <1>2, <1>3
  <2> HIDE DEF u, v
  <2>2. due[Scaled] >= (u + v) - r
    BY <1>1, <2>1
  <2> QED  BY <1>6, <2>2 DEF u, v
<1> QED  BY <1>5, <1>7 DEF now, r

LEMMA GoesPunctual ==
  ASSUME TimersInv, NEW l \in 0..Slack, AllPunctual(l), NEW from, Goes(from)
  PROVE  AllPunctual(l)'
<1>1. ASSUME NEW n \in Queued, FiresEvent(n) PROVE AllPunctual(l)'
  <2>1. /\ clock' = clock /\ UNCHANGED scalerVars /\ n \in Numbers
        /\ timers' = Signalled(timers, n) /\ due' = [due EXCEPT ![n] = 0]
    BY <1>1 DEF FiresEvent, rtcVars, scalerVars, Queued
  <2> QED  BY <2>1, StoppedPunctual
<1>2. ASSUME NEW n \in Queued, Reschedules(n) PROVE AllPunctual(l)'
  <2> DEFINE ts == Signalled(timers, n)
  <2>1. /\ n = Scaled /\ m_dt # 0 /\ getNow /\ clock' = clock /\ due' = due
        /\ scheduleTimer(ts, m_t0, m_dt)
    BY <1>2 DEF Reschedules, Reads
  <2>2. timers \in TimerArray /\ m_t0 \in Time /\ m_dt \in Time /\ n \in Numbers
    BY <2>1 DEF TimersInv, MuxInv, Queued
  <2>3. ts \in TimerArray
    BY <2>2, TimersTyped
  <2>4. \A k \in Numbers \ {Scaled} : ts[k] = timers[k] /\ due'[k] = due[k]
    BY <2>1, <2>2 DEF Signalled, TimerArray
  <2>5. Punctual(Scaled, l)
    BY <2>1 DEF AllPunctual
  <2>6. SlowLeft /\ ToCome(Scaled) <= 0 /\ due'[Scaled] >= -(K + l)
    BY <2>1, <2>5 DEF Punctual
  <2>7. due'[Scaled] \in Int
    BY <2>1, <2>2, LateTypes
  <2>8. Elapsed(SlowTime, m_t0) < m_dt =>
          due'[Scaled] >= ((m_dt - Elapsed(SlowTime, m_t0)) * Scale) - Part
    BY <2>1, <2>6, SlowLeftOver
  <2> HIDE DEF ts
  <2> QED  BY <2>1, <2>2, <2>3, <2>4, <2>6, <2>7, <2>8, ScheduledPunctual
<1>3. CASE /\ LoopEnds(from) /\ signalled' = FALSE
           /\ UNCHANGED <<rtcVars, timers, last_trigger, scalerVars, due>>
  <2>1. clock' = clock
    BY <1>3 DEF rtcVars
  <2> QED  BY <1>3, <2>1, NobodyLate
<1> QED  BY <1>1, <1>2, <1>3, GoesCases

(* updateFromTimer marks those that are over, or arms the register for the *)
(* first of the others.                                                    *)
LEMMA UpdatedTimers ==
  ASSUME TimersInv, updateFromTimer
  PROVE  /\ clock' = clock /\ Running' = Running /\ Running \subseteq Numbers
         /\ \A n \in Numbers : /\ timers'[n].t0 = timers[n].t0
                               /\ timers'[n].dt = timers[n].dt
         /\ Queued' \subseteq Queued \cup {n \in Running : Over(n)}
<1>1. /\ clock' = clock
      /\ timers' = [n \in Numbers |->
                      [timers[n] EXCEPT !.fire_queued = @ \/ (n \in Running /\ Over(n))]]
  BY DEF updateFromTimer
<1>2. \A n \in Numbers :
        /\ timers'[n].t0 = timers[n].t0 /\ timers'[n].dt = timers[n].dt
        /\ timers'[n].running = timers[n].running
        /\ timers'[n].fire_queued = (timers[n].fire_queued \/ (n \in Running /\ Over(n)))
  BY <1>1 DEF TimersInv, MuxInv, TimerArray
<1>3. Running' = Running /\ Running \subseteq Numbers
  BY <1>2 DEF Running
<1>4. Queued' \subseteq Queued \cup {n \in Running : Over(n)}
  BY <1>2 DEF Queued
<1> QED  BY <1>1, <1>2, <1>3, <1>4

LEMMA OverIs ==
  ASSUME TimersInv, NEW n \in Numbers
  PROVE  /\ Over(n) <=> ToCome(n) <= 0
         /\ ~Over(n) => Remaining(n) = ToCome(n)
<1>1. /\ timers[n].dt \in 0..Half /\ Age(n) \in 0..(Modulus - 1) /\ Modulus \in Nat
      /\ ToCome(n) = timers[n].dt - Age(n) /\ Half \in Nat
  BY LateTypes, ConstantsAre
<1>2. Over(n) <=> timers[n].dt <= Age(n)
  BY DEF Over, Age
<1>3. ~Over(n) => Remaining(n) = timers[n].dt - Age(n)
  BY DEF Remaining, Age
<1> HIDE DEF Half, Over, ToCome
<1> QED  BY <1>1, <1>2, <1>3

LEMMA UpdatePunctual ==
  ASSUME TimersInv, NEW l, AllPunctual(l), updateFromTimer,
         UNCHANGED <<scalerVars, signalled, due>>
  PROVE  AllPunctual(l)'
<1>1. /\ clock' = clock /\ Running' = Running /\ Running \subseteq Numbers
      /\ \A n \in Numbers : timers'[n].t0 = timers[n].t0 /\ timers'[n].dt = timers[n].dt
      /\ Queued' \subseteq Queued \cup {n \in Running : Over(n)}
  BY UpdatedTimers
<1>2. due' = due /\ m_t0' = m_t0 /\ m_dt' = m_dt
  BY DEF scalerVars
<1>3. \A n \in Running : n \in Queued' => n \in Queued \/ ToCome(n) <= 0
  BY <1>1, OverIs
<1>4. \A n \in Running' : Punctual(n, l)'
  BY <1>1, <1>2, <1>3, SamePunctual
<1>5. Queued' \subseteq Running'
  BY <1>1 DEF AllPunctual
<1> QED  BY <1>4, <1>5 DEF AllPunctual

LEMMA UpdateServed ==
  ASSUME TimersInv, NEW l, AllPunctual(l), updateFromTimer,
         UNCHANGED <<scalerVars, signalled, due>>
  PROVE  Quiet' => AllServed'
<1> SUFFICES ASSUME Quiet', NEW n \in Running' PROVE Served(n)'
  BY DEF AllServed
<1>1. /\ clock' = clock /\ Running' = Running /\ Running \subseteq Numbers
      /\ \A k \in Numbers : timers'[k].t0 = timers[k].t0 /\ timers'[k].dt = timers[k].dt
  BY UpdatedTimers
<1>2. n \in Running /\ n \in Numbers
  BY <1>1
<1>3. /\ K \in Nat /\ MinTimeout = K + 1 /\ Half \in Nat /\ Half < Modulus - 1
      /\ Modulus \in Nat
  BY LateConstants
<1>4. ~firePosted'
  BY DEF Quiet
<1>5. \A k \in Running : ~Over(k)
  <2>1. \A k \in Running : Over(k) => Remaining(k) < Modulus - 1
    <3>1. 0 < Modulus - 1
      <4> HIDE DEF Half
      <4> QED  BY <1>3
    <3> QED  BY <3>1 DEF Remaining
  <2> HIDE DEF Running, Over, Remaining
  <2> QED  BY <1>4, <2>1 DEF updateFromTimer
<1>6. ASSUME NEW k \in Running
      PROVE  /\ Remaining(k) = ToCome(k) /\ ToCome(k) \in 1..Half
             /\ due[k] >= ToCome(k) /\ Remaining(k) < Modulus - 1
  <2>1. k \in Numbers /\ Remaining(k) = ToCome(k) /\ ~(ToCome(k) <= 0)
    BY <1>1, <1>5, OverIs
  <2>2. /\ timers[k].dt \in 0..Half /\ Age(k) \in 0..(Modulus - 1)
        /\ ToCome(k) = timers[k].dt - Age(k)
    BY <2>1, LateTypes
  <2>3. due[k] >= ToCome(k)
    BY <2>1 DEF AllPunctual, Punctual
  <2> HIDE DEF Half, ToCome
  <2> QED  BY <1>3, <2>1, <2>2, <2>3
<1>7. PICK m \in Running : /\ \A k \in Running : Remaining(m) <= Remaining(k)
                           /\ StartRtc(Count, Remaining(m))
  <2>1. \A k \in Running : Remaining(k) < Modulus - 1
    BY <1>6
  <2> HIDE DEF Running, Remaining
  <2> QED  BY <1>2, <1>5, <2>1 DEF updateFromTimer
<1>8. Remaining(m) \in 1..Half /\ Remaining(m) <= ToCome(n) /\ ToCome(n) \in 1..Half
      /\ due[n] >= ToCome(n) /\ due[n] \in Int
  BY <1>2, <1>6, <1>7, LateTypes
<1>9. /\ running' /\ startTime' = Count /\ arm(Count, Remaining(m))
  BY <1>7 DEF StartRtc
<1>10. Count \in 0..(Modulus - 1) /\ Elapsed(Count, Count) = 0 /\ Count' = Count
  <2>1. Count \in 0..(Modulus - 1) /\ Elapsed(Count, Count) = 0
    BY TimesAre DEF TimersInv, RtcInv
  <2> QED  BY <1>1, <2>1 DEF Count
<1>11. Elapsed(nextEvent', Count)
         = IF Remaining(m) < MinTimeout THEN MinTimeout ELSE Remaining(m)
  <2>1. Remaining(m) \in 0..Half
    <3> HIDE DEF Half
    <3> QED  BY <1>3, <1>8
  <2> QED  BY <1>9, <1>10, <2>1, Arms
<1>12. Ahead' = Elapsed(nextEvent', Count) - 0
  <2>1. Ahead' = Elapsed(nextEvent', startTime') - Elapsed(Count', startTime')
    BY DEF Ahead, Elapsed
  <2> QED  BY <1>9, <1>10, <2>1
<1>13. ToCome(n)' = ToCome(n) /\ due'[n] = due[n]
  <2>1. ToCome(n)' = timers'[n].dt - Elapsed(Count', timers'[n].t0)
    BY DEF ToCome, Elapsed
  <2>2. ToCome(n) = timers[n].dt - Elapsed(Count, timers[n].t0)
    BY DEF ToCome
  <2> QED  BY <1>1, <1>2, <1>10, <2>1, <2>2
<1>14. ToCome(n) >= Ahead' - K /\ due[n] >= Ahead' - K
  <2> DEFINE r == Remaining(m)
             c == ToCome(n)
             e == Elapsed(nextEvent', Count)
  <2>1. /\ r \in Int /\ r >= 1 /\ r <= c /\ c \in Int /\ due[n] >= c /\ due[n] \in Int
        /\ e = IF r < K + 1 THEN K + 1 ELSE r
    <3> HIDE DEF Half
    <3> QED  BY <1>3, <1>8, <1>11
  <2>2. Ahead' = e - 0
    BY <1>12
  <2> HIDE DEF r, c, e, K
  <2>3. c >= e - 0 - K /\ due[n] >= e - 0 - K
    BY <1>3, <2>1
  <2> QED  BY <2>2, <2>3 DEF c
<1> QED  BY <1>9, <1>13, <1>14 DEF Served

(* The interrupt and the driver's task leave the register alone, or the    *)
(* task fireTimers is posted.                                              *)
LEMMA SameServed ==
  ASSUME Quiet => AllServed, Quiet' => Quiet,
         UNCHANGED <<clock, running, startTime, nextEvent, timers, due>>
  PROVE  Quiet' => AllServed'
<1> SUFFICES ASSUME Quiet' PROVE AllServed'
  OBVIOUS
<1>1. AllServed /\ Running' = Running
  BY DEF Running
<1>2. Count' = Count
  BY DEF Count
<1>3. Ahead' = Ahead /\ \A n : ToCome(n)' = ToCome(n)
  BY <1>2 DEF Ahead, ToCome, Elapsed
<1> QED  BY <1>1, <1>3 DEF AllServed, Served

LEMMA BelowLate ==
  ASSUME LateInv, Below, NEW l, l = lag
  PROVE  AllPunctual(l)' /\ (Quiet' => AllServed')
<1>1. UNCHANGED <<scalerVars, signalled, due>> /\ AllPunctual(l) /\ TimersInv
      /\ (Quiet => AllServed)
  BY DEF Below, LateInv
<1>2. CASE RTCInterrupt /\ UNCHANGED muxVars
  <2>1. /\ UNCHANGED <<clock, running, startTime, nextEvent, timers, due>>
        /\ (Quiet' => Quiet)
    BY <1>1, <1>2 DEF RTCInterrupt, muxVars, Quiet
  <2> QED  BY <1>1, <2>1, NobodyLate, SameServed
<1>3. CASE HardwareFired
  <2>1. UNCHANGED <<clock, timers>> /\ firePosted' = (firePosted \/ Expired)
        /\ TimerEvent /\ UNCHANGED <<updatePosted, at>>
    BY <1>3 DEF HardwareFired, TimerEvent
  <2>2. AllPunctual(l)'
    BY <1>1, <2>1, NobodyLate
  <2>3. ASSUME Quiet' PROVE AllServed'
    <3>1. Quiet /\ ~Expired /\ AllServed
      BY <1>1, <2>1, <2>3 DEF Quiet
    <3>2. CASE running
      <4>1. UNCHANGED <<running, startTime, nextEvent>>
        BY <2>1, <3>1, <3>2 DEF TimerEvent
      <4> QED  BY <1>1, <2>1, <2>3, <3>1, <4>1, SameServed
    <3>3. CASE ~running
      <4>1. Running = {}
        BY <3>1, <3>3 DEF AllServed, Served
      <4>2. Running' = {}
        BY <2>1, <4>1 DEF Running
      <4> QED  BY <4>2 DEF AllServed
    <3> QED  BY <3>2, <3>3
  <2> QED  BY <2>2, <2>3
<1>4. CASE updateFromTimer
  BY <1>1, <1>4, UpdatePunctual, UpdateServed
<1> QED  BY <1>2, <1>3, <1>4 DEF Below

(* The tick.                                                               *)
LEMMA AgeTicks ==
  ASSUME TimersInv, CounterTicks, NEW t \in 0..(Modulus - 1),
         Elapsed(Count, t) + 1 < Modulus
  PROVE  Elapsed(Count', t) = Elapsed(Count, t) + 1
<1> DEFINE c == Count
           k == Count'
<1>1. c \in 0..(Modulus - 1) /\ Modulus \in Nat
  BY TimesAre, ConstantsAre DEF TimersInv, RtcInv
<1>2. k = IF c + 1 = Modulus THEN 0 ELSE c + 1
  BY CounterIs DEF TimersInv, RtcInv, RtcTypeOK
<1>3. Elapsed(c, t) # Modulus - 1
  <2>1. Elapsed(c, t) \in 0..(Modulus - 1)
    BY <1>1, ClockElapsed
  <2> QED  BY <1>1, <2>1
<1> HIDE DEF c, k
<1>4. Elapsed(k, t) = IF Elapsed(c, t) = Modulus - 1 THEN 0 ELSE Elapsed(c, t) + 1
  BY <1>1, <1>2, TickElapsed
<1> QED  BY <1>3, <1>4 DEF c, k

LEMMA ModShift ==
  ASSUME NEW M \in Nat \ {0}, NEW x \in Int
  PROVE  (x + M) % M = x % M
<1>1. x % M \in 0..(M - 1) /\ x \div M \in Int /\ x = (M * (x \div M)) + (x % M)
  OBVIOUS
<1>2. x + M = (M * ((x \div M) + 1)) + (x % M)
  <2>1. \A a \in Nat, b \in Int : a * (b + 1) = (a * b) + a /\ a * b \in Int
    OBVIOUS
  <2> QED  BY <1>1, <2>1
<1>3. \A q \in Int, r \in 0..(M - 1) : ((M * q) + r) % M = r
  OBVIOUS
<1>4. ((M * ((x \div M) + 1)) + (x % M)) % M = x % M
  BY <1>1, <1>3
<1> QED  BY <1>2, <1>4

LEMMA SlowLeftTicks ==
  ASSUME TimersInv, CounterTicks, UNCHANGED scalerVars, SlowLeft,
         ToCome(Scaled)' = ToCome(Scaled) - 1, due'[Scaled] = due[Scaled] - 1
  PROVE  SlowLeft'
<1> DEFINE c == ToCome(Scaled)
           r == Part
           now == SlowTime
           x == m_dt * Scale
<1>1. /\ Modulus \in Nat \ {0} /\ Scale \in Nat \ {0} /\ now \in 0..(Modulus - 1)
      /\ r \in 0..(Scale - 1) /\ due[Scaled] \in Int /\ c \in Int /\ x \in Int
      /\ m_t0' = m_t0 /\ m_dt' = m_dt
  <2>1. Scaled \in Numbers
    BY MuxAssumption DEF Scaled, Numbers
  <2>2. m_dt \in 0..(Modulus - 1) /\ Scale \in Nat \ {0} /\ Modulus \in Nat \ {0}
    BY <2>1, LateTypes, ConstantsAre
  <2>3. x \in Int
    BY <2>2
  <2> QED  BY <2>1, <2>2, <2>3, LateTypes DEF scalerVars
<1>2. IF r + 1 < Scale
        THEN SlowTime' = now /\ Part' = r + 1
        ELSE /\ SlowTime' = IF now + 1 = Modulus THEN 0 ELSE now + 1
             /\ Part' = 0 /\ r + 1 = Scale
  BY SlowTicks DEF TimersInv, RtcInv
<1>3. PICK s \in Int : (s * Scale) - r = c /\ (now + s) % Modulus = m_t0
  BY DEF SlowLeft
<1>4. due[Scaled] >= c + x /\ due'[Scaled] = due[Scaled] - 1
      /\ ToCome(Scaled)' = c - 1
  BY DEF SlowLeft
<1> HIDE DEF c, r, now, x
<1>5. due'[Scaled] >= ToCome(Scaled)' + x
  BY <1>1, <1>4
<1>6. \E z \in Int : (z * Scale) - Part' = ToCome(Scaled)' /\ (SlowTime' + z) % Modulus = m_t0
  <2>1. CASE r + 1 < Scale
    <3>1. s * Scale \in Int
      BY <1>1, <1>3
    <3>2. (s * Scale) - Part' = ToCome(Scaled)'
      BY <1>1, <1>2, <1>3, <1>4, <2>1, <3>1
    <3> QED  BY <1>2, <1>3, <2>1, <3>2
  <2>2. CASE ~(r + 1 < Scale)
    <3>1. r + 1 = Scale /\ Part' = 0
      BY <1>2, <2>2
    <3>2. (s - 1) * Scale = (s * Scale) - Scale /\ s * Scale \in Int /\ s - 1 \in Int
      <4>1. \A a \in Int, b \in Nat : (a - 1) * b = (a * b) - b /\ a * b \in Int
        OBVIOUS
      <4> QED  BY <1>1, <1>3, <4>1
    <3>3. ((s - 1) * Scale) - Part' = ToCome(Scaled)'
      <4> DEFINE v == s * Scale
                 w == (s - 1) * Scale
      <4>1. w = v - Scale /\ v \in Int /\ v - r = c
        BY <1>3, <3>2
      <4> HIDE DEF v, w
      <4>2. w - Part' = ToCome(Scaled)'
        BY <1>1, <1>4, <3>1, <4>1
      <4> QED  BY <4>2 DEF w
    <3>4. (SlowTime' + (s - 1)) % Modulus = m_t0
      <4>1. CASE now + 1 = Modulus
        <5>1. SlowTime' + (s - 1) = s - 1 /\ now + s = (s - 1) + Modulus
          BY <1>1, <1>2, <1>3, <2>2, <4>1
        <5>2. ((s - 1) + Modulus) % Modulus = (s - 1) % Modulus
          BY <1>1, <3>2, ModShift
        <5> QED  BY <1>3, <5>1, <5>2
      <4>2. CASE now + 1 # Modulus
        <5>1. SlowTime' + (s - 1) = now + s
          BY <1>1, <1>2, <1>3, <2>2, <4>2
        <5> QED  BY <1>3, <5>1
      <4> QED  BY <4>1, <4>2
    <3> QED  BY <3>2, <3>3, <3>4
  <2> QED  BY <2>1, <2>2
<1> QED  BY <1>1, <1>5, <1>6 DEF SlowLeft, x

LEMMA TickLate ==
  ASSUME LateInv, Tick
  PROVE  AllPunctual(lag)' /\ (Quiet' => AllServed')
<1>1. /\ TimersInv /\ AllPunctual(lag) /\ (Quiet => AllServed)
      /\ CounterTicks /\ timers' = timers /\ UNCHANGED scalerVars
      /\ UNCHANGED <<updatePosted, firePosted, at>>
      /\ m_dt' = m_dt /\ lag' = (IF Busy THEN lag + 1 ELSE 0) /\ (Busy => lag < Slack)
      /\ due' = [n \in Numbers |-> IF timers[n].running /\ due[n] >= -Latest
                                     THEN due[n] - 1 ELSE due[n]]
  BY DEF LateInv, Tick, muxVars, scalerVars
<1>2. /\ Running' = Running /\ Queued' = Queued /\ Quiet' = Quiet
      /\ Queued \subseteq Running /\ Running \subseteq Numbers
  BY <1>1 DEF Running, Queued, Quiet, AllPunctual
<1>3. /\ K \in Nat /\ Slack \in Nat /\ K + Slack <= Latest /\ Latest \in Nat
      /\ Half + K + Slack + 1 < Modulus /\ Half \in Nat /\ Modulus \in Nat
      /\ lag \in 0..Slack
  BY <1>1, LateConstants DEF TimersInv, RtcInv
<1>4. ASSUME NEW n \in Running
      PROVE  /\ Punctual(n, lag) /\ n \in Numbers
             /\ Age(n) + 1 < Modulus /\ due'[n] = due[n] - 1
             /\ due'[n] >= -(K + lag') /\ (Age(n) + 1) + (Slack - lag') < Modulus
             /\ Age(n) \in Nat /\ ToCome(n) \in Int /\ due[n] \in Int
  <2>1. /\ Punctual(n, lag) /\ n \in Numbers
        /\ due[n] >= -(K + lag) /\ Age(n) + (Slack - lag) < Modulus
    BY <1>1, <1>2 DEF AllPunctual, Punctual
  <2>2. Age(n) \in 0..(Modulus - 1) /\ ToCome(n) \in Int /\ due[n] \in Int
    BY <1>1, <2>1, LateTypes
  <2> HIDE DEF K, Half
  <2>3. due'[n] = due[n] - 1
    <3>1. due[n] >= -Latest
      BY <1>3, <2>1, <2>2
    <3> QED  BY <1>1, <2>1, <3>1 DEF Running
  <2>4. CASE Busy
    BY <1>1, <1>3, <2>1, <2>2, <2>3, <2>4
  <2>5. CASE ~Busy
    <3>1. Quiet /\ ~pending
      BY <2>5 DEF Busy, Quiet, pending
    <3>2. Served(n)
      BY <1>1, <3>1 DEF AllServed
    <3>3. due[n] >= 1 - K /\ Age(n) + Slack + 1 < Modulus
      BY <1>1, <3>1, <3>2, IdlePunctual
    <3> QED  BY <1>1, <1>3, <2>1, <2>2, <2>3, <2>5, <3>3
  <2> QED  BY <2>4, <2>5
<1>5. ASSUME NEW n \in Running
      PROVE  Age(n)' = Age(n) + 1 /\ ToCome(n)' = ToCome(n) - 1
  <2>1. n \in Numbers /\ timers[n].t0 \in 0..(Modulus - 1) /\ timers[n].dt \in Int
    BY <1>1, <1>4, LateTypes, ConstantsAre
  <2>2. Elapsed(Count', timers[n].t0) = Age(n) + 1
    BY <1>1, <1>4, <2>1, AgeTicks DEF Age
  <2>3. Age(n)' = Elapsed(Count', timers[n].t0)
    BY <1>1 DEF Age, Elapsed
  <2>4. ToCome(n)' = timers[n].dt - Elapsed(Count', timers[n].t0)
    BY <1>1 DEF ToCome, Elapsed
  <2>5. ToCome(n) = timers[n].dt - Age(n)
    BY DEF ToCome, Age
  <2>6. timers[n].dt - (Age(n) + 1) = (timers[n].dt - Age(n)) - 1
    <3> HIDE DEF Age
    <3> QED  BY <1>4, <2>1
  <2> QED  BY <2>2, <2>3, <2>4, <2>5, <2>6
<1>6. ASSUME NEW n \in Running PROVE Punctual(n, lag)'
  <2>1. /\ due[n] >= ToCome(n) \/ ToCome(n) <= 0
        /\ n = Scaled /\ m_dt # 0 => SlowLeft
        /\ n \in Queued => ToCome(n) <= 0
    BY <1>4 DEF Punctual
  <2>2. due'[n] >= ToCome(n)' \/ ToCome(n)' <= 0
    <3> HIDE DEF ToCome
    <3> QED  BY <1>4, <1>5, <2>1
  <2>3. n \in Queued' => ToCome(n)' <= 0
    <3> HIDE DEF ToCome, Queued
    <3> QED  BY <1>2, <1>4, <1>5, <2>1
  <2>4. n = Scaled /\ m_dt' # 0 => SlowLeft'
    BY <1>1, <1>4, <1>5, <2>1, SlowLeftTicks
  <2>5. Age(n)' + (Slack - lag') < Modulus
    BY <1>4, <1>5
  <2> QED  BY <1>4, <2>2, <2>3, <2>4, <2>5 DEF Punctual
<1>7. AllPunctual(lag)'
  BY <1>2, <1>6 DEF AllPunctual
<1>8. ASSUME Quiet', NEW n \in Running PROVE Served(n)'
  <2>1. Served(n) /\ running /\ running' = running /\ startTime' = startTime
        /\ nextEvent' = nextEvent
    BY <1>1, <1>2, <1>8 DEF AllServed, Served, CounterTicks
  <2> DEFINE x == Elapsed(Count, startTime)
             e == Elapsed(nextEvent, startTime)
  <2>2. x \in 0..(Modulus - 1) /\ e \in 0..(Modulus - 1) /\ Ahead = e - x
        /\ startTime \in 0..(Modulus - 1)
    BY <1>1, AheadIs DEF Ahead, TimersInv, RtcInv, RtcTypeOK
  <2>3. e <= Half /\ (x < e \/ x <= e + lag)
    BY <1>1, <2>1 DEF TimersInv, RtcInv, RunInv
  <2>4. x + 1 < Modulus
    <3> HIDE DEF x, e, Half, K
    <3> QED  BY <1>3, <2>2, <2>3
  <2>5. Elapsed(Count', startTime) = x + 1
    BY <1>1, <2>2, <2>4, AgeTicks
  <2>6. Ahead' = e - (x + 1)
    <3>1. Ahead' = Elapsed(nextEvent', startTime') - Elapsed(Count', startTime')
      BY DEF Ahead, Elapsed
    <3> QED  BY <2>1, <2>5, <3>1
  <2>7. ToCome(n) >= Ahead - K /\ due[n] >= Ahead - K
    BY <2>1 DEF Served
  <2>8. ToCome(n)' >= Ahead' - K /\ due'[n] >= Ahead' - K
    <3> HIDE DEF ToCome, x, e, Ahead, K
    <3> QED  BY <1>3, <1>4, <1>5, <2>2, <2>6, <2>7
  <2> QED  BY <2>1, <2>8 DEF Served
<1>9. Quiet' => AllServed'
  BY <1>2, <1>8 DEF AllServed
<1> QED  BY <1>7, <1>9

-----------------------------------------------------------------------------
(* When the node becomes idle, the lag is forgotten.                       *)
LEMMA LagForgotten ==
  ASSUME TimersInv', NEW l \in 0..Slack, AllPunctual(l)', Quiet' => AllServed',
         lag' = l \/ (lag' = 0 /\ ~Busy')
  PROVE  LateInv'
<1>1. AllPunctual(lag)'
  <2>1. CASE lag' = l
    BY <2>1 DEF AllPunctual, Punctual
  <2>2. CASE lag' = 0 /\ ~Busy'
    <3>1. Quiet' /\ ~pending'
      BY <2>2 DEF Busy, Quiet, pending
    <3>2. \A n \in Running' : due'[n] >= 1 - K /\ Age(n)' + Slack + 1 < Modulus
      BY <3>1, IdlePunctualNext DEF AllServed
    <3>3. ASSUME NEW n \in Running'
          PROVE  due'[n] >= -(K + 0) /\ Age(n)' + (Slack - 0) < Modulus
      <4>1. due'[n] \in Int /\ Age(n)' \in Int
        <5>1. n \in Numbers
          BY DEF Running
        <5>2. due'[n] \in Int
          BY <5>1, ConstantsAre DEF TimersInv, MuxInv, Dues
        <5>3. Count' \in Int /\ timers'[n].t0 \in Int
          BY <5>1, ConstantsAre DEF Count, RtcInv, RtcTypeOK, TimersInv, MuxInv, TimerArray, Time
        <5>4. Age(n)' = (Count' - timers'[n].t0) % Modulus
          BY DEF Age, Elapsed
        <5> QED  BY <5>2, <5>3, <5>4, ConstantsAre
      <4> HIDE DEF Age, K
      <4> QED  BY <3>2, <4>1, LateConstants
    <3>4. \A n \in Running' : Punctual(n, lag)'
      BY <2>2, <3>3 DEF AllPunctual, Punctual
    <3> QED  BY <3>4 DEF AllPunctual
  <2> QED  BY <2>1, <2>2
<1> QED  BY <1>1 DEF LateInv

LEMMA NextLate ==
  ASSUME LateInv, [Next]_vars
  PROVE  LateInv'
<1>1. PICK l \in 0..Slack : l = lag
  BY DEF LateInv, TimersInv, RtcInv
<1>2. /\ TimersInv /\ TimersInv' /\ AllPunctual(l) /\ (Quiet => AllServed)
      /\ Slack \in Nat
  <2>1. TimersInv' /\ Slack \in Nat
    BY NextTimers, ConstantsAre DEF LateInv
  <2> QED  BY <1>1, <2>1 DEF LateInv, AllPunctual, Punctual
<1>3. ASSUME AllPunctual(l)', Quiet' => AllServed', lag' = lag PROVE LateInv'
  BY <1>1, <1>2, <1>3, LagForgotten
<1>4. ASSUME AllPunctual(l)', Quiet' => AllServed', lag' = IF Busy' THEN lag ELSE 0
      PROVE  LateInv'
  <2>1. lag' = l \/ (lag' = 0 /\ ~Busy')
    BY <1>1, <1>4
  <2> QED  BY <1>2, <1>4, <2>1, LagForgotten
<1>5. ASSUME Call PROVE ~Quiet'
  BY <1>5 DEF Call, Quiet
<1>6. CASE \E n \in Clients, dt \in Delays : StartFromNow(n, dt)
  <2>1. PICK n \in Clients, dt \in Delays : StartFromNow(n, dt)
    BY <1>6
  <2>2. AllPunctual(l)'
    BY <1>2, <2>1, StartFromNowPunctual
  <2>3. Call /\ lag' = lag
    BY <2>1 DEF StartFromNow
  <2> QED  BY <1>3, <1>5, <2>2, <2>3
<1>7. CASE \E n \in Relative, dt \in Delays : StartFromLastTrigger(n, dt)
  <2>1. PICK n \in Relative, dt \in Delays : StartFromLastTrigger(n, dt)
    BY <1>7
  <2>2. AllPunctual(l)'
    BY <1>2, <2>1, StartFromLastTriggerPunctual
  <2>3. Call /\ lag' = lag
    BY <2>1 DEF StartFromLastTrigger
  <2> QED  BY <1>3, <1>5, <2>2, <2>3
<1>8. CASE \E n \in Numbers : Stop(n)
  <2>1. PICK n \in Numbers : Stop(n)
    BY <1>8
  <2>2. /\ clock' = clock /\ UNCHANGED scalerVars /\ Call /\ lag' = lag
        /\ timers' = Stopped(timers, n) /\ due' = [due EXCEPT ![n] = 0]
    BY <2>1 DEF Stop, rtcVars, scalerVars
  <2>3. AllPunctual(l)'
    BY <1>2, <2>2, StoppedPunctual
  <2> QED  BY <1>3, <1>5, <2>2, <2>3
<1>9. CASE \E dt \in SlowDelays : StartSlow(dt)
  <2>1. PICK dt \in SlowDelays : StartSlow(dt)
    BY <1>9
  <2>2. AllPunctual(l)'
    BY <1>2, <2>1, StartSlowPunctual
  <2>3. Call /\ lag' = lag
    BY <2>1 DEF StartSlow
  <2> QED  BY <1>3, <1>5, <2>2, <2>3
<1>10. CASE Below /\ lag' = IF Busy' THEN lag ELSE 0
  BY <1>1, <1>4, <1>10, BelowLate
<1>11. CASE (FireTimers \/ HandlerReturns) /\ lag' = IF Busy' THEN lag ELSE 0
  <2>1. PICK from : Goes(from)
    BY <1>11 DEF FireTimers, HandlerReturns
  <2>2. AllPunctual(l)'
    BY <1>2, <2>1, GoesPunctual
  <2>3. ~Quiet'
    <3>1. \A n \in Queued : n # 0
      BY DEF Queued, Numbers
    <3> QED  BY <2>1, <3>1, GoesCases DEF FiresEvent, Reschedules, LoopEnds, Quiet
  <2> QED  BY <1>4, <1>11, <2>2, <2>3
<1>12. CASE AskBeforeSleep
  <2>1. /\ UNCHANGED <<clock, running, startTime, nextEvent, timers, due>>
        /\ UNCHANGED scalerVars /\ Quiet' = Quiet /\ lag' = lag
    BY <1>12 DEF AskBeforeSleep, Reads, muxVars, Quiet
  <2> QED  BY <1>2, <1>3, <2>1, NobodyLate, SameServed
<1>13. CASE Tick
  BY <1>2, <1>13, TickLate DEF LateInv
<1>14. CASE UNCHANGED vars
  <2>1. /\ UNCHANGED <<clock, running, startTime, nextEvent, timers, due>>
        /\ UNCHANGED scalerVars /\ Quiet' = Quiet /\ lag' = lag
    BY <1>14 DEF vars, rtcVars, muxVars, scalerVars, Quiet
  <2> QED  BY <1>2, <1>3, <2>1, NobodyLate, SameServed
<1> QED
  BY <1>6, <1>7, <1>8, <1>9, <1>10, <1>11, <1>12, <1>13, <1>14 DEF Next

THEOREM LateInvariant == Spec => []LateInv
<1>1. Init => LateInv
  <2> SUFFICES ASSUME Init PROVE LateInv
    OBVIOUS
  <2>1. Running = {} /\ Queued = {}
    BY DEF Init, MuxInit, Running, Queued
  <2> QED  BY <2>1, InitTimers DEF LateInv, AllPunctual, AllServed
<1>2. LateInv /\ [Next]_vars => LateInv'
  BY NextLate
<1> QED  BY <1>1, <1>2, PTL DEF Spec

(* A timer fires at most MinTimeout - 1 + Slack ticks after it should,     *)
(* whatever its neighbours do, wherever the clocks wrap and however often a*)
(* handler starts, stops or restarts a timer while others are marked.      *)
THEOREM TimersAreNeverLate == Spec => []NeverLate
<1>1. LateInv => NeverLate
  <2> SUFFICES ASSUME LateInv, NEW n \in Running PROVE due[n] >= -Latest
    BY DEF NeverLate
  <2>1. n \in Numbers /\ TimersInv
    BY DEF Running, LateInv
  <2>2. due[n] >= -(K + lag) /\ due[n] \in Int /\ lag \in 0..Slack
    BY <2>1, LateTypes DEF LateInv, AllPunctual, Punctual
  <2> QED  BY <2>2, LateConstants
<1> QED  BY <1>1, LateInvariant, PTL
=============================================================================
