------------------------------ MODULE RtcTimer ------------------------------
(***************************************************************************)
(* The one hardware timer of the CC26xx, HalCC26xxRTCPrv.nc: a counter that *)
(* wraps, a compare register that raises an interrupt, and the driver that  *)
(* makes of them a timer that can be started from a moment in the past, and *)
(* a notice of every wrap of the counter.                                   *)
(*                                                                         *)
(* The driver learns of a wrap only when it reads the counter and finds it  *)
(* behind the last reading, so somebody has to read it often enough; it     *)
(* therefore arms the compare register even when no timer runs.             *)
(***************************************************************************)
EXTENDS Integers

CONSTANTS
  Modulus,         \* readings of the counter: 2^32 in the code
  Epochs,          \* wraps that are told apart by whoever counts them
  MinTimeout,      \* MIN_TIMEOUT: the least delay of the compare register
  StoppedTimeout   \* 0x70000000: when a stopped timer still interrupts

ASSUME RtcAssumption ==
  /\ Modulus \in Nat /\ Epochs \in Nat /\ MinTimeout \in Nat /\ StoppedTimeout \in Nat
  /\ Epochs > 0 /\ MinTimeout > 0
  /\ MinTimeout <= StoppedTimeout
  /\ StoppedTimeout < Modulus \div 2

VARIABLES
  clock,                  \* the hardware counter before it is truncated
  lastNow,                \* the last reading of the driver
  overflows,              \* wraps signalled so far, modulo Epochs
  running,
  startTime,
  timeoutFromStartTime,
  nextEvent,              \* the compare register
  rtcEvent,               \* the interrupt is pending
  timerEventPosted        \* the driver's task is posted

rtcVars == <<clock, lastNow, overflows, running, startTime, timeoutFromStartTime,
             nextEvent, rtcEvent, timerEventPosted>>

Count == clock % Modulus

Elapsed(now, t) == (now - t) % Modulus

RtcTypeOK ==
  /\ clock \in 0 .. Modulus * Epochs - 1
  /\ lastNow \in 0 .. Modulus - 1
  /\ overflows \in 0 .. Epochs - 1
  /\ running \in BOOLEAN
  /\ startTime \in 0 .. Modulus - 1
  /\ timeoutFromStartTime \in 0 .. Modulus - 1
  /\ nextEvent \in 0 .. Modulus - 1
  /\ rtcEvent \in BOOLEAN
  /\ timerEventPosted \in BOOLEAN

(***************************************************************************)
(* Timer.getNow: the reading, and the signal of an overflow when it is      *)
(* behind the last one.                                                     *)
(***************************************************************************)
getNow ==
  /\ lastNow' = Count
  /\ overflows' = IF Count < lastNow THEN (overflows + 1) % Epochs ELSE overflows

(* compareTime of the driver, a subtraction read as a signed number: b is   *)
(* already behind a.                                                        *)
IsAfter(a, b) == LET d == (a - b) % Modulus IN 0 < d /\ d < Modulus \div 2

(* arm(): the compare register is set to the moment the timer expires, but  *)
(* never nearer than MinTimeout.                                            *)
arm(t0, dt) ==
  LET earliestPossible == (Count + MinTimeout) % Modulus
      expires == (t0 + dt) % Modulus
  IN  /\ getNow
      /\ nextEvent' = IF IsAfter(earliestPossible, expires) THEN earliestPossible ELSE expires

(* Timer.startWithTimeoutFromTime, the only start its client calls.         *)
StartRtc(t0, dt) ==
  /\ running' = TRUE
  /\ startTime' = t0
  /\ timeoutFromStartTime' = dt
  /\ arm(t0, dt)

\* stop that leaves the compare register alone.
StopRtc_SilentSlip ==
  /\ running' = FALSE
  /\ getNow
  /\ UNCHANGED <<startTime, timeoutFromStartTime, nextEvent>>

(* Timer.stop and scheduleStoppedTimer.                                     *)
StopRtc ==
  /\ running' = FALSE
  /\ startTime' = Count
  /\ timeoutFromStartTime' = StoppedTimeout
  /\ arm(Count, StoppedTimeout)

(* The task timerEvent. Expired is the signal Timer.fired; after it nothing *)
(* has started the timer again (its client only posts a task), so the       *)
(* driver schedules its own interrupt. An interrupt too early for the timer *)
(* that runs changes nothing but the reading.                               *)
Expired == running /\ Elapsed(Count, startTime) >= timeoutFromStartTime

TimerEvent ==
  /\ timerEventPosted
  /\ timerEventPosted' = FALSE
  /\ \/ /\ running => Expired
        /\ StopRtc
     \/ /\ running /\ ~Expired
        /\ getNow
        /\ UNCHANGED <<running, startTime, timeoutFromStartTime, nextEvent>>
  /\ UNCHANGED <<clock, rtcEvent>>

(* The interrupt handler RTCInterrupt.triggered.                            *)
RTCInterrupt ==
  /\ rtcEvent
  /\ rtcEvent' = FALSE
  /\ timerEventPosted' = TRUE
  /\ UNCHANGED <<clock, lastNow, overflows, running, startTime, timeoutFromStartTime, nextEvent>>

(* One tick of the crystal: the event is latched when the counter meets the *)
(* compare register.                                                        *)
CounterTicks ==
  /\ clock' = (clock + 1) % (Modulus * Epochs)
  /\ rtcEvent' = (rtcEvent \/ (Count + 1) % Modulus = nextEvent)
  /\ UNCHANGED <<lastNow, overflows, running, startTime, timeoutFromStartTime, nextEvent,
                 timerEventPosted>>

(* Init.init, at whatever the counter is in its first period.               *)
RtcInit ==
  /\ clock \in 0 .. Modulus - 1
  /\ lastNow = Count
  /\ overflows = 0
  /\ running = FALSE
  /\ startTime = 0 /\ timeoutFromStartTime = 0
  /\ nextEvent = IF IsAfter((Count + MinTimeout) % Modulus, 0)
                   THEN (Count + MinTimeout) % Modulus ELSE 0
  /\ rtcEvent = FALSE /\ timerEventPosted = FALSE
=============================================================================
