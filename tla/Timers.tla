------------------------------- MODULE Timers -------------------------------
(***************************************************************************)
(* The timers of a node: PlatformTimer32khzPrv.nc puts TimerMuxPub over the *)
(* RTC of the CC26xx, and PlatformTimerMilliPrv.nc takes one timer of that  *)
(* multiplexer and makes a slower clock of it with TimerScalerPub.nc, which *)
(* is modelled here.  Above the scaler is one client, which stands for the  *)
(* multiplexer of the milliseconds.                                         *)
(*                                                                         *)
(* All of it runs in tasks of one process, which take no time on the scale  *)
(* of the clock; the interrupt and the clock come between any two of them,  *)
(* and the posted tasks may run in any order.                               *)
(***************************************************************************)
EXTENDS TimerMux

CONSTANTS
  Scale,         \* ticks of the fast clock per tick of the slow one: 2^shift
  Delays,        \* delays that the clients of the fast clock ask for
  SlowDelays,    \* and those of the slow clock
  MaxAge,        \* how old a last trigger may be when a timer starts from it
  Slack,         \* ticks the node may need to come to the end of its tasks
  Latest         \* how late a timer may be

Scaled == NumTimers      \* the timer of the multiplexer that the scaler has
Clients == Numbers \ {Scaled}

ASSUME TimersAssumption ==
  /\ Scale \in Nat /\ Slack \in Nat /\ Latest \in Nat
  /\ Scale = Epochs /\ Modulus % (2 * Scale) = 0
  /\ Relative \subseteq Clients
  /\ MaxAge \in Nat /\ MaxAge + Slack < Modulus
  /\ MinTimeout + Slack < Modulus \div 2
  /\ MinTimeout + Slack <= Latest + 1
  /\ Delays \subseteq 0 .. Modulus \div 2
  /\ SlowDelays \subseteq 0 .. Modulus - 2

VARIABLES
  m_t0, m_dt,   \* TimerScalerPub; nobody reads its m_lastTrigger
  signalled,    \* a client's handler runs
  lag,          \* ticks since the node was idle
  due           \* ticks until a timer should fire, 0 when it should have

vars == <<rtcVars, muxVars, m_t0, m_dt, signalled, lag, due>>
scalerVars == <<m_t0, m_dt>>

(* The readings, the flags of the timers and the posted tasks stay in the    *)
(* widths and ranges that the code declares for them.                       *)
TypeOK ==
  /\ RtcTypeOK /\ MuxTypeOK
  /\ m_t0 \in Time /\ m_dt \in Time
  /\ signalled \in BOOLEAN
  /\ lag \in 0 .. Slack
  /\ due \in [Numbers -> -(Latest + 1) .. Modulus * Scale]

-----------------------------------------------------------------------------
(* TimerScalerPub.  m_overflowOffset counts, in the slow clock's ticks, the *)
(* overflows that the driver has signalled; getNow signals them before the  *)
(* offset is added.                                                         *)
SlowNow(count, wraps) == (count \div Scale + wraps * (Modulus \div Scale)) % Modulus

MAX_DELAY == Modulus \div (2 * Scale)

(* scheduleTimer, called with the timer's t0 and dt, at the time now of the *)
(* slow clock: the delay for the fast timer, and what is kept.              *)
SlowRemaining(t0, dt, now) ==
  LET expires == (t0 + dt) % Modulus
  IN  IF (t0 <= now /\ t0 <= expires /\ expires <= now)
           \/ (t0 > now /\ (expires >= t0 \/ expires <= now))
        THEN 0
        ELSE (expires - now) % Modulus

scheduleTimer(ts, t0, dt) ==
  LET now == SlowNow(Count, overflows')
      remaining == SlowRemaining(t0, dt, now)
      delay == IF remaining > MAX_DELAY THEN MAX_DELAY ELSE remaining
  IN  /\ m_t0' = (IF remaining > MAX_DELAY THEN now + MAX_DELAY ELSE t0 + dt) % Modulus
      /\ m_dt' = remaining - delay
      /\ timers' = Started(ts, Scaled, (now * Scale) % Modulus, delay * Scale)

-----------------------------------------------------------------------------
(* The calls of the clients: from a task of theirs, or from the handler of  *)
(* a timer that fires. A client of the fast clock starts its timer from now *)
(* or from the moment it fired last, unless that is so long ago that the    *)
(* clock wraps before updateFromTimer looks at it.                          *)
CanCall == at = 0 \/ signalled

Busy == rtcEvent \/ timerEventPosted \/ updatePosted \/ firePosted \/ at # 0

Reads == getNow /\ UNCHANGED <<clock, running, startTime, timeoutFromStartTime,
                               nextEvent, rtcEvent, timerEventPosted>>

Call ==
  /\ CanCall
  /\ updatePosted' = TRUE
  /\ UNCHANGED <<last_trigger, firePosted, at, signalled>>

ToGo(t0, dt) == IF dt > Elapsed(Count, t0) THEN dt - Elapsed(Count, t0) ELSE 0

StartFromNow(n, dt) ==
  /\ Call /\ Reads
  /\ timers' = Started(timers, n, Count, dt)
  /\ due' = [due EXCEPT ![n] = dt]
  /\ UNCHANGED <<m_t0, m_dt, lag>>

StartFromLastTrigger(n, dt) ==
  /\ Call
  /\ Elapsed(Count, last_trigger[n]) <= MaxAge
  /\ timers' = Started(timers, n, last_trigger[n], dt)
  /\ due' = [due EXCEPT ![n] = ToGo(last_trigger[n], dt)]
  /\ UNCHANGED <<rtcVars, m_t0, m_dt, lag>>

Stop(n) ==
  /\ Call
  /\ timers' = Stopped(timers, n)
  /\ due' = [due EXCEPT ![n] = 0]
  /\ UNCHANGED <<rtcVars, m_t0, m_dt, lag>>

(* Timer.startWithTimeoutFromTime of the scaler, from now. A tick of the    *)
(* slow clock that has begun counts as a whole one.                         *)
StartSlow(dt) ==
  /\ Call /\ Reads
  /\ scheduleTimer(timers, SlowNow(Count, overflows'), dt)
  /\ due' = [due EXCEPT ![Scaled] =
               IF dt = 0 THEN 0 ELSE (dt * Scale) - (clock % Scale)]
  /\ UNCHANGED lag

-----------------------------------------------------------------------------
(* The tasks.                                                               *)
Goes(from) ==
  \/ \E n \in Queued :
       /\ IsNext(n, from)
       /\ at' = n
       /\ Triggered(n)
       /\ \/ /\ n = Scaled => m_dt = 0
             /\ timers' = Signalled(timers, n)
             /\ signalled' = TRUE
             /\ due' = [due EXCEPT ![n] = 0]
             /\ UNCHANGED <<rtcVars, updatePosted, m_t0, m_dt>>
          \/ /\ n = Scaled /\ m_dt # 0
             /\ Reads
             /\ scheduleTimer(Signalled(timers, n), m_t0, m_dt)
             /\ signalled' = FALSE
             /\ updatePosted' = TRUE
             /\ UNCHANGED due
  \/ /\ LoopEnds(from)
     /\ signalled' = FALSE
     /\ UNCHANGED <<rtcVars, timers, last_trigger, scalerVars, due>>

FireTimers ==
  /\ firePosted /\ at = 0
  /\ firePosted' = FALSE
  /\ Goes(1)

HandlerReturns ==
  /\ at # 0
  /\ Goes(at + 1)
  /\ UNCHANGED firePosted

(* The interrupt, the driver's task and updateFromTimer.                    *)
Below ==
  /\ \/ RTCInterrupt /\ UNCHANGED muxVars
     \/ HardwareFired
     \/ updateFromTimer
  /\ UNCHANGED <<scalerVars, signalled, due>>

(* AskBeforeSleep.maxSleepLevel reads the clock when there is nothing to do. *)
AskBeforeSleep ==
  /\ ~Busy
  /\ Reads
  /\ UNCHANGED <<muxVars, scalerVars, signalled, lag, due>>

(* Time passes: no more than Slack ticks before the tasks are done.         *)
Tick ==
  /\ Busy => lag < Slack
  /\ CounterTicks
  /\ lag' = IF Busy THEN lag + 1 ELSE 0
  /\ due' = [n \in Numbers |-> IF timers[n].running /\ due[n] >= -Latest
                                 THEN due[n] - 1 ELSE due[n]]
  /\ UNCHANGED <<muxVars, scalerVars, signalled>>

Init ==
  /\ RtcInit /\ MuxInit
  /\ m_t0 = 0 /\ m_dt = 0
  /\ signalled = FALSE /\ lag = 0
  /\ due = [n \in Numbers |-> 0]

Next ==
  \/ \E n \in Clients, dt \in Delays : StartFromNow(n, dt)
  \/ \E n \in Relative, dt \in Delays : StartFromLastTrigger(n, dt)
  \/ \E n \in Numbers : Stop(n)
  \/ \E dt \in SlowDelays : StartSlow(dt)
  \/ (Below \/ FireTimers \/ HandlerReturns) /\ lag' = IF Busy' THEN lag ELSE 0
  \/ AskBeforeSleep
  \/ Tick

Spec == Init /\ [][Next]_vars

-----------------------------------------------------------------------------
(* The state has its types, and no wrap of the counter is missed or counted *)
(* twice: what the slow clock reads is the time, also at the moment when a  *)
(* wrap is still to be noticed.                                             *)
ClocksAgree ==
  /\ TypeOK
  /\ SlowNow(Count, IF Count < lastNow THEN overflows + 1 ELSE overflows)
       = (clock \div Scale) % Modulus

(* A timer, fast or slow, fires at most Latest ticks after it should, no    *)
(* matter what its neighbours do and where the clocks wrap.                 *)
NeverLate == \A n \in Running : due[n] >= -Latest

(* An event is signalled only for a timer that is running and over: not     *)
(* before its time, not after a stop, not for an earlier start.             *)
NeverEarly ==
  [][\A n \in Numbers :
       (signalled' /\ at' = n /\ at # n) => timers[n].running /\ due[n] <= 0]_vars
=============================================================================
