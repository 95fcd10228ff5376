------------------------------ MODULE TimerMux ------------------------------
(***************************************************************************)
(* TimerMuxPub.nc: many one-shot timers over the one of RtcTimer.           *)
(*                                                                         *)
(* A command only writes down what the client wants and posts the task     *)
(* updateFromTimer; that task finds the timers that are over and marks     *)
(* them, and arms the hardware timer for the first of the others; the task *)
(* fireTimers signals the marked ones.  Between the mark and the signal,   *)
(* and from the handler of another timer, a client may stop or restart its *)
(* timer.                                                                  *)
(***************************************************************************)
EXTENDS RtcTimer

CONSTANTS
  NumTimers,       \* max_timers
  Relative         \* the timers that are ever started from their last trigger

ASSUME MuxAssumption ==
  NumTimers \in Nat /\ NumTimers > 0 /\ Relative \subseteq 1 .. NumTimers

VARIABLES
  timers,          \* the array timers
  last_trigger,    \* and in it the moment a timer fired last, where it is read
  updatePosted,    \* the task updateFromTimer is posted
  firePosted,      \* the task fireTimers is posted
  at               \* the timer whose event fireTimers signals, 0 outside of it

muxVars == <<timers, last_trigger, updatePosted, firePosted, at>>

Numbers == 1 .. NumTimers
Time == 0 .. Modulus - 1

MuxTypeOK ==
  /\ timers \in [Numbers -> [t0 : Time, dt : Time,
                             running : BOOLEAN, fire_queued : BOOLEAN]]
  /\ last_trigger \in [Relative -> Time]
  /\ updatePosted \in BOOLEAN /\ firePosted \in BOOLEAN
  /\ at \in 0 .. NumTimers

Running == {n \in Numbers : timers[n].running}
Queued == {n \in Numbers : timers[n].fire_queued}

(* The three start commands, which differ in t0, and stop, on the array ts. *)
Started(ts, n, t0, dt) ==
  [ts EXCEPT ![n] = [@ EXCEPT !.t0 = t0, !.dt = dt, !.running = TRUE, !.fire_queued = FALSE]]

\* a stop that leaves the mark.
Stopped_Slip(ts, n) == [ts EXCEPT ![n] = [@ EXCEPT !.running = FALSE]]

Stopped(ts, n) ==
  [ts EXCEPT ![n] = [@ EXCEPT !.running = FALSE, !.fire_queued = FALSE]]

(* updateFromTimer.  A delay of Modulus - 1 is not less than the initial    *)
(* value of min_remaining, so a timer with so much left is not armed.       *)
Over(n) == timers[n].dt <= Elapsed(Count, timers[n].t0)
Remaining(n) == IF Over(n) THEN 0 ELSE timers[n].dt - Elapsed(Count, timers[n].t0)

updateFromTimer ==
  LET waiting == {n \in Running : Remaining(n) < Modulus - 1}
  IN  /\ updatePosted /\ at = 0
      /\ updatePosted' = FALSE
      /\ timers' = [n \in Numbers |->
                      [timers[n] EXCEPT !.fire_queued = @ \/ (n \in Running /\ Over(n))]]
      /\ \/ /\ \E n \in Running : Over(n)
            /\ firePosted' = TRUE
            /\ StopRtc
         \/ /\ \A n \in Running : ~Over(n)
            /\ \E n \in waiting :
                 /\ \A k \in waiting : Remaining(n) <= Remaining(k)
                 /\ StartRtc(Count, Remaining(n))
            /\ UNCHANGED firePosted
         \/ /\ waiting = {}
            /\ StopRtc
            /\ UNCHANGED firePosted
      /\ UNCHANGED <<clock, rtcEvent, timerEventPosted, last_trigger, at>>

(* The event TimerFrom.fired of the driver's task.                          *)
HardwareFired ==
  /\ at = 0
  /\ firePosted' = (firePosted \/ Expired)
  /\ TimerEvent
  /\ UNCHANGED <<timers, last_trigger, updatePosted, at>>

(* The loop of fireTimers goes on to the first marked timer from number n:  *)
(* its event is signalled, or the loop ends.                                *)
IsNext(n, from) == n \in Queued /\ n >= from /\ \A k \in Queued : k >= from => n <= k

Signalled(ts, n) == [ts EXCEPT ![n] = [@ EXCEPT !.fire_queued = FALSE, !.running = FALSE]]

Triggered(n) ==
  last_trigger' = [k \in Relative |-> IF k = n THEN (timers[n].t0 + timers[n].dt) % Modulus
                                              ELSE last_trigger[k]]

\* fireTimers does not post updateFromTimer.
LoopEnds_Slip(from) ==
  /\ \A k \in Queued : k < from
  /\ at' = 0
  /\ UNCHANGED updatePosted

LoopEnds(from) ==
  /\ \A k \in Queued : k < from
  /\ at' = 0
  /\ updatePosted' = TRUE

MuxInit ==
  /\ timers = [n \in Numbers |-> [t0 |-> 0, dt |-> 0, running |-> FALSE, fire_queued |-> FALSE]]
  /\ last_trigger = [n \in Relative |-> 0]
  /\ updatePosted = FALSE /\ firePosted = FALSE /\ at = 0
=============================================================================
