------------------------------ MODULE MCTimers ------------------------------
(***************************************************************************)
(* The timers with a counter of eight readings: two multiplexed timers, one *)
(* of them the scaler's, whose clock is half as fast.                       *)
(***************************************************************************)
EXTENDS Timers

(* What a timer that does not run remembers of its last start is never read *)
(* again, so states that differ only there are the same state.              *)
Live(n) == timers[n].running \/ timers[n].fire_queued

MCView ==
  << clock, lastNow, overflows, nextEvent, rtcEvent, timerEventPosted,
     IF running THEN <<startTime, timeoutFromStartTime>> ELSE << >>,
     [n \in Numbers |-> IF Live(n) THEN <<timers[n]>> ELSE << >>],
     last_trigger, updatePosted, firePosted, at,
     IF Live(Scaled) THEN <<m_t0, m_dt>> ELSE << >>,
     signalled, lag, due >>
=============================================================================
