----------------------------- MODULE RFCoreRadio ----------------------------
(***************************************************************************)
(* The IEEE 802.15.4 half of the radio driver of the CC26xx                *)
(* (RFCoreRadioPrv.nc): frames are sent as foreground commands on top of a *)
(* reception in the background.  The ends of both come as interrupts,      *)
(* which post the tasks TXDone and RXDone; clients start and cancel frames *)
(* from tasks, also from the events that these two tasks signal.  A panic  *)
(* resets the node.  The node sends no BLE advertisements, scans for none  *)
(* and claims the radio core for nothing else.                             *)
(*                                                                         *)
(* An interrupt changes TX to TX_DONE and RX to RX_DONE, which the code    *)
(* outside its atomic sections does not tell apart, so that a task is      *)
(* interrupted only while it signals an event.                             *)
(***************************************************************************)
EXTENDS Integers, Sequences

CONSTANTS
  TxFrames,         \* frames that are sent
  RxFrames,         \* frames that are received into
  NumRxEntries,     \* NUM_RX_ENTRIES, the buffers of the radio core
  NULL

ASSUME RFCoreRadioConstants ==
  NumRxEntries \in Nat \ {0} /\ NULL \notin TxFrames \cup RxFrames

VARIABLE radio
vars == <<radio>>

Start ==
  [state |-> "OFF", fgState |-> "NONE", txFrame |-> NULL, rxFrame |-> NULL,
   fgError |-> "SUCCESS",
   txCmd |-> [frame |-> NULL, status |-> "IDLE"],  \* what the core sends
   finished |-> 0,      \* entries with a received frame, from rxCurrentEntry
   tasks |-> <<>>,      \* TXDone and RXDone as they were posted
   watchdog |-> FALSE,  \* whether TXWatchdogTimer runs
   event |-> NULL,      \* the event being signalled: its frame and result
   panic |-> NULL]      \* the check that failed
Init == radio = Start

Receiving(r) == r.state \in {"RX", "RX_FOR_TX", "RX_DONE", "RX_END"}
Panic(r, where) == [r EXCEPT !.panic = where]
post(r, task) ==
  IF task \in {r.tasks[i] : i \in DOMAIN r.tasks} THEN r
  ELSE [r EXCEPT !.tasks = Append(@, task)]

popRXQueue(r) ==
  IF r.finished = 0 THEN Panic(r, "popRXQueue")
  ELSE [r EXCEPT !.finished = @ - 1]
canSwitchMode(r) ==
  \/ r.state = "OFF"
  \/ r.state = "IEEE_IDLE" /\ r.fgState = "NONE"
requestIEEE(r) == [r EXCEPT !.state = IF @ = "OFF" THEN "IEEE_IDLE" ELSE @]

startRX(r) ==
  [r EXCEPT !.state = IF r.rxFrame = NULL THEN "RX_FOR_TX" ELSE "RX",
            !.finished = 0]
stopRX(r) == [r EXCEPT !.state = "IEEE_IDLE"]

(* The radio core accepts the command or refuses it.                       *)
startTX(r, accepted) ==
  LET s == [(IF r.state = "IEEE_IDLE" THEN startRX(r) ELSE r)
              EXCEPT !.txCmd = [frame |-> r.txFrame, status |-> "IDLE"]]
  IN IF accepted THEN [s EXCEPT !.fgError = "SUCCESS", !.fgState = "TX"]
     ELSE post([s EXCEPT !.fgError = "EINTERNAL", !.fgState = "TX_DONE"],
               "TXDone")
cancelTX(r) ==
  [r EXCEPT !.fgState = "NONE", !.txCmd.status = "IEEE_DONE_ABORT"]

Transmission(r, accepted) ==
  IF r.txFrame # NULL /\ r.fgState = "NONE"
  THEN startTX(requestIEEE(r), accepted) ELSE r
Reception(r) ==
  IF r.rxFrame = NULL \/ r.state \in {"RX", "RX_DONE", "RX_LATE_CANCEL"} THEN r
  ELSE IF r.state = "RX_FOR_TX" THEN [r EXCEPT !.state = "RX"]
  ELSE startRX(requestIEEE(r))
PowerSaving(r) ==
  IF r.txFrame = NULL /\ r.rxFrame = NULL /\ canSwitchMode(r)
  THEN [r EXCEPT !.state = "OFF"] ELSE r
tryToDoSomething(r, accepted) ==
  PowerSaving(Reception(Transmission(r, accepted)))

-----------------------------------------------------------------------------
(* The tasks, up to the event they signal and from its end on.             *)

Dequeued(task) ==
  /\ radio.panic = NULL /\ radio.event = NULL
  /\ radio.tasks # <<>> /\ Head(radio.tasks) = task
Event(task, frame, result) ==
  [task |-> task, frame |-> frame, result |-> result]

TXDoneOutcome(r, accepted) ==
  CASE r.fgState = "TX_LATE_CANCEL" ->
         tryToDoSomething([r EXCEPT !.fgState = "NONE"], accepted)
    [] r.fgState = "TX_DONE" ->
         LET error == IF r.txCmd.status = "IEEE_DONE_OK" THEN r.fgError
                      ELSE "EINTERNAL"
         IN [r EXCEPT !.txFrame = NULL, !.fgState = "TX_END",
                      !.fgError = error, !.txCmd.status = "IDLE",
                      !.event = Event("TXDone", r.txFrame, error)]
    [] OTHER -> Panic(r, "TXDone")
TXDone(accepted) ==
  /\ Dequeued("TXDone")
  /\ radio' = TXDoneOutcome(
                [radio EXCEPT !.tasks = Tail(@), !.watchdog = FALSE], accepted)

TXDoneEnds(accepted) ==
  /\ radio.event # NULL /\ radio.event.task = "TXDone" /\ radio.panic = NULL
  /\ LET r == [radio EXCEPT !.event = NULL]
     IN radio' = IF r.fgState = "TX_END"
                 THEN tryToDoSomething([r EXCEPT !.fgState = "NONE"], accepted)
                 ELSE r

(* A frame that is longer than the client's buffer is dropped.             *)
RXDoneOutcome(r, fits, accepted) ==
  CASE r.state = "RX_LATE_CANCEL" -> tryToDoSomething(stopRX(r), accepted)
    [] r.state = "RX_DONE" /\ r.rxFrame # NULL ->
         LET s == popRXQueue(r)
         IN IF ~fits THEN [s EXCEPT !.state = "RX"]
            ELSE [s EXCEPT !.rxFrame = NULL, !.state = "RX_END",
                           !.event = Event("RXDone", r.rxFrame, "SUCCESS")]
    [] OTHER -> Panic(r, "RXDone")
RXDone(fits, accepted) ==
  /\ Dequeued("RXDone")
  /\ radio' = RXDoneOutcome([radio EXCEPT !.tasks = Tail(@)], fits, accepted)

RXDoneEnds(accepted) ==
  /\ radio.event # NULL /\ radio.event.task = "RXDone" /\ radio.panic = NULL
  /\ LET r == [radio EXCEPT !.event = NULL]
     IN radio' = IF r.state = "RX_END" THEN tryToDoSomething(stopRX(r), accepted)
                 ELSE r

-----------------------------------------------------------------------------
(* The commands of the clients.                                            *)

Send(r, f, accepted) ==
  tryToDoSomething([r EXCEPT !.txFrame = f, !.watchdog = TRUE], accepted)
startSending(f, accepted) ==
  /\ radio.panic = NULL /\ radio.txFrame = NULL
  /\ radio' = Send(radio, f, accepted)

(* Slip: that the task TXDone is pending is forgotten.                     *)
Cancelled_Slip(r, accepted) ==
  IF r.fgState = "TX" THEN tryToDoSomething(cancelTX(r), accepted) ELSE r
Cancelled(r, accepted) ==
  CASE r.fgState = "TX_DONE" -> [r EXCEPT !.fgState = "TX_LATE_CANCEL"]
    [] r.fgState = "TX" -> tryToDoSomething(cancelTX(r), accepted)
    [] OTHER -> r
CancelSend(r, accepted) ==
  Cancelled([r EXCEPT !.txFrame = NULL, !.watchdog = FALSE], accepted)
cancelSending(accepted) ==
  /\ radio.panic = NULL /\ radio.txFrame # NULL
  /\ radio' = CancelSend(radio, accepted)

Receive(r, f, accepted) ==
  LET s == [r EXCEPT !.rxFrame = f]
  IN IF s.state = "RX_END" THEN [s EXCEPT !.state = "RX"]
     ELSE tryToDoSomething(s, accepted)
startReceiving(f, accepted) ==
  /\ radio.panic = NULL /\ radio.rxFrame = NULL
  /\ radio' = Receive(radio, f, accepted)

CancelReceive(r, accepted) ==
  LET s == [r EXCEPT !.rxFrame = NULL]
      late == [s EXCEPT !.state = "RX_LATE_CANCEL"]
  IN tryToDoSomething(CASE s.state = "RX_DONE" -> stopRX(late)
                        [] s.state = "RX" -> stopRX(s)
                        [] OTHER -> s, accepted)
cancelReceiving(accepted) ==
  /\ radio.panic = NULL /\ radio.rxFrame # NULL
  /\ radio' = CancelReceive(radio, accepted)

-----------------------------------------------------------------------------
(* The radio core and the interrupts it raises, the timer and the reset.   *)

onLastFGCommandDone(r) == post([r EXCEPT !.fgState = "TX_DONE"], "TXDone")
SendingEnds(status) ==
  /\ radio.panic = NULL /\ radio.fgState = "TX"
  /\ radio' = onLastFGCommandDone([radio EXCEPT !.txCmd.status = status])

onRXDone(r) ==
  IF r.state = "RX" THEN post([r EXCEPT !.state = "RX_DONE"], "RXDone")
  ELSE popRXQueue(r)
FrameReceived ==
  /\ radio.panic = NULL /\ Receiving(radio) /\ radio.finished < NumRxEntries
  /\ radio' = onRXDone([radio EXCEPT !.finished = @ + 1])

TXWatchdogTimerFires ==
  /\ radio.panic = NULL /\ radio.event = NULL /\ radio.watchdog
  /\ LET r == [radio EXCEPT !.watchdog = FALSE]
     IN radio' = IF r.fgState = "TX" THEN Panic(r, "TX timeout") ELSE r

Reset == radio.panic # NULL /\ radio' = Start

RunTask ==
  \E accepted \in BOOLEAN :
    \/ TXDone(accepted) \/ TXDoneEnds(accepted) \/ RXDoneEnds(accepted)
    \/ \E fits \in BOOLEAN : RXDone(fits, accepted)
Command ==
  \E accepted \in BOOLEAN :
    \/ \E f \in TxFrames : startSending(f, accepted)
    \/ \E f \in RxFrames : startReceiving(f, accepted)
    \/ cancelSending(accepted) \/ cancelReceiving(accepted)
SendingEndsSomehow ==
  \E status \in {"IEEE_DONE_OK", "IEEE_DONE_ABORT"} : SendingEnds(status)

Next ==
  RunTask \/ Command \/ SendingEndsSomehow \/ FrameReceived
  \/ TXWatchdogTimerFires \/ Reset
Spec == Init /\ [][Next]_vars

-----------------------------------------------------------------------------
(* sendingFinished is signalled for the frame that the last transmission   *)
(* was of, and says SUCCESS only if the radio core sent it: never for a    *)
(* cancelled frame, nor for its successor while the task TXDone of the     *)
(* cancelled one is still to run (RFCoreRadioPrv.nc:1021-1063, 1302-1319). *)
Signalled(task) ==
  radio.event = NULL /\ radio'.event # NULL /\ radio'.event.task = task
SignalledAsSent ==
  Signalled("TXDone") =>
    LET event == radio'.event IN
    /\ event.frame # NULL /\ event.frame = radio.txCmd.frame
    /\ event.result = "SUCCESS" => radio.txCmd.status = "IEEE_DONE_OK"
ReportsWhatWasSent == [][SignalledAsSent]_vars

(* A frame given to the driver is reported or taken back, whatever is      *)
(* received meanwhile, also when it has to wait for the end of a           *)
(* transmission that was cancelled late; or the node panics.               *)
EveryFrameIsSent ==
  \A f \in TxFrames :
    radio.txFrame = f ~> radio.txFrame # f \/ radio.panic # NULL

(* The check of RXDone at RFCoreRadioPrv.nc:1105, that a frame was         *)
(* received and there is a buffer to put it in, never fails.               *)
RXDoneCheckHolds == radio.panic # "RXDone"
=============================================================================
