-------------------------------- MODULE XMAC --------------------------------
(***************************************************************************)
(* XMACRadioPrv.nc over the radio driver.  With XMAC a node sleeps and     *)
(* listens in turns; before a frame a sender repeats short strobes until   *)
(* the receiver acknowledges one.  Without it (NO_XMAC) frames go straight *)
(* to the driver.  Which of the two a node does is settled when it boots;  *)
(* in a third, EXTERNAL, the driver has a client that is not in this       *)
(* repository.  The strobe and the acknowledgement are sent from one       *)
(* control frame.                                                          *)
(*                                                                         *)
(* A handler is one step with the part of the driver's task that signals   *)
(* it: an interrupt in between has the same effect before or after both.   *)
(* The timer fires at any time when it runs.                               *)
(***************************************************************************)
EXTENDS RFCoreRadio

CONSTANTS
  controlFrame,     \* one of TxFrames
  numStrobes

ASSUME XMACConstants ==
  /\ controlFrame \in TxFrames /\ numStrobes \in Nat \ {0}
  /\ NULL # "SUCCESS"

VARIABLE mac
macVars == <<radio, mac>>

DataFrames == TxFrames \ {controlFrame}
Contents == {"data", "my strobe", "other strobe", "matching ack", "other ack"}

MacStart(state) ==
  [state |-> state, txFrame |-> NULL, rxFrame |-> NULL, strobesLeft |-> 0,
   timer |-> FALSE,
   result |-> NULL,     \* of the last frame, in sendingFinished
   left |-> NULL]       \* history: the buffer that endRX() left in the driver
MacInit ==
  /\ radio = Start
  /\ mac \in {MacStart(state) : state \in {"EXTERNAL", "NO_XMAC", "OFF"}}

isInTXState(s) ==
  s.mac.state \in {"TX_STROBE", "TX_ACK_WAIT", "TX_BACKOFF", "TX_DATA",
                   "TX_DONE"}
isInRXState(s) ==
  s.mac.state \in {"RX_SLEEP", "RX_STROBE_WAIT", "RX_ACK", "RX_DATA_WAIT",
                   "RX_DATA_WAIT_MORE", "ERR_RX_STUCK"}

(* Operators on s = [mac, radio].  The steps choose c: whether the radio   *)
(* core accepts a transmission, whether the client cancels reception when  *)
(* it is told the end of its own, and the buffer that it gives, or NULL,   *)
(* when it gets one back or has none.                                      *)
Both == [mac |-> mac, radio |-> radio]
Choices ==
  [accepted : BOOLEAN, cancels : BOOLEAN, gives : RxFrames \cup {NULL}]
To(s, state) == [s EXCEPT !.mac.state = state]
WithTimer(s) == [s EXCEPT !.mac.timer = TRUE]
StartTimer(s, state) == WithTimer(To(s, state))
Fails(s) == [s EXCEPT !.radio = Panic(@, "XMAC")]

(* RawFrameReceiver.startReceiving, in an event.                           *)
Gives(s, c) ==
  IF c.gives = NULL \/ s.mac.rxFrame # NULL THEN s
  ELSE [mac |-> [s.mac EXCEPT !.rxFrame = c.gives],
        radio |-> post(s.radio, "RXTXTask")]

isSending(s) == s.radio.txFrame # NULL
isReceiving(s) == s.radio.rxFrame # NULL
LowSend(s, f, c) == [s EXCEPT !.radio = Send(@, f, c.accepted)]
LowReceive(s, c) ==
  [s EXCEPT !.radio = Receive(@, s.mac.rxFrame, c.accepted), !.mac.left = NULL]
LowCancelReceive(s, c) == [s EXCEPT !.radio = CancelReceive(@, c.accepted)]

(* rxFrame is forgotten before reception is cancelled, so that the driver  *)
(* refuses and keeps its buffer.                                           *)
endRX(s, result, c) ==
  LET more == /\ result = "SUCCESS" /\ s.mac.state = "RX_DATA_WAIT"
              /\ s.mac.txFrame = NULL
      next == IF s.mac.state = "NO_XMAC" THEN "NO_XMAC"
              ELSE IF isReceiving(s) THEN "ERR_RX_STUCK"
              ELSE IF more THEN "RX_DATA_WAIT_MORE" ELSE "OFF"
      ended == [s EXCEPT !.mac.state = next, !.mac.rxFrame = NULL,
                         !.mac.left = IF next = "ERR_RX_STUCK"
                                      THEN s.radio.rxFrame ELSE @]
  IN IF s.mac.rxFrame # NULL THEN Gives(ended, c) ELSE ended

sleepRadio(s, c) ==
  IF ~isReceiving(s) THEN StartTimer(s, "RX_SLEEP")
  ELSE IF s.radio.rxFrame # s.mac.rxFrame THEN endRX(s, "EINVAL", c)
  ELSE StartTimer(LowCancelReceive(s, c), "RX_SLEEP")

(* Slip: the driver keeps the buffer.                                      *)
CancelReceiving_Slip(s, c) ==
  IF \/ s.mac.rxFrame = NULL \/ s.radio.rxFrame # s.mac.rxFrame
     \/ s.mac.state \notin {"RX_SLEEP", "RX_STROBE_WAIT", "TX_DONE", "NO_XMAC"}
  THEN s
  ELSE [s EXCEPT !.mac.rxFrame = NULL,
                 !.mac.state = IF @ = "NO_XMAC" THEN @ ELSE "OFF"]
CancelReceiving(s, c) ==
  IF \/ s.mac.rxFrame = NULL \/ s.radio.rxFrame # s.mac.rxFrame
     \/ s.mac.state \notin {"RX_SLEEP", "RX_STROBE_WAIT", "TX_DONE", "NO_XMAC"}
  THEN s
  ELSE [LowCancelReceive(s, c) EXCEPT
          !.mac.rxFrame = NULL,
          !.mac.state = IF @ = "NO_XMAC" THEN @ ELSE "OFF"]

endTX(s, result, c) ==
  LET done == To(s, "TX_DONE")
      ended == IF s.mac.state = "NO_XMAC" THEN s
               ELSE IF isReceiving(done) THEN done ELSE endRX(done, result, c)
      told == [ended EXCEPT !.mac.txFrame = NULL, !.mac.result = result]
      heard == IF c.cancels THEN CancelReceiving(told, c) ELSE Gives(told, c)
  IN IF heard.mac.state = "TX_DONE" THEN sleepRadio(heard, c) ELSE heard

(* A driver that is busy is asked again at the next strobe.                *)
sendStrobe(s, c) ==
  IF isSending(s) THEN StartTimer(s, "TX_ACK_WAIT")
  ELSE LowSend(To(s, "TX_STROBE"), controlFrame, c)
(* Slip: that the driver is busy with another frame is not looked at.      *)
sendData_Slip(s, c) ==
  LET data == To(s, "TX_DATA")
  IN IF isSending(s) THEN data ELSE LowSend(data, s.mac.txFrame, c)
sendData(s, c) ==
  IF isSending(s) THEN endTX(To(s, "TX_DATA"), "EBUSY", c)
  ELSE LowSend(To(s, "TX_DATA"), s.mac.txFrame, c)
sendAck(s, c) ==
  IF isSending(s) THEN endRX(s, "EBUSY", c) ELSE LowSend(s, controlFrame, c)

restartLowRX(s, c) ==
  IF isReceiving(s) THEN s
  ELSE IF s.mac.rxFrame # NULL THEN LowReceive(s, c)
  ELSE IF isInRXState(s) THEN endRX(s, "EINVAL", c)
  ELSE IF isInTXState(s) THEN endTX(s, "EINVAL", c) ELSE s

tryWithoutXMAC(s, c) ==
  LET r == IF s.mac.rxFrame = NULL \/ isReceiving(s) THEN s
           ELSE LowReceive(s, c)
  IN IF r.mac.txFrame # NULL /\ ~isSending(r) THEN LowSend(r, r.mac.txFrame, c)
     ELSE r
Listening(state) ==
  CASE state = "OFF" -> "RX_STROBE_WAIT"
    [] state = "RX_DATA_WAIT_MORE" -> "RX_DATA_WAIT"
    [] OTHER -> state
tryToListen(s, c) ==
  LET t == To(s, Listening(s.mac.state))
  IN IF t.mac.state \notin {"RX_STROBE_WAIT", "RX_DATA_WAIT"} THEN t
     ELSE IF isReceiving(t) THEN endRX(t, "EBUSY", c)
     ELSE StartTimer(LowReceive(t, c), t.mac.state)
tryToRXTX(s, c) ==
  IF s.mac.state = "NO_XMAC" THEN tryWithoutXMAC(s, c)
  ELSE IF s.mac.rxFrame = NULL THEN s
  ELSE IF s.mac.txFrame # NULL /\ ~isInTXState(s) THEN sendStrobe(s, c)
  ELSE tryToListen(s, c)

-----------------------------------------------------------------------------
(* The events of the driver and of the timer.                              *)

sendingFinished(s, result, c) ==
  LET state == s.mac.state
  IN IF \/ state = "NO_XMAC"
        \/ result # "SUCCESS" /\ state \in {"TX_STROBE", "TX_DATA"}
     THEN endTX(s, result, c)
     ELSE IF result # "SUCCESS" THEN
       IF state = "RX_ACK" THEN endRX(s, result, c) ELSE s
     ELSE CASE state = "RX_ACK" ->
                 WithTimer(restartLowRX(To(s, "RX_DATA_WAIT"), c))
            [] state = "TX_STROBE" ->
                 WithTimer(restartLowRX(To(s, "TX_ACK_WAIT"), c))
            [] state = "TX_DATA" -> endTX(s, "SUCCESS", c)
            [] OTHER -> Fails(s)

receivingFinished(s, content, c) ==
  LET state == s.mac.state
  IN CASE state = "NO_XMAC" -> endRX(s, "SUCCESS", c)
       [] state # "NO_XMAC" /\ content = "data" ->
            IF state \in {"RX_STROBE_WAIT", "RX_DATA_WAIT", "RX_DATA_WAIT_MORE"}
            THEN endRX(s, "SUCCESS", c) ELSE restartLowRX(s, c)
       [] state = "RX_STROBE_WAIT" /\ content # "data" ->
            restartLowRX(IF content = "my strobe"
                         THEN sendAck(To(s, "RX_ACK"), c) ELSE s, c)
       [] state = "TX_ACK_WAIT" /\ content # "data" ->
            restartLowRX(IF content = "matching ack"
                         THEN StartTimer(s, "TX_BACKOFF") ELSE s, c)
       [] OTHER -> Fails(s)

(* Slip: the strobes are not counted.                                      *)
TimerFired_Slip(s, c) ==
  CASE s.mac.state = "RX_SLEEP" -> tryToRXTX(To(s, "RX_STROBE_WAIT"), c)
    [] s.mac.state \in {"RX_STROBE_WAIT", "RX_DATA_WAIT"} -> sleepRadio(s, c)
    [] s.mac.state = "RX_DATA_WAIT_MORE" -> To(s, "OFF")
    [] s.mac.state = "TX_ACK_WAIT" -> sendStrobe(s, c)
    [] s.mac.state = "TX_BACKOFF" -> sendData(s, c)
    [] OTHER -> s
TimerFired(s, c) ==
  LET t == [s EXCEPT !.mac.strobesLeft = @ - 1]
  IN CASE s.mac.state = "RX_SLEEP" -> tryToRXTX(To(s, "RX_STROBE_WAIT"), c)
       [] s.mac.state \in {"RX_STROBE_WAIT", "RX_DATA_WAIT"} -> sleepRadio(s, c)
       [] s.mac.state = "RX_DATA_WAIT_MORE" -> To(s, "OFF")
       [] s.mac.state = "TX_ACK_WAIT" ->
            IF t.mac.strobesLeft = 0 THEN endTX(t, "ENOACK", c)
            ELSE sendStrobe(t, c)
       [] s.mac.state = "TX_BACKOFF" -> sendData(s, c)
       [] OTHER -> s

-----------------------------------------------------------------------------
(* Steps.  A task of the driver runs on until it has signalled its event   *)
(* and the handler above has returned.                                     *)
Become(s) == radio' = s.radio /\ mac' = s.mac

SendingTask(c) ==
  /\ Dequeued("TXDone")
  /\ LET s == [Both EXCEPT !.radio = TXDoneOutcome(
                 [radio EXCEPT !.tasks = Tail(@), !.watchdog = FALSE],
                 c.accepted)]
     IN Become(IF s.radio.event = NULL THEN s
               ELSE sendingFinished(s, s.radio.event.result, c))
ReceivingTask(fits, content, c) ==
  /\ Dequeued("RXDone")
  /\ LET s == [Both EXCEPT !.radio = RXDoneOutcome(
                 [radio EXCEPT !.tasks = Tail(@)], fits, c.accepted)]
     IN Become(IF s.radio.event = NULL \/ s.radio.panic # NULL THEN s
               ELSE receivingFinished(s, content, c))
TaskEnds(c) ==
  (TXDoneEnds(c.accepted) \/ RXDoneEnds(c.accepted)) /\ UNCHANGED mac
RXTXTask(c) ==
  /\ Dequeued("RXTXTask")
  /\ Become(tryToRXTX([Both EXCEPT !.radio.tasks = Tail(@)], c))
MacTask ==
  \E c \in Choices :
    \/ SendingTask(c) \/ TaskEnds(c) \/ RXTXTask(c)
    \/ \E fits \in BOOLEAN, content \in Contents :
         ReceivingTask(fits, content, c)

TimerFires ==
  /\ radio.panic = NULL /\ radio.event = NULL /\ mac.timer
  /\ \E c \in Choices : Become(TimerFired([Both EXCEPT !.mac.timer = FALSE], c))

ClientSends(f) ==
  /\ radio.panic = NULL /\ mac.txFrame = NULL
  /\ Become([mac |-> [mac EXCEPT !.txFrame = f, !.result = NULL,
                        !.strobesLeft = IF mac.state = "NO_XMAC" THEN @
                                        ELSE numStrobes],
             radio |-> post(radio, "RXTXTask")])
ClientReceives(f) ==
  /\ radio.panic = NULL /\ mac.rxFrame = NULL
  /\ Become([mac |-> [mac EXCEPT !.rxFrame = f],
             radio |-> post(radio, "RXTXTask")])
(* Not with XMAC (ENOSYS).  txFrame is forgotten whether or not the driver *)
(* has the frame already.                                                  *)
ClientCancelsSending(c) ==
  /\ radio.panic = NULL /\ mac.state = "NO_XMAC" /\ mac.txFrame # NULL
  /\ mac' = [mac EXCEPT !.txFrame = NULL]
  /\ radio' = IF radio.txFrame # mac.txFrame THEN radio
              ELSE CancelSend(radio, c.accepted)
(* With XMAC only when there is nothing to send (the check at line 444).   *)
ClientCancelsReceiving(c) ==
  /\ radio.panic = NULL /\ mac.rxFrame # NULL
  /\ mac.state = "NO_XMAC" \/ (mac.txFrame = NULL /\ radio.event = NULL)
  /\ Become(CancelReceiving(Both, c))
Client ==
  \/ \E f \in DataFrames : ClientSends(f)
  \/ \E f \in RxFrames : ClientReceives(f)
  \/ \E c \in Choices : ClientCancelsSending(c) \/ ClientCancelsReceiving(c)

MacReset ==
  /\ Reset
  /\ mac' = MacStart(IF mac.state = "NO_XMAC" THEN "NO_XMAC" ELSE "OFF")

Internal == mac.state # "EXTERNAL"
Tasks ==
  \/ Internal /\ MacTask
  \/ ~Internal /\ RunTask /\ UNCHANGED mac
SendingEndsNow == SendingEndsSomehow /\ UNCHANGED mac
Receives == Internal /\ \E f \in RxFrames : ClientReceives(f)
MacNext ==
  \/ Tasks \/ SendingEndsNow
  \/ (FrameReceived \/ TXWatchdogTimerFires) /\ UNCHANGED mac
  \/ Internal /\ (TimerFires \/ Client \/ MacReset)
  \/ ~Internal /\ (Command \/ Reset) /\ UNCHANGED mac
MacSpec == MacInit /\ [][MacNext]_macVars
MacFairSpec ==
  /\ MacSpec /\ WF_macVars(Tasks) /\ WF_macVars(SendingEndsNow)
  /\ SF_macVars(Internal /\ TimerFires) /\ WF_macVars(Receives)

-----------------------------------------------------------------------------
(* A frame is reported as sent only if what the radio core sent last was   *)
(* that frame, not a strobe or an acknowledgement in its place             *)
(* (XMACRadioPrv.nc:243-290).                                              *)
ToldAsSent ==
  mac.result = NULL /\ mac'.result = "SUCCESS" =>
    /\ radio.txCmd.frame = mac.txFrame
    /\ radio.txCmd.status = "IEEE_DONE_OK"
SuccessMeansSent == [][ToldAsSent]_macVars

(* Every frame given to the driver or to the MAC layer is reported or      *)
(* taken back, whatever is received meanwhile and whether or not anybody   *)
(* answers the strobes; or the node panics.                                *)
EveryFrameIsAnswered ==
  /\ EveryFrameIsSent
  /\ \A f \in DataFrames :
       mac.txFrame = f ~> mac.txFrame # f \/ radio.panic # NULL

(* The driver receives into no other buffer than the one that the client   *)
(* has given and not got back, except the one that endRX() failed to take  *)
(* back from it (XMACRadioPrv.nc:293-318).                                 *)
BufferIsTheClients ==
  Internal /\ radio.rxFrame # NULL => radio.rxFrame \in {mac.rxFrame, mac.left}

(* XMAC frames come, and the end of transmissions, only in the states that *)
(* expect them: the panics at XMACRadioPrv.nc:287 and 510 are not reached. *)
NothingUnexpected == radio.panic # "XMAC"
=============================================================================
