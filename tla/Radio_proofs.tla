------------------------------ MODULE Radio_proofs --------------------------
(***************************************************************************)
(* Proofs about the radio driver and XMAC, for any frames, any numbers of  *)
(* entries and strobes and any order of commands, interrupts and tasks:    *)
(* the driver reports only what it has sent and receives only into buffers *)
(* of its client, and XMAC reports a frame as sent only if it was.         *)
(*                                                                         *)
(* The lemmas are about the operators on the driver's state r and on the   *)
(* nodes s = [mac, radio]; the steps chain them.                           *)
(***************************************************************************)
EXTENDS XMAC, TLAPS

TaskNames == {"TXDone", "RXDone", "RXTXTask"}
States == {"OFF", "IEEE_IDLE", "RX", "RX_FOR_TX", "RX_DONE", "RX_LATE_CANCEL",
           "RX_END"}
FgStates == {"NONE", "TX", "TX_DONE", "TX_LATE_CANCEL", "TX_END"}
Results == {"SUCCESS", "EINTERNAL"}
Statuses == {"IDLE", "IEEE_DONE_OK", "IEEE_DONE_ABORT"}
Checks == {"popRXQueue", "TXDone", "RXDone", "TX timeout", "XMAC"}
Events ==
  {NULL} \cup [task : TaskNames, frame : TxFrames \cup RxFrames \cup {NULL},
               result : Results]
Commands == [frame : TxFrames \cup {NULL}, status : Statuses]
Radios ==
  [state : States, fgState : FgStates, txFrame : TxFrames \cup {NULL},
   rxFrame : RxFrames \cup {NULL}, fgError : Results, txCmd : Commands,
   finished : Int, tasks : Seq(TaskNames), watchdog : BOOLEAN, event : Events,
   panic : {NULL} \cup Checks]

(* While a transmission is under way or waits for TXDone, txCmd is of the  *)
(* frame that the driver has in hand.                                      *)
CommandIsOfFrame(r) ==
  r.fgState \in {"TX", "TX_DONE"} =>
    r.txFrame # NULL /\ r.txCmd.frame = r.txFrame
Sound(r) == r \in Radios /\ CommandIsOfFrame(r)

(* s is sound, and no event was signalled between r and s.                 *)
Quiet(r, s) == Sound(s) /\ s.event = r.event
(* Nor were the frames in hand exchanged.                                  *)
Kept(r, s) ==
  Quiet(r, s) /\ s.txFrame = r.txFrame /\ s.rxFrame = r.rxFrame

-----------------------------------------------------------------------------
(* post touches nothing but the tasks.                                     *)
LEMMA PostKept ==
  ASSUME NEW r \in Radios, CommandIsOfFrame(r), NEW task \in TaskNames
  PROVE  Kept(r, post(r, task))
<1> DEFINE q == [r EXCEPT !.tasks = Append(@, task)]
<1>1. q \in Radios
  <2>1. r.tasks \in Seq(TaskNames)
    BY DEF Radios
  <2> DEFINE t == Append(r.tasks, task)
  <2>2. t \in Seq(TaskNames)
    BY <2>1
  <2>3. q = [r EXCEPT !.tasks = t]
    BY DEF Radios
  <2> HIDE DEF q, t
  <2> QED  BY <2>2, <2>3 DEF Radios
<1>2. /\ q.fgState = r.fgState /\ q.txFrame = r.txFrame /\ q.txCmd = r.txCmd
      /\ q.rxFrame = r.rxFrame /\ q.event = r.event
  BY DEF Radios
<1>3. post(r, task) = r \/ post(r, task) = q
  BY DEF post
<1> HIDE DEF q
<1>4. Kept(r, q)
  BY <1>1, <1>2 DEF Kept, Quiet, Sound, CommandIsOfFrame
<1>5. Kept(r, r)
  BY DEF Kept, Quiet, Sound
<1> QED  BY <1>3, <1>4, <1>5

(* Nor has the state of the receiver to do with what is sent.              *)
LEMMA StateKept ==
  ASSUME NEW r \in Radios, CommandIsOfFrame(r), NEW state \in States
  PROVE  Kept(r, [r EXCEPT !.state = state])
<1> DEFINE q == [r EXCEPT !.state = state]
<1>1. q \in Radios
  BY DEF Radios
<1>2. /\ q.fgState = r.fgState /\ q.txFrame = r.txFrame /\ q.txCmd = r.txCmd
      /\ q.rxFrame = r.rxFrame /\ q.event = r.event
  BY DEF Radios
<1>3. SUFFICES Kept(r, q)
  OBVIOUS
<1> HIDE DEF q
<1> QED  BY <1>1, <1>2 DEF Kept, Quiet, Sound, CommandIsOfFrame

(* A panic touches nothing but itself.                                     *)
LEMMA PanicKept ==
  ASSUME NEW r \in Radios, CommandIsOfFrame(r), NEW where \in Checks
  PROVE  Kept(r, Panic(r, where))
  BY DEF Kept, Quiet, Sound, CommandIsOfFrame, Radios, Panic

(* The queue of received frames has nothing to do with what is sent.       *)
LEMMA PopKept ==
  ASSUME NEW r \in Radios, CommandIsOfFrame(r)
  PROVE  Kept(r, popRXQueue(r))
<1>1. Kept(r, [r EXCEPT !.finished = @ - 1])
  BY DEF Kept, Quiet, Sound, CommandIsOfFrame, Radios
<1> QED  BY <1>1, PanicKept DEF popRXQueue, Checks

(* Starting and stopping the receiver and switching the radio on leave the *)
(* transmission alone.                                                     *)
LEMMA ReceiverKept ==
  ASSUME NEW r \in Radios, CommandIsOfFrame(r)
  PROVE  Kept(r, startRX(r)) /\ Kept(r, stopRX(r)) /\ Kept(r, requestIEEE(r))
<1>1. Kept(r, startRX(r))
  <2> DEFINE next == IF r.rxFrame = NULL THEN "RX_FOR_TX" ELSE "RX"
  <2>1. next \in States
    BY DEF States
  <2> HIDE DEF next
  <2> DEFINE s == [r EXCEPT !.state = next]
  <2>2. Kept(r, s)
    BY <2>1 DEF Kept, Quiet, Sound, CommandIsOfFrame, Radios
  <2>3. startRX(r) = [s EXCEPT !.finished = 0]
    BY DEF startRX, next
  <2> HIDE DEF s
  <2>4. s \in Radios /\ CommandIsOfFrame(s)
    BY <2>2 DEF Kept, Quiet, Sound
  <2>5. Kept(s, [s EXCEPT !.finished = 0])
    BY <2>4 DEF Kept, Quiet, Sound, CommandIsOfFrame, Radios
  <2> QED  BY <2>2, <2>3, <2>5 DEF Kept, Quiet
<1>2. Kept(r, stopRX(r))
  BY DEF Kept, Quiet, Sound, CommandIsOfFrame, Radios, States, stopRX
<1>3. Kept(r, requestIEEE(r))
  BY DEF Kept, Quiet, Sound, CommandIsOfFrame, Radios, States, requestIEEE
<1> QED  BY <1>1, <1>2, <1>3

(* A transmission is started of the frame in hand, accepted or refused.    *)
LEMMA StartTXKept ==
  ASSUME NEW r \in Radios, CommandIsOfFrame(r), r.txFrame # NULL,
         NEW accepted \in BOOLEAN
  PROVE  Kept(r, startTX(r, accepted))
<1> DEFINE base == IF r.state = "IEEE_IDLE" THEN startRX(r) ELSE r
           s == [base EXCEPT
                   !.txCmd = [frame |-> r.txFrame, status |-> "IDLE"]]
           sent == [s EXCEPT !.fgError = "SUCCESS", !.fgState = "TX"]
           refused == [s EXCEPT !.fgError = "EINTERNAL", !.fgState = "TX_DONE"]
<1>1. /\ base \in Radios /\ base.event = r.event
      /\ base.txFrame = r.txFrame /\ base.rxFrame = r.rxFrame
  BY ReceiverKept DEF Kept, Quiet, Sound
<1>2. /\ s \in Radios /\ s.event = r.event /\ s.txCmd.frame = r.txFrame
      /\ s.txFrame = r.txFrame /\ s.rxFrame = r.rxFrame
  <2> HIDE DEF base
  <2> QED  BY <1>1 DEF Radios, Commands, Statuses
<1> HIDE DEF s
<1>3. Kept(r, sent)
  BY <1>2 DEF Kept, Quiet, Sound, CommandIsOfFrame, Radios, FgStates, Results
<1>4. /\ refused \in Radios /\ CommandIsOfFrame(refused)
      /\ refused.event = r.event
      /\ refused.txFrame = r.txFrame /\ refused.rxFrame = r.rxFrame
  BY <1>2 DEF CommandIsOfFrame, Radios, FgStates, Results
<1>5. Kept(r, post(refused, "TXDone"))
  <2> HIDE DEF refused
  <2> QED  BY <1>4, PostKept DEF Kept, Quiet, TaskNames
<1>6. startTX(r, accepted) = IF accepted THEN sent ELSE post(refused, "TXDone")
  BY DEF startTX, s
<1> QED  BY <1>3, <1>5, <1>6

(* tryToDoSomething signals no event and starts only the frame in hand.    *)
LEMMA TryKept ==
  ASSUME NEW r \in Radios, CommandIsOfFrame(r), NEW accepted \in BOOLEAN
  PROVE  Kept(r, tryToDoSomething(r, accepted))
<1> DEFINE a == Transmission(r, accepted)
           b == Reception(a)
<1>1. Kept(r, a)
  <2>1. CASE r.txFrame # NULL /\ r.fgState = "NONE"
    <3> DEFINE q == requestIEEE(r)
    <3>1. Kept(r, q) /\ q.txFrame = r.txFrame
      BY ReceiverKept DEF Kept
    <3>2. Kept(q, startTX(q, accepted))
      <4> HIDE DEF q
      <4> QED  BY <2>1, <3>1, StartTXKept DEF Kept, Quiet, Sound
    <3>3. a = startTX(q, accepted)
      BY <2>1 DEF Transmission
    <3> HIDE DEF q, a
    <3> QED  BY <3>1, <3>2, <3>3 DEF Kept, Quiet
  <2>2. CASE ~(r.txFrame # NULL /\ r.fgState = "NONE")
    BY <2>2 DEF Transmission, Kept, Quiet, Sound
  <2> QED  BY <2>1, <2>2
<1> HIDE DEF a
<1>2. Kept(a, b)
  <2>1. a \in Radios /\ CommandIsOfFrame(a)
    BY <1>1 DEF Kept, Quiet, Sound
  <2>2. Kept(a, a) /\ Kept(a, startRX(requestIEEE(a)))
    <3> DEFINE q == requestIEEE(a)
    <3>1. Kept(a, q)
      BY <2>1, ReceiverKept
    <3> HIDE DEF q
    <3>2. Kept(q, startRX(q))
      BY <3>1, ReceiverKept DEF Kept, Quiet, Sound
    <3>3. Kept(a, startRX(q))
      BY <3>1, <3>2 DEF Kept, Quiet
    <3> QED  BY <2>1, <3>3 DEF q, Kept, Quiet, Sound
  <2>3. Kept(a, [a EXCEPT !.state = "RX"])
    BY <2>1 DEF Kept, Quiet, Sound, CommandIsOfFrame, Radios, States
  <2> QED  BY <2>2, <2>3 DEF Reception
<1> HIDE DEF b
<1>3. Kept(b, PowerSaving(b))
  BY <1>2 DEF PowerSaving, Kept, Quiet, Sound, CommandIsOfFrame, Radios, States
<1>4. tryToDoSomething(r, accepted) = PowerSaving(b)
  BY DEF tryToDoSomething, a, b
<1> QED  BY <1>1, <1>2, <1>3, <1>4 DEF Kept, Quiet

-----------------------------------------------------------------------------
(* The tasks.                                                              *)

(* Taking a task out of the queue leaves the rest as it is.                *)
LEMMA DequeuedSound ==
  ASSUME Sound(radio), radio.tasks # <<>>
  PROVE  LET r == [radio EXCEPT !.tasks = Tail(@)]
             s == [r EXCEPT !.watchdog = FALSE]
         IN Kept(radio, r) /\ Kept(radio, s) /\ s.txCmd = radio.txCmd
<1>1. Tail(radio.tasks) \in Seq(TaskNames)
  BY DEF Sound, Radios
<1>2. Kept(radio, [radio EXCEPT !.tasks = Tail(@)])
  BY <1>1 DEF Kept, Quiet, Sound, CommandIsOfFrame, Radios
<1>3. Kept(radio, [radio EXCEPT !.tasks = Tail(@), !.watchdog = FALSE])
  BY <1>1 DEF Kept, Quiet, Sound, CommandIsOfFrame, Radios
<1>4. [radio EXCEPT !.tasks = Tail(@), !.watchdog = FALSE].txCmd = radio.txCmd
  BY DEF Sound, Radios
<1> QED  BY <1>2, <1>3, <1>4

(* What TXDone does to a sound driver: after a late cancellation it        *)
(* signals nothing; otherwise it signals the frame of the command.         *)
LEMMA TXDoneOutcomeSound ==
  ASSUME NEW r \in Radios, CommandIsOfFrame(r), NEW accepted \in BOOLEAN
  PROVE  LET s == TXDoneOutcome(r, accepted) IN
         /\ Sound(s) /\ s.rxFrame = r.rxFrame
         /\ \/ s.event = r.event /\ s.txFrame = r.txFrame
            \/ /\ s.txFrame = NULL /\ s.event.frame = r.txFrame
               /\ s.event.frame # NULL /\ s.event.frame = r.txCmd.frame
               /\ s.event.result = "SUCCESS" =>
                    r.txCmd.status = "IEEE_DONE_OK"
<1>1. CASE r.fgState = "TX_LATE_CANCEL"
  <2> DEFINE q == [r EXCEPT !.fgState = "NONE"]
  <2>1. Kept(r, q)
    BY DEF Kept, Quiet, Sound, CommandIsOfFrame, Radios, FgStates
  <2>2. TXDoneOutcome(r, accepted) = tryToDoSomething(q, accepted)
    BY <1>1 DEF TXDoneOutcome
  <2> HIDE DEF q
  <2>3. Kept(q, tryToDoSomething(q, accepted))
    BY <2>1, TryKept DEF Kept, Quiet, Sound
  <2> QED  BY <2>1, <2>2, <2>3 DEF Kept, Quiet
<1>2. CASE r.fgState = "TX_DONE"
  <2> DEFINE error == IF r.txCmd.status = "IEEE_DONE_OK" THEN r.fgError
                      ELSE "EINTERNAL"
             event == Event("TXDone", r.txFrame, error)
             a == [r EXCEPT !.txFrame = NULL, !.fgState = "TX_END"]
             b == [a EXCEPT !.fgError = error, !.txCmd.status = "IDLE"]
             s == [b EXCEPT !.event = event]
  <2>1. /\ error \in Results
        /\ error = "SUCCESS" => r.txCmd.status = "IEEE_DONE_OK"
    BY DEF Results, Radios
  <2> HIDE DEF error
  <2>2. /\ event \in Events /\ event.frame = r.txFrame
        /\ event.result = error
    BY <2>1 DEF Event, Events, Radios, TaskNames
  <2> HIDE DEF event
  <2>3. a \in Radios /\ a.fgState = "TX_END" /\ a.txCmd = r.txCmd
        /\ a.txFrame = NULL /\ a.rxFrame = r.rxFrame
    BY DEF Radios, FgStates
  <2>4. /\ b \in Radios /\ b.fgState = "TX_END"
        /\ b.txFrame = NULL /\ b.rxFrame = r.rxFrame
    <3> HIDE DEF a
    <3>1. [a.txCmd EXCEPT !.status = "IDLE"] \in Commands
      BY <2>3 DEF Radios, Commands, Statuses
    <3> QED  BY <2>1, <2>3, <3>1 DEF Radios
  <2>5. /\ s \in Radios /\ s.fgState = "TX_END" /\ s.event = event
        /\ s.txFrame = NULL /\ s.rxFrame = r.rxFrame
    <3> HIDE DEF b
    <3> QED  BY <2>2, <2>4 DEF Radios
  <2>6. TXDoneOutcome(r, accepted) = s
    BY <1>2 DEF TXDoneOutcome, error, event
  <2>7. r.txFrame # NULL /\ r.txFrame = r.txCmd.frame
    BY <1>2 DEF CommandIsOfFrame
  <2> HIDE DEF s
  <2> QED  BY <2>1, <2>2, <2>5, <2>6, <2>7 DEF Sound, CommandIsOfFrame
<1>3. CASE r.fgState \notin {"TX_LATE_CANCEL", "TX_DONE"}
  <2>1. TXDoneOutcome(r, accepted) = Panic(r, "TXDone")
    BY <1>3 DEF TXDoneOutcome
  <2> QED  BY <2>1, PanicKept DEF Kept, Quiet, Checks
<1> QED  BY <1>1, <1>2, <1>3

(* The task TXDone signals the frame that was sent, or nothing.            *)
LEMMA TXDoneStep ==
  ASSUME Sound(radio), NEW accepted \in BOOLEAN, TXDone(accepted)
  PROVE  Sound(radio') /\ SignalledAsSent
<1> DEFINE r == [radio EXCEPT !.tasks = Tail(@), !.watchdog = FALSE]
<1>1. Kept(radio, r) /\ r.txCmd = radio.txCmd
  BY DequeuedSound DEF TXDone, Dequeued
<1>2. radio' = TXDoneOutcome(r, accepted)
  BY DEF TXDone
<1> HIDE DEF r
<1> QED  BY <1>1, <1>2, TXDoneOutcomeSound
         DEF Kept, Quiet, Sound, SignalledAsSent, Signalled

(* What all steps but TXDone do: the driver stays sound and signals no     *)
(* sendingFinished.                                                        *)
Unsignalled == Sound(radio') /\ ~Signalled("TXDone")

(* A step that leaves the event alone signals nothing.                     *)
LEMMA QuietStep ==
  ASSUME Quiet(radio, radio')
  PROVE  Unsignalled
  BY DEF Quiet, Unsignalled, Signalled

(* Nor does one that leaves the frames in hand alone, as all steps do but  *)
(* the commands and the two tasks.                                         *)
FramesStay ==
  radio'.txFrame = radio.txFrame /\ radio'.rxFrame = radio.rxFrame
LEMMA KeptStep ==
  ASSUME Kept(radio, radio')
  PROVE  Unsignalled /\ FramesStay
  BY QuietStep DEF Kept, FramesStay

(* The end of an event leaves the rest of the driver as it is.             *)
LEMMA EventEnds ==
  ASSUME Sound(radio)
  PROVE  LET r == [radio EXCEPT !.event = NULL]
         IN /\ Sound(r) /\ r.event = NULL
            /\ r.txFrame = radio.txFrame /\ r.rxFrame = radio.rxFrame
  BY DEF Sound, CommandIsOfFrame, Radios, Events

(* After sendingFinished the driver looks for what to do next.             *)
LEMMA TXDoneEndsStep ==
  ASSUME Sound(radio), NEW accepted \in BOOLEAN, TXDoneEnds(accepted)
  PROVE  Unsignalled /\ FramesStay
<1> DEFINE r == [radio EXCEPT !.event = NULL]
           q == [r EXCEPT !.fgState = "NONE"]
<1>1. /\ Sound(r) /\ r.event = NULL
      /\ r.txFrame = radio.txFrame /\ r.rxFrame = radio.rxFrame
  BY EventEnds
<1>2. radio' = IF r.fgState = "TX_END"
               THEN tryToDoSomething(q, accepted) ELSE r
  BY DEF TXDoneEnds
<1> HIDE DEF r
<1>3. Kept(r, q)
  BY <1>1 DEF Kept, Quiet, Sound, CommandIsOfFrame, Radios, FgStates
<1> HIDE DEF q
<1>4. Kept(q, tryToDoSomething(q, accepted))
  BY <1>3, TryKept DEF Kept, Quiet, Sound
<1> QED  BY <1>1, <1>2, <1>3, <1>4
         DEF Kept, Quiet, Unsignalled, FramesStay, Signalled

(* What RXDone does to a sound driver.                                     *)
LEMMA RXDoneOutcomeSound ==
  ASSUME NEW r \in Radios, CommandIsOfFrame(r),
         NEW fits \in BOOLEAN, NEW accepted \in BOOLEAN
  PROVE  LET s == RXDoneOutcome(r, fits, accepted) IN
         /\ Sound(s) /\ s.txFrame = r.txFrame
         /\ \/ s.event = r.event /\ s.rxFrame = r.rxFrame
            \/ s.event.task = "RXDone" /\ s.rxFrame = NULL
<1>1. CASE r.state = "RX_LATE_CANCEL"
  <2> DEFINE q == stopRX(r)
  <2>1. Kept(r, q)
    BY ReceiverKept DEF Kept
  <2>2. RXDoneOutcome(r, fits, accepted) = tryToDoSomething(q, accepted)
    BY <1>1 DEF RXDoneOutcome
  <2> HIDE DEF q
  <2>3. Kept(q, tryToDoSomething(q, accepted))
    BY <2>1, TryKept DEF Kept, Quiet, Sound
  <2> QED  BY <2>1, <2>2, <2>3 DEF Kept, Quiet
<1>2. CASE r.state = "RX_DONE" /\ r.rxFrame # NULL
  <2> DEFINE s == popRXQueue(r)
             event == Event("RXDone", r.rxFrame, "SUCCESS")
             a == [s EXCEPT !.rxFrame = NULL, !.state = "RX_END"]
             b == [a EXCEPT !.event = event]
             c == [s EXCEPT !.state = "RX"]
  <2>1. Kept(r, s)
    BY PopKept DEF Kept
  <2>2. RXDoneOutcome(r, fits, accepted) = IF fits THEN b ELSE c
    BY <1>2 DEF RXDoneOutcome
  <2>3. event \in Events /\ event.task = "RXDone"
    BY DEF Event, Events, Radios, TaskNames, Results
  <2> HIDE DEF s, event
  <2>4. Kept(s, c)
    BY <2>1 DEF Kept, Quiet, Sound, CommandIsOfFrame, Radios, States
  <2>5. Sound(a) /\ a.txFrame = s.txFrame /\ a.rxFrame = NULL
    BY <2>1 DEF Kept, Quiet, Sound, CommandIsOfFrame, Radios, States
  <2> HIDE DEF a
  <2>6. /\ Sound(b) /\ b.event = event
        /\ b.txFrame = a.txFrame /\ b.rxFrame = NULL
    BY <2>3, <2>5 DEF Sound, CommandIsOfFrame, Radios
  <2> HIDE DEF b, c
  <2> QED  BY <2>1, <2>2, <2>3, <2>4, <2>5, <2>6 DEF Kept, Quiet
<1>3. CASE /\ r.state # "RX_LATE_CANCEL"
           /\ ~(r.state = "RX_DONE" /\ r.rxFrame # NULL)
  <2>1. RXDoneOutcome(r, fits, accepted) = Panic(r, "RXDone")
    BY <1>3 DEF RXDoneOutcome
  <2> QED  BY <2>1, PanicKept DEF Kept, Quiet, Checks
<1> QED  BY <1>1, <1>2, <1>3

(* The task RXDone never signals sendingFinished.                          *)
LEMMA RXDoneStep ==
  ASSUME Sound(radio), NEW fits \in BOOLEAN, NEW accepted \in BOOLEAN,
         RXDone(fits, accepted)
  PROVE  Unsignalled
<1> DEFINE r == [radio EXCEPT !.tasks = Tail(@)]
<1>1. Kept(radio, r)
  BY DequeuedSound DEF RXDone, Dequeued
<1>2. radio' = RXDoneOutcome(r, fits, accepted)
  BY DEF RXDone
<1> HIDE DEF r
<1>3. r \in Radios /\ CommandIsOfFrame(r) /\ r.event = radio.event
  BY <1>1 DEF Kept, Quiet, Sound
<1>4. radio'.event = radio.event \/ radio'.event.task = "RXDone"
  BY <1>2, <1>3, RXDoneOutcomeSound
<1> QED  BY <1>2, <1>3, <1>4, RXDoneOutcomeSound
         DEF Unsignalled, Signalled

(* After receivingFinished the driver looks for what to do next.           *)
LEMMA RXDoneEndsStep ==
  ASSUME Sound(radio), NEW accepted \in BOOLEAN, RXDoneEnds(accepted)
  PROVE  Unsignalled /\ FramesStay
<1> DEFINE r == [radio EXCEPT !.event = NULL]
           q == stopRX(r)
<1>1. /\ Sound(r) /\ r.event = NULL
      /\ r.txFrame = radio.txFrame /\ r.rxFrame = radio.rxFrame
  BY EventEnds
<1>2. radio' = IF r.state = "RX_END" THEN tryToDoSomething(q, accepted) ELSE r
  BY DEF RXDoneEnds
<1> HIDE DEF r
<1>3. Kept(r, q)
  BY <1>1, ReceiverKept DEF Kept, Sound
<1> HIDE DEF q
<1>4. Kept(q, tryToDoSomething(q, accepted))
  BY <1>3, TryKept DEF Kept, Quiet, Sound
<1> QED  BY <1>1, <1>2, <1>3, <1>4
         DEF Kept, Quiet, Unsignalled, FramesStay, Signalled

-----------------------------------------------------------------------------
(* The commands.                                                           *)

(* A frame given to the driver when it has none in hand.                   *)
LEMMA SendQuiet ==
  ASSUME NEW r \in Radios, CommandIsOfFrame(r), r.txFrame = NULL,
         NEW f \in TxFrames \cup {NULL}, NEW accepted \in BOOLEAN
  PROVE  LET s == Send(r, f, accepted)
         IN Quiet(r, s) /\ s.txFrame = f /\ s.rxFrame = r.rxFrame
<1> DEFINE q == [r EXCEPT !.txFrame = f, !.watchdog = TRUE]
<1>1. Quiet(r, q) /\ q.txFrame = f /\ q.rxFrame = r.rxFrame
  BY DEF Quiet, Sound, CommandIsOfFrame, Radios
<1>2. Send(r, f, accepted) = tryToDoSomething(q, accepted)
  BY DEF Send
<1> HIDE DEF q
<1>3. Kept(q, tryToDoSomething(q, accepted))
  BY <1>1, TryKept DEF Quiet, Sound
<1> QED  BY <1>1, <1>2, <1>3 DEF Kept, Quiet

(* A frame that is taken back: a TXDone already posted will find           *)
(* TX_LATE_CANCEL.                                                         *)
LEMMA CancelSendQuiet ==
  ASSUME NEW r \in Radios, CommandIsOfFrame(r), NEW accepted \in BOOLEAN
  PROVE  LET s == CancelSend(r, accepted)
         IN Quiet(r, s) /\ s.txFrame = NULL /\ s.rxFrame = r.rxFrame
<1> DEFINE a == [r EXCEPT !.txFrame = NULL, !.watchdog = FALSE]
           late == [a EXCEPT !.fgState = "TX_LATE_CANCEL"]
           q == cancelTX(a)
<1>1. /\ a \in Radios /\ a.event = r.event /\ a.fgState = r.fgState
      /\ a.txFrame = NULL /\ a.rxFrame = r.rxFrame
  BY DEF Radios
<1>2. CancelSend(r, accepted) =
        CASE a.fgState = "TX_DONE" -> late
          [] a.fgState = "TX" -> tryToDoSomething(q, accepted)
          [] OTHER -> a
  BY DEF CancelSend, Cancelled
<1> HIDE DEF a
<1>3. Kept(a, late)
  BY <1>1 DEF Kept, Quiet, Sound, CommandIsOfFrame, Radios, FgStates
<1>4. Kept(a, q)
  <2> DEFINE b == [a EXCEPT !.fgState = "NONE"]
  <2>1. /\ b \in Radios /\ b.fgState = "NONE" /\ b.event = a.event
        /\ b.txFrame = a.txFrame /\ b.rxFrame = a.rxFrame
    BY <1>1 DEF Radios, FgStates
  <2>2. q = [b EXCEPT !.txCmd.status = "IEEE_DONE_ABORT"]
    BY DEF cancelTX
  <2> HIDE DEF b, q
  <2>3. [b.txCmd EXCEPT !.status = "IEEE_DONE_ABORT"] \in Commands
    BY <2>1 DEF Radios, Commands, Statuses
  <2> QED  BY <2>1, <2>2, <2>3
           DEF Kept, Quiet, Sound, CommandIsOfFrame, Radios
<1> HIDE DEF late, q
<1>5. Kept(q, tryToDoSomething(q, accepted))
  BY <1>4, TryKept DEF Kept, Quiet, Sound
<1>6. CASE a.fgState \in {"TX_DONE", "TX"}
  BY <1>1, <1>2, <1>3, <1>4, <1>5, <1>6 DEF Kept, Quiet
<1>7. CASE a.fgState \notin {"TX_DONE", "TX"}
  <2>1. CancelSend(r, accepted) = a
    BY <1>2, <1>7
  <2> QED  BY <1>1, <1>7, <2>1 DEF Quiet, Sound, CommandIsOfFrame
<1> QED  BY <1>6, <1>7

(* A buffer given to the driver, also from receivingFinished.              *)
LEMMA ReceiveQuiet ==
  ASSUME NEW r \in Radios, CommandIsOfFrame(r),
         NEW f \in RxFrames \cup {NULL}, NEW accepted \in BOOLEAN
  PROVE  LET s == Receive(r, f, accepted)
         IN Quiet(r, s) /\ s.txFrame = r.txFrame /\ s.rxFrame = f
<1> DEFINE a == [r EXCEPT !.rxFrame = f]
           q == [a EXCEPT !.state = "RX"]
<1>1. Quiet(r, a) /\ a.txFrame = r.txFrame /\ a.rxFrame = f
  BY DEF Quiet, Sound, CommandIsOfFrame, Radios
<1>2. Receive(r, f, accepted) =
        IF a.state = "RX_END" THEN q ELSE tryToDoSomething(a, accepted)
  BY DEF Receive
<1> HIDE DEF a
<1>3. Kept(a, q)
  BY <1>1, StateKept DEF Quiet, Sound, States
<1>4. Kept(a, tryToDoSomething(a, accepted))
  BY <1>1, TryKept DEF Quiet, Sound
<1> HIDE DEF q
<1> QED  BY <1>1, <1>2, <1>3, <1>4 DEF Kept, Quiet

(* A buffer taken back, also after a frame was received into it.           *)
LEMMA CancelReceiveQuiet ==
  ASSUME NEW r \in Radios, CommandIsOfFrame(r), NEW accepted \in BOOLEAN
  PROVE  LET s == CancelReceive(r, accepted)
         IN Quiet(r, s) /\ s.txFrame = r.txFrame /\ s.rxFrame = NULL
<1> DEFINE a == [r EXCEPT !.rxFrame = NULL]
           late == [a EXCEPT !.state = "RX_LATE_CANCEL"]
           q == CASE a.state = "RX_DONE" -> stopRX(late)
                  [] a.state = "RX" -> stopRX(a)
                  [] OTHER -> a
<1>1. Quiet(r, a) /\ a.txFrame = r.txFrame /\ a.rxFrame = NULL
  BY DEF Quiet, Sound, CommandIsOfFrame, Radios
<1>2. CancelReceive(r, accepted) = tryToDoSomething(q, accepted)
  BY DEF CancelReceive
<1>3. Kept(a, q)
  <2> HIDE DEF a
  <2>1. Kept(a, late)
    BY <1>1, StateKept DEF Quiet, Sound, States
  <2> HIDE DEF late
  <2>2. Kept(late, stopRX(late)) /\ Kept(a, stopRX(a)) /\ Kept(a, a)
    BY <1>1, <2>1, ReceiverKept DEF Kept, Quiet, Sound
  <2>3. q \in {stopRX(late), stopRX(a), a}
    OBVIOUS
  <2> HIDE DEF q
  <2> QED  BY <2>1, <2>2, <2>3 DEF Kept, Quiet
<1> HIDE DEF a, q
<1>4. Kept(q, tryToDoSomething(q, accepted))
  BY <1>3, TryKept DEF Kept, Quiet, Sound
<1> QED  BY <1>1, <1>2, <1>3, <1>4 DEF Kept, Quiet

(* The commands signal nothing.                                            *)
LEMMA CommandStep ==
  ASSUME Sound(radio), Command
  PROVE  Unsignalled
<1>1. ASSUME NEW accepted \in BOOLEAN, NEW f \in TxFrames,
             startSending(f, accepted)
      PROVE  Quiet(radio, radio')
  BY <1>1, SendQuiet DEF startSending, Sound
<1>2. ASSUME NEW accepted \in BOOLEAN, NEW f \in RxFrames,
             startReceiving(f, accepted)
      PROVE  Quiet(radio, radio')
  BY <1>2, ReceiveQuiet DEF startReceiving, Sound
<1>3. ASSUME NEW accepted \in BOOLEAN, cancelSending(accepted)
      PROVE  Quiet(radio, radio')
  BY <1>3, CancelSendQuiet DEF cancelSending, Sound
<1>4. ASSUME NEW accepted \in BOOLEAN, cancelReceiving(accepted)
      PROVE  Quiet(radio, radio')
  BY <1>4, CancelReceiveQuiet DEF cancelReceiving, Sound
<1> QED  BY <1>1, <1>2, <1>3, <1>4, QuietStep DEF Command

-----------------------------------------------------------------------------
(* The interrupts, the timer and the reset.                                *)

(* The interrupt at the end of a transmission posts TXDone.                *)
LEMMA SendingEndsStep ==
  ASSUME Sound(radio), NEW status \in {"IEEE_DONE_OK", "IEEE_DONE_ABORT"},
         SendingEnds(status)
  PROVE  Unsignalled /\ FramesStay
<1> DEFINE r == [radio EXCEPT !.txCmd.status = status]
           q == [r EXCEPT !.fgState = "TX_DONE"]
<1>1. /\ r \in Radios /\ r.event = radio.event /\ r.txFrame # NULL
      /\ r.txCmd.frame = r.txFrame
      /\ r.txFrame = radio.txFrame /\ r.rxFrame = radio.rxFrame
  <2>1. radio.txFrame # NULL /\ radio.txCmd.frame = radio.txFrame
    BY DEF SendingEnds, Sound, CommandIsOfFrame
  <2>2. /\ [radio.txCmd EXCEPT !.status = status] \in Commands
        /\ [radio.txCmd EXCEPT !.status = status].frame = radio.txCmd.frame
    BY DEF Sound, Radios, Commands, Statuses
  <2> QED  BY <2>1, <2>2 DEF Sound, Radios
<1> HIDE DEF r
<1>2. /\ q \in Radios /\ CommandIsOfFrame(q) /\ q.event = r.event
      /\ q.txFrame = r.txFrame /\ q.rxFrame = r.rxFrame
  BY <1>1 DEF CommandIsOfFrame, Radios, FgStates
<1>3. radio' = post(q, "TXDone")
  BY DEF SendingEnds, onLastFGCommandDone, r
<1> HIDE DEF q
<1>4. Kept(q, radio')
  BY <1>2, <1>3, PostKept DEF Kept, TaskNames
<1> QED  BY <1>1, <1>2, <1>4, KeptStep DEF Kept, Quiet

(* The interrupt of a received frame posts RXDone or drops the frame.      *)
LEMMA FrameReceivedStep ==
  ASSUME Sound(radio), FrameReceived
  PROVE  Unsignalled /\ FramesStay
<1> DEFINE r == [radio EXCEPT !.finished = @ + 1]
           q == [r EXCEPT !.state = "RX_DONE"]
<1>1. Kept(radio, r)
  BY DEF Kept, Quiet, Sound, CommandIsOfFrame, Radios
<1>2. radio' = IF r.state = "RX" THEN post(q, "RXDone") ELSE popRXQueue(r)
  BY DEF FrameReceived, onRXDone
<1> HIDE DEF r
<1>3. Kept(r, q)
  BY <1>1 DEF Kept, Quiet, Sound, CommandIsOfFrame, Radios, States
<1> HIDE DEF q
<1>4. Kept(q, post(q, "RXDone")) /\ Kept(r, popRXQueue(r))
  BY <1>1, <1>3, PostKept, PopKept DEF Kept, Quiet, Sound, TaskNames
<1> QED  BY <1>1, <1>2, <1>3, <1>4, KeptStep DEF Kept, Quiet

(* The watchdog of the transmission does nothing or panics.                *)
LEMMA TXWatchdogTimerStep ==
  ASSUME Sound(radio), TXWatchdogTimerFires
  PROVE  Unsignalled /\ FramesStay
<1> DEFINE r == [radio EXCEPT !.watchdog = FALSE]
<1>1. Kept(radio, r)
  BY DEF Kept, Quiet, Sound, CommandIsOfFrame, Radios
<1>2. radio' = IF r.fgState = "TX" THEN Panic(r, "TX timeout") ELSE r
  BY DEF TXWatchdogTimerFires
<1> HIDE DEF r
<1>3. Kept(r, Panic(r, "TX timeout"))
  BY <1>1, PanicKept DEF Kept, Quiet, Sound, Checks
<1> QED  BY <1>1, <1>2, <1>3, KeptStep DEF Kept, Quiet

(* The driver is sound after a reset.                                      *)
LEMMA StartSound == Sound(Start) /\ Start.event = NULL
<1>1. <<>> \in Seq(TaskNames)
  OBVIOUS
<1> QED  BY <1>1 DEF Start, Sound, CommandIsOfFrame, Radios, States, FgStates,
                     Results, Statuses, Commands, Events

(* A reset signals nothing.                                                *)
LEMMA ResetStep ==
  ASSUME Sound(radio), Reset
  PROVE  Unsignalled
  BY StartSound DEF Reset, Unsignalled, Signalled

-----------------------------------------------------------------------------
(* Every step keeps the driver sound and signals what was sent, or nothing.*)
LEMMA NextSound ==
  ASSUME Sound(radio), [Next]_vars
  PROVE  Sound(radio') /\ SignalledAsSent
<1> USE DEF SignalledAsSent, Unsignalled
<1>1. ASSUME NEW accepted \in BOOLEAN, TXDone(accepted)
      PROVE  Sound(radio') /\ SignalledAsSent
  BY <1>1, TXDoneStep
<1>2. ASSUME NEW accepted \in BOOLEAN,
             TXDoneEnds(accepted) \/ RXDoneEnds(accepted)
      PROVE  Sound(radio') /\ SignalledAsSent
  BY <1>2, TXDoneEndsStep, RXDoneEndsStep
<1>3. ASSUME NEW fits \in BOOLEAN, NEW accepted \in BOOLEAN,
             RXDone(fits, accepted)
      PROVE  Sound(radio') /\ SignalledAsSent
  BY <1>3, RXDoneStep
<1>4. CASE Command
  BY <1>4, CommandStep
<1>5. CASE SendingEndsSomehow
  BY <1>5, SendingEndsStep DEF SendingEndsSomehow
<1>6. CASE FrameReceived
  BY <1>6, FrameReceivedStep
<1>7. CASE TXWatchdogTimerFires
  BY <1>7, TXWatchdogTimerStep
<1>8. CASE Reset
  BY <1>8, ResetStep
<1>9. CASE UNCHANGED vars
  <2>1. radio' = radio
    BY <1>9 DEF vars
  <2> QED  BY <2>1, QuietStep DEF Quiet
<1> QED  BY <1>1, <1>2, <1>3, <1>4, <1>5, <1>6, <1>7, <1>8, <1>9
         DEF Next, RunTask

(* The driver is sound in every state: what it has in hand and what the    *)
(* radio core was told to send are one frame.                              *)
THEOREM DriverSound == Spec => []Sound(radio)
<1>1. Init => Sound(radio)
  BY StartSound DEF Init
<1>2. Sound(radio) /\ [Next]_vars => Sound(radio)'
  BY NextSound
<1> QED  BY <1>1, <1>2, PTL DEF Spec

(* sendingFinished is signalled only for the frame that was transmitted    *)
(* last, and with SUCCESS only if the radio core has sent it.              *)
THEOREM OnlyWhatWasSentIsReported == Spec => ReportsWhatWasSent
<1>1. Sound(radio) /\ [Next]_vars => [SignalledAsSent]_vars
  BY NextSound
<1> QED  BY <1>1, DriverSound, PTL DEF Spec, ReportsWhatWasSent

-----------------------------------------------------------------------------
(* XMAC over the driver: whatever the layer above does, the driver signals *)
(* what it has sent, receives into buffers of the client, and the layer    *)
(* above reports as sent what the radio core has sent.                     *)

MacStates ==
  {"NO_XMAC", "OFF", "RX_SLEEP", "RX_STROBE_WAIT", "RX_ACK", "RX_DATA_WAIT",
   "RX_DATA_WAIT_MORE", "ERR_RX_STUCK", "TX_STROBE", "TX_ACK_WAIT",
   "TX_BACKOFF", "TX_DATA", "TX_DONE"}
Failures == {"EINTERNAL", "EINVAL", "EBUSY", "ENOACK"}
MacResults == {"SUCCESS"} \cup Failures
Macs ==
  [state : MacStates, txFrame : DataFrames \cup {NULL},
   rxFrame : RxFrames \cup {NULL}, strobesLeft : Int, timer : BOOLEAN,
   result : MacResults \cup {NULL}, left : RxFrames \cup {NULL}]

(* The driver has no other buffer than the one of the client and the one   *)
(* that endRX() left there.                                                *)
Buffered(s) ==
  s.radio.rxFrame # NULL => s.radio.rxFrame \in {s.mac.rxFrame, s.mac.left}
Node(s) ==
  s \in [mac : Macs, radio : Radios] /\ CommandIsOfFrame(s.radio) /\ Buffered(s)

(* What the driver sends without XMAC, and after the strobes, is the frame *)
(* of the client.                                                          *)
InHand(s) ==
  s.mac.state \in {"NO_XMAC", "TX_DATA"} /\ s.radio.txFrame # NULL =>
    s.radio.txFrame = s.mac.txFrame

(* t comes from s by a part of a handler that is not about sending ...     *)
Keeps(s, t) ==
  /\ Node(t) /\ t.radio.event = s.radio.event
  /\ t.radio.txFrame = s.radio.txFrame
  /\ t.mac.txFrame = s.mac.txFrame /\ t.mac.result = s.mac.result
  /\ t.mac.state = "NO_XMAC" <=> s.mac.state = "NO_XMAC"
  /\ t.mac.state = "TX_DATA" => s.mac.state = "TX_DATA"
(* ... and by any that may end in one of these results.                    *)
Leads(s, t, results) ==
  /\ Node(t) /\ InHand(t) /\ t.radio.event = s.radio.event
  /\ t.mac.result \in {s.mac.result} \cup results

(* Keeps may be followed by either.                                        *)
LEMMA KeepsThen ==
  ASSUME NEW s, NEW t, Keeps(s, t)
  PROVE  /\ \A u : Keeps(t, u) => Keeps(s, u)
         /\ \A u, results : Leads(t, u, results) => Leads(s, u, results)
         /\ \A results : InHand(s) => Leads(s, t, results)
  BY DEF Keeps, Leads, InHand

LEMMA LeadsThen ==
  ASSUME NEW s, NEW t, NEW results, Leads(s, t, results)
  PROVE  /\ \A u : Keeps(t, u) => Leads(s, u, results)
         /\ \A u : Leads(t, u, results) => Leads(s, u, results)
  BY DEF Keeps, Leads, InHand

(* The operators on nodes change one field of one half.                    *)
LEMMA RadioChanges ==
  ASSUME NEW s, Node(s), NEW r, Quiet(s.radio, r)
  PROVE  LET t == [s EXCEPT !.radio = r] IN
         /\ t \in [mac : Macs, radio : Radios] /\ CommandIsOfFrame(t.radio)
         /\ t.mac = s.mac /\ t.radio = r
  BY DEF Node, Quiet, Sound
LEMMA MacChanges ==
  ASSUME NEW s, Node(s), NEW m \in Macs
  PROVE  LET t == [s EXCEPT !.mac = m] IN
         /\ t \in [mac : Macs, radio : Radios] /\ CommandIsOfFrame(t.radio)
         /\ t.mac = m /\ t.radio = s.radio
  BY DEF Node

(* A change of state.                                                      *)
LEMMA ToKeeps ==
  ASSUME NEW s, Node(s), NEW state \in MacStates \ {"NO_XMAC"}
  PROVE  LET t == To(s, state) IN
         /\ Node(t) /\ t.radio = s.radio /\ t.mac.state = state
         /\ t.mac.txFrame = s.mac.txFrame /\ t.mac.rxFrame = s.mac.rxFrame
         /\ t.mac.result = s.mac.result /\ t.mac.left = s.mac.left
         /\ /\ s.mac.state # "NO_XMAC"
            /\ state = "TX_DATA" => s.mac.state = "TX_DATA"
            => Keeps(s, t)
<1> DEFINE m == [s.mac EXCEPT !.state = state]
<1>1. /\ m \in Macs /\ m.state = state
      /\ m.txFrame = s.mac.txFrame /\ m.rxFrame = s.mac.rxFrame
      /\ m.result = s.mac.result /\ m.left = s.mac.left
  BY DEF Node, Macs
<1>2. To(s, state) = [s EXCEPT !.mac = m]
  BY DEF To
<1> HIDE DEF m
<1> QED  BY <1>1, <1>2, MacChanges DEF Node, Buffered, Keeps

(* The timer is started.                                                   *)
LEMMA TimerKeeps ==
  ASSUME NEW s, Node(s)
  PROVE  /\ Keeps(s, WithTimer(s)) /\ WithTimer(s).radio = s.radio
         /\ WithTimer(s).mac.state = s.mac.state
<1> DEFINE m == [s.mac EXCEPT !.timer = TRUE]
<1>1. /\ m \in Macs /\ m.state = s.mac.state
      /\ m.txFrame = s.mac.txFrame /\ m.rxFrame = s.mac.rxFrame
      /\ m.result = s.mac.result /\ m.left = s.mac.left
  BY DEF Node, Macs
<1>2. WithTimer(s) = [s EXCEPT !.mac = m]
  BY DEF WithTimer
<1> HIDE DEF m
<1> QED  BY <1>1, <1>2, MacChanges DEF Node, Buffered, Keeps
LEMMA StartTimerKeeps ==
  ASSUME NEW s, Node(s), s.mac.state # "NO_XMAC",
         NEW state \in MacStates \ {"NO_XMAC", "TX_DATA"}
  PROVE  LET t == StartTimer(s, state)
         IN Keeps(s, t) /\ t.mac.state = state
<1> DEFINE t == To(s, state)
<1>1. Keeps(s, t) /\ t.mac.state = state
  BY ToKeeps
<1>2. Node(t)
  BY <1>1 DEF Keeps
<1> HIDE DEF t
<1>3. Keeps(t, WithTimer(t)) /\ WithTimer(t).mac.state = t.mac.state
  BY <1>2, TimerKeeps
<1> QED  BY <1>1, <1>3, KeepsThen DEF StartTimer, t

(* A client gives a buffer when it has none in.                            *)
LEMMA GivesKeeps ==
  ASSUME NEW s, Node(s), NEW c \in Choices
  PROVE  LET t == Gives(s, c)
         IN Keeps(s, t) /\ t.mac.state = s.mac.state
<1>1. CASE c.gives = NULL \/ s.mac.rxFrame # NULL
  BY <1>1 DEF Gives, Keeps
<1>2. CASE c.gives # NULL /\ s.mac.rxFrame = NULL
  <2> DEFINE m == [s.mac EXCEPT !.rxFrame = c.gives]
             r == post(s.radio, "RXTXTask")
             t == [mac |-> m, radio |-> r]
  <2>1. c.gives \in RxFrames
    BY <1>2 DEF Choices
  <2>2. /\ m \in Macs /\ m.state = s.mac.state /\ m.rxFrame = c.gives
        /\ m.txFrame = s.mac.txFrame
        /\ m.result = s.mac.result /\ m.left = s.mac.left
    BY <2>1 DEF Node, Macs
  <2>3. Kept(s.radio, r)
    BY PostKept DEF Node, TaskNames
  <2>4. Gives(s, c) = t
    BY <1>2 DEF Gives
  <2> HIDE DEF m, r
  <2>5. Node(t)
    BY <1>2, <2>2, <2>3 DEF Node, Buffered, Kept, Quiet, Sound
  <2> QED  BY <2>2, <2>3, <2>4, <2>5 DEF Keeps, Kept, Quiet
<1> QED  BY <1>1, <1>2

(* The commands of the driver as the layer above uses them.                *)
LEMMA LowSendLeads ==
  ASSUME NEW s, Node(s), NEW f \in TxFrames \cup {NULL}, NEW c \in Choices,
         s.radio.txFrame = NULL
  PROVE  LET t == LowSend(s, f, c) IN
         /\ Node(t) /\ t.mac = s.mac /\ t.radio.event = s.radio.event
         /\ t.radio.txFrame = f
<1> DEFINE r == Send(s.radio, f, c.accepted)
<1>1. Quiet(s.radio, r) /\ r.txFrame = f /\ r.rxFrame = s.radio.rxFrame
  BY SendQuiet DEF Node, Choices
<1>2. LowSend(s, f, c) = [s EXCEPT !.radio = r]
  BY DEF LowSend
<1> HIDE DEF r
<1> QED  BY <1>1, <1>2, RadioChanges DEF Node, Buffered, Quiet
LEMMA LowReceiveKeeps ==
  ASSUME NEW s, Node(s), NEW c \in Choices
  PROVE  LET t == LowReceive(s, c) IN
         /\ Keeps(s, t) /\ t.mac.state = s.mac.state
         /\ t.radio.rxFrame = s.mac.rxFrame
<1> DEFINE r == Receive(s.radio, s.mac.rxFrame, c.accepted)
           t == [s EXCEPT !.radio = r]
           m == [t.mac EXCEPT !.left = NULL]
           u == [t EXCEPT !.mac = m]
<1>1. /\ Quiet(s.radio, r) /\ r.txFrame = s.radio.txFrame
      /\ r.rxFrame = s.mac.rxFrame
  BY ReceiveQuiet DEF Node, Choices, Macs
<1>2. LowReceive(s, c) = u
  BY DEF LowReceive
<1> HIDE DEF r
<1>3. /\ t \in [mac : Macs, radio : Radios] /\ CommandIsOfFrame(t.radio)
      /\ t.mac = s.mac /\ t.radio = r
  BY <1>1, RadioChanges
<1> HIDE DEF t
<1>4. /\ m \in Macs /\ m.state = s.mac.state /\ m.rxFrame = s.mac.rxFrame
      /\ m.txFrame = s.mac.txFrame /\ m.result = s.mac.result
  BY <1>3 DEF Macs
<1> HIDE DEF m
<1>5. /\ u \in [mac : Macs, radio : Radios] /\ CommandIsOfFrame(u.radio)
      /\ u.mac = m /\ u.radio = r
  BY <1>3, <1>4
<1> QED  BY <1>1, <1>2, <1>4, <1>5 DEF Keeps, Node, Buffered, Quiet
LEMMA LowCancelReceiveKeeps ==
  ASSUME NEW s, Node(s), NEW c \in Choices
  PROVE  LET t == LowCancelReceive(s, c) IN
         Keeps(s, t) /\ t.mac = s.mac /\ t.radio.rxFrame = NULL
<1> DEFINE r == CancelReceive(s.radio, c.accepted)
<1>1. /\ Quiet(s.radio, r) /\ r.txFrame = s.radio.txFrame
      /\ r.rxFrame = NULL
  BY CancelReceiveQuiet DEF Node, Choices
<1>2. LowCancelReceive(s, c) = [s EXCEPT !.radio = r]
  BY DEF LowCancelReceive
<1> HIDE DEF r
<1> QED  BY <1>1, <1>2, RadioChanges DEF Keeps, Node, Buffered, Quiet

(* A panic of the layer above.                                             *)
LEMMA FailsKeeps ==
  ASSUME NEW s, Node(s)
  PROVE  Keeps(s, Fails(s))
<1> DEFINE r == Panic(s.radio, "XMAC")
<1>1. Kept(s.radio, r)
  BY PanicKept DEF Node, Checks
<1>2. Fails(s) = [s EXCEPT !.radio = r]
  BY DEF Fails
<1> HIDE DEF r
<1> QED  BY <1>1, <1>2, RadioChanges DEF Keeps, Node, Buffered, Kept, Quiet

(* The end of a reception.  The buffer that the driver keeps is            *)
(* remembered; without XMAC it keeps none.                                 *)
LEMMA EndRXKeeps ==
  ASSUME NEW s, Node(s), NEW result, NEW c \in Choices,
         s.mac.state = "NO_XMAC" => s.radio.rxFrame = NULL
  PROVE  LET t == endRX(s, result, c)
         IN Keeps(s, t) /\ t.mac.state # "TX_DATA" /\ t.mac.state # "TX_DONE"
<1> DEFINE more == /\ result = "SUCCESS" /\ s.mac.state = "RX_DATA_WAIT"
                   /\ s.mac.txFrame = NULL
           next == IF s.mac.state = "NO_XMAC" THEN "NO_XMAC"
                   ELSE IF isReceiving(s) THEN "ERR_RX_STUCK"
                   ELSE IF more THEN "RX_DATA_WAIT_MORE" ELSE "OFF"
           left == IF next = "ERR_RX_STUCK" THEN s.radio.rxFrame
                   ELSE s.mac.left
           a == [s.mac EXCEPT !.state = next]
           b == [a EXCEPT !.rxFrame = NULL]
           m == [b EXCEPT !.left = left]
           t == [s EXCEPT !.mac = m]
<1>1. /\ next \in MacStates \ {"TX_DATA", "TX_DONE"}
      /\ next = "NO_XMAC" <=> s.mac.state = "NO_XMAC"
      /\ next = "ERR_RX_STUCK" \/ s.radio.rxFrame = NULL
  BY DEF MacStates, isReceiving
<1> HIDE DEF next
<1>2. /\ left \in RxFrames \cup {NULL}
      /\ s.radio.rxFrame \in {NULL, left}
  BY <1>1 DEF Node, Macs, Radios
<1> HIDE DEF left
<1>3. /\ m \in Macs /\ m.state = next /\ m.txFrame = s.mac.txFrame
      /\ m.result = s.mac.result /\ m.left = left
  BY <1>1, <1>2 DEF Node, Macs
<1>4. endRX(s, result, c) = IF s.mac.rxFrame # NULL THEN Gives(t, c) ELSE t
  <2> DEFINE ended == [s EXCEPT !.mac.state = next, !.mac.rxFrame = NULL,
                                !.mac.left = IF next = "ERR_RX_STUCK"
                                             THEN s.radio.rxFrame ELSE @]
  <2>1. ended = t
    BY DEF left, Node, Macs
  <2>2. endRX(s, result, c) =
          IF s.mac.rxFrame # NULL THEN Gives(ended, c) ELSE ended
    BY DEF endRX, next
  <2> QED  BY <2>1, <2>2
<1> HIDE DEF m
<1>5. Keeps(s, t) /\ t.mac.state = next
  BY <1>1, <1>2, <1>3, MacChanges DEF Keeps, Node, Buffered
<1> HIDE DEF t
<1>6. Keeps(t, Gives(t, c)) /\ Gives(t, c).mac.state = t.mac.state
  BY <1>5, GivesKeeps DEF Keeps
<1>7. Keeps(s, Gives(t, c))
  BY <1>5, <1>6, KeepsThen
<1> QED  BY <1>1, <1>4, <1>5, <1>6, <1>7

(* The radio is put to sleep.                                              *)
LEMMA SleepKeeps ==
  ASSUME NEW s, Node(s), NEW c \in Choices, s.mac.state # "NO_XMAC"
  PROVE  LET t == sleepRadio(s, c)
         IN Keeps(s, t) /\ t.mac.state # "TX_DATA"
<1>1. LET t == StartTimer(s, "RX_SLEEP")
      IN Keeps(s, t) /\ t.mac.state = "RX_SLEEP"
  BY StartTimerKeeps DEF MacStates
<1>2. LET t == endRX(s, "EINVAL", c)
      IN Keeps(s, t) /\ t.mac.state # "TX_DATA"
  BY EndRXKeeps
<1>3. LET t == StartTimer(LowCancelReceive(s, c), "RX_SLEEP")
      IN Keeps(s, t) /\ t.mac.state = "RX_SLEEP"
  <2> DEFINE u == LowCancelReceive(s, c)
  <2>1. Keeps(s, u) /\ u.mac = s.mac
    BY LowCancelReceiveKeeps
  <2> HIDE DEF u
  <2>2. Keeps(u, StartTimer(u, "RX_SLEEP"))
        /\ StartTimer(u, "RX_SLEEP").mac.state = "RX_SLEEP"
    BY <2>1, StartTimerKeeps DEF Keeps, MacStates
  <2>3. Keeps(s, StartTimer(u, "RX_SLEEP"))
    BY <2>1, <2>2, KeepsThen
  <2> QED  BY <2>2, <2>3 DEF u
<1> QED  BY <1>1, <1>2, <1>3 DEF sleepRadio

(* The client takes its buffer back, or the driver refuses.                *)
LEMMA CancelReceivingKeeps ==
  ASSUME NEW s, Node(s), NEW c \in Choices
  PROVE  Keeps(s, CancelReceiving(s, c))
<1> DEFINE u == LowCancelReceive(s, c)
           next == IF u.mac.state = "NO_XMAC" THEN u.mac.state ELSE "OFF"
           a == [u.mac EXCEPT !.rxFrame = NULL]
           m == [a EXCEPT !.state = next]
           t == [u EXCEPT !.mac = m]
<1>1. Keeps(s, u) /\ u.mac = s.mac /\ u.radio.rxFrame = NULL
  BY LowCancelReceiveKeeps
<1>2. CancelReceiving(s, c) \in {s, t}
  <2> DEFINE v == [u EXCEPT !.mac.rxFrame = NULL,
                            !.mac.state = IF @ = "NO_XMAC" THEN @ ELSE "OFF"]
  <2>1. v = t
    <3> HIDE DEF u
    <3> QED  BY <1>1 DEF Keeps, Node, Macs
  <2>2. CancelReceiving(s, c) \in {s, v}
    BY DEF CancelReceiving
  <2> QED  BY <2>1, <2>2
<1> HIDE DEF u
<1>3. Node(u)
  BY <1>1 DEF Keeps
<1>4. /\ next \in MacStates /\ next # "TX_DATA"
      /\ next = "NO_XMAC" <=> u.mac.state = "NO_XMAC"
  BY DEF MacStates
<1> HIDE DEF next
<1>5. /\ m \in Macs /\ m.state = next /\ m.txFrame = u.mac.txFrame
      /\ m.result = u.mac.result
  BY <1>3, <1>4 DEF Node, Macs
<1> HIDE DEF m
<1>6. Keeps(u, t)
  BY <1>1, <1>3, <1>4, <1>5, MacChanges DEF Keeps, Node, Buffered
<1>7. Keeps(s, t) /\ Keeps(s, s)
  BY <1>1, <1>6, KeepsThen DEF Keeps
<1> QED  BY <1>2, <1>7

(* The end of a sending is told with its result.  Without XMAC the driver  *)
(* is done with the frame.                                                 *)
LEMMA EndTXLeads ==
  ASSUME NEW s, Node(s), NEW result \in MacResults, NEW c \in Choices,
         s.mac.state = "NO_XMAC" => s.radio.txFrame = NULL
  PROVE  Leads(s, endTX(s, result, c), {result})
<1> DEFINE done == To(s, "TX_DONE")
           ended == IF s.mac.state = "NO_XMAC" THEN s
                    ELSE IF isReceiving(done) THEN done
                    ELSE endRX(done, result, c)
           a == [ended.mac EXCEPT !.txFrame = NULL]
           m == [a EXCEPT !.result = result]
           told == [ended EXCEPT !.mac = m]
           heard == IF c.cancels THEN CancelReceiving(told, c)
                    ELSE Gives(told, c)
<1>1. Keeps(s, ended) /\ ended.mac.state # "TX_DATA"
  <2>1. CASE s.mac.state = "NO_XMAC"
    BY <2>1 DEF Keeps
  <2>2. CASE s.mac.state # "NO_XMAC"
    <3>1. Keeps(s, done) /\ done.mac.state = "TX_DONE"
      BY <2>2, ToKeeps DEF MacStates
    <3> HIDE DEF done
    <3>2. Keeps(done, endRX(done, result, c))
          /\ endRX(done, result, c).mac.state # "TX_DATA"
      BY <3>1, EndRXKeeps DEF Keeps
    <3>3. Keeps(s, endRX(done, result, c))
      BY <3>1, <3>2, KeepsThen
    <3> QED  BY <2>2, <3>1, <3>2, <3>3
  <2> QED  BY <2>1, <2>2
<1>2. endTX(s, result, c) =
        IF heard.mac.state = "TX_DONE" THEN sleepRadio(heard, c) ELSE heard
  <2> DEFINE v == [ended EXCEPT !.mac.txFrame = NULL, !.mac.result = result]
             w == IF c.cancels THEN CancelReceiving(v, c) ELSE Gives(v, c)
  <2>1. v = told
    <3> HIDE DEF ended
    <3> QED  BY <1>1 DEF Keeps, Node, Macs
  <2>2. endTX(s, result, c) =
          IF w.mac.state = "TX_DONE" THEN sleepRadio(w, c) ELSE w
    BY DEF endTX
  <2> HIDE DEF v, told
  <2> QED  BY <2>1, <2>2
<1> HIDE DEF ended
<1>3. Node(ended)
  BY <1>1 DEF Keeps
<1>4. /\ m \in Macs /\ m.state = ended.mac.state /\ m.result = result
      /\ m.rxFrame = ended.mac.rxFrame /\ m.left = ended.mac.left
  BY <1>3 DEF Node, Macs
<1> HIDE DEF m
<1>5. /\ Node(told) /\ told.mac = m /\ told.radio = ended.radio
  BY <1>3, <1>4, MacChanges DEF Node, Buffered
<1> HIDE DEF told
<1>6. Leads(s, told, {result})
  BY <1>1, <1>4, <1>5 DEF Leads, Keeps, InHand
<1>7. Keeps(told, heard)
  BY <1>5, CancelReceivingKeeps, GivesKeeps
<1> HIDE DEF heard
<1>8. Leads(s, heard, {result})
  BY <1>6, <1>7, LeadsThen
<1>9. CASE heard.mac.state = "TX_DONE"
  <2>1. Keeps(heard, sleepRadio(heard, c))
    BY <1>7, <1>9, SleepKeeps DEF Keeps
  <2> QED  BY <1>2, <1>8, <1>9, <2>1, LeadsThen
<1> QED  BY <1>2, <1>8, <1>9

(* What the layer above sends: the control frame, or the client's frame    *)
(* when the strobes are over.                                              *)
LEMMA SendsControl ==
  ASSUME NEW s, Node(s), NEW c \in Choices, s.radio.txFrame = NULL,
         s.mac.state \notin {"NO_XMAC", "TX_DATA"}
  PROVE  Leads(s, LowSend(s, controlFrame, c), Failures)
  BY LowSendLeads, XMACConstants DEF Leads, InHand
LEMMA SendStrobeLeads ==
  ASSUME NEW s, Node(s), NEW c \in Choices, s.mac.state # "NO_XMAC"
  PROVE  Leads(s, sendStrobe(s, c), Failures)
<1>1. CASE isSending(s)
  <2> DEFINE t == StartTimer(s, "TX_ACK_WAIT")
  <2>1. Keeps(s, t) /\ t.mac.state = "TX_ACK_WAIT"
    BY StartTimerKeeps DEF MacStates
  <2> QED  BY <1>1, <2>1 DEF sendStrobe, Keeps, Leads, InHand
<1>2. CASE ~isSending(s)
  <2> DEFINE t == To(s, "TX_STROBE")
  <2>1. /\ Node(t) /\ t.radio = s.radio /\ t.mac.state = "TX_STROBE"
        /\ t.mac.result = s.mac.result
    BY ToKeeps DEF MacStates
  <2>2. sendStrobe(s, c) = LowSend(t, controlFrame, c)
    BY <1>2 DEF sendStrobe
  <2> HIDE DEF t
  <2>3. Leads(t, LowSend(t, controlFrame, c), Failures)
    BY <1>2, <2>1, SendsControl DEF isSending
  <2> QED  BY <2>1, <2>2, <2>3 DEF Leads
<1> QED  BY <1>1, <1>2
LEMMA SendDataLeads ==
  ASSUME NEW s, Node(s), NEW c \in Choices, s.mac.state # "NO_XMAC"
  PROVE  Leads(s, sendData(s, c), Failures)
<1> DEFINE t == To(s, "TX_DATA")
<1>1. /\ Node(t) /\ t.radio = s.radio /\ t.mac.state = "TX_DATA"
      /\ t.mac.txFrame = s.mac.txFrame /\ t.mac.result = s.mac.result
  BY ToKeeps DEF MacStates
<1>2. sendData(s, c) = IF isSending(s) THEN endTX(t, "EBUSY", c)
                       ELSE LowSend(t, s.mac.txFrame, c)
  BY DEF sendData
<1> HIDE DEF t
<1>3. Leads(t, endTX(t, "EBUSY", c), {"EBUSY"})
  BY <1>1, EndTXLeads DEF MacResults, Failures
<1>4. CASE ~isSending(s)
  <2> DEFINE u == LowSend(t, s.mac.txFrame, c)
  <2>1. s.mac.txFrame \in TxFrames \cup {NULL}
    BY DEF Node, Macs, DataFrames
  <2>2. /\ Node(u) /\ u.mac = t.mac /\ u.radio.event = t.radio.event
        /\ u.radio.txFrame = s.mac.txFrame
    BY <1>1, <1>4, <2>1, LowSendLeads DEF isSending
  <2> HIDE DEF u
  <2> QED  BY <1>1, <1>2, <1>4, <2>2 DEF u, Leads, InHand
<1> QED  BY <1>1, <1>2, <1>3, <1>4 DEF Leads, Failures
LEMMA SendAckLeads ==
  ASSUME NEW s, Node(s), NEW c \in Choices,
         s.mac.state \notin {"NO_XMAC", "TX_DATA"}
  PROVE  Leads(s, sendAck(s, c), Failures)
<1>1. Keeps(s, endRX(s, "EBUSY", c)) /\ InHand(s)
  BY EndRXKeeps DEF InHand
<1>2. CASE isSending(s)
  BY <1>1, <1>2, KeepsThen DEF sendAck
<1>3. CASE ~isSending(s)
  BY <1>3, SendsControl DEF sendAck, isSending
<1> QED  BY <1>2, <1>3

(* Receiving again after a frame.                                          *)
LEMMA RestartLeads ==
  ASSUME NEW s, Node(s), InHand(s), NEW c \in Choices
  PROVE  Leads(s, restartLowRX(s, c), Failures)
<1>1. Leads(s, s, Failures)
  BY DEF Leads
<1>2. Leads(s, LowReceive(s, c), Failures)
  BY LowReceiveKeeps, KeepsThen
<1>3. CASE isInRXState(s)
  <2>1. Keeps(s, endRX(s, "EINVAL", c))
    BY <1>3, EndRXKeeps DEF isInRXState
  <2>2. Leads(s, endRX(s, "EINVAL", c), Failures)
    BY <2>1, KeepsThen
  <2> QED  BY <1>1, <1>2, <1>3, <2>2 DEF restartLowRX
<1>4. CASE ~isInRXState(s) /\ isInTXState(s)
  <2>1. Leads(s, endTX(s, "EINVAL", c), {"EINVAL"})
    BY <1>4, EndTXLeads DEF isInTXState, MacResults, Failures
  <2>2. Leads(s, endTX(s, "EINVAL", c), Failures)
    BY <2>1 DEF Leads, Failures
  <2> QED  BY <1>1, <1>2, <1>4, <2>2 DEF restartLowRX
<1>5. CASE ~isInRXState(s) /\ ~isInTXState(s)
  BY <1>1, <1>2, <1>5 DEF restartLowRX
<1> QED  BY <1>3, <1>4, <1>5

(* The task of the layer above.                                            *)
LEMMA TryWithoutLeads ==
  ASSUME NEW s, Node(s), InHand(s), NEW c \in Choices,
         s.mac.state = "NO_XMAC"
  PROVE  Leads(s, tryWithoutXMAC(s, c), Failures)
<1> DEFINE r == IF s.mac.rxFrame = NULL \/ isReceiving(s) THEN s
                ELSE LowReceive(s, c)
           t == LowSend(r, r.mac.txFrame, c)
<1>1. Leads(s, r, Failures)
  BY LowReceiveKeeps, KeepsThen DEF Leads
<1>2. tryWithoutXMAC(s, c) = IF r.mac.txFrame # NULL /\ ~isSending(r)
                             THEN t ELSE r
  BY DEF tryWithoutXMAC
<1> HIDE DEF r
<1>3. ASSUME ~isSending(r)
      PROVE  Leads(r, t, Failures)
  <2>1. r.mac.txFrame \in TxFrames \cup {NULL} /\ Node(r)
    BY <1>1 DEF Leads, Node, Macs, DataFrames
  <2>2. /\ Node(t) /\ t.mac = r.mac /\ t.radio.event = r.radio.event
        /\ t.radio.txFrame = r.mac.txFrame
    BY <1>3, <2>1, LowSendLeads DEF isSending
  <2> HIDE DEF t
  <2> QED  BY <2>2 DEF Leads, InHand
<1> QED  BY <1>1, <1>2, <1>3, LeadsThen
LEMMA TryToListenLeads ==
  ASSUME NEW s, Node(s), InHand(s), NEW c \in Choices,
         s.mac.state # "NO_XMAC"
  PROVE  Leads(s, tryToListen(s, c), Failures)
<1> DEFINE next == Listening(s.mac.state)
           t == To(s, next)
           u == LowReceive(t, c)
           v == StartTimer(u, t.mac.state)
<1>1. /\ next \in MacStates \ {"NO_XMAC"}
      /\ next = "TX_DATA" => s.mac.state = "TX_DATA"
  BY DEF Listening, MacStates, Node, Macs
<1> HIDE DEF next
<1>2. Keeps(s, t) /\ Node(t) /\ t.mac.state = next
  BY <1>1, ToKeeps
<1>3. tryToListen(s, c) =
        IF t.mac.state \notin {"RX_STROBE_WAIT", "RX_DATA_WAIT"} THEN t
        ELSE IF isReceiving(t) THEN endRX(t, "EBUSY", c) ELSE v
  BY DEF tryToListen, next
<1> HIDE DEF t
<1>4. Keeps(t, endRX(t, "EBUSY", c))
  BY <1>1, <1>2, EndRXKeeps
<1>5. ASSUME t.mac.state \in {"RX_STROBE_WAIT", "RX_DATA_WAIT"}
      PROVE  Keeps(t, v)
  <2>1. Keeps(t, u) /\ u.mac.state = t.mac.state
    BY <1>2, LowReceiveKeeps
  <2> HIDE DEF u
  <2>2. Keeps(u, v)
    BY <1>5, <2>1, StartTimerKeeps DEF Keeps, MacStates
  <2> QED  BY <2>1, <2>2, KeepsThen
<1> HIDE DEF v
<1>6. Keeps(s, tryToListen(s, c))
  BY <1>2, <1>3, <1>4, <1>5, KeepsThen
<1> QED  BY <1>6, KeepsThen
LEMMA TryToRXTXLeads ==
  ASSUME NEW s, Node(s), InHand(s), NEW c \in Choices
  PROVE  Leads(s, tryToRXTX(s, c), Failures)
<1>1. Leads(s, s, Failures)
  BY DEF Leads
<1> QED  BY <1>1, TryWithoutLeads, SendStrobeLeads, TryToListenLeads
         DEF tryToRXTX

-----------------------------------------------------------------------------
(* The events of the driver and of the timer.                              *)

(* The end of a transmission: SUCCESS is told only for the client's frame. *)
LEMMA SendingFinishedLeads ==
  ASSUME NEW s, Node(s), InHand(s), NEW result \in MacResults,
         NEW c \in Choices, s.radio.txFrame = NULL
  PROVE  LET t == sendingFinished(s, result, c) IN
         \/ Leads(s, t, Failures)
         \/ s.mac.state \in {"NO_XMAC", "TX_DATA"} /\ Leads(s, t, {result})
<1> DEFINE t == sendingFinished(s, result, c)
<1>1. Leads(s, endTX(s, result, c), {result})
  BY EndTXLeads
<1>2. CASE \/ s.mac.state = "NO_XMAC"
           \/ result # "SUCCESS" /\ s.mac.state \in {"TX_STROBE", "TX_DATA"}
  <2>1. t = endTX(s, result, c)
    BY <1>2 DEF sendingFinished
  <2>2. result = "SUCCESS" \/ result \in Failures
    BY DEF MacResults
  <2> HIDE DEF t
  <2> QED  BY <1>1, <1>2, <2>1, <2>2 DEF Leads, t
<1>3. CASE /\ s.mac.state # "NO_XMAC" /\ result # "SUCCESS"
           /\ s.mac.state \notin {"TX_STROBE", "TX_DATA"}
  <2>1. t \in {endRX(s, result, c), s}
    BY <1>3 DEF sendingFinished
  <2>2. Keeps(s, endRX(s, result, c)) /\ Keeps(s, s)
    BY <1>3, EndRXKeeps DEF Keeps
  <2> QED  BY <2>1, <2>2, KeepsThen
<1>4. CASE s.mac.state # "NO_XMAC" /\ result = "SUCCESS"
  <2>1. ASSUME NEW state \in {"RX_DATA_WAIT", "TX_ACK_WAIT"}
        PROVE  Leads(s, WithTimer(restartLowRX(To(s, state), c)), Failures)
    <3> DEFINE a == To(s, state)
               b == restartLowRX(a, c)
    <3>1. Keeps(s, a) /\ a.mac.state = state
      BY <1>4, <2>1, ToKeeps DEF MacStates
    <3> HIDE DEF a
    <3>2. Leads(a, b, Failures)
      BY <2>1, <3>1, RestartLeads DEF Keeps, InHand
    <3> HIDE DEF b
    <3>3. Keeps(b, WithTimer(b))
      BY <3>2, TimerKeeps DEF Leads
    <3>4. Leads(s, WithTimer(b), Failures)
      BY <3>1, <3>2, <3>3, KeepsThen, LeadsThen
    <3> QED  BY <3>4 DEF a, b
  <2>2. Leads(s, Fails(s), Failures)
    BY FailsKeeps, KeepsThen
  <2> QED  BY <1>1, <1>4, <2>1, <2>2 DEF sendingFinished
<1> QED  BY <1>2, <1>3, <1>4

(* The end of a reception tells the client nothing about what it sends but *)
(* a failure.                                                              *)
LEMMA ReceivingFinishedLeads ==
  ASSUME NEW s, Node(s), InHand(s), NEW content, NEW c \in Choices,
         s.radio.rxFrame = NULL
  PROVE  Leads(s, receivingFinished(s, content, c), Failures)
<1>1. Leads(s, endRX(s, "SUCCESS", c), Failures)
  BY EndRXKeeps, KeepsThen
<1>2. Leads(s, Fails(s), Failures)
  BY FailsKeeps, KeepsThen
<1>3. Leads(s, restartLowRX(s, c), Failures)
  BY RestartLeads
<1>4. ASSUME s.mac.state = "RX_STROBE_WAIT"
      PROVE  Leads(s, restartLowRX(sendAck(To(s, "RX_ACK"), c), c), Failures)
  <2> DEFINE a == To(s, "RX_ACK")
             b == sendAck(a, c)
  <2>1. Keeps(s, a) /\ a.mac.state = "RX_ACK"
    BY <1>4, ToKeeps DEF MacStates
  <2> HIDE DEF a
  <2>2. Leads(a, b, Failures)
    BY <2>1, SendAckLeads DEF Keeps
  <2> HIDE DEF b
  <2>3. Leads(b, restartLowRX(b, c), Failures)
    BY <2>2, RestartLeads DEF Leads
  <2>4. Leads(s, restartLowRX(b, c), Failures)
    BY <2>1, <2>2, <2>3, KeepsThen, LeadsThen
  <2> QED  BY <2>4 DEF a, b
<1>5. ASSUME s.mac.state = "TX_ACK_WAIT"
      PROVE  Leads(s, restartLowRX(StartTimer(s, "TX_BACKOFF"), c), Failures)
  <2> DEFINE a == StartTimer(s, "TX_BACKOFF")
  <2>1. Keeps(s, a) /\ a.mac.state = "TX_BACKOFF"
    BY <1>5, StartTimerKeeps DEF MacStates
  <2> HIDE DEF a
  <2>2. Leads(a, restartLowRX(a, c), Failures)
    BY <2>1, RestartLeads DEF Keeps, InHand
  <2>3. Leads(s, restartLowRX(a, c), Failures)
    BY <2>1, <2>2, KeepsThen
  <2> QED  BY <2>3 DEF a
<1> QED  BY <1>1, <1>2, <1>3, <1>4, <1>5 DEF receivingFinished

(* Nor does the timer.                                                     *)
LEMMA TimerFiredLeads ==
  ASSUME NEW s, Node(s), InHand(s), NEW c \in Choices
  PROVE  Leads(s, TimerFired(s, c), Failures)
<1> DEFINE m == [s.mac EXCEPT !.strobesLeft = @ - 1]
           t == [s EXCEPT !.mac = m]
<1>1. Leads(s, s, Failures)
  BY DEF Leads
<1>2. ASSUME s.mac.state = "RX_SLEEP"
      PROVE  Leads(s, tryToRXTX(To(s, "RX_STROBE_WAIT"), c), Failures)
  <2> DEFINE a == To(s, "RX_STROBE_WAIT")
  <2>1. Keeps(s, a) /\ a.mac.state = "RX_STROBE_WAIT"
    BY <1>2, ToKeeps DEF MacStates
  <2> HIDE DEF a
  <2>2. Leads(a, tryToRXTX(a, c), Failures)
    BY <2>1, TryToRXTXLeads DEF Keeps, InHand
  <2>3. Leads(s, tryToRXTX(a, c), Failures)
    BY <2>1, <2>2, KeepsThen
  <2> QED  BY <2>3 DEF a
<1>3. ASSUME s.mac.state # "NO_XMAC"
      PROVE  /\ Leads(s, sleepRadio(s, c), Failures)
             /\ Leads(s, To(s, "OFF"), Failures)
             /\ Leads(s, sendData(s, c), Failures)
  <2>1. Keeps(s, sleepRadio(s, c)) /\ Keeps(s, To(s, "OFF"))
    BY <1>3, SleepKeeps, ToKeeps DEF MacStates
  <2> QED  BY <1>3, <2>1, KeepsThen, SendDataLeads
<1>4. ASSUME s.mac.state = "TX_ACK_WAIT"
      PROVE  /\ Leads(s, endTX(t, "ENOACK", c), Failures)
             /\ Leads(s, sendStrobe(t, c), Failures)
  <2>1. /\ m \in Macs /\ m.state = s.mac.state /\ m.left = s.mac.left
        /\ m.txFrame = s.mac.txFrame /\ m.rxFrame = s.mac.rxFrame
        /\ m.result = s.mac.result
    BY DEF Node, Macs
  <2> HIDE DEF m
  <2>2. Keeps(s, t) /\ t.mac.state = "TX_ACK_WAIT"
    BY <1>4, <2>1, MacChanges DEF Keeps, Node, Buffered
  <2> HIDE DEF t
  <2>3. Leads(t, endTX(t, "ENOACK", c), {"ENOACK"})
    BY <2>2, EndTXLeads DEF Keeps, MacResults, Failures
  <2>4. Leads(t, endTX(t, "ENOACK", c), Failures)
    BY <2>3 DEF Leads, Failures
  <2>5. Leads(t, sendStrobe(t, c), Failures)
    BY <2>2, SendStrobeLeads DEF Keeps
  <2> QED  BY <2>2, <2>4, <2>5, KeepsThen
<1>5. t = [s EXCEPT !.mac.strobesLeft = @ - 1]
  OBVIOUS
<1> HIDE DEF t
<1> QED  BY <1>1, <1>2, <1>3, <1>4, <1>5 DEF TimerFired

-----------------------------------------------------------------------------
(* The steps.                                                              *)

(* The inductive invariant.  Of a client outside the repository nothing is *)
(* said.                                                                   *)
Fine == Node(Both) /\ InHand(Both)
MacInv == Sound(radio) /\ (Internal => Fine)
StepIsGood == Fine' /\ SignalledAsSent /\ ToldAsSent

(* The state of a node of XMAC is never that of an unknown client.         *)
LEMMA FineIsInternal ==
  ASSUME Fine
  PROVE  Internal /\ Sound(radio)
  BY DEF Fine, Node, Both, Sound, Macs, MacStates, Internal

(* The steps are taken on nodes.                                           *)
LEMMA Becomes ==
  ASSUME NEW s, Node(s), InHand(s), Become(s)
  PROVE  Fine' /\ Both' = s
<1>1. s = [mac |-> s.mac, radio |-> s.radio]
  BY DEF Node
<1>2. Both' = s
  BY <1>1 DEF Become, Both
<1> QED  BY <1>2 DEF Fine

(* A step that tells at most failures and leaves the event alone is good.  *)
LEMMA LeadsStep ==
  ASSUME Fine, NEW s, Leads(Both, s, Failures), Become(s)
  PROVE  StepIsGood
<1>1. Fine' /\ Both' = s
  BY Becomes DEF Leads
<1>2. radio' = s.radio /\ mac' = s.mac
  BY DEF Become
<1>3. radio'.event = radio.event /\ mac'.result \in {mac.result} \cup Failures
  BY <1>2 DEF Leads, Both
<1>4. SignalledAsSent
  BY <1>3 DEF SignalledAsSent, Signalled
<1>5. ToldAsSent
  BY <1>3, XMACConstants DEF ToldAsSent, Failures
<1> QED  BY <1>1, <1>4, <1>5 DEF StepIsGood

(* So is one of the driver alone that leaves the frames in hand.           *)
LEMMA DriverStep ==
  ASSUME Fine, Unsignalled, FramesStay, mac' = mac
  PROVE  StepIsGood
<1>1. Both' = [mac |-> mac, radio |-> radio']
  BY DEF Both
<1>2. Fine'
  BY <1>1 DEF Fine, Node, InHand, Buffered, Both, Unsignalled, Sound, FramesStay
<1>3. SignalledAsSent /\ ToldAsSent
  BY XMACConstants DEF SignalledAsSent, Unsignalled, ToldAsSent
<1> QED  BY <1>2, <1>3 DEF StepIsGood

(* The task TXDone with the handler above it.                              *)
LEMMA SendingTaskStep ==
  ASSUME Fine, NEW c \in Choices, SendingTask(c)
  PROVE  StepIsGood
<1> DEFINE r == [radio EXCEPT !.tasks = Tail(@), !.watchdog = FALSE]
           o == TXDoneOutcome(r, c.accepted)
           s == [Both EXCEPT !.radio = o]
<1>1. Kept(radio, r) /\ r.txCmd = radio.txCmd /\ radio.event = NULL
  BY FineIsInternal, DequeuedSound DEF SendingTask, Dequeued
<1>2. Become(IF s.radio.event = NULL THEN s
             ELSE sendingFinished(s, s.radio.event.result, c))
  BY DEF SendingTask
<1> HIDE DEF r
<1>3. /\ Sound(o) /\ o.rxFrame = r.rxFrame
      /\ \/ o.event = r.event /\ o.txFrame = r.txFrame
         \/ /\ o.txFrame = NULL /\ o.event.frame = r.txFrame
            /\ o.event.frame # NULL /\ o.event.frame = r.txCmd.frame
            /\ o.event.result = "SUCCESS" => r.txCmd.status = "IEEE_DONE_OK"
  BY <1>1, TXDoneOutcomeSound DEF Kept, Quiet, Sound, Choices
<1> HIDE DEF o
<1>4. s.mac = mac /\ s.radio = o
  BY DEF Both
<1>5. Node(s) /\ InHand(s)
  <2>1. s = [mac |-> mac, radio |-> o]
    BY DEF Both
  <2> HIDE DEF s
  <2> QED  BY <1>1, <1>3, <2>1
           DEF Fine, Node, Both, Buffered, InHand, Sound, Kept, Quiet
<1> HIDE DEF s
<1>6. CASE o.event = NULL
  <2>1. Become(s)
    BY <1>2, <1>4, <1>6
  <2>2. Fine' /\ mac' = mac /\ radio' = o
    BY <1>4, <1>5, <2>1, Becomes DEF Become
  <2> QED  BY <1>6, <2>2, XMACConstants
           DEF StepIsGood, SignalledAsSent, Signalled, ToldAsSent
<1>7. CASE o.event # NULL
  <2> DEFINE result == o.event.result
             t == sendingFinished(s, result, c)
  <2>1. /\ o.txFrame = NULL /\ o.event.frame = radio.txFrame
        /\ radio.txFrame # NULL /\ o.event.frame = radio.txCmd.frame
        /\ result = "SUCCESS" => radio.txCmd.status = "IEEE_DONE_OK"
    BY <1>1, <1>3, <1>7 DEF Kept, Quiet
  <2>2. result \in MacResults
    BY <1>3, <1>7 DEF Sound, Radios, Events, Results, MacResults, Failures
  <2> HIDE DEF result
  <2>3. Become(t)
    BY <1>2, <1>4, <1>7 DEF result
  <2>4. \/ Leads(s, t, Failures)
        \/ s.mac.state \in {"NO_XMAC", "TX_DATA"} /\ Leads(s, t, {result})
    BY <1>4, <1>5, <2>1, <2>2, SendingFinishedLeads
  <2> HIDE DEF t
  <2>5. Node(t) /\ InHand(t) /\ t.radio.event = o.event
    BY <1>4, <2>4 DEF Leads
  <2>6. Fine' /\ radio' = t.radio /\ mac' = t.mac
    BY <2>3, <2>5, Becomes DEF Become
  <2>7. SignalledAsSent
    BY <2>1, <2>5, <2>6 DEF SignalledAsSent, result
  <2>8. ToldAsSent
    <3> SUFFICES ASSUME mac.result = NULL, mac'.result = "SUCCESS"
                 PROVE  /\ radio.txCmd.frame = mac.txFrame
                        /\ radio.txCmd.status = "IEEE_DONE_OK"
      BY DEF ToldAsSent
    <3>1. result = "SUCCESS" /\ mac.state \in {"NO_XMAC", "TX_DATA"}
      BY <1>4, <2>4, <2>6, XMACConstants DEF Leads, Failures
    <3>2. radio.txFrame = mac.txFrame
      BY <2>1, <3>1 DEF Fine, InHand, Both
    <3> QED  BY <2>1, <3>1, <3>2
  <2> QED  BY <2>6, <2>7, <2>8 DEF StepIsGood
<1> QED  BY <1>6, <1>7

(* The task RXDone with the handler above it.                              *)
LEMMA ReceivingTaskStep ==
  ASSUME Fine, NEW fits \in BOOLEAN, NEW content, NEW c \in Choices,
         ReceivingTask(fits, content, c)
  PROVE  StepIsGood
<1> DEFINE r == [radio EXCEPT !.tasks = Tail(@)]
           o == RXDoneOutcome(r, fits, c.accepted)
           s == [Both EXCEPT !.radio = o]
<1>1. Kept(radio, r) /\ radio.event = NULL
  BY FineIsInternal, DequeuedSound DEF ReceivingTask, Dequeued
<1>2. Become(IF s.radio.event = NULL \/ s.radio.panic # NULL THEN s
             ELSE receivingFinished(s, content, c))
  BY DEF ReceivingTask
<1> HIDE DEF r
<1>3. /\ Sound(o) /\ o.txFrame = r.txFrame
      /\ \/ o.event = r.event /\ o.rxFrame = r.rxFrame
         \/ o.event.task = "RXDone" /\ o.rxFrame = NULL
  <2>1. r \in Radios /\ CommandIsOfFrame(r)
    BY <1>1 DEF Kept, Quiet, Sound
  <2>2. c.accepted \in BOOLEAN
    BY DEF Choices
  <2> QED  BY <2>1, <2>2, RXDoneOutcomeSound
<1> HIDE DEF o
<1>4. s.mac = mac /\ s.radio = o
  BY DEF Both
<1>5. Node(s) /\ InHand(s)
  <2>1. s = [mac |-> mac, radio |-> o]
    BY DEF Both
  <2> HIDE DEF s
  <2> QED  BY <1>1, <1>3, <2>1
           DEF Fine, Node, Both, Buffered, InHand, Sound, Kept, Quiet
<1> HIDE DEF s
<1>6. o.event = NULL \/ o.event.task = "RXDone"
  BY <1>1, <1>3 DEF Kept, Quiet
<1>7. PICK t : Become(t) /\ Leads(s, t, Failures)
  <2>1. CASE o.event = NULL \/ o.panic # NULL
    BY <1>2, <1>4, <1>5, <2>1 DEF Leads
  <2>2. CASE o.event # NULL /\ o.panic = NULL
    <3>1. o.rxFrame = NULL
      BY <1>1, <1>3, <2>2 DEF Kept, Quiet
    <3> QED  BY <1>2, <1>4, <1>5, <2>2, <3>1, ReceivingFinishedLeads
  <2> QED  BY <2>1, <2>2
<1>8. /\ Fine' /\ radio'.event = o.event
      /\ mac'.result \in {mac.result} \cup Failures
  BY <1>4, <1>7, Becomes DEF Leads, Become
<1> QED  BY <1>6, <1>8, XMACConstants
         DEF StepIsGood, SignalledAsSent, Signalled, ToldAsSent, Failures

(* The task of the layer above and its timer.                              *)
LEMMA RXTXTaskStep ==
  ASSUME Fine, NEW c \in Choices, RXTXTask(c)
  PROVE  StepIsGood
<1> DEFINE r == [radio EXCEPT !.tasks = Tail(@)]
           s == [Both EXCEPT !.radio = r]
<1>1. Kept(radio, r)
  BY FineIsInternal, DequeuedSound DEF RXTXTask, Dequeued
<1>2. Become(tryToRXTX(s, c))
  <2>1. s = [Both EXCEPT !.radio.tasks = Tail(@)]
    BY DEF Both
  <2> QED  BY <2>1 DEF RXTXTask
<1> HIDE DEF r
<1>3. Keeps(Both, s)
  <2>1. s = [mac |-> mac, radio |-> r]
    BY DEF Both
  <2> HIDE DEF s
  <2> QED  BY <1>1, <2>1
           DEF Keeps, Fine, Node, Both, Buffered, Sound, Kept, Quiet
<1> HIDE DEF s
<1>4. Node(s) /\ InHand(s)
  BY <1>3, KeepsThen DEF Fine, Keeps, Leads
<1>5. Leads(Both, tryToRXTX(s, c), Failures)
  BY <1>3, <1>4, KeepsThen, TryToRXTXLeads
<1> QED  BY <1>2, <1>5, LeadsStep
LEMMA TimerStep ==
  ASSUME Fine, TimerFires
  PROVE  StepIsGood
<1> DEFINE m == [mac EXCEPT !.timer = FALSE]
           s == [Both EXCEPT !.mac = m]
<1>1. PICK c \in Choices : Become(TimerFired(s, c))
  <2>1. s = [Both EXCEPT !.mac.timer = FALSE]
    BY DEF Both
  <2> QED  BY <2>1 DEF TimerFires
<1>2. /\ m \in Macs /\ m.state = mac.state /\ m.left = mac.left
      /\ m.txFrame = mac.txFrame /\ m.rxFrame = mac.rxFrame
      /\ m.result = mac.result
  BY DEF Fine, Node, Both, Macs
<1> HIDE DEF m
<1>3. Keeps(Both, s)
  <2>1. s = [mac |-> m, radio |-> radio]
    BY DEF Both
  <2> HIDE DEF s
  <2> QED  BY <1>2, <2>1 DEF Keeps, Fine, Node, Both, Buffered
<1> HIDE DEF s
<1>4. Node(s) /\ InHand(s)
  BY <1>3, KeepsThen DEF Fine, Keeps, Leads
<1>5. Leads(Both, TimerFired(s, c), Failures)
  BY <1>3, <1>4, KeepsThen, TimerFiredLeads
<1> QED  BY <1>1, <1>5, LeadsStep

(* The commands of the client.                                             *)
LEMMA ClientSendsStep ==
  ASSUME Fine, NEW f \in DataFrames, ClientSends(f)
  PROVE  StepIsGood
<1> DEFINE strobes == IF mac.state = "NO_XMAC" THEN mac.strobesLeft
                      ELSE numStrobes
           m == [mac EXCEPT !.txFrame = f, !.result = NULL,
                            !.strobesLeft = strobes]
           r == post(radio, "RXTXTask")
           t == [mac |-> m, radio |-> r]
<1>1. Become(t)
  BY DEF ClientSends
<1>2. /\ m \in Macs /\ m.state = mac.state /\ m.left = mac.left
      /\ m.rxFrame = mac.rxFrame /\ m.result = NULL
  <2>1. strobes \in Int
    BY XMACConstants DEF Fine, Node, Both, Macs
  <2> HIDE DEF strobes
  <2> QED  BY <2>1 DEF Fine, Node, Both, Macs
<1> HIDE DEF m
<1>3. Kept(radio, r)
  BY PostKept DEF Fine, Node, Both, TaskNames
<1>4. radio.txFrame = NULL \/ mac.state \notin {"NO_XMAC", "TX_DATA"}
  BY DEF ClientSends, Fine, InHand, Both
<1> HIDE DEF r
<1>5. Node(t) /\ InHand(t)
  BY <1>2, <1>3, <1>4
     DEF Fine, Node, Both, Buffered, InHand, Kept, Quiet, Sound
<1>6. Fine' /\ radio' = r /\ mac' = m
  BY <1>1, <1>5, Becomes DEF Become
<1>7. SignalledAsSent
  BY <1>3, <1>6 DEF Kept, Quiet, SignalledAsSent, Signalled
<1>8. ToldAsSent
  BY <1>2, <1>6, XMACConstants DEF ToldAsSent
<1> QED  BY <1>6, <1>7, <1>8 DEF StepIsGood
LEMMA ClientReceivesStep ==
  ASSUME Fine, NEW f \in RxFrames, ClientReceives(f)
  PROVE  StepIsGood
<1> DEFINE m == [mac EXCEPT !.rxFrame = f]
           r == post(radio, "RXTXTask")
           t == [mac |-> m, radio |-> r]
<1>1. Become(t) /\ mac.rxFrame = NULL
  BY DEF ClientReceives
<1>2. /\ m \in Macs /\ m.state = mac.state /\ m.left = mac.left
      /\ m.rxFrame = f /\ m.txFrame = mac.txFrame
      /\ m.result = mac.result
  BY DEF Fine, Node, Both, Macs
<1> HIDE DEF m
<1>3. Kept(radio, r)
  BY PostKept DEF Fine, Node, Both, TaskNames
<1> HIDE DEF r
<1>4. Keeps(Both, t)
  BY <1>1, <1>2, <1>3
     DEF Keeps, Fine, Node, Both, Buffered, Kept, Quiet, Sound
<1> HIDE DEF t
<1>5. Leads(Both, t, Failures)
  BY <1>4, KeepsThen DEF Fine
<1> QED  BY <1>1, <1>5, LeadsStep
LEMMA ClientCancelsSendingStep ==
  ASSUME Fine, NEW c \in Choices, ClientCancelsSending(c)
  PROVE  StepIsGood
<1> DEFINE m == [mac EXCEPT !.txFrame = NULL]
           r == CancelSend(radio, c.accepted)
           t == [mac |-> m, radio |-> radio']
<1>1. /\ mac' = m /\ mac.state = "NO_XMAC"
      /\ radio' = IF radio.txFrame # mac.txFrame THEN radio ELSE r
  BY DEF ClientCancelsSending
<1>2. /\ m \in Macs /\ m.state = mac.state /\ m.left = mac.left
      /\ m.rxFrame = mac.rxFrame /\ m.txFrame = NULL
      /\ m.result = mac.result
  BY DEF Fine, Node, Both, Macs
<1> HIDE DEF m
<1>3. Quiet(radio, r) /\ r.txFrame = NULL /\ r.rxFrame = radio.rxFrame
  BY CancelSendQuiet DEF Fine, Node, Both, Choices
<1>4. Quiet(radio, radio)
  BY DEF Fine, Node, Both, Quiet, Sound
<1> HIDE DEF r
<1>5. radio.txFrame # mac.txFrame => radio.txFrame = NULL
  BY <1>1 DEF Fine, InHand, Both
<1>6. /\ Quiet(radio, radio') /\ radio'.txFrame = NULL
      /\ radio'.rxFrame = radio.rxFrame
  BY <1>1, <1>3, <1>4, <1>5
<1>7. Leads(Both, t, Failures)
  BY <1>2, <1>6 DEF Leads, Fine, Node, InHand, Both, Buffered, Quiet, Sound
<1>8. Become(t)
  BY <1>1 DEF Become
<1> HIDE DEF t
<1> QED  BY <1>7, <1>8, LeadsStep
LEMMA ClientCancelsReceivingStep ==
  ASSUME Fine, NEW c \in Choices, ClientCancelsReceiving(c)
  PROVE  StepIsGood
<1>1. Leads(Both, CancelReceiving(Both, c), Failures)
  BY CancelReceivingKeeps, KeepsThen DEF Fine
<1> QED  BY <1>1, LeadsStep DEF ClientCancelsReceiving

(* The state after a reset, and at boot.                                   *)
LEMMA StartIsFine ==
  ASSUME NEW state \in {"NO_XMAC", "OFF"}
  PROVE  LET t == [mac |-> MacStart(state), radio |-> Start]
         IN Node(t) /\ InHand(t)
<1>1. MacStart(state) \in Macs
  BY DEF MacStart, Macs, MacStates
<1>2. /\ Start \in Radios /\ CommandIsOfFrame(Start)
      /\ Start.rxFrame = NULL /\ Start.txFrame = NULL
  BY StartSound DEF Sound, Start
<1> QED  BY <1>1, <1>2 DEF Node, InHand, Buffered
LEMMA MacResetStep ==
  ASSUME Fine, MacReset
  PROVE  StepIsGood
<1> DEFINE state == IF mac.state = "NO_XMAC" THEN "NO_XMAC" ELSE "OFF"
           t == [mac |-> MacStart(state), radio |-> Start]
<1>1. Node(t) /\ InHand(t)
  BY StartIsFine
<1>2. Become(t)
  BY DEF MacReset, Reset, Become
<1>3. Fine'
  BY <1>1, <1>2, Becomes
<1>4. SignalledAsSent
  BY <1>2, StartSound DEF Become, SignalledAsSent, Signalled
<1>5. ToldAsSent
  BY <1>2, XMACConstants DEF Become, MacStart, ToldAsSent
<1> QED  BY <1>3, <1>4, <1>5 DEF StepIsGood

(* Every step of a node of XMAC is good ...                                *)
LEMMA InternalStep ==
  ASSUME Fine, [MacNext]_macVars
  PROVE  StepIsGood
<1>1. Internal /\ Sound(radio)
  BY FineIsInternal
<1>2. CASE MacTask
  <2>1. ASSUME NEW c \in Choices, TaskEnds(c)
        PROVE  StepIsGood
    BY <1>1, <2>1, TXDoneEndsStep, RXDoneEndsStep, DriverStep
       DEF TaskEnds, Choices
  <2> QED  BY <1>2, <2>1, SendingTaskStep, ReceivingTaskStep, RXTXTaskStep
           DEF MacTask
<1>3. CASE SendingEndsNow
  BY <1>1, <1>3, SendingEndsStep, DriverStep
     DEF SendingEndsNow, SendingEndsSomehow
<1>4. CASE (FrameReceived \/ TXWatchdogTimerFires) /\ UNCHANGED mac
  BY <1>1, <1>4, FrameReceivedStep, TXWatchdogTimerStep, DriverStep
<1>5. CASE TimerFires
  BY <1>5, TimerStep
<1>6. CASE Client
  BY <1>6, ClientSendsStep, ClientReceivesStep, ClientCancelsSendingStep,
     ClientCancelsReceivingStep DEF Client
<1>7. CASE MacReset
  BY <1>7, MacResetStep
<1>8. CASE UNCHANGED macVars
  <2>1. Kept(radio, radio') /\ mac' = mac
    BY <1>1, <1>8 DEF macVars, Kept, Quiet
  <2> QED  BY <2>1, KeptStep, DriverStep
<1> QED  BY <1>1, <1>2, <1>3, <1>4, <1>5, <1>6, <1>7, <1>8
         DEF MacNext, Tasks

(* ... and with an unknown client the driver does what it does alone.      *)
LEMMA MacNextGood ==
  ASSUME MacInv, [MacNext]_macVars
  PROVE  MacInv' /\ SignalledAsSent /\ ToldAsSent
<1>1. CASE Internal
  <2>1. StepIsGood
    BY <1>1, InternalStep DEF MacInv
  <2>2. Sound(radio)'
    BY <2>1 DEF StepIsGood, Fine, Node, Both, Sound
  <2> QED  BY <2>1, <2>2 DEF StepIsGood, MacInv
<1>2. CASE ~Internal
  <2>1. mac' = mac /\ [Next]_vars
    BY <1>2 DEF MacNext, Tasks, SendingEndsNow, macVars, vars, Next
  <2>2. Sound(radio') /\ SignalledAsSent
    BY <2>1, NextSound DEF MacInv
  <2>3. ToldAsSent
    BY <2>1, XMACConstants DEF ToldAsSent
  <2> QED  BY <1>2, <2>1, <2>2, <2>3 DEF MacInv, Internal
<1> QED  BY <1>1, <1>2

(* The types of a node of XMAC and its driver, which buffers the driver    *)
(* may have, and that without XMAC and after the strobes it has the frame  *)
(* of the client.                                                          *)
THEOREM NodeInvariant == MacSpec => []MacInv
<1>1. MacInit => MacInv
  <2> SUFFICES ASSUME MacInit
               PROVE  MacInv
    OBVIOUS
  <2>1. Sound(radio)
    BY StartSound DEF MacInit
  <2>2. ASSUME NEW state \in {"NO_XMAC", "OFF"}, mac = MacStart(state)
        PROVE  Fine
    BY <2>2, StartIsFine DEF MacInit, Fine, Both
  <2>3. mac = MacStart("EXTERNAL") => ~Internal
    BY DEF MacStart, Internal
  <2> QED  BY <2>1, <2>2, <2>3 DEF MacInit, MacInv
<1>2. MacInv /\ [MacNext]_macVars => MacInv'
  BY MacNextGood
<1> QED  BY <1>1, <1>2, PTL DEF MacSpec

(* The driver receives into no other buffer than the one that the client   *)
(* has given and not got back, except the one that endRX() left in it.     *)
THEOREM BuffersAreTheClients == MacSpec => []BufferIsTheClients
<1>1. MacInv => BufferIsTheClients
  BY DEF MacInv, Fine, Node, Both, Buffered, BufferIsTheClients
<1> QED  BY <1>1, NodeInvariant, PTL

(* Also under XMAC sendingFinished is signalled for what was transmitted   *)
(* last, and with SUCCESS only if the radio core has sent it.              *)
THEOREM OnlyWhatWasSentIsSignalled == MacSpec => ReportsWhatWasSent
<1>1. MacInv /\ [MacNext]_macVars => [SignalledAsSent]_vars
  BY MacNextGood
<1> QED  BY <1>1, NodeInvariant, PTL DEF MacSpec, ReportsWhatWasSent

(* A client is told SUCCESS only if what the radio core sent last was its  *)
(* frame, not a strobe or an acknowledgement in its place.                 *)
THEOREM SuccessIsOfTheFrame == MacSpec => SuccessMeansSent
<1>1. MacInv /\ [MacNext]_macVars => [ToldAsSent]_macVars
  BY MacNextGood
<1> QED  BY <1>1, NodeInvariant, PTL DEF MacSpec, SuccessMeansSent
=============================================================================
