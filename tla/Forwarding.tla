----------------------------- MODULE Forwarding -----------------------------
(***************************************************************************)
(* The outgoing half of the 6LoWPAN stack: the forwarder over the          *)
(* fragmenter, whose frames come back to the forwarder through the send    *)
(* queue and go on to the radio stack.  Everything runs in tasks or is     *)
(* called from tasks, so a task, a timer handler, an event of the radio    *)
(* stack or a command of a client is one action, with all it calls.  The   *)
(* client is the routing adapter                                           *)
(* (GenericSimpleRoutingLoWPANInterfaceAdapterMainPrv.nc).                 *)
(***************************************************************************)
EXTENDS PacketForwarder

CONSTANTS
  Routes,           \* Routes[p]: the link-layer addresses that the routing
                    \* strategy has for packet p
  Frames,           \* 1..n: buffers of the frame allocator
  AllocationFails   \* the allocator may fail though a frame is free here:
                    \* other clients have it

ASSUME ForwardingConstants ==
  /\ DOMAIN Routes = Packets
  /\ 1 \in Frames /\ IsFiniteSet(Frames) /\ Frames \subseteq Nat
  /\ AllocationFails \in BOOLEAN
  /\ NULL \notin Nat \cup [packet : Packets, status : Statuses,
                           addr : UNION {Routes[p] : p \in Packets}]

VARIABLES
  taskQueue,        \* the queue of the task scheduler
  fragmenter, sendQueue, forwarder,
  pool,             \* the frames that the allocator has
  below,            \* the frame that the radio stack is sending, or NULL
  content,          \* content[f]: the fragment in f and its BC0 number
  sentBytes,        \* history: how much of a packet was sent, in order
  lastBc0           \* history: the number of the last broadcast frame sent
vars == <<taskQueue, fragmenter, sendQueue, forwarder, pool, below, content,
          sentBytes, lastBc0>>

(* Posting a task appends it to the queue unless it is there.  Run(task)   *)
(* takes it out.                                                           *)
IsPosted(task) ==
  \/ task \in forwarder.tasks
  \/ task = "fragmentation" /\ fragmenter.posted
  \/ task = "sendQueue" /\ sendQueue.posted
Posting(task, queue) ==
  IF IsPosted(task)' /\ \A i \in DOMAIN queue : queue[i] # task
    THEN <<task>> ELSE <<>>
Queued(queue) ==
  taskQueue' = queue \o Posting("sendQueue", queue) \o Posting("completed", queue)
                 \o Posting("fragmentation", queue) \o Posting("staged", queue)
                 \o Posting("frames", queue)
Post == Queued(taskQueue)
Run(task) == taskQueue # <<>> /\ Head(taskQueue) = task

Slot(t) == forwarder.slot[t]
Token(t) == fragmenter.token[t]

Init ==
  /\ taskQueue = <<>>
  /\ fragmenter = FragmenterStart /\ sendQueue = SendQueueStart
  /\ forwarder = ForwarderStart(1, 0)
  /\ pool = Frames \ {1} /\ below = NULL
  /\ content = [f \in Frames |-> NULL]
  /\ sentBytes = [p \in Packets |-> 0]
  /\ lastBc0 = SeqNos - 1

-----------------------------------------------------------------------------
(* The client, the routing adapter: startPacketRoutingTask gives a packet  *)
(* to the forwarder with the address that the routing strategy picks.      *)

Elements(list) == {list[i] : i \in 1..Len(list)}

startForwardingIpv6Packet(p, a) ==
  /\ Places(forwarder.staged, p) = {} /\ Places(forwarder.completed, p) = {}
  /\ MayEnqueue(forwarder)
  /\ forwarder' = startForwarding(forwarder, p, a)
  /\ UNCHANGED <<fragmenter, sendQueue, pool, below, content, sentBytes,
                 lastBc0>>

(* processCompletedPacketsTask and forwardingIpv6PacketFinished.  The      *)
(* adapter may start a packet that failed anew, by another route, while    *)
(* its element is still on the list of completed ones.                     *)
RemovedFirst(fw) == [fw EXCEPT !.completed = Tail(@)]

processCompletedPacketsTask ==
  /\ UNCHANGED <<fragmenter, sendQueue, pool, below, content, lastBc0>>
  /\ \/ /\ forwarder.completed = <<>>
        /\ forwarder' = [forwarder EXCEPT !.tasks = @ \ {"completed"}]
        /\ UNCHANGED sentBytes
     \/ /\ forwarder.completed # <<>>
        /\ LET e == Head(forwarder.completed) IN
           /\ sentBytes' = [sentBytes EXCEPT ![e.packet] = 0]
           /\ \/ forwarder' = RemovedFirst(forwarder)
              \/ /\ e.status # "SUCCESS" /\ MayEnqueue(forwarder)
                 /\ \E a \in Routes[e.packet] : forwarder' =
                      RemovedFirst(startForwarding(forwarder, e.packet, a))

(* stopForwardingIpv6Packet.                                               *)
stopForwardingIpv6Packet(p) ==
  /\ UNCHANGED <<sendQueue, pool, below, content, sentBytes, lastBc0>>
  /\ \/ \E t \in Busy(forwarder) :
          /\ Slot(t).elem.packet = p /\ MayStop(fragmenter, t)
          /\ fragmenter' = stopFragmenting(fragmenter, t)
          /\ UNCHANGED forwarder
     \/ /\ \A t \in Busy(forwarder) : Slot(t).elem.packet # p
        /\ Places(forwarder.staged, p) # {}
        /\ forwarder' = markCompleted(forwarder, p, "ECANCEL")
        /\ UNCHANGED fragmenter

-----------------------------------------------------------------------------
(* processStagedPacketsTask.                                               *)

Allocated == IF pool = {} THEN {NULL}
             ELSE {Min(pool)} \cup (IF AllocationFails THEN {NULL} ELSE {})
FrameForNext == IF forwarder.freeFrame # NULL THEN {forwarder.freeFrame}
                ELSE Allocated

processStagedPacketsTask ==
  LET e == NextStaged(forwarder)
      fw == [forwarder EXCEPT !.tasks = @ \ {"staged"}]
  IN /\ UNCHANGED <<sendQueue, below, content, lastBc0, sentBytes>>
     /\ \/ /\ e = NULL /\ forwarder' = fw /\ UNCHANGED <<fragmenter, pool>>
        \/ /\ e # NULL
           /\ \E f \in FrameForNext :
                /\ pool' = pool \ {f}
                /\ IF f # NULL /\ FreeTokens(fragmenter) # {}
                     THEN LET t == Min(FreeTokens(fragmenter)) IN
                          /\ fragmenter' =
                               startFragmenting(fragmenter, t, e.packet)
                          /\ forwarder' = fragmentingStarted(fw, t, e, f)
                     ELSE /\ forwarder' = [fw EXCEPT !.freeFrame = f]
                          /\ UNCHANGED fragmenter

-----------------------------------------------------------------------------
(* fragmentationTask, for the token at the head of the queue.  The task is *)
(* posted only when there is one (StagesAgree).                            *)

(* The packet failed or was cancelled, and no frame of it is below.        *)
fragmentationStopped(fr, t) ==
  LET tk == fr.token[t]
      fw == IF tk.ready # NULL THEN frameReleased(forwarder, t, tk.ready)
                               ELSE forwarder
  IN /\ IsStopped(tk) /\ tk.sent = NULL
     /\ fragmenter' = finishFragmenting(fr, t)
     /\ forwarder' = fragmentingFinished(fw, t, StatusOf(tk))
     /\ pool' = pool \cup Freed(fw, t)
     /\ content' = [f \in Frames |-> IF f = tk.ready THEN NULL ELSE content[f]]
     /\ UNCHANGED <<sendQueue, sentBytes>>

(* A frame for the next fragment.  ready: the frame can be initialised for *)
(* its addresses; packed: the headers fit.                                 *)
fragmentObtained(fr, t) ==
  LET tk == fr.token[t]
      free == Slot(t).free
  IN /\ ~IsStopped(tk) /\ HasNext(tk) /\ tk.ready = NULL
     /\ \E ready, packed \in BOOLEAN :
          LET f == IF ready THEN free ELSE NULL IN
          /\ fragmenter' = reserveAndObtain(fr, t, f, packed)
          /\ forwarder' = IF f # NULL THEN frameGiven(forwarder, t)
                                      ELSE forwarder
          /\ content' = IF f = NULL THEN content
               ELSE [content EXCEPT ![f] =
                       [packet |-> tk.packet, offset |-> tk.offset,
                        size |-> IF packed THEN PackedSize(tk) ELSE 0,
                        bc0 |-> IF IsBroadcast(forwarder, t)
                                  THEN forwarder.bcastSeqNo ELSE NULL]]
     /\ UNCHANGED <<sendQueue, pool, sentBytes>>

fragmentSentOff(fr, t) ==
  LET tk == fr.token[t]
  IN /\ ~IsStopped(tk) /\ tk.ready # NULL /\ tk.sent = NULL
     /\ fragmenter' = sendFrame(fr, t, SendQueueTakes(sendQueue))
     /\ sendQueue' = startSending(sendQueue, tk.ready)
     /\ UNCHANGED <<forwarder, pool, content, sentBytes>>

(* Nothing to do until the frame below is sent; a cancelled packet asks    *)
(* the send queue to stop and gets EBUSY.                                  *)
fragmentAwaited(fr, t) ==
  LET tk == fr.token[t]
  IN /\ tk.sent # NULL
     /\ IsStopped(tk) \/ (tk.ready = NULL => ~HasNext(tk))
     /\ fragmenter' = fr
     /\ UNCHANGED <<sendQueue, forwarder, pool, content, sentBytes>>

fragmentationDone(fr, t) ==
  LET tk == fr.token[t]
  IN /\ ~IsStopped(tk) /\ ~HasNext(tk) /\ tk.ready = NULL /\ tk.sent = NULL
     /\ fragmenter' = finishFragmenting(fr, t)
     /\ forwarder' = fragmentingFinished(forwarder, t, "SUCCESS")
     /\ pool' = pool \cup Freed(forwarder, t)
     /\ UNCHANGED <<sendQueue, content, sentBytes>>

fragmentationTask ==
  /\ LET t == Head(fragmenter.jobs)
         fr == Dequeued(fragmenter)
     IN \/ fragmentationStopped(fr, t)
        \/ fragmentObtained(fr, t)
        \/ fragmentSentOff(fr, t)
        \/ fragmentAwaited(fr, t)
        \/ fragmentationDone(fr, t)
  /\ UNCHANGED <<below, lastBc0>>

-----------------------------------------------------------------------------
(* From the send queue to the ring of the forwarder, and to the radio.     *)

processQueueTask ==
  /\ IF MayPassOn(sendQueue)
       THEN /\ sendQueue' = passedOn(sendQueue)
            /\ forwarder' = frameEnqueued(forwarder, Head(sendQueue.queue))
       ELSE /\ sendQueue' = [sendQueue EXCEPT !.posted = FALSE]
            /\ UNCHANGED forwarder
  /\ UNCHANGED <<fragmenter, pool, below, content, sentBytes,
                 lastBc0>>

TxTimerFires ==
  /\ forwarder.timer
  /\ forwarder' = [Posted(forwarder, "frames") EXCEPT !.timer = FALSE]
  /\ UNCHANGED <<fragmenter, sendQueue, pool, below, content,
                 sentBytes, lastBc0>>

(* frameSendingFinished of the forwarder, the send queue and the fragmenter*)
(* and frameForFragmentedPacketReleased, after the forwarder has become    *)
(* fw; the packet of the frame has another try, or not.                    *)
Finishes(fw, status) ==
  LET f == FrameAtHead(forwarder)
      t == Head(forwarder.ring)
  IN IF Retries(forwarder, status)
       THEN forwarder' = fw /\ UNCHANGED <<fragmenter, sendQueue, content>>
       ELSE /\ sendQueue' = sendingFinished(sendQueue)
            /\ fragmenter' = fragmentSent(fragmenter, f, status)
            /\ forwarder' = frameReleased(fw, t, f)
            /\ content' = [content EXCEPT ![f] = NULL]

processEnqueuedFramesTask ==
  LET fw == [forwarder EXCEPT !.tasks = @ \ {"frames"}]
      f == FrameAtHead(forwarder)
  IN /\ \/ /\ forwarder.txBit \/ forwarder.ring = <<>>
           /\ forwarder' = fw
           /\ UNCHANGED <<below, lastBc0, fragmenter, sendQueue, content>>
        \/ /\ ~forwarder.txBit /\ forwarder.ring # <<>>
           /\ \/ /\ below = NULL /\ below' = f
                 /\ forwarder' = [fw EXCEPT !.txBit = TRUE]
                 /\ lastBc0' = IF content[f].bc0 = NULL THEN lastBc0
                               ELSE content[f].bc0
                 /\ UNCHANGED <<fragmenter, sendQueue, content>>
              \/ /\ Finishes(frameNotAccepted(fw, "EBUSY"), "EBUSY")
                 /\ UNCHANGED <<below, lastBc0>>
     /\ UNCHANGED <<pool, sentBytes>>

(* The radio stack has sent a frame, or has not.                           *)
SubFrameSendingFinished(status) ==
  LET c == content[below]
  IN /\ below # NULL /\ below' = NULL
     /\ Finishes(frameSendingFinished(forwarder, status), status)
     /\ sentBytes' = IF status = "SUCCESS" /\ sentBytes[c.packet] = c.offset
                       THEN [sentBytes EXCEPT ![c.packet] = @ + c.size]
                       ELSE sentBytes
     /\ UNCHANGED <<pool, lastBc0>>

RunNextTask ==
  /\ \/ Run("completed") /\ processCompletedPacketsTask
     \/ Run("staged") /\ processStagedPacketsTask
     \/ Run("fragmentation") /\ fragmentationTask
     \/ Run("sendQueue") /\ processQueueTask
     \/ Run("frames") /\ processEnqueuedFramesTask
  /\ Queued(Tail(taskQueue))

RadioAnswers ==
  \E status \in {"SUCCESS", "ENOACK"} : SubFrameSendingFinished(status)

Next ==
  \/ RunNextTask
  \/ /\ \E p \in Packets : \E a \in Routes[p] : startForwardingIpv6Packet(p, a)
     /\ Post
  \/ (\E p \in Packets : stopForwardingIpv6Packet(p)) /\ Post
  \/ TxTimerFires /\ Post
  \/ RadioAnswers /\ Post

Spec == Init /\ [][Next]_vars

(* Posted tasks run, the timer fires, and the radio stack answers.         *)
Fairness == /\ WF_vars(RunNextTask)
            /\ WF_vars(TxTimerFires /\ Post) /\ WF_vars(RadioAnswers /\ Post)
FairSpec == Spec /\ Fairness

-----------------------------------------------------------------------------
(* The types of the parts, and the bounds of the queues.                   *)
TokenTypeOK(tk) ==
  /\ tk.packet \in Packets \cup {NULL} /\ tk.offset \in Nat
  /\ tk.ready \in Frames \cup {NULL} /\ tk.sent \in Frames \cup {NULL}
  /\ tk.flags \subseteq {"PROCESSED", "FAILED", "CANCELED"}
  /\ tk.packet # NULL => tk.offset <= PacketLength[tk.packet]
SlotTypeOK(s) ==
  /\ s.free \in Frames \cup {NULL} /\ s.used \in Frames \cup {NULL}
  /\ s.retx \in 0..MaxRetransmissions

TypeOK ==
  /\ \A t \in Tokens : TokenTypeOK(Token(t)) /\ SlotTypeOK(Slot(t))
  /\ fragmenter.jobs \in Seq(Tokens)
  /\ Len(fragmenter.jobs) <= Cardinality(Tokens)
  /\ Len(sendQueue.queue) <= Cardinality(Tokens)
  /\ Len(forwarder.staged) + Len(forwarder.completed) <= MaxStaged
  /\ forwarder.bcastSeqNo \in 0..(SeqNos - 1)
  /\ pool \subseteq Frames /\ below \in Frames \cup {NULL}

(* No frame is lost or in two places: the frames that the allocator does   *)
(* not have are the spare one of the forwarder and one for each packet     *)
(* that is being fragmented (what the paths through lines 828-896 and 251- *)
(* 345 of the fragmenter add up to).                                       *)
FramesOf(t) == {Slot(t).free, Slot(t).used} \ {NULL}
NoFrameLost ==
  /\ \A t \in Tokens :
       Cardinality(FramesOf(t)) = IF Slot(t).elem = NULL THEN 0 ELSE 1
  /\ Cardinality(pool) + Cardinality(Busy(forwarder))
       + Cardinality({forwarder.freeFrame} \ {NULL}) = Cardinality(Frames)
  /\ \A f \in Frames :
       Cardinality({t \in Tokens : f \in FramesOf(t)})
         + (IF f \in pool THEN 1 ELSE 0)
         + (IF f = forwarder.freeFrame THEN 1 ELSE 0) = 1

(* The state has its types, the queues keep within their bounds, and the   *)
(* four parts agree on every packet and frame, as the assertions of        *)
(* the forwarder demand (426-446, 502, 585-591, 743-749, 835-840, 872-878; *)
(* all are compiled to nothing): what is in use was cut for a fragment;    *)
(* the queue of the fragmenter never overflows; the ring holds the frame   *)
(* that the send queue has passed on, and TxBit that it is below.          *)
StagesAgree ==
  /\ TypeOK
  /\ \A t \in Tokens :
       /\ (Token(t).packet = NULL) = (Slot(t).elem = NULL)
       /\ Slot(t).elem # NULL =>
            /\ Slot(t).elem.packet = Token(t).packet
            /\ Slot(t).elem \in Elements(forwarder.staged)
       /\ Token(t).ready = NULL \/ Token(t).sent = NULL
       /\ {Slot(t).used} = IF Token(t).ready # NULL THEN {Token(t).ready}
                           ELSE {Token(t).sent}
       /\ ("PROCESSED" \in Token(t).flags) = (t \in Elements(fragmenter.jobs))
       /\ Token(t).sent # NULL => Token(t).sent \in Elements(sendQueue.queue)
  /\ fragmenter.posted = (fragmenter.jobs # <<>>)
  /\ Len(forwarder.ring) = IF sendQueue.sending THEN 1 ELSE 0
  /\ sendQueue.sending => FrameAtHead(forwarder) = Head(sendQueue.queue)
  /\ forwarder.txBit = (below # NULL)
  /\ below # NULL => sendQueue.sending /\ below = FrameAtHead(forwarder)

(* "No two packets destined to the same link-layer address can be          *)
(* fragmented at the same time" (LoWPANIPv6PacketForwarderMainPrv.nc:78).  *)
OneFragmentationPerAddress ==
  \A t, u \in Busy(forwarder) :
    t # u => /\ Slot(t).elem.addr # Slot(u).elem.addr
             /\ Slot(t).elem.packet # Slot(u).elem.packet

(* A packet that is reported as forwarded was sent from its first byte to  *)
(* its last: the radio stack reported every fragment as sent, in order and *)
(* once, whatever was sent again or cancelled.                             *)
SuccessMeansSent ==
  \A e \in Elements(forwarder.completed) :
    e.status = "SUCCESS" => sentBytes[e.packet] = PacketLength[e.packet]

(* "broadcast packets the frames of which must get consecutive BC0         *)
(* sequence numbers" (LoWPANIPv6PacketForwarderMainPrv.nc:79-80): what is  *)
(* given to the radio stack has the number after the last one given to it, *)
(* so the frames of a packet have consecutive ones and no number is used   *)
(* twice in a row, whatever failed or was stopped in between.              *)
BroadcastNumbersConsecutive ==
  [][\A f \in Frames :
       below # f /\ below' = f /\ content[f].bc0 # NULL =>
         content[f].bc0 = (lastBc0 + 1) % SeqNos]_vars

(* A packet that is being fragmented, or is finished, is reported to the   *)
(* client in the end (LoWPANIPv6PacketForwarder.nc:33-37), whatever fails: *)
(* again and again there is a time when the forwarder has it no more.      *)
InHand(p) ==
  \/ \E t \in Busy(forwarder) : Slot(t).elem.packet = p
  \/ Places(forwarder.completed, p) # {}
WorkedOnIsReported == \A p \in Packets : []<>~InHand(p)

(* "SUCCESS if forwarding the packet has been started successfully, in     *)
(* which case the forwardingIpv6PacketFinished event is guaranteed to be   *)
(* signaled" (LoWPANIPv6PacketForwarder.nc:33-37): a packet that waits on  *)
(* the staging list is taken up.                                           *)
StagedIsTakenUp ==
  \A p \in Packets : Places(forwarder.staged, p) # {} ~> InHand(p)
=============================================================================
