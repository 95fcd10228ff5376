--------------------------- MODULE PacketForwarder --------------------------
(***************************************************************************)
(* The forwarder of IPv6 packets (LoWPANIPv6PacketForwarderMainPrv.nc) and *)
(* its staging queue (uc6LoWPANPacketForwarding.c), as operations on a     *)
(* record fw.  It has as many slots as the fragmenter has tokens.          *)
(***************************************************************************)
EXTENDS Fragmenter

CONSTANTS
  MaxStaged,        \* MAX_NUM_STAGED_PACKETS
  Broadcast,        \* the broadcast address
  MaxRetransmissions, \* MaxFrameRetransmissionAttempts
  SeqNos            \* BC0 numbers are counted modulo this

ASSUME PacketForwarderConstants ==
  /\ MaxStaged \in Nat \ {0} /\ MaxRetransmissions \in Nat
  /\ SeqNos \in Nat \ {0}

(* fw.staged and fw.completed are the lists of the staging queue, of       *)
(* elements [packet, addr, status].  fw.slot is m_fragmentedPackets, where *)
(* the flags are those of the address of the element; fw.ring is           *)
(* m_frameQueueArray from its first index; fw.tasks are the tasks posted.  *)
FreeSlot == [elem |-> NULL, free |-> NULL, used |-> NULL, retx |-> 0]

ForwarderStart(frame, seqNo) ==
  [staged |-> <<>>, completed |-> <<>>, freeFrame |-> frame,
   slot |-> [t \in Tokens |-> FreeSlot], ring |-> <<>>, txBit |-> FALSE,
   timer |-> FALSE, bcastSeqNo |-> seqNo, tasks |-> {}]

Posted(fw, task) == [fw EXCEPT !.tasks = @ \cup {task}]
Busy(fw) == {t \in Tokens : fw.slot[t].elem # NULL}
IsBroadcast(fw, t) == fw.slot[t].elem.addr = Broadcast

-----------------------------------------------------------------------------
(* startForwardingIpv6Packet: an element is taken out of the pool.         *)
MayEnqueue(fw) == Len(fw.staged) + Len(fw.completed) < MaxStaged
startForwarding(fw, p, a) ==
  Posted([fw EXCEPT !.staged =
            Append(@, [packet |-> p, addr |-> a, status |-> "SUCCESS"])],
         "staged")

(* processStagedPacketsTask goes for the first element that neither is     *)
(* being fragmented nor has the address of one that is.                    *)
HeldBack_Slip(fw, e) == \E t \in Busy(fw) : fw.slot[t].elem.packet = e.packet
HeldBack(fw, e) ==
  \E t \in Busy(fw) : \/ fw.slot[t].elem.packet = e.packet
                      \/ fw.slot[t].elem.addr = e.addr
NextStaged(fw) ==
  LET S == {i \in 1..Len(fw.staged) : ~HeldBack(fw, fw.staged[i])}
  IN IF S = {} THEN NULL ELSE fw.staged[Min(S)]

(* tryToStartForwardingStagedPacket, once there are a frame and a token.   *)
fragmentingStarted(fw, t, e, frame) ==
  Posted([fw EXCEPT !.slot[t] = [FreeSlot EXCEPT !.elem = e, !.free = frame],
                    !.freeFrame = NULL], "staged")

(* frameForFragmentedPacketRequested, when a frame is there and can be     *)
(* initialised for its addresses.                                          *)
frameGiven(fw, t) ==
  [fw EXCEPT !.slot[t].used = fw.slot[t].free, !.slot[t].free = NULL,
             !.slot[t].retx = IF IsBroadcast(fw, t) THEN 0
                              ELSE MaxRetransmissions]

(* frameForFragmentedPacketReleased.  The pool gets the frame back if the  *)
(* packet has another one (it never does).                                 *)
frameReleased(fw, t, frame) ==
  [fw EXCEPT !.slot[t].used = NULL,
             !.slot[t].free = IF @ = NULL THEN frame ELSE @]

(* stopForwardingNonfragmentedPacket: the packet is staged or completed,   *)
(* or not known.                                                           *)
Places(list, p) == {i \in 1..Len(list) : list[i].packet = p}
markCompleted(fw, p, status) ==
  LET i == Min(Places(fw.staged, p))
  IN Posted([fw EXCEPT
       !.staged = SubSeq(@, 1, i - 1) \o SubSeq(@, i + 1, Len(@)),
       !.completed = Append(@, [fw.staged[i] EXCEPT !.status = status])],
     "completed")

(* fragmentingIpv6PacketFinished.  Freed(fw, t) goes back to the allocator.*)
Freed(fw, t) ==
  IF fw.freeFrame = NULL THEN {} ELSE {fw.slot[t].free} \ {NULL}
fragmentingFinished_Slip(fw, t, status) ==  \* the frame stays with the slot
  markCompleted([fw EXCEPT !.slot[t] = [@ EXCEPT !.elem = NULL]],
                fw.slot[t].elem.packet, status)

fragmentingFinished(fw, t, status) ==
  markCompleted([fw EXCEPT !.slot[t] = FreeSlot,
                           !.freeFrame = IF @ = NULL THEN fw.slot[t].free
                                         ELSE @],
                fw.slot[t].elem.packet, status)

-----------------------------------------------------------------------------
(* The ring of frames.                                                     *)
OwnerOf(fw, frame) == CHOOSE t \in Busy(fw) : fw.slot[t].used = frame
FrameAtHead(fw) == fw.slot[Head(fw.ring)].used

(* FrameSender.startSendingFrame.  There is room: the send queue passes    *)
(* one frame at a time (StagesAgree).                                      *)
frameEnqueued(fw, frame) ==
  [fw EXCEPT !.ring = Append(@, OwnerOf(fw, frame)),
             !.timer = @ \/ ~fw.txBit]

(* processEnqueuedFramesTask and SubFrameSender.frameSendingFinished:      *)
(* whether the frame at the head is sent again, and what becomes of the    *)
(* ring, the timer and the number either way.                              *)
Retries(fw, status) ==
  status # "SUCCESS" /\ fw.slot[Head(fw.ring)].retx > 0

AfterAttempt_Slip(fw, status) ==           \* not enqueued for the next try
  LET t == Head(fw.ring)
      again == Retries(fw, status)
  IN [fw EXCEPT !.ring = Tail(@), !.timer = TRUE,
                !.slot[t].retx = IF again THEN @ - 1 ELSE @]

AfterAttempt(fw, status) ==
  LET t == Head(fw.ring)
      again == Retries(fw, status)
  IN [fw EXCEPT !.ring = IF again THEN Append(Tail(@), t) ELSE Tail(@),
                !.slot[t].retx = IF again THEN @ - 1 ELSE @,
                !.timer = TRUE]

frameNotAccepted(fw, status) == AfterAttempt(fw, status)

frameSendingFinished_Slip(fw, status) ==   \* only what was sent is counted
  LET t == Head(fw.ring)
  IN [AfterAttempt(fw, status) EXCEPT
        !.txBit = FALSE,
        !.bcastSeqNo = IF IsBroadcast(fw, t) /\ status = "SUCCESS"
                         THEN (@ + 1) % SeqNos ELSE @]

frameSendingFinished(fw, status) ==
  LET t == Head(fw.ring)
  IN [AfterAttempt(fw, status) EXCEPT
        !.txBit = FALSE,
        !.bcastSeqNo = IF IsBroadcast(fw, t) THEN (@ + 1) % SeqNos ELSE @]
=============================================================================
