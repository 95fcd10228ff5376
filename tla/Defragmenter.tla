---------------------------- MODULE Defragmenter ----------------------------
(***************************************************************************)
(* The 6LoWPAN defragmenter: the task that takes received frames through   *)
(* its stages (lib/lowpan/LoWPANDefragmenterMainPrv.nc) and the table of   *)
(* datagrams under reassembly that it drives (uc6LoWPANDefragmentation.c). *)
(*                                                                         *)
(* All handlers run in the main process as tasks or are called from tasks, *)
(* so each is one action; what interleaves is the stages of one frame with *)
(* receptions and with the timer.  The receiver, the frame allocator and   *)
(* the packet allocator are other components: they answer in every way     *)
(* that their interfaces allow.                                            *)
(***************************************************************************)
EXTENDS Reassembly

CONSTANTS
  Frames,           \* frame buffers of the allocator
  QueueSize,        \* frame_queue_size
  Slots,            \* the states for datagrams: defrag_packet_pool_size of them
  SpecPoolSize,     \* frag_spec_pool_size
  FrameKinds,       \* what a received frame can contain, see below
  Values,           \* what a unit of a packet can contain
  Timeout,          \* ReassemblyTimeoutInMillis, in ticks
  ClockSize,        \* the clock counts modulo this number of ticks
  MayRefuse,        \* whether startReceivingFrame may answer EINVAL or ESTATE
  NULL

(* A frame is [kind |-> "bad"]: its headers do not unpack; "unusable": they *)
(* do but the frame is inter-PAN, the datagram is shorter than an IPv6      *)
(* header or the IPv6 packet is malformed; "entire": it holds a packet; or  *)
(* it is a fragment [kind, key, total, offset, size, value, ok], where ~ok  *)
(* is a payload that the code rejects and value what all its units contain. *)
ASSUME DefragmenterConstants ==
  /\ QueueSize \in Nat \ {0} /\ SpecPoolSize \in Nat
  /\ ClockSize \in Nat \ {0} /\ Timeout \in 1..ClockSize
  /\ MayRefuse \in BOOLEAN
  /\ IsFiniteSet(Slots) /\ NULL \notin Slots \cup Frames
  /\ NULL \notin [total : Nat, written : SUBSET Nat]
  /\ \A c \in FrameKinds :
       \/ c.kind \in {"bad", "unusable", "entire"}
       \/ /\ c.kind = "fragment" /\ c.total \in Nat \ {0}
          /\ c.offset \in Nat /\ c.size \in Nat \ {0}
          /\ c.offset + c.size <= c.total /\ c.value \in Values
          /\ c.ok \in BOOLEAN

VARIABLES
  isOn, timeoutPending,       \* IsOnBit, TimeoutPendingBit
  m_doneUntilNow, m_processedPacket,
  m_readyPacket,              \* NULL or [total, written]
  posted,                     \* processReceivedFrameTask is in the task queue
  queue,                      \* Ieee154FrameQueue
  content,                    \* content[f]: what frame buffer f contains
  owned,                      \* buffers allocated by the defragmenter
  receiving,                  \* the buffer that the receiver has, or NULL
  slot,                       \* slot[s]: a lowpan_defrag_packet_state_t
  freeSpecs,                  \* the length of freeAdditionalFragSpecs
  now, alarm,                 \* the clock, and when the timer fires, or NULL
  late,                       \* the clock has moved since the task was posted
  live                        \* history: packets allocated, neither freed
                              \* nor handed over to the upper layer
frameVars == <<queue, content, owned, receiving>>
stageVars == <<m_doneUntilNow, m_processedPacket, m_readyPacket>>
tableVars == <<slot, freeSpecs, live>>
timeVars == <<timeoutPending, now, alarm>>
vars == <<isOn, posted, late, frameVars, stageVars, tableVars, timeVars>>

Stages == {"NOTHING", "UNPACK_6LOWPAN_HDRS", "LOCK_IPV6_PACKET",
           "DEFRAGMENTING_IPV6_PACKET"}
FreeSlot == [list |-> "free", packet |-> FALSE]

TypeOK ==
  /\ isOn \in BOOLEAN /\ timeoutPending \in BOOLEAN
  /\ posted \in BOOLEAN /\ late \in BOOLEAN
  /\ m_doneUntilNow \in Stages /\ m_processedPacket \in Slots \cup {NULL}
  /\ m_readyPacket # NULL => m_readyPacket.written \subseteq Nat
  /\ queue \in Seq(Frames) /\ Len(queue) <= QueueSize
  /\ content \in [Frames -> FrameKinds \cup {NULL}]
  /\ owned \subseteq Frames /\ receiving \in Frames \cup {NULL}
  /\ DOMAIN slot = Slots
  /\ \A s \in Slots :
       slot[s] = FreeSlot \/
       /\ slot[s].list \in {"current", "locked"} /\ slot[s].packet
       /\ slot[s].start \in 0..(ClockSize - 1)
       /\ Coverage(slot[s].specs) \cup slot[s].written
            \subseteq 0..(slot[s].total - 1)
       /\ slot[s].data \in [0..(slot[s].total - 1) -> Values]
  /\ freeSpecs \in 0..SpecPoolSize
  /\ now \in 0..(ClockSize - 1) /\ alarm \in 0..(ClockSize - 1) \cup {NULL}
  /\ live \in Nat

-----------------------------------------------------------------------------
(* The table of datagrams.  The lists currentPackets, lockedPackets and    *)
(* freePackets are the marks slot[s].list: their order decides only which  *)
(* free state is taken.                                                    *)

On(list) == {s \in Slots : slot[s].list = list}
Age(s) == (now - slot[s].start) % ClockSize

(* DestroyDefragPacket(s) for every s in gone: the packet is freed and the *)
(* specifications go back to the pool.                                     *)
Gone(table, gone) == [s \in Slots |-> IF s \in gone THEN FreeSlot ELSE table[s]]
HeldSpecs(table, gone) ==
  UNION {{s} \X (2..Len(table[s].specs)) :
           s \in {t \in gone : table[t].list # "free"}}
SpecsHeld(table, gone) == Cardinality(HeldSpecs(table, gone))
PacketsHeld(table, gone) == Cardinality({s \in gone : table[s].packet})

Destroy(gone) ==
  /\ slot' = Gone(slot, gone)
  /\ freeSpecs' = freeSpecs + SpecsHeld(slot, gone)
  /\ live' = live - PacketsHeld(slot, gone)

(* A new datagram for fragment c in slot s.  The memory of the packet is   *)
(* not cleared: whatever it held before may match what arrives later.      *)
NewDatagram(c, memory) ==
  [list |-> "locked", packet |-> TRUE, key |-> c.key, total |-> c.total,
   specs |-> <<Spec0>>, start |-> now, data |-> memory, written |-> {}]

(* FindExistingOrAllocateNewPacketAndLockIt(c) returns r.  A datagram of   *)
(* another size under the same key is destroyed first.                     *)
Find_Slip(c, r) ==        \* a datagram of another size is just not found
  LET same == {s \in On("current") :
                 slot[s].key = c.key /\ slot[s].total = c.total}
  IN IF same # {}
       THEN /\ r \in same
            /\ slot' = [slot EXCEPT ![r].list = "locked"]
            /\ UNCHANGED <<freeSpecs, live>>
       ELSE \/ r = NULL /\ UNCHANGED tableVars
            \/ \E s \in On("free"), memory \in [0..(c.total - 1) -> Values] :
                 /\ r = s
                 /\ slot' = [slot EXCEPT ![s] = NewDatagram(c, memory)]
                 /\ live' = live + 1 /\ UNCHANGED freeSpecs

Find(c, r) ==
  LET same == {s \in On("current") : slot[s].key = c.key}
      stale == {s \in same : slot[s].total # c.total}
      table == Gone(slot, stale)
  IN IF same # stale
       THEN /\ r \in same
            /\ slot' = [slot EXCEPT ![r].list = "locked"]
            /\ UNCHANGED <<freeSpecs, live>>
       ELSE \/ /\ r = NULL           \* no free slot, or no memory for a packet
               /\ Destroy(stale)
            \/ \E s \in {s \in Slots : table[s].list = "free"},
                  memory \in [0..(c.total - 1) -> Values] :
                 /\ r = s
                 /\ slot' = [table EXCEPT ![s] = NewDatagram(c, memory)]
                 /\ freeSpecs' = freeSpecs + SpecsHeld(slot, stale)
                 /\ live' = live - PacketsHeld(slot, stale) + 1

(* PassFrameWithIpv6PacketFragment copies fragment c into the packet of s, *)
(* compares it with what was there, and merges it.  The pointer to the     *)
(* comparison is NULL for a first fragment while firstFragSpec is empty.   *)
Identical(s, c) ==
  /\ \A u \in Covers(c) : slot[s].data[u] = c.value
  /\ c.offset = 0 => slot[s].specs[1].size > 0

Merge(s, c) ==
  MergeNewFragSpec(slot[s].specs, [offset |-> c.offset, size |-> c.size],
                   freeSpecs, Identical(s, c))

(* Slot s after c has been merged with the outcome m.                      *)
Filled(s, c, m) ==
  [slot[s] EXCEPT !.list = "current", !.specs = m.specs,
     !.data = [u \in DOMAIN @ |-> IF u \in Covers(c) THEN c.value ELSE @[u]],
     !.written = @ \cup Covers(c)]

PassFragment(s, c) ==
  LET m == Merge(s, c)
      d == Filled(s, c, m)
  IN IF ~c.ok
       THEN m_readyPacket' = NULL /\ Destroy({s})
     ELSE IF ~m.ok
       THEN /\ m_readyPacket' = NULL
            /\ slot' = [slot EXCEPT ![s] = FreeSlot]
            /\ freeSpecs' = FreedWith(m.specs, m.free) /\ live' = live - 1
     ELSE IF m.specs[1].size = c.total
       THEN /\ m_readyPacket' = [total |-> d.total, written |-> d.written]
            /\ slot' = [slot EXCEPT ![s] = FreeSlot]
            /\ freeSpecs' = FreedWith(m.specs, m.free) /\ UNCHANGED live
     ELSE /\ m_readyPacket' = NULL
          /\ slot' = [slot EXCEPT ![s] = d]
          /\ freeSpecs' = m.free /\ UNCHANGED live

(* tryToHandlePeriodicTimeout and PeriodicTimeout: nothing is done while a *)
(* datagram is locked.                                                     *)
HandleTimeout_Slip ==     \* a locked datagram does not defer the timeout
  IF On("locked") # {}
    THEN UNCHANGED <<tableVars, timeoutPending>>
    ELSE /\ timeoutPending' = FALSE
         /\ Destroy({s \in On("current") : Age(s) >= Timeout})

HandleTimeout ==
  IF On("locked") # {}
    THEN timeoutPending' = TRUE /\ UNCHANGED tableVars
    ELSE /\ timeoutPending' = FALSE
         /\ Destroy({s \in On("current") : Age(s) >= Timeout})

-----------------------------------------------------------------------------
(* Buffers.  startReceivingFrame(f) with the frame queue q, when the       *)
(* defragmenter owns the buffers mine and the receiver has the buffer busy *)
(* or NULL: f or, if f is NULL, a newly allocated one goes to the receiver *)
(* unless it has one already; when it does not go there, it is freed.      *)
HandOver_Slip(f, mine, busy) ==   \* a refused buffer is not freed
  \/ busy = NULL /\ receiving' = f /\ owned' = mine
  \/ /\ busy # NULL \/ MayRefuse
     /\ receiving' = busy /\ owned' = mine

HandOver(f, mine, busy) ==
  \/ busy = NULL /\ receiving' = f /\ owned' = mine
  \/ /\ busy # NULL \/ MayRefuse
     /\ receiving' = busy /\ owned' = mine \ {f}

StartReceiving(f, q, mine, busy) ==
  IF Len(q) = QueueSize
    THEN owned' = mine \ {f} /\ receiving' = busy
  ELSE IF f # NULL
    THEN HandOver(f, mine, busy)
  ELSE \/ \E g \in Frames \ mine : HandOver(g, mine \cup {g}, busy)
       \/ owned' = mine /\ receiving' = busy    \* allocFrame() returned NULL

-----------------------------------------------------------------------------
Init ==
  /\ isOn = FALSE /\ timeoutPending = FALSE
  /\ m_doneUntilNow = "NOTHING"
  /\ m_processedPacket = NULL /\ m_readyPacket = NULL
  /\ posted = FALSE /\ late = FALSE
  /\ queue = << >> /\ owned = {} /\ receiving = NULL
  /\ content = [f \in Frames |-> NULL]
  /\ slot = [s \in Slots |-> FreeSlot] /\ freeSpecs = SpecPoolSize /\ live = 0
  /\ now = 0 /\ alarm = NULL

InHalfTimeout == (now + Timeout \div 2) % ClockSize

(* SynchronousStarter.start(); it is refused when the defragmenter is on   *)
(* or its queue is not empty.                                              *)
Start ==
  /\ ~isOn /\ queue = << >>
  /\ StartReceiving(NULL, queue, owned, receiving)
  /\ slot' = [s \in Slots |-> FreeSlot] /\ freeSpecs' = SpecPoolSize
  /\ isOn' = (receiving' # NULL)
  /\ alarm' = IF isOn' THEN InHalfTimeout ELSE alarm
  /\ UNCHANGED <<posted, late, stageVars, queue, content, live,
                 timeoutPending, now>>

(* frameReceivingFinished(f, SUCCESS) with the contents c, and the call of *)
(* startProcessingFrameIfNecessary in it.                                  *)
FrameReceived(c) ==
  LET q == Append(queue, receiving)
  IN /\ receiving # NULL
     /\ content' = [content EXCEPT ![receiving] = c]
     /\ IF ~isOn \/ Len(queue) = QueueSize
          THEN /\ owned' = owned \ {receiving} /\ receiving' = NULL
               /\ UNCHANGED <<queue, posted, stageVars>>
          ELSE /\ queue' = q
               /\ StartReceiving(NULL, q, owned, NULL)
               /\ IF Len(q) = 1
                    THEN /\ m_processedPacket' = NULL /\ m_readyPacket' = NULL
                         /\ m_doneUntilNow' = "NOTHING" /\ posted' = TRUE
                    ELSE UNCHANGED <<posted, stageVars>>
     /\ UNCHANGED <<isOn, late, tableVars, timeVars>>

(* frameReceivingFinished(f, status) with another status.                  *)
ReceptionFailed ==
  /\ receiving # NULL
  /\ IF ~isOn \/ Len(queue) = QueueSize
       THEN owned' = owned \ {receiving} /\ receiving' = NULL
       ELSE StartReceiving(receiving, queue, owned, NULL)
  /\ UNCHANGED <<isOn, posted, late, queue, content, stageVars, tableVars,
                 timeVars>>

-----------------------------------------------------------------------------
(* processReceivedFrameTask.  It returns at once when the queue is empty   *)
(* or the defragmenter is off; TaskHasWork says that it never is.          *)
TaskRuns == posted /\ isOn /\ queue # << >> /\ late' = FALSE

TaskHandlesTimeout ==
  /\ TaskRuns
  /\ m_processedPacket = NULL /\ timeoutPending
  /\ HandleTimeout
  /\ UNCHANGED <<isOn, posted, frameVars, stageVars, now, alarm>>

(* A stage of the frame at the head of the queue.  m_unpackedHeaders is    *)
(* what the first stage has read from that frame.                          *)
Stage(s) ==
  /\ TaskRuns
  /\ ~(m_processedPacket = NULL /\ timeoutPending)
  /\ m_doneUntilNow = s
  /\ UNCHANGED <<isOn, content, timeVars>>
Headers == content[Head(queue)]

GoOn(s) ==
  /\ m_doneUntilNow' = s
  /\ UNCHANGED <<posted, queue, owned, receiving>>

(* stopProcessingFrameAndStartReceivingNewOne().  Its callers have left    *)
(* m_processedPacket and m_readyPacket NULL, so it unlocks and frees       *)
(* nothing.                                                                *)
Stop_Slip ==              \* the buffer is freed, and no reception started
  /\ m_doneUntilNow' = "NOTHING"
  /\ queue' = Tail(queue)
  /\ owned' = owned \ {Head(queue)} /\ UNCHANGED receiving
  /\ posted' = (Tail(queue) # << >>)

Stop ==
  /\ m_doneUntilNow' = "NOTHING"
  /\ queue' = Tail(queue)
  /\ StartReceiving(Head(queue), Tail(queue), owned, receiving)
  /\ posted' = (Tail(queue) # << >>)

unpack6LoWPANHeaders ==
  /\ Stage("NOTHING")
  /\ IF Headers.kind = "bad" THEN Stop ELSE GoOn("UNPACK_6LOWPAN_HDRS")
  /\ UNCHANGED <<m_processedPacket, m_readyPacket, tableVars>>

(* startDefragmentationIfRequired() for a frame with a fragment.           *)
lockDatagram ==
  /\ Stage("UNPACK_6LOWPAN_HDRS") /\ Headers.kind = "fragment"
  /\ \E r \in Slots \cup {NULL} :
       /\ Find(Headers, r)
       /\ m_processedPacket' = r
       /\ IF r = NULL THEN Stop ELSE GoOn("LOCK_IPV6_PACKET")
  /\ UNCHANGED m_readyPacket

(* startDefragmentationIfRequired() for another frame.  The packet in it   *)
(* is found malformed, or cannot be allocated, or is there.                *)
passEntirePacket ==
  /\ Stage("UNPACK_6LOWPAN_HDRS") /\ Headers.kind # "fragment"
  /\ \/ Stop /\ UNCHANGED <<m_readyPacket, live>>
     \/ /\ Headers.kind = "entire"
        /\ m_readyPacket' = [total |-> 1, written |-> {0}]
        /\ live' = live + 1
        /\ GoOn("DEFRAGMENTING_IPV6_PACKET")
  /\ UNCHANGED <<m_processedPacket, slot, freeSpecs>>

mergeFragmentToPacket_Slip ==   \* m_processedPacket is not reset
  /\ Stage("LOCK_IPV6_PACKET")
  /\ PassFragment(m_processedPacket, Headers)
  /\ IF m_readyPacket' = NULL THEN Stop ELSE GoOn("DEFRAGMENTING_IPV6_PACKET")
  /\ UNCHANGED m_processedPacket

mergeFragmentToPacket ==
  /\ Stage("LOCK_IPV6_PACKET")
  /\ PassFragment(m_processedPacket, Headers)
  /\ m_processedPacket' = NULL
  /\ IF m_readyPacket' = NULL THEN Stop ELSE GoOn("DEFRAGMENTING_IPV6_PACKET")

(* The packet goes to the handler of defragmentingIpv6PacketFinished.      *)
deliverDefragmentedPacket ==
  /\ Stage("DEFRAGMENTING_IPV6_PACKET")
  /\ m_readyPacket' = NULL /\ live' = live - 1
  /\ Stop
  /\ UNCHANGED <<m_processedPacket, slot, freeSpecs>>

-----------------------------------------------------------------------------
(* ReassemblyTimeoutTimer.fired(); the timer is armed only while the       *)
(* defragmenter is on.                                                     *)
TimerFired ==
  /\ isOn /\ alarm = now
  /\ alarm' = InHalfTimeout
  /\ HandleTimeout
  /\ UNCHANGED <<isOn, posted, late, frameVars, stageVars, now>>

(* Time passes.  A tick stands for half of the reassembly timeout or less, *)
(* that is, for tens of seconds: timers fire in the tick in which they are *)
(* due and a posted task runs before the clock has moved twice.            *)
Tick ==
  /\ ClockSize > 1 /\ isOn /\ alarm # now
  /\ ~(posted /\ late)
  /\ now' = (now + 1) % ClockSize
  /\ late' = posted
  /\ UNCHANGED <<isOn, posted, frameVars, stageVars, tableVars,
                 timeoutPending, alarm>>

TaskStep ==
  \/ TaskHandlesTimeout \/ unpack6LoWPANHeaders \/ lockDatagram
  \/ passEntirePacket \/ mergeFragmentToPacket \/ deliverDefragmentedPacket

Next ==
  \/ Start \/ TaskStep \/ TimerFired \/ Tick \/ ReceptionFailed
  \/ \E c \in FrameKinds : FrameReceived(c)

Spec == Init /\ [][Next]_vars

(* The process scheduler runs the posted task, and the timer is served.    *)
FairSpec == Spec /\ WF_vars(TaskStep) /\ WF_vars(TimerFired)

-----------------------------------------------------------------------------
Busy == Slots \ On("free")
Queued == {queue[i] : i \in 1..Len(queue)}

(* A packet that goes to the upper layer has had every unit written since  *)
(* its memory was allocated, whatever fragments came in whatever order:    *)
(* PassFrameWithIpv6PacketFragment decides this from firstFragSpec alone.  *)
DeliveredIsWhole ==
  m_readyPacket # NULL => m_readyPacket.written = 0..(m_readyPacket.total - 1)

(* What has been received is not forgotten: while all fragments of a       *)
(* datagram come from one fragmentation of it, in any order, repeated or   *)
(* not, the specifications cover exactly the units received.               *)
FragmentKinds == {c \in FrameKinds : c.kind = "fragment"}
Agree(c, d) == c = d \/ c.key # d.key \/ Covers(c) \cap Covers(d) = {}
FragmentedOnce == {c.key : c \in {x \in FragmentKinds :
                     \A e, d \in FragmentKinds : e.key = x.key => Agree(e, d)}}

NothingLost ==
  \A s \in Busy : slot[s].key \in FragmentedOnce =>
                    Coverage(slot[s].specs) = slot[s].written

(* While all fragments of a datagram come from one fragmentation of it, in *)
(* any order, repeated or not, its specifications are in the order of      *)
(* their offsets with something missing between any two: a fragment that   *)
(* closes a gap leaves one specification of what was two, although         *)
(* MergeNewFragSpecIntoPacket tries one following specification only.      *)
PiecesStayApart ==
  \A s \in Busy : slot[s].key \in FragmentedOnce =>
    \A i, j \in 1..Len(slot[s].specs) :
      i < j => End(slot[s].specs[i]) < slot[s].specs[j].offset

(* A datagram goes back to currentPackets only while it is not complete:   *)
(* the specifications of what stays there never cover all of it.           *)
CompleteIsDelivered ==
  \A s \in On("current") :
    Coverage(slot[s].specs) # 0..(slot[s].total - 1)

(* A fragment that contradicts what has been received evicts it, while the *)
(* specifications of the datagram do not overlap: when it differs from a   *)
(* unit that some specification counts, nothing of what this specification *)
(* stood for is counted afterwards but the fragment's own units, and still *)
(* none overlap.  Without the premise it is not so: a fragment is compared *)
(* with two specifications at most, and one that overlaps these goes on    *)
(* counting the unit that has changed.                                     *)
NoneOverlap(list) ==
  \A i, j \in 1..Len(list) : i < j => Covers(list[i]) \cap Covers(list[j]) = {}

ConflictsAreDropped ==
  [][\A s \in Slots :
       slot[s].list = "locked" /\ slot'[s].list = "current"
         /\ NoneOverlap(slot[s].specs) =>
         \A i \in 1..Len(slot[s].specs) :
           LET old == Covers(slot[s].specs[i])
               new == Covers(Headers)
           IN (\E u \in old \cap new : slot[s].data[u] # Headers.value) =>
                /\ Coverage(slot'[s].specs) \cap old \subseteq new
                /\ NoneOverlap(slot'[s].specs)]_vars

(* Fragment specifications are neither lost nor given back twice, on any   *)
(* of the ways a reassembly goes on or ends.                               *)
SpecsConserved == freeSpecs + SpecsHeld(slot, Slots) = SpecPoolSize

(* The packets in use are those of the datagrams in the table and the one  *)
(* on its way to the upper layer: none leaks and none is freed twice.      *)
PacketsConserved ==
  live = PacketsHeld(slot, Slots) + (IF m_readyPacket = NULL THEN 0 ELSE 1)

(* The buffers that the defragmenter has allocated are in its queue, each  *)
(* once, or with the receiver: none leaks and none is in two places.       *)
BuffersConserved ==
  /\ owned = Queued \cup ({receiving} \ {NULL})
  /\ receiving \notin Queued
  /\ Cardinality(Queued) = Len(queue)

NothingLeaks == SpecsConserved /\ PacketsConserved /\ BuffersConserved

(* Fragments of one datagram are collected in one place.                   *)
OneReassemblyPerKey ==
  \A s, t \in Busy : slot[s].key = slot[t].key => s = t

(* The only locked datagram is the one of the frame being processed, in    *)
(* the one stage that works on it; a packet is ready in the next one.  So  *)
(* whenever the task stops with a frame there is nothing left to clean up. *)
LockIsProcessed ==
  /\ On("locked") = {m_processedPacket} \ {NULL}
  /\ m_processedPacket # NULL <=> m_doneUntilNow = "LOCK_IPV6_PACKET"
  /\ m_readyPacket # NULL <=> m_doneUntilNow = "DEFRAGMENTING_IPV6_PACKET"

(* The task is in the task queue exactly while there is a frame to process *)
(* (posts at startProcessingFrameIfNecessary, at every stage, at its end). *)
TaskHasWork == (posted <=> queue # << >>) /\ (posted => isOn)

(* A received frame always finds the defragmenter on and room in its       *)
(* queue, so that frameReceivingFinished never has to drop it.             *)
ReceptionHasRoom == receiving # NULL => isOn /\ Len(queue) < QueueSize

(* The stage, the locked datagram, the ready packet, the task, the queue   *)
(* and the buffer at the receiver agree, between any two of the tasks,     *)
(* events and commands of LoWPANDefragmenterMainPrv.nc.                    *)
StagesMatchFrames == LockIsProcessed /\ TaskHasWork /\ ReceptionHasRoom

(* No datagram is kept for more than two periods of the timer beyond its   *)
(* timeout, though the timer may find a datagram locked again and again:   *)
(* the timeout is made up for before the next datagram gets locked.        *)
StaleIsDropped ==
  \A s \in Busy : Age(s) <= Timeout + 2 * (Timeout \div 2)

(* Reception resumes: while nothing is being received there is a frame in  *)
(* process, which goes through its stages whatever it holds, and whose end *)
(* starts the next reception, so that a full queue and failed allocations  *)
(* do not stop it for good.  (A receiver that refuses the buffer does:     *)
(* then nobody calls startReceivingFrame any more.)                        *)
ReceptionResumes == isOn ~> receiving # NULL
=============================================================================
