# Models and proofs of whip6

whip6 is an operating system and an IPv6/6LoWPAN stack for small wireless nodes
(Cortex-M3, CC26xx), written in nesC (`src/nesc/whip6`) on top of algorithms in
C (`src/microc`). This directory holds TLA+ models of its core, the TLC
configurations that check them and TLAPS proofs about them. Every definition
that stands for code is listed, with the lines it stands for, in the `map` of
`PROJECT.json`; `hazards` there lists what can go wrong in this code that tests
hardly reach, and the properties that look for it.

Operators whose names end in `_Slip` are deliberate errors: variants of the
definition that follows them, each used once to see that a property can fail.

## 1. The system and its parts

The program is one statically linked image. Code runs in three kinds of
context: **tasks**, run one after the other by the task scheduler inside the
process "main"; other **processes**, switched without preemption, of which the
repository itself has only "idle"; and **interrupt handlers**. nesC `atomic`
sections mask interrupts; commands marked `async` may be called from handlers.
Nothing is persisted: a reset starts from nothing.

| Part | State it keeps | Operations | Talks to | Hard behaviour | Correct when |
|---|---|---|---|---|---|
| Task scheduler (`sys/scheduler`, `sys/bootseq`) | linked list `m_head`, `m_tail`, `m_next` | post, run next, task loop | every component posts; hook resumes main | posts from handlers while the loop finds the list empty | FIFO, each task once, no task forgotten |
| Process scheduler, main, idle (`sys/processes`) | run list, sleep list, state, priority, current | suspend, resume, setPriority, schedule | task scheduler, PendSV handler, sleep | wake-up between the decision to sleep and sleeping | no lost wake-up; sleeps only when idle |
| Sleep (`cc26xx/power`) | `sleepEnabled`, clocks | sleep, ask before sleep | idle process, drivers | clocks switched off and on around sleep | what was on before is on after |
| Arbiters, power manager (`power`) | state, owner, next owner, queue | request, immediateRequest, release, granted | drivers of SPI, I2C, AES, ADC | async commands that leave their atomic section half way | one owner, first come first served, nobody forgotten, device on when owned |
| Timers (`timers`) | start and length of each timer | start, stop, fired | nearly all | overdue timers, wrapping clock, restarts from handlers of `fired` | each timer fires once, not early, not much late |
| 6LoWPAN defragmenter (`lowpan`, `6lowpan/uc6LoWPANDefragmentation.c`) | frame queue, stage of the frame, table of datagrams, pool of specifications | frame received, stages, timeout | radio stack, packet allocator, IPv6 | overlapping and missing fragments, dry pools, timeout while locked | no leak; whole packets only; reception goes on |
| 6LoWPAN fragmenter | packet under fragmentation, offset | start, request next fragment | forwarder | failure between fragments | fragments cover the packet |
| 6LoWPAN forwarder, send queue, link table, routing adapter | packets in their stages, links and their quality | forward, finished, stop | fragmenter, radio stack | asynchronous stages each of which may fail | each packet finished once |
| Software acknowledgements (`lowpan`) | frame in hand, acknowledgement, timer | send, receive, stop | 6LoWPAN, MAC layer, timers | acknowledgement, timeout and completion race | each start answered once |
| XMAC (`radio`) | one state for both directions, frames in hand, strobes left | send, receive, cancel, timer | radio driver, timers | strobes of others arrive in any state, acknowledgements are lost | each frame answered, as sent only if it was |
| RF core driver (`cc26xx/rfcore`) | modes of the core, frames in hand, received entries | send, receive, cancel, two tasks | MAC layer, radio core | cancellation between an interrupt and its task | what is reported was sent, nobody waits for ever |
| IPv6 (`ipv6`) | queues of packets in processing | incoming, loop-back, outgoing | 6LoWPAN, ICMPv6, UDP | cancellation and completion | each packet finished once |
| ICMPv6, UDP (`icmpv6`, `udp`) | sockets, their packets | bind, send, receive, close | IPv6 | closing with packets in the stack below | no packet or socket leaks |
| Streams, multiplexers (`io`, `libiomux`) | buffers, channel of the transfer | read, write | UART, USB | reads and writes of many clients on one channel | each byte goes where it belongs, once |
| Pools, vectors, queues (`containers`, `microc/base`) | free lists, chains | allocate, free, copy | all | exhaustion | nothing twice, nothing lost |
| RPL and source route builders | none | build, parse | none here | - | - |
| BLE, diagnostics, drivers, applications | - | - | - | - | - |

`components` in `PROJECT.json` lists them all with their status.

## 2. Modules

```
TaskFifo            what TaskBasic.nc promises (abstract)
TaskQueue           SchedulerBasicPrv: the linked list          implements TaskFifo
ProcessScheduler    GenericProcessSchedulerPub: the two lists
Kernel              both, with main, idle, workers, interrupts
TaskQueue_proofs, Kernel_proofs

FcfsResource        order and ownership of a resource (abstract)
ResourceQueue       FcfsResourceQueuePub (an instance of TaskQueue)
ArbiterState        what the arbiters have in common
Arbiter             ArbiterPrv and PowerManagerPub
SimpleArbiter       SimpleArbiterPrv
Arbiters            one of them, and the properties             implements FcfsResource
Arbiters_proofs

Reassembly          the merging of fragments, as pure operators
Defragmenter        the task, its stages, the table, the timeout
Defragmenter_proofs

Fragmenter          LoWPANFragmenterMainPrv and the send queue, as operations
PacketForwarder     LoWPANIPv6PacketForwarderMainPrv, as operations
Forwarding          both, their tasks and events, the client, the radio stack
Forwarding_proofs

RFCoreRadio         RFCoreRadioPrv: the IEEE 802.15.4 half of the driver
XMAC                XMACRadioPrv over it, or not
Radio_proofs

RtcTimer            HalCC26xxRTCPrv: the hardware timer
TimerMux            TimerMuxPub over it
Timers              TimerScalerPub over one of its timers, the clients, the clock
Timers_proofs

OutgoingClients     the state of what sends IPv6 packets, and how it is told
OutgoingStack       IPv6OutgoingPacketStackVirtualizerPrv and the routing policy
IPv6Output          UDP sockets, ICMPv6, the forwarder of packets over it
IPv6Output_proofs
```

### Kernel

A step is an atomic section, or the code between two of them that matters to
others. `pc[p]` says where process p stands, `hooking[p]` that it has queued a
task and not yet called the hook that resumes main (SchedulerBasicPrv.nc:199
and 201 are two steps), `isr` where the active handler stands, `pendsv` that a
context switch is pending. `Masked` is the boot sequence up to
`__nesc_enable_interrupt` and the idle process inside the atomic section in
which it sleeps.

* Interrupt handlers do not nest: no code sets interrupt priorities. Whether the
  pending switch or a pending interrupt is taken first is left open.
* `InterruptArrives`, `IsrEnter` and `IsrExit` are the processor. A handler posts
  any tasks and resumes any worker.
* Workers stand for users of `BaseProcessPub`: they post, yield, suspend
  themselves, and change the priority of any worker, as tasks may. The repository
  instantiates none, but the interface is there, and what main and idle rely on must
  hold with them.
* Which sleep level is chosen and `sleepEnabled` make no difference to who
  wakes up: `IdleWakes` may happen with or without an interrupt.
* Stack checks, statistics and names of processes are left out.
* `Init` is the moment after the processes were added. An initialiser that ran
  before `MainProcessPrv.Init` and posted a task would call `resume` on a
  process that was not initialised; no initialiser of the repository does.

### Arbiters

An async command is split where its atomic section ends; in between a handler
may run whole commands (`at[x]` says where context x stands). `powered`,
`config`, `asked` and `holds` are the effects on devices and clients. The rigid
variable `wiring` is which arbiter the resource has, so that one run sees all:
"managed" is `ArbiterPrv` under `PowerManagerPub` (SPI), "direct" is `ArbiterPrv`
with its default handlers, "simple" is `SimpleArbiterPrv` (I2C, AES, ADC).
Clients call `release()` as `Resource.nc` asks, have one call at a time under way,
and call from main or from handlers. `ResourceRequested` has no listener in the
repository; `ArbiterInfo` and `isOwner` change nothing.

A client may call `request()` whenever it is in no other command: also while it waits,
while it is being granted the resource, and while it owns it. The answer is not part of
the model; what is, is whether the request puts the client in line: `asked` counts the
grants that a client has coming. `Resource.nc:85-86` promises EBUSY for a repeated
request. Both arbiters give it to a client in the queue, but not to the one that is being
granted the resource or owns it:

* `ArbiterPrv` answers SUCCESS and does nothing (ArbiterPrv.nc:83, which looks at
  `reqResId` only). The owner that takes this for a promise waits in vain for a second
  grant. In the model such a request changes nothing;
* `SimpleArbiterPrv` looks only at the queue, in which that client no longer is, and puts
  it in line a second time (SimpleArbiterPrv.nc:80). It will be granted the resource
  twice. `HalADCSingleReadAutoArbPrv.nc:34` requests without a guard and relies on EBUSY.

So `LineIsServed`, `ImplementsFcfs` and `EveryRequestGranted` say that nobody in line is
forgotten or granted more often than put in line, which holds of these requests too; that
a repeated request is refused does not hold, and is not stated.

`immediateRequest()` is called at TwoResourcesArbiterPub.nc:38 and 40 only, in a command
that itself has no caller. `ImmediateFrom` says from which contexts it is called, and the
assumption `ImmediateIsUninterrupted` leaves out two calls that the code does not survive:

* of a handler, in `SimpleArbiterPrv`: `release()` calls `unconfigure()` after its atomic
  section (line 115), and undoes the configuration of an `immediateRequest()` in between
  (with "isr" for "simple", TLC finds `OwnerHasDevice` violated);
* of a task, under a power manager: it leaves its atomic section with RES_IMM_GRANTING; a
  handler's `request()` is queued with SUCCESS; the power manager does not serve immediate
  requests, and ArbiterPrv.nc:106 sets RES_CONTROLLED. The queue is not empty and nobody
  will look at it until another client requests and releases (with "main" for
  "managed", TLC finds the part `GrantIsComing` of `LineIsServed` violated).

`release()` is called as the note in `Resource.nc` demands, not between a request and its
grant (`MayRelease`).

### Defragmenter

All handlers run as tasks or are called from tasks, so each is one action. What
interleaves is the stages of the frame at the head of the queue
(`m_doneUntilNow`), receptions, and the timer.

* A unit is 8 bytes, the granularity of fragment offsets; a fragment of another
  length, unless the last, is one the code rejects (`ok = FALSE`).
* The lists of datagrams are the marks `slot[s].list`. A specification is an
  interval; the pool is the number of its free elements. Fields of a free slot
  are dropped because `Find` assigns all of them.
* `m_unpackedHeaders` is what was read from the frame at the head, and it is only
  used while that frame is there: `Headers`.
* The contents of newly allocated memory are arbitrary (`memory` in `Find`):
  comparisons with them must not matter, or only to the worse.
* The receiver, frame allocator and packet allocator belong to other components
  and answer in every way their interfaces allow; `MayRefuse` lets the receiver
  refuse a buffer although it has none.
* Branches that cannot be reached are shown to be so: the early return of the task
  and the clean-up of a locked datagram or a ready packet when a frame stops
  and the dropping of a frame on reception (`StagesMatchFrames`).
* A tick of the clock is half the timeout or less (tens of seconds), so a timer
  fires in its tick and a posted task runs before the clock moves twice.
* Not modelled: the update of the link table from BC0 headers (it belongs to the
  link table) and `TerminateAllReassemblies`, which has no caller.

### Forwarding

`Fragmenter` and `PacketForwarder` hold the components' operations on records,
one field for each variable of the code; a handler of one calls handlers of the
others, so `Forwarding` composes the effects where the calls are. All of it runs
in tasks or is called from them, in the order of the task queue: a task, an event
or a command is one action.

* The client is the routing adapter: it starts a packet by some route, starts it
  anew from the event that reports its failure, and may stop it at any time. What
  the adapter queues before that is left out.
* The radio stack takes a frame or refuses it with EBUSY, and answers SUCCESS or
  ENOACK, at any time. The allocator of frames may be empty though a frame is free
  here (`AllocationFails`).
* `ready` and `packed` in `fragmentObtained`: whether the frame can be prepared for
  its addresses and whether the headers fit. Contents are a packet, an offset and
  a size; `Lengths` of `MCForwarding` are chosen so that one packet takes two
  fragments and the other one.
* Left out: the reports to the link table, and `stopSendingFrame` of the forwarder
  (LoWPANIPv6PacketForwarderMainPrv.nc:651-731). It is never called: its only
  caller, the send queue, answers EBUSY before
  (LoWPANFragmenterSendQueueAdapterPrv.nc:60-70). So what looks wrong in it, `TxBit`
  after line 676 and the shift of the ring at line 726, has no effect.
* `startFragment` refuses here for want of a token only. The code also refuses a packet
  that is too long, or has less payload than its header says
  (uc6LoWPANFragmentation.c:286-299): such a packet would stay first on the staging list,
  and the others behind it. No packet of the model is of this kind.
* Branches for a full ring, a full job queue and a send queue without room are
  unreachable; `StagesAgree` says so.

### Radio driver and XMAC

`RFCoreRadio` is one record, `radio`. An interrupt of the radio core and its handler
are one action. Interrupts change TX to TX_DONE and RX to RX_DONE, which the code
outside atomic sections does not tell apart, so they are only interleaved with a
task while it signals an event: `event` is set in between, and the client calls
commands there as anywhere else.

* Left out: BLE, claims of the core by others, the wait for the calibration of the
  synthesizer. Commands that abort take effect at once. A panic resets the node.
* Two late cancellations are the hard part: TX_LATE_CANCEL, which works, and
  RX_LATE_CANCEL, which does not (run `radio_late_cancel`).
* Seen while modelling and not stated as properties: `TXDone` of a transmission that
  was cancelled late stops the watchdog of the next one (RFCoreRadioPrv.nc:1026);
  the mode RX_FOR_TX is left only by a reception, so the radio stays on after a
  transmission without one; `error` left by a failed BLE advertisement is
  reported for receptions; an entry is given back to the radio core before it has
  been copied (the FIXME at line 1127).

`XMAC` adds the layer above, `mac`. Its handlers run in the tasks of the driver
and of the timer: the part of the driver's task up to its event, and the handler
of the event, are one step. `mac.state` of the initial state settles the wiring: XMAC
from boot ("OFF", what WHIP6_USE_XMAC makes), switched off ("NO_XMAC", the
default), and "EXTERNAL", in which any client uses the driver (as RiMAC does,
whose sources are not in the repository).

* One node. What it may hear is any sequence of data, strobes and
  acknowledgements (`Contents`): a superset of what other nodes send or lose.
* The timer fires at any time while it runs, so nothing depends on the delays.
* `CHECK` is compiled to nothing (Assert.h:14); `panic()` resets the node.
* The client calls commands between any two steps. Inside an event it may give a
  new buffer (`Gives`) and, when its frame was sent, cancel reception; any other
  call there has the same effect after the step.
* `enableXMAC` at boot is the initial state; `disableXMAC` and a later `enableXMAC`
  have no caller.
* Seen and not stated as properties: in the default mode `cancelSending` before
  `RXTXTask` has run forgets the frame and returns EINVAL (line 232); `isSending`
  returns whether a *reception* is under way (line 240), against
  `RawFrameSender.nc`; `cancelReceiving` in RX_SLEEP is always refused, by the driver;
  `endRX` gives a buffer back to the client while the driver goes on receiving into
  it (line 304; `mac.left` remembers that buffer for `BufferIsTheClients`). A client
  that then gives another buffer and sends makes `tryToRXTX` strobe while the driver
  still holds the first one, and what is received meanwhile does not go to the buffer
  XMAC has: the `CHECK(frame == rxFrame)` at line 465 can fail, which only two
  buffers show.

### IPv6 output

Everything that a node sends as an IPv6 packet: `UDPRawSocketManagerMainPrv`,
`ICMPv6OutgoingMessageForwarderVirtualizerPrv` and `IPv6IncomingPacketForwarderMainPrv`
are the three clients of `IPv6OutgoingPacketStackVirtualizerPrv`, which passes one
packet at a time to `IPv6DefaultPacketRoutingPolicyMainPrv`, which offers it to one
interface after another. All of it runs in tasks: an action is a task, a command, or
an event of an interface with everything that is called from it. The state is one
record, `ip`, with a field for each variable of the code (`action`, `currOut`,
`payloadIter`, `active`, `handlingStatus`, `subSenderWorking`, `routed`, ...) and the
set `tasks` of what is posted. What is no longer read is reset (`Forgotten`).

* A packet is the buffer that holds it: one for each socket, one for ICMPv6, one for
  the forwarder. Flags are sets: `assigned`, `beingRouted`.
* The order of the clients is that of their ids: those that the application wires
  (UDP), ICMPv6 (CoreIPv6StackPrv.nc:79), the forwarder (GenericIPv6StackPub.nc:72).
  UDP brings queues for all its sockets; for the others the virtualizer has one
  place each.
* `choosing`, `accepted` and `carrying` are the queues of the two interfaces
  (GenericSimpleRoutingLoWPANInterfaceAdapterMainPrv and
  GenericIPv6LoopbackInterfaceMainPrv). They accept and refuse anything; an adapter
  that tries another neighbour still carries the packet. An interface that agrees to
  select an address always finds one, as both do.
* `Nodes` says what sends on a node; `Init` chooses one, so that one run sees them all.
* `sent` is the only history: what an interface has reported as sent.
* External: the headers that `microc` wraps around a payload, and the checksum
  computer, which may refuse to start.
* Left out: the policy selecting an address by itself (every client has one or asks for
  one before it sends), `stopSendingMessage` of ICMPv6 (no caller), binding, receiving.
* `EveryPacketIsFinished` has an exception, and needs it: `finishSendingIPv6Packet` of
  the virtualizer looks for the next packet from client 0 on (line 184). While two
  packets of clients before it wait again and again - one below, one waiting - a
  client is never served: two sockets that send as fast as they can keep ICMPv6 and
  forwarding out, a socket and ICMPv6 keep forwarding out. One alone cannot.
* Seen and not stated as properties, since nothing in the repository provokes them:
  `startSendingIPv6Packet` sets `subSenderWorking` also when the layer below has refused
  the packet (line 152), after which every packet only queues (a full queue of the
  policy or a packet without address would do it); a client that sends from
  its `finishSendingIPv6Packet` event would have its packet started twice by the loop
  behind the event (lines 184-196); `stopSendingMessage` dequeues a client without
  resetting its `payloadIter` (ICMPv6OutgoingMessageForwarderVirtualizerPrv.nc:516), so
  that it is answered EBUSY for ever.

### Timers

The stack is that of `PlatformTimer32khzPrv` and `PlatformTimerMilliPrv`: RTC,
multiplexer, scaler; the second multiplexer, that of the milliseconds, is one
client which starts the scaler's timer from the present and stops it. All of it
is task code of main, so a task or a command is one action that takes no time;
the interrupt and the ticks of the clock come between any two. `fireTimers` is
cut at the events it signals: `at` says whose handler runs, and handlers may start
and stop any timer. Posted tasks run in any order (the scheduler's is one of them).

* `clock` is the hardware counter before it is truncated to the width of the
  driver, `Count`; `overflows` is what the scaler makes of the overflow events, and
  `SlowNow` its clock. In `scaleForward(getNow()) + m_overflowOffset` the call
  comes first, as the compiler in use evaluates it; C leaves the order open.
* `due` is the only history: the ticks until a timer should fire, counted down by
  `Tick`, independently of all the arithmetic on readings.
* `lag` bounds how long the node may take until it has no more tasks: `Slack`.
* Left out since nobody reads them: `lastTrigger` of the RTC and of the scaler.
  `last_trigger` of the multiplexer is kept for the timers in `Relative`.
* Preconditions on clients: a delay on the fast clock is at most half a period (the
  scaler keeps to that by `MAX_DELAY`); on the slow one less than a whole period
  less one, because a remaining time of 2^32 - 1 is not less than the
  initial `min_remaining` (TimerMuxPub.nc:118) and arms nothing; a start from the
  last trigger is not so late that the clock wraps before the task looks at it.

## 3. Runs

| Run | What it asks | Bounds and why they are enough |
|---|---|---|
| `kernel` | types; both process lists consistent; no lost wake-up; sleeps only when idle; a suspended process stops; the queue is a FIFO; posted tasks run | 2 tasks (one may wait behind the other), 1 worker that is more, equally or less important than main. The safety properties are also proved for any number. |
| `arbiters` | owner has the device, powered and configured; nobody in line forgotten or granted too often, and a grant always under way; power follows the owner; first come first served; every request put in line granted | 4 clients: an owner, one being granted, and a queue of two or three, in all three wirings. The safety properties and the refinement are also proved for any number. |
| `defragmenter` | no buffer, packet or specification leaks; one place per datagram; stages, locks, posts and receptions agree; nothing stale is kept | 3 frames, a queue of 2, 2 slots, a pool of 1: queue, slots, pool and buffers all run out. Seven kinds of frames. A timeout of 2 ticks and a clock modulo 6: one reading more than the longest permitted age of 4, and an age of 5 is told from 0. All are also proved for all sizes. |
| `defragmenter_merge` | whole packets only, nothing lost, pieces joined or apart, conflicts dropped (of datagrams without overlaps so far), complete means delivered; reception resumes | 6 units in four fragments of one or two: up to two separate intervals, which a third joins; 4 units in fragments of 1 to 3 units with two contents; a pool of 2; a queue of one frame, so that reception resumes only when that one has been processed. That packets are whole and nothing is lost is also proved for all sizes. |
| `timers` | no wrap of the counter is missed or counted twice; a timer fires only when running and over, and in time | a counter of 8 readings that wraps without end, a slow clock of half its speed with its own wraps; 2 timers, one the scaler's; delays 0 and the longest, the slow one of three hops. `Latest` = 2 is `MinTimeout` + `Slack` - 1, and with 1 `NeverLate` fails. A view drops what stopped timers remember. All three are also proved for any periods, timers and delays. |
| `forwarder` | frames neither lost nor twice; the four parts agree; one packet per address; success means that every byte was sent; numbers of broadcasts consecutive; what is worked on is reported | 2 packets: one of two fragments to a neighbour or broadcast, one of one fragment broadcast (so that they may want one address, or two); 2 tokens, 2 frames (the third request finds none), one retransmission, numbers modulo 2, which is enough to see a repeated or a skipped one, and 2 places on the lists, so that a restart may find no memory. The safety properties are also proved for any number. |
| `forwarder_stranded` | (violated) a packet on the staging list is taken up | the same |
| `mac` | what is reported as sent was sent; every frame is answered; the driver receives into the client's buffer only | 2 frames and the control frame (a frame, its successor, and what is sent between), 2 buffers (the one of the client and one left in the driver), as many entries as the driver has, 2 strobes (the last and one before) |
| `ipv6_output` | each packet in the hands of exactly one; what is reported is what happened; every packet is finished | 2 interfaces, one of which selects addresses; nodes on which two clients of the stack come before a third: two sockets with ICMPv6 or with the forwarder, a socket with both, and two ICMPv6 clients with two forwarded packets. Every queue has two places or the one that the code gives it; the policy's queue is of one, since the virtualizer never uses more. Checksums of one piece: further pieces repeat the same step. |
| `radio_late_cancel` | (violated) the check in `RXDone` holds | the driver alone, with any client |
| `xmac_unexpected` | (violated) XMAC frames and ends of transmissions come in the states that expect them | as `mac`, with 1 buffer |
| `defragmenter_refragmented` | (violated) a completely received datagram is never delivered | 5 units: single ones and the fragment (1,3), which spans two of them; 3 specifications |

CHECK_DEADLOCK is on in every run: no state of these models is without a
successor.

**Fairness.** In `kernel`: code that was started ends (initialisers, tasks,
handlers, a worker's turn), and interrupts leave the CPU to processes again and
again; strong fairness because each step may be preempted. Nothing is assumed
of devices or of who posts. A worker that never sleeps and is not less important
than main starves it, since the run list changes only by suspend and resume:
hence the premise of `PostedTaskRuns`. In `arbiters`: posted tasks run (what
`kernel` shows) and owners release in the end, as `Resource.nc` demands. In
`defragmenter_merge`: the posted task runs and the timer is served; nothing is
assumed of receptions or allocations. `timers` needs none: `NeverLate` bounds
the delay in ticks. In `forwarder`: the task at the head of the queue runs (what
`kernel` shows of a queue with one process), the timer fires, and the radio stack
answers, which is what `mac` shows of it. In `mac`: tasks run, the radio core ends
each transmission (its watchdog resets the node otherwise), the client gives a
buffer again ("Receiving must be active also when transmitting",
XMACRadioPrv.nc:14), and the timer fires; this last is strong fairness because the
timer is served between tasks, and tasks may come again and again. In
`ipv6_output`: posted tasks run, and interfaces and the checksum computer answer
what they have accepted (what `forwarder` shows of the one below 6LoWPAN). Clients
may send for ever or not at all.

## 4. What the violations show

* `defragmenter_refragmented`: units 0..4. Single fragments leave separate
  specifications; a fragment with the same content that spans two of them is
  merged with the one before it and with one after it
  (`TryToConcatenateFragSpecWithNextOnList` looks at one only), so the second
  remains in the list, overlapped. The fragment that would close the datagram is
  attached to that one. `firstFragSpec` never reaches the full size: the datagram
  waits for its timeout although all of it is there. Senders that fragment every
  copy of a packet alike, as 6LoWPAN nodes do, do not provoke this.
  The same leftover makes worse possible, in a datagram of 7 units: after 0, 2, 4
  and the fragment (1,5), of the same content, the list is [0,6), [4,5). A fragment of
  unit 5 with another content is written over the first one's data but is compared and
  joined with the second specification only, which becomes [4,6); a repeated unit 1 joins
  the two, and with unit 6 a packet of two contents is handed over. That is why
  `ConflictsAreDropped` speaks of datagrams whose specifications do not overlap yet:
  without that premise it is false of the code, and the 4 units of its run would be too
  few to show it.
* `forwarder_stranded`: two packets to one address in succession, two broadcasts
  for example. The second is held back while the first is being fragmented, and
  `processStagedPacketsTask` is posted neither when that ends nor later: only the
  next packet, or its success to start one, looks at the list again.
* `radio_late_cancel`: a frame has been received and `RXDone` is posted; before it
  runs the client cancels reception. RX_LATE_CANCEL is set and at once overwritten
  by `stopRX()`; `RXDone` finds neither the mark nor a buffer, and panics.
* `xmac_unexpected`: the node strobes, and while the strobe is in the air or just
  sent a strobe of somebody else comes in. Two neighbours that start to send at about
  the same time, and a receiver whose acknowledgement was lost, do this.

## 5. Proofs

`TaskQueue_proofs`: `TQInv` (types and `WellFormedList`, which ties `m_head`,
`m_tail`, `m_next` to the history of posts) is inductive; `WaitingIsExact` follows
from it, and with it every step of the queue is a step of `TaskFifo`.

`Kernel_proofs` begins with lemmas on the sorted list of the process scheduler:
insertion at `AddPosition` keeps it sorted, and so does removal, and neither repeats a
process. `KernelInv` is inductive for any tasks, workers and priorities.
Beyond `TypeOK`, the queue and the lists it says

* when main is suspended the task queue is empty or a post has not reached its
  hook yet (`NoLostWakeup`), which is only inductive together with who may stand
  where: at most one process is inside a post, and not while it is suspended;
* idle is never suspended and always last on the run list, since no other process
  has priority 255, so the run list is never empty;
* from idle's check to its sleep the run list holds idle alone, since every
  handler is masked;
* a process that suspended itself is running only while the switch is pending, or
  stands before its yield.

From it: `WakeupsAreNotLost`, `IdleSleepsOnlyWhenIdle`, `SuspendedProcessStops`,
`SchedulerListsConsistent`, `KernelTypes` and, by refinement,
`KernelQueueIsFifo`.

`Radio_proofs`, first of the driver alone: `Sound` is inductive for any frames and any
number of entries. Beyond types it says that while a transmission is under way or its
end waits for `TXDone` (TX, TX_DONE) the command of the radio core is of the frame in
hand. That is what makes `ReportsWhatWasSent` follow for each of the 12 actions: a late
cancellation leaves TX_LATE_CANCEL, in which nothing is reported, and no other
transmission can start before `TXDone` has taken it back.

Then of the driver under XMAC, switched on or off, and under any other client: `MacInv`
adds

* `Buffered`: the driver has no other buffer than the client's and the one that
  `endRX` left in it;
* `InHand`: without XMAC, and in TX_DATA, the driver sends the client's frame or
  nothing. In the other states it may be sending a strobe, an acknowledgement or a
  frame given up before.

A handler calls others up to four deep (`receivingFinished`, `restartLowRX`, `endTX`,
`sleepRadio`, `endRX`), and between the calls `InHand` does not always hold. So each
operator has a lemma that says either that it leaves the frames to send alone (`Keeps`)
or with which results it may end a sending (`Leads`), and a step chains these. SUCCESS
is a result only of `sendingFinished` in the states of `InHand`; all else that ends a
sending is in `Failures`. From it: `BuffersAreTheClients`, `OnlyWhatWasSentIsSignalled`
and `SuccessIsOfTheFrame`.

`Arbiters_proofs`, first of the queue of clients (`QInv`) and the sequence it stands for:
enqueue appends, dequeue takes the head. Then `ArbitersInv` is inductive for any number of clients, in all three
wirings. An atomic section leaves a promise behind for the code after it, and the
invariant is the list of these promises: for each place at which main can be
interrupted, what state, owner, queue, power and tasks can be, whatever handlers have
done since; and that the line is what was asked. `OwnerHasDevice`, `LineIsServed` and
`PowerFollowsOwner` follow from it, and every step is one of `FcfsResource` or none.

`Defragmenter_proofs` has five parts.

* Merging: `MergeIsGood` says of `MergeNewFragSpecIntoPacket`, for every list of
  specifications and every fragment, that the result is a list of which the first
  starts at 0, that it covers nothing but what list and fragment did, and that no
  element of the pool is lost. It is proved for each case (`JoinNext`, `OwnElement`,
  ...) from what the hull of two intervals covers (`HullOfMerged`).
* Counting: the specifications and packets that the slots hold are cardinalities;
  `UpdateCounts` and `DestroyCounts` say how they change when a slot is written and
  when slots are freed.
* `DefragmenterInv` is inductive: frames (the queue holds each frame once; owned
  buffers are those in the queue or at the receiver; `StartReceivingBuffers`),
  stages (`StageInv`: between two stages the locked datagram is that of the
  fragment at the head), table (what is counted as received was written;
  conservation) and time. From it: `TypeOK`, `StagesMatchFrames`, `NothingLeaks`,
  `OneReassemblyPerKey`, `DeliveredIsWhole`, for frames, pools, datagrams and
  fragments of any number and size.
* Time: `StaleIsDropped` alone is not inductive, since the timer does nothing while a
  datagram is locked but leave a mark. `AgeInv` bounds the age of the oldest datagram by
  the distance of the next alarm (`Oldest`): without a mark it is below the timeout when
  the timer last looked; with a mark one period older; and with a datagram locked at
  most one tick older than the task's post. One alarm and one tick bring it to the bound
  of two periods, not beyond.
* One fragmentation: `MergeTakes` says what merging does when no specification is cut
  by a fragment, as when all fragments of a datagram come from one fragmentation
  (`FragmentedOnce`), repeated and in any order: the new fragment is inside one
  specification or touches at most two, which become one. So the specifications stay
  apart, with a gap between any two (`Apart`), and cover what was written (`KeptInv`).
  `NothingLost` and `PiecesStayApart` follow; and because the fragment that closes the last gap leaves one
  specification of the full size, the look at the first one is enough
  (`CompleteDatagramsDoNotWait`), which run `defragmenter_refragmented` refutes for
  other fragments.

`Forwarding_proofs`: `IInv` is inductive for any tokens, packets, frames, addresses,
lengths and numbers of retransmissions. Tasks run in any order and each sees a part of
the path of a frame only, so `StagesAgree` alone is not inductive; `IInv` adds to it

* `Jobs`: the queue of the fragmenter has exactly the tokens with PROCESSED, each once
  and in use. With `Tasked` (`fragmentationTask` is in the task queue only once, and only
  while it is posted) it follows that the task never finds the queue empty;
* `Lists`, `Slots`: a packet has one element on the lists; what has a slot is staged;
* `Placed`: each frame is with the allocator, the spare one, or that of one slot;
* `Sending`: the send queue holds exactly the frames that tokens have sent, hence no more
  than there are tokens; the ring holds the owner of its head, and only while it is
  passing one on;
* `Counted`: while a packet is neither failed nor cancelled, its offset is what was sent
  and what its frame holds;
* `Numbered`: the frame of a broadcast has the forwarder's present number and is not sent
  again, and the last number sent is that one or the one before, as a frame is below or
  not.

Each of these parts is one of a predicate of records (`Whole`), so that the lemmas speak
of the operations of `Fragmenter` and `PacketForwarder` (`SendingOffIsWhole`,
`ReleasingIsWhole`, ...), and an action of `Forwarding`, which composes two or three of
them, is proved by chaining lemmas. From it: `StagesAgree`, `NoFrameLost`,
`OneFragmentationPerAddress`, `SuccessMeansSent`, `BroadcastNumbersConsecutive`.

`Timers_proofs` has three parts, one for each invariant, for any period of the counter,
any scale, any number of timers and delays.

* `TimersInv`, for `ClocksAgree`. A wrap is noticed only when the driver reads the
  counter, so a reading must come at least once in a period. `ReadInv` says that the
  last reading and the next interrupt are never more than half a period and `MinTimeout`
  apart, and `RunInv` that when the interrupt comes the timer that runs is over, so that
  its task arms the register anew and does not only read. `EpochInv` then says how many
  wraps have been signalled: all but the one since the last reading. That the slow clock
  is the fast one divided by the scale is arithmetic (`SlowTimeIs`, `SlowNowIs`).
* `EarlyInv`, for `NeverEarly`: of a running timer, `due` is at most what the
  multiplexer still counts; a timer marked as to be fired is over. A delay of the scaler
  that is too long is counted in two parts. While the first runs (`FirstPart`) the second
  is still in `m_dt`; when it is over the timer below is marked before the delay is, and
  `m_dt` counts what is left (`SecondPart`).
* `LateInv`, for `NeverLate`. When no task is posted and no handler runs, the register
  stands for a moment at most `MinTimeout` - 1 ticks after any running timer is over
  (`Served`): earlier interrupts are put off to that distance, so that they are not
  missed. From then on only the lag counts (`Punctual`), and the counter does not come
  round to the start of a timer before that has fired. `SlowLeft` says the same of the
  scaler's two parts. So a timer is late by at most `MinTimeout` - 1 + `Slack` ticks.

`IPv6Output_proofs`: `OutputInv` is inductive for any number of sockets, ICMPv6 messages,
received packets and interfaces, whichever of these select addresses, and for queues of
any length. It is about one record, so that each operation of `OutgoingStack` has a
lemma on what it does to the parts of the invariant, and an action is proved by chaining
those of the operations it calls. The parts are

* `Held`: a client waits for its packet exactly while that is in the hands of the stack,
  and then it is in one queue of the virtualizer, of those selecting or of those sending.
  In the middle of an operation some packets have left the stack and their clients are not
  told yet; `Held` has that set of packets as a parameter, and it is empty between steps;
* `WellQueued`: each queue holds packets of its protocol, no packet twice, and no more
  than it has places;
* `Routes`: the virtualizer has given the policy nothing, or the head of one of its
  queues; the policy holds that packet alone, and has its task posted or has asked exactly
  one interface (`AtInterface`);
* `Choosing`: the interfaces select addresses for the heads of the queues for selection
  and for nothing else, each head at one interface and once;
* `SocketsInv`, `IcmpInv`, `ForwarderInv`: a client in use that does not wait has its task
  posted, or its checksum under way;
* `Reported`: the packets that an interface has reported sent are those whose clients
  stand before a report of success (`Succeeded`).

From it: `OutputKeepsNothing` and `OutputReports`.

The proofs assume only the named assumptions on the
constants (`NoTaskIsNoTask`, `ProcessesAreDistinct`, `WorkerPriosAreUserPrios`,
`RFCoreRadioConstants`, `XMACConstants`, `ArbiterConstants`, `NoEntryIsNoClient`,
`ImmediateIsUninterrupted`, `DefragmenterConstants`, `FragmenterConstants`,
`PacketForwarderConstants`, `ForwardingConstants`, `RtcAssumption`, `MuxAssumption`,
`TimersAssumption`, `OutputConstants`). `XMACConstants` says that the control frame is a frame and `NULL` not
the result SUCCESS. Those of the forwarder say how tokens and frames are numbered, what
the tables are about, which sizes are at least 1, and that `NULL` is none of the values it
stands for the absence of. Those of the timers say that the slow clock is the fast one
divided by a scale that divides half its period (both are powers of two in the code), that
the driver's least distance of interrupts and the time the node works without a pause
together are below half a period (of 2^32 ticks at 32 kHz: 18 hours), what delays the
clients use (section 2), and that `Latest`, the bound that `NeverLate` states, is not
below `MinTimeout` + `Slack` - 1.

Only model-checked:

* all liveness: TLAPS proves none under fairness;
* of the defragmenter, `CompleteIsDelivered`, which for all fragments is false (run
  `defragmenter_refragmented`) and holds for those of its passing run, among which are some
  of two fragmentations; for one fragmentation it is proved (`CompleteDatagramsDoNotWait`).
  And `ConflictsAreDropped`, with its premise (section 4).

## 6. Not modelled

* The larger part of the repository by lines is register definitions and the driver
  library of the vendor (`cc26xxware`), board files, build files and applications:
  constants and register access, whose effect on the system is the interrupts of
  `Kernel`, `Timers` and `RFCoreRadio`.
* The BLE half of the radio driver and the advertisers over it; RPL messages and source
  routes, for which there is no protocol in the repository; printing and statistics.
* Byte formats: 6LoWPAN headers, compression, IPv6 and UDP headers, checksums. They are
  pure functions over bytes, which unit tests reach.
* `TwoResourcesArbiterPub` is used for one pair of resources, so its clients do not
  wait for each other in a circle.
* Software acknowledgements are wired by one demonstration application only
  (`CoreIeee154StackDemo`). Line 79 of the decorator is suspect: a frame that waits
  behind an acknowledgement keeps the bits of the one before.
* The sleep levels of the CC26xx. `xosc_hf_active` (HalCC26xxSleepPub.nc:87) is read
  uninitialised when the crystal is not the clock source (lines 186 and 194).
* Link table, streams and their multiplexers, buttons, receiving by UDP and ICMPv6,
  `SimpleTimeSynchronization`: possible, and next in the plan.

## 7. Plan

In this order; the list of runs stays short, one for each component or group.

1. Done: kernel, arbiters, defragmenter, timers, forwarder with fragmenter and send
   queue, radio driver, XMAC, IPv6 output.
2. Proofs about what is there. Done: the kernel, the arbiters and their refinement, the
   defragmenter, the forwarder with its fragmenter and send queue, the radio driver, XMAC,
   the timers and the IPv6 output.
3. The way in: dispatch of received packets, sockets that receive and close, the echo
   handler as a client of `IPv6Output`.
4. `LinkTable`: replacement and the estimates of quality as bounded arithmetic.
5. The multiplexers of `io`; two XMAC nodes that meet; software acknowledgements.
