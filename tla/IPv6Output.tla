----------------------------- MODULE IPv6Output -----------------------------
(***************************************************************************)
(* Everything that leaves a node as an IPv6 packet: the sockets, the       *)
(* ICMPv6 messages and the forwarded packets, over the outgoing stack and  *)
(* the interfaces.  An action is a task, a command of an application, or   *)
(* an event of an interface with the tasks' posts.                         *)
(***************************************************************************)
EXTENDS OutgoingStack

VARIABLE ip

Init == ip \in {Start(n) : n \in Nodes}

-----------------------------------------------------------------------------
(* UDP.                                                                    *)

(* UDPRawSender.startSending                                               *)
SocketSends(s) ==
  /\ s \in ip.node.sockets \ ip.inUse
  /\ ip' = post([ip EXCEPT !.inUse = @ \cup {s}, !.action[s] = "START"], "udp")

Does(r, s, action) == [r EXCEPT !.action[s] = action]
(* What a step of the work on a packet does, by its stage.  The source     *)
(* address is known or is chosen at interface i, or nowhere; n pieces have *)
(* to be summed; a piece may be shorter than the header says.              *)
initChecksum(r, s, n) == [Does(r, s, "CHECKSUM") EXCEPT !.left[s] = n]
startAddressSelection(r, s, i) ==
  LET p == PacketOf(s)
  IN IF Selects(r, p, i) THEN Does(StartSelecting(r, p, i), s, "WAITING")
     ELSE Does(r, s, "TERMINATE")
contChecksum(r, s, whole) ==
  IF whole THEN [r EXCEPT !.left[s] = @ - 1] ELSE Does(r, s, "TERMINATE")
startPacketRouting(r, s) ==
  Does(StartSending(r, PacketOf(s)), s,
       IF Sends(r, PacketOf(s)) THEN "WAITING" ELSE "TERMINATE")
finishHandling(r, s) ==
  Does(Forgotten([r EXCEPT !.inUse = @ \ {s}, !.left[s] = 0], PacketOf(s)),
       s, "WAITING")

(* handleOutgoingPacketTask: one step for the next socket, in turn, that   *)
(* does not wait for something.                                            *)
WithWork(r) == {s \in r.inUse : r.action[s] # "WAITING"}
Turn(r, s) == (s + NumSockets - r.currOut) % NumSockets
OnTurn(r, s) == s \in WithWork(r) /\ \A t \in WithWork(r) : Turn(r, s) <= Turn(r, t)
(* Slip: the same socket stays on turn.                                    *)
Again_Slip(r, s) == post([r EXCEPT !.currOut = s], "udp")
Again(r, s) == post([r EXCEPT !.currOut = (s + 1) % NumSockets], "udp")

UdpTask(s, stage) ==
  /\ "udp" \in ip.tasks
  /\ OnTurn(ip, s) /\ ip.action[s] = stage
UdpStart(s) ==
  /\ UdpTask(s, "START")
  /\ \/ \E i \in Chosen : ip' = Again(startAddressSelection(ip, s, i), s)
     \/ \E n \in 1..MaxPieces : ip' = Again(initChecksum(ip, s, n), s)
UdpStartChecksum(s) ==
  /\ UdpTask(s, "START_CHECKSUM")
  /\ \E n \in 1..MaxPieces : ip' = Again(initChecksum(ip, s, n), s)
UdpChecksum(s) ==
  /\ UdpTask(s, "CHECKSUM")
  /\ \/ /\ ip.left[s] > 0
        /\ \E whole \in BOOLEAN : ip' = Again(contChecksum(ip, s, whole), s)
     \/ /\ ip.left[s] = 0
        /\ ip' = Again(startPacketRouting(ip, s), s)
UdpFinish(s) ==
  /\ UdpTask(s, "COMPLETE") \/ UdpTask(s, "TERMINATE")
  /\ ip' = Again(finishHandling(ip, s), s)
UdpIdle ==
  /\ "udp" \in ip.tasks /\ WithWork(ip) = {}
  /\ ip' = [ip EXCEPT !.tasks = @ \ {"udp"}]
UdpRuns ==
  \/ \E s \in Sockets : UdpStart(s) \/ UdpStartChecksum(s) \/ UdpChecksum(s)
                        \/ UdpFinish(s)
  \/ UdpIdle

-----------------------------------------------------------------------------
(* ICMPv6.                                                                 *)

(* ICMPv6MessageSender.startSendingMessage                                 *)
(* Slip: the task is posted whoever is being handled.                      *)
IcmpSendsAs_Slip(r, c) ==
  post([r EXCEPT !.payloadIter = @ \cup {c}, !.active = Append(@, c)], "icmp")
IcmpSendsAs(r, c) ==
  LET queued == [r EXCEPT !.payloadIter = @ \cup {c}, !.active = Append(@, c)]
  IN IF r.active = << >> THEN post(queued, "icmp") ELSE queued
IcmpSends(c) ==
  /\ c \in ip.node.clients \ ip.payloadIter
  /\ Len(ip.active) < Cardinality(IcmpClients)
  /\ ip' = IcmpSendsAs(ip, c)

(* finishHandlingFirstClient, and before it finishProcessingPacket.  The   *)
(* status is set anew before it is read again, and so reset here.          *)
FinishFirst(r) ==
  LET popped == [Forgotten(r, icmp) EXCEPT !.active = Tail(@), !.wrapped = FALSE,
                          !.payloadIter = @ \ {Head(r.active)},
                          !.handlingStatus = "SUCCESS"]
  IN IF popped.active = << >> THEN popped ELSE post(popped, "icmp")

(* handleClientTask                                                        *)
IcmpTask == "icmp" \in ip.tasks
IcmpRun == [ip EXCEPT !.tasks = @ \ {"icmp"}]
IcmpWrapped == [IcmpRun EXCEPT !.wrapped = TRUE]
IcmpFails == IcmpTask /\ ~ip.wrapped /\ ip' = FinishFirst(IcmpRun)
IcmpSelects(i) ==
  /\ IcmpTask /\ ~ip.wrapped
  /\ ip' = IF Selects(IcmpWrapped, icmp, i)
           THEN StartSelecting(IcmpWrapped, icmp, i) ELSE FinishFirst(IcmpWrapped)
IcmpSumsAtOnce(sums) ==
  /\ IcmpTask /\ ~ip.wrapped
  /\ ip' = IF sums THEN IcmpSums(IcmpWrapped, TRUE) ELSE FinishFirst(IcmpWrapped)
IcmpEnds == IcmpTask /\ ip.wrapped /\ ip' = FinishFirst(IcmpRun)
IcmpRuns ==
  \/ IcmpFails \/ IcmpEnds
  \/ \E i \in Chosen : IcmpSelects(i)
  \/ \E sums \in BOOLEAN : IcmpSumsAtOnce(sums)

(* ChecksumComputer.finishChecksumming                                     *)
ChecksumDone ==
  /\ ip.summing
  /\ LET r == [ip EXCEPT !.summing = FALSE]
     IN ip' = IF Sends(r, icmp)
              THEN [StartSending(r, icmp) EXCEPT !.handlingStatus = "SUCCESS"]
              ELSE IcmpTold(StartSending(r, icmp), {icmp}, "FAIL")

-----------------------------------------------------------------------------
(* The forwarder of received packets.                                      *)

(* PacketReceiver.startReceivingIPv6Packet                                 *)
PacketReceived(x) ==
  /\ x \in ip.node.packets \ ToSet(ip.queued)
  /\ Len(ip.queued) < ForwardedLength
  /\ LET r == [ip EXCEPT !.queued = Append(@, x)]
     IN ip' = IF ip.inProgress THEN r ELSE post(r, "forward")

(* startForwardingQueuedPacketTask                                         *)
StartForwarding(r) ==
  IF r.queued = << >> \/ r.inProgress THEN r
  ELSE IF Sends(r, fwd) THEN [StartSending(r, fwd) EXCEPT !.inProgress = TRUE]
  ELSE post([StartSending(r, fwd) EXCEPT !.queued = Tail(@)], "forward")
ForwardRuns ==
  /\ "forward" \in ip.tasks
  /\ ip' = StartForwarding([ip EXCEPT !.tasks = @ \ {"forward"}])

(* finishForwardingQueuedPacketTask                                        *)
EndForwarding(r) ==
  post([Forgotten(r, fwd) EXCEPT !.inProgress = FALSE, !.queued = Tail(@),
                                 !.forwardingStatus = "SUCCESS"], "forward")
ForwardedRuns ==
  /\ "forwarded" \in ip.tasks
  /\ ip' = EndForwarding([ip EXCEPT !.tasks = @ \ {"forwarded"}])

-----------------------------------------------------------------------------
(* The routing policy and the interfaces.                                  *)

RouteRuns ==
  /\ "route" \in ip.tasks
  /\ \E answer \in Statuses :
       ip' = routeOutstandingPackets([ip EXCEPT !.tasks = @ \ {"route"}], answer)

(* The tasks of an interface: startPacketRoutingTask of the radio's        *)
(* adapter, startPacketCloningTask of the loopback; and the end of the     *)
(* frames or of the copy.  (An adapter that tries another neighbour still  *)
(* carries the packet.)                                                    *)
InterfaceRuns ==
  \E e \in ip.accepted, status \in Statuses :
    ip' = InterfaceStarts(ip, e[1], e[2], status)
InterfaceSends ==
  \E e \in ip.carrying, status \in {"SUCCESS", "FAIL"} :
    ip' = InterfaceSent(ip, e[1], e[2], status)

(* completeAddressSelectionTask of an interface.  For the packets behind   *)
(* the one that has its address the interfaces are asked again: the first  *)
(* of them may be refused, and the next be taken.                          *)
InterfaceSelects(j) ==
  /\ ip.choosing[j] # << >>
  /\ LET behind == Len(ip.selection[ProtocolOf(Head(ip.choosing[j]))]) - 1
     IN \E sums \in BOOLEAN, refused \in 0..behind, i \in Selectors :
          ip' = InterfaceSelected(ip, j, sums, refused, i)

Next ==
  \/ \E s \in Sockets : SocketSends(s)
  \/ \E c \in IcmpClients : IcmpSends(c)
  \/ \E x \in Incoming : PacketReceived(x)
  \/ UdpRuns \/ IcmpRuns \/ ChecksumDone
  \/ ForwardRuns \/ ForwardedRuns
  \/ RouteRuns \/ InterfaceRuns \/ InterfaceSends
  \/ \E j \in Interfaces : InterfaceSelects(j)

(* The task queue runs every posted task; an interface and the checksum    *)
(* computer answer what they have accepted.                                *)
Fairness ==
  /\ WF_ip(UdpRuns) /\ WF_ip(IcmpRuns) /\ WF_ip(ChecksumDone)
  /\ WF_ip(ForwardRuns) /\ WF_ip(ForwardedRuns) /\ WF_ip(RouteRuns)
  /\ WF_ip(InterfaceRuns) /\ WF_ip(InterfaceSends)
  /\ \A j \in Interfaces : WF_ip(InterfaceSelects(j))

Spec == Init /\ [][Next]_ip
FairSpec == Spec /\ Fairness

-----------------------------------------------------------------------------
TypeOK ==
  /\ ip.tasks \subseteq Tasks
  /\ ip.action \in [Sockets -> Actions] /\ ip.inUse \subseteq Sockets
  /\ ip.left \in [Sockets -> 0..MaxPieces] /\ ip.currOut \in Sockets
  /\ ip.payloadIter \subseteq IcmpClients
  /\ {ip.wrapped, ip.summing, ip.inProgress, ip.subSenderWorking} \subseteq BOOLEAN
  /\ {ip.handlingStatus, ip.forwardingStatus} \subseteq Statuses
  /\ \A q \in Queues : Len(ip.sending[q]) <= Capacity(q)
  /\ \A p \in Packets : ip.ifaceId[p] \in 0..NumInterfaces
  /\ Len(ip.queued) <= ForwardedLength /\ Len(ip.routed) <= RoutedLength

Holds(queues, p) ==
  Cardinality({e \in Queues \X (1..NumSockets) :
                 e[2] <= Len(queues[e[1]]) /\ queues[e[1]][e[2]] = p})
InStack(p) == Holds(ip.selection, p) + Holds(ip.sending, p)

(* The virtualizer sends the head of one of its queues and is idle only if *)
(* nothing waits; the policy has that packet, and either an interface has  *)
(* it or the task that offers it to the next one is posted.                *)
OneIsSent ==
  /\ ip.subSenderWorking <=> \E q \in Queues : ip.sending[q] # << >>
  /\ ip.subSenderWorking <=> ip.routed # << >>
  /\ ip.subSenderWorking =>
       \E q \in Queues : /\ ip.sending[q] # << >>
                         /\ ip.routed = <<Head(ip.sending[q])>>
  /\ {e[2] : e \in ip.accepted \cup ip.carrying} = ip.beingRouted
  /\ ip.beingRouted \subseteq ToSet(ip.routed)
  /\ Cardinality(ip.accepted \cup ip.carrying) <= 1
  /\ ip.routed # << >> => ip.beingRouted # {} \/ "route" \in ip.tasks

(* The head of every queue for an address, and nothing else, is at one     *)
(* interface.                                                              *)
HeadsAreSelected ==
  LET busy == {q \in Queues : ip.selection[q] # << >>}
      heads == {Head(ip.selection[q]) : q \in busy}
  IN /\ UNION {ToSet(ip.choosing[i]) : i \in Interfaces} = heads
     /\ \A p \in heads :
          Cardinality({e \in Interfaces \X (1..Cardinality(Packets)) :
                         /\ e[2] <= Len(ip.choosing[e[1]])
                         /\ ip.choosing[e[1]][e[2]] = p}) = 1

(* A client waits for the stack exactly while its packet is in one place   *)
(* of it; a client that does not wait has its task posted.                 *)
SocketsWait ==
  \A s \in Sockets :
    LET waits == s \in ip.inUse /\ ip.action[s] = "WAITING"
    IN /\ InStack(PacketOf(s)) = IF waits THEN 1 ELSE 0
       /\ s \in ip.inUse /\ ~waits => "udp" \in ip.tasks
IcmpWaits ==
  /\ ToSet(ip.active) = ip.payloadIter /\ IsInjective(ip.active)
  /\ ip.active = << >> => ~ip.wrapped /\ ~IcmpTask
  /\ ip.active # << >> =>
       InStack(icmp) + (IF ip.summing THEN 1 ELSE 0)
         + (IF IcmpTask THEN 1 ELSE 0) = 1
ForwarderWaits ==
  /\ ip.inProgress <=> InStack(fwd) = 1 \/ "forwarded" \in ip.tasks
  /\ InStack(fwd) = 1 => "forwarded" \notin ip.tasks
  /\ ip.inProgress => ip.queued # << >>
  /\ ip.queued # << >> => ip.inProgress \/ "forward" \in ip.tasks

(* Nobody waits for nobody, and nobody works on a packet that another has: *)
(* between the clients, the virtualizer, the policy and the interfaces     *)
(* each packet is in the hands of exactly one.                             *)
NothingWaitsForNobody ==
  /\ TypeOK
  /\ OneIsSent /\ HeadsAreSelected
  /\ SocketsWait /\ IcmpWaits /\ ForwarderWaits

(* A client reports success if and only if an interface has sent the       *)
(* packet.  (The status of ICMPv6 is SUCCESS while the packet is on its    *)
(* way: a task too many would report that, and free the packet.)           *)
ReportsWhatHappened ==
  /\ \A s \in ip.inUse :
       /\ ip.action[s] = "COMPLETE" => PacketOf(s) \in ip.sent
       /\ ip.action[s] = "TERMINATE" => PacketOf(s) \notin ip.sent
  /\ IcmpTask /\ ip.wrapped => (ip.handlingStatus = "SUCCESS" <=> icmp \in ip.sent)
  /\ "forwarded" \in ip.tasks =>
       (ip.forwardingStatus = "SUCCESS" <=> fwd \in ip.sent)

(* Every packet is finished.  The virtualizer starts at the first client   *)
(* each time, so that one that comes later may starve - but only while     *)
(* again and again two packets of clients before it are waiting.           *)
Before(q) == {Protocols[i] : i \in {j \in DOMAIN Protocols :
                \A k \in 1..j : Protocols[k] # q}}
Ahead(q) == Cardinality({e \in Before(q) \X (1..NumSockets) :
                           e[2] <= Len(ip.sending[e[1]])})
EveryPacketIsFinished ==
  /\ \A s \in Sockets : []<>(s \notin ip.inUse)
  /\ []<>(Ahead("icmp") >= 2) \/
       \A c \in IcmpClients : []<>(c \notin ip.payloadIter)
  /\ []<>(Ahead("fwd") >= 2) \/
       \A x \in Incoming : []<>(x \notin ToSet(ip.queued))
=============================================================================
