--------------------------- MODULE OutgoingStack ----------------------------
(***************************************************************************)
(* The stack that takes packets to an interface: the virtualizer           *)
(* (IPv6OutgoingPacketStackVirtualizerPrv.nc), which keeps what waits for  *)
(* each client and sends one packet at a time, and the routing policy      *)
(* (IPv6DefaultPacketRoutingPolicyMainPrv.nc), which offers a packet to    *)
(* one interface after another.                                            *)
(*                                                                         *)
(* The clients pass packets that have a source address or have asked for   *)
(* one before, so the policy never selects one by itself, and it is not    *)
(* told the interface beforehand.  An interface that agrees to select an   *)
(* address always finds one.                                               *)
(***************************************************************************)
EXTENDS OutgoingClients

(* The interface that a selection starts at: the first that does not say   *)
(* ENOROUTE, if it agrees, or none.                                        *)
None == NumInterfaces
Chosen == Selectors \cup {None}

SelectAt(r, p, i) ==
  [r EXCEPT !.choosing[i] = Append(@, p), !.assigned = @ \cup {p}]

(* virtualizer, startSelectingSourceAddressForIPv6Packet                   *)
SelectionFull(r, q) == Len(r.selection[q]) >= Capacity(q)
Selects(r, p, i) ==
  LET q == ProtocolOf(p)
  IN ~SelectionFull(r, q) /\ (r.selection[q] # << >> \/ i # None)
StartSelecting(r, p, i) ==
  LET q == ProtocolOf(p)
      asked == IF r.selection[q] = << >> THEN SelectAt(r, p, i) ELSE r
  IN [asked EXCEPT !.selection[q] = Append(@, p)]

(* virtualizer, finishSelectingSourceAddressForIPv6Packet, for the head of *)
(* a queue: the next ones are tried until an interface takes one.          *)
FinishSelecting(r, p, sums, refused, i) ==
  LET q == ProtocolOf(p)
      rest == Tail(r.selection[q])
      told == ToldNotSelected(ToldSelected(r, p, sums),
                              ToSet(SubSeq(rest, 1, refused)))
      next == [told EXCEPT !.selection[q] =
                             SubSeq(rest, refused + 1, Len(rest))]
  IN IF refused = Len(rest) THEN next ELSE SelectAt(next, rest[refused + 1], i)

-----------------------------------------------------------------------------
(* Sending.                                                                *)

(* policy, startSendingIPv6Packet                                          *)
CanRoute(r) == Len(r.routed) < RoutedLength
StartRouting(r, p) ==
  post([r EXCEPT !.routed = Append(@, p),
                 !.ifaceId[p] = IF p \in r.assigned THEN @ ELSE 0], "route")

(* virtualizer, startSendingIPv6Packet; the mark is set in any case        *)
Sends(r, p) ==
  /\ Len(r.sending[ProtocolOf(p)]) < Capacity(ProtocolOf(p))
  /\ r.subSenderWorking \/ CanRoute(r)
StartSending(r, p) ==
  LET s == IF r.subSenderWorking \/ ~CanRoute(r) THEN r ELSE StartRouting(r, p)
  IN IF Len(r.sending[ProtocolOf(p)]) >= Capacity(ProtocolOf(p)) THEN r
     ELSE [s EXCEPT !.subSenderWorking = TRUE,
                    !.sending[ProtocolOf(p)] = IF Sends(r, p) THEN Append(@, p)
                                               ELSE @]

(* virtualizer, finishSendingIPv6Packet: the client is told and the first  *)
(* client that has a packet waiting has it sent.  The packets that the     *)
(* policy refuses fail, until it takes one.                                *)
Waiting(r) == {i \in DOMAIN Protocols : r.sending[Protocols[i]] # << >>}
SendNext(r) ==
  LET first == CHOOSE i \in Waiting(r) : \A j \in Waiting(r) : i <= j
      all == UNION {ToSet(r.sending[q]) : q \in Queues}
  IN IF Waiting(r) = {} THEN r
     ELSE IF CanRoute(r)
     THEN StartRouting([r EXCEPT !.subSenderWorking = TRUE],
                       Head(r.sending[Protocols[first]]))
     ELSE ToldSent([r EXCEPT !.sending = [q \in Queues |-> << >>]], all, "FAIL")
(* Slip: only the queue of the same client is looked at.                   *)
FinishSending_Slip(r, p, status) ==
  LET q == ProtocolOf(p)
      ended == ToldSent([r EXCEPT !.subSenderWorking = FALSE,
                                  !.sending[q] = Tail(@)], {p}, status)
  IN IF ended.sending[q] = << >> THEN ended ELSE SendNext(ended)
FinishSending(r, p, status) ==
  SendNext(ToldSent([r EXCEPT !.subSenderWorking = FALSE,
                              !.sending[ProtocolOf(p)] = Tail(@)],
                    {p}, status))

(* policy, finishHandlingRoutedPacket                                      *)
findQueueIndexOfRoutedPacket(r, p) == CHOOSE n \in DOMAIN r.routed : r.routed[n] = p
FinishRouted(r, p, status) ==
  FinishSending([r EXCEPT !.routed = RemoveAt(@, findQueueIndexOfRoutedPacket(r, p)),
                          !.beingRouted = @ \ {p}], p, status)

(* policy, routeOutstandingPacketsTask: one packet that is not at an       *)
(* interface is offered to its next one, which gives an answer.            *)
Unrouted(r) == {n \in DOMAIN r.routed : r.routed[n] \notin r.beingRouted}
Offer(r, p, answer) ==
  LET i == r.ifaceId[p]
  IN IF i = None THEN FinishRouted(r, p, "ENOROUTE")
     ELSE IF answer = "SUCCESS"
     THEN [r EXCEPT !.beingRouted = @ \cup {p}, !.accepted = @ \cup {<<i, p>>}]
     ELSE IF p \in r.assigned \/ answer # "ENOROUTE"
     THEN FinishRouted(r, p, answer)
     ELSE [r EXCEPT !.ifaceId[p] = i + 1]
routeOutstandingPackets(r, answer) ==
  LET first == CHOOSE n \in Unrouted(r) : \A m \in Unrouted(r) : n <= m
  IN IF Unrouted(r) = {} THEN r
     ELSE Offer(post(r, "route"), r.routed[first], answer)

(* policy, finishSendingIPv6Packet, of an interface                        *)
InterfaceSent(r, i, p, status) ==
  LET done == [r EXCEPT !.accepted = @ \ {<<i, p>>}, !.carrying = @ \ {<<i, p>>},
                        !.sent = IF status = "SUCCESS" THEN @ \cup {p} ELSE @]
  IN IF p \in r.assigned \/ status # "ENOROUTE" THEN FinishRouted(done, p, status)
     ELSE post([done EXCEPT !.beingRouted = @ \ {p}, !.ifaceId[p] = i + 1],
               "route")

(* What an interface does with a packet that it has accepted: its task     *)
(* finds no route, or fails, or assigns the packet to the interface and    *)
(* starts to carry it.                                                     *)
InterfaceStarts(r, i, p, status) ==
  IF status = "SUCCESS"
  THEN [r EXCEPT !.accepted = @ \ {<<i, p>>}, !.carrying = @ \cup {<<i, p>>},
                 !.assigned = @ \cup {p}]
  ELSE InterfaceSent(r, i, p, status)

(* policy, finishSelectingSourceAddressForIPv6Packet, of an interface      *)
InterfaceSelected(r, j, sums, refused, i) ==
  LET p == Head(r.choosing[j])
  IN FinishSelecting([r EXCEPT !.choosing[j] = Tail(@), !.ifaceId[p] = j],
                     p, sums, refused, i)
=============================================================================
