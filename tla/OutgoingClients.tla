-------------------------- MODULE OutgoingClients ---------------------------
(***************************************************************************)
(* The state of what sends IPv6 packets, and how its clients hear from it. *)
(* Three clients share the outgoing stack: the UDP sockets                 *)
(* (UDPRawSocketManagerMainPrv.nc), the ICMPv6 messages                    *)
(* (ICMPv6OutgoingMessageForwarderVirtualizerPrv.nc) and the forwarder of  *)
(* received packets (IPv6IncomingPacketForwarderMainPrv.nc).  A packet is  *)
(* named by the buffer that holds it: one for each socket, one for ICMPv6, *)
(* one for the forwarder.                                                  *)
(*                                                                         *)
(* Tasks run one at a time and everything here happens in tasks, so the    *)
(* whole state is one record that the steps of a task are functions of.    *)
(***************************************************************************)
EXTENDS Naturals, FiniteSets, Sequences, SequencesExt

CONSTANTS
  NumSockets,        \* NUM_SOCKETS
  IcmpClients,
  Incoming,          \* received packets to be forwarded
  Nodes,             \* what sends on a node: see ASSUME
  ForwardedLength,   \* capacity of ForwardedPacketQueue
  RoutedLength,      \* capacity of RoutedPacketQueue
  NumInterfaces,
  Selectors,         \* the interfaces that select source addresses
  MaxPieces          \* pieces of MAX_BYTES_PROCESSED_PER_TASK in a datagram

ASSUME OutputConstants ==
  /\ NumSockets \in Nat \ {0} /\ ForwardedLength \in Nat \ {0}
  /\ RoutedLength \in Nat \ {0} /\ NumInterfaces \in Nat \ {0}
  /\ Nodes \subseteq [sockets : SUBSET (0..(NumSockets - 1)),
                      clients : SUBSET IcmpClients, packets : SUBSET Incoming]
  /\ Selectors \subseteq 0..(NumInterfaces - 1) /\ MaxPieces \in Nat \ {0}

Sockets == 0..(NumSockets - 1)
Interfaces == 0..(NumInterfaces - 1)
Protocols == <<"udp", "icmp", "fwd">>     \* in the order of their client ids
PacketOf(s) == <<"udp", s>>
icmp == <<"icmp", 0>>
fwd == <<"fwd", 0>>
Packets == {PacketOf(s) : s \in Sockets} \cup {icmp, fwd}
ProtocolOf(p) == p[1]
Queues == {Protocols[i] : i \in DOMAIN Protocols}
(* The UDP manager brings queues for all of its sockets; the others use the *)
(* one place that the virtualizer has for each client.                     *)
Capacity(q) == IF q = "udp" THEN NumSockets ELSE 1

Tasks == {"udp", "icmp", "forward", "forwarded", "route"}
Actions == {"WAITING", "START", "START_CHECKSUM", "CHECKSUM",
            "COMPLETE", "TERMINATE"}
Statuses == {"SUCCESS", "ENOROUTE", "FAIL"}   \* FAIL: any other error

Start(n) ==
  [node |-> n, tasks |-> {},
   \* UDPRawSocketManagerMainPrv
   action |-> [s \in Sockets |-> "WAITING"], inUse |-> {},
   left |-> [s \in Sockets |-> 0], currOut |-> 0,
   \* ICMPv6OutgoingMessageForwarderVirtualizerPrv
   payloadIter |-> {}, active |-> << >>, wrapped |-> FALSE, summing |-> FALSE,
   handlingStatus |-> "SUCCESS",
   \* IPv6IncomingPacketForwarderMainPrv
   queued |-> << >>, inProgress |-> FALSE, forwardingStatus |-> "SUCCESS",
   \* IPv6OutgoingPacketStackVirtualizerPrv
   selection |-> [q \in Queues |-> << >>], sending |-> [q \in Queues |-> << >>],
   subSenderWorking |-> FALSE,
   \* IPv6DefaultPacketRoutingPolicyMainPrv
   routed |-> << >>, beingRouted |-> {}, assigned |-> {},
   ifaceId |-> [p \in Packets |-> 0],
   \* the interfaces
   choosing |-> [i \in Interfaces |-> << >>], accepted |-> {}, carrying |-> {},
   \* history: the packets an interface has reported as sent
   sent |-> {}]

post(r, t) == [r EXCEPT !.tasks = @ \cup {t}]

(* A packet is finished with its client.  The next one in the buffer gets   *)
(* new flags and a new interface before they are read: what was noted about *)
(* this one is dropped here.                                               *)
Forgotten(r, p) ==
  [r EXCEPT !.assigned = @ \ {p}, !.sent = @ \ {p}, !.ifaceId[p] = 0]

-----------------------------------------------------------------------------
(* The events that the clients get: finishSendingIPv6Packet, for a set of  *)
(* packets, and finishSelectingSourceAddressForIPv6Packet.  They note what *)
(* is to be done and post a task that does it.                             *)

SocketsTold(r, ps, action) ==
  LET told == {s \in Sockets : PacketOf(s) \in ps}
      noted == [r EXCEPT !.action =
                  [s \in Sockets |-> IF s \in told THEN action ELSE @[s]]]
  IN IF told = {} THEN r ELSE post(noted, "udp")

IcmpTold(r, ps, status) ==
  IF icmp \in ps THEN post([r EXCEPT !.handlingStatus = status], "icmp") ELSE r

ForwarderTold(r, ps, status) ==
  IF fwd \in ps
  THEN post([r EXCEPT !.forwardingStatus = status], "forwarded") ELSE r

ToldSent(r, ps, status) ==
  LET end == IF status = "SUCCESS" THEN "COMPLETE" ELSE "TERMINATE"
  IN ForwarderTold(IcmpTold(SocketsTold(r, ps, end), ps, status), ps, status)

(* initChecksumComputation: the computer may refuse.                       *)
IcmpSums(r, sums) ==
  IF sums THEN [r EXCEPT !.summing = TRUE] ELSE IcmpTold(r, {icmp}, "FAIL")
ToldSelected(r, p, sums) ==
  IF p = icmp THEN IcmpSums(r, sums)
  ELSE SocketsTold(r, {p}, "START_CHECKSUM")
ToldNotSelected(r, ps) ==
  IcmpTold(SocketsTold(r, ps, "TERMINATE"), ps, "FAIL")
=============================================================================
