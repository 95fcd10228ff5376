---------------------------- MODULE MCIPv6Output ----------------------------
(* Nodes on which something competes: two sockets, or a socket and ICMPv6, *)
(* with a client of the stack that comes after them; two clients of ICMPv6 *)
(* and two received packets.  The loopback, interface 0, selects no        *)
(* addresses for destinations elsewhere.                                   *)
EXTENDS IPv6Output

Node(s, c, x) == [sockets |-> s, clients |-> c, packets |-> x]
CompetingNodes ==
  LET c == CHOOSE c \in IcmpClients : TRUE
      x == CHOOSE x \in Incoming : TRUE
  IN {Node({0, 1}, {c}, {}), Node({0, 1}, {}, {x}), Node({0}, {c}, {x}),
      Node({}, IcmpClients, Incoming)}
=============================================================================
