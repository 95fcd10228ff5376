---------------------------- MODULE MCForwarding ----------------------------
(* Forwarding for two fragments in a long packet, sent to a neighbour or   *)
(* broadcast, and one in a short one that is broadcast.                    *)
EXTENDS Forwarding

CONSTANT a1         \* the neighbour

Lengths == [p \in Packets |-> IF p = 1 THEN 140 ELSE 56]
AddrsOf == [p \in Packets |-> IF p = 1 THEN {a1, Broadcast} ELSE {Broadcast}]
=============================================================================
