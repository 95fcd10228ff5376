-------------------------- MODULE IPv6Output_proofs -------------------------
(***************************************************************************)
(* Proofs about IPv6Output for any number of sockets, clients of ICMPv6,   *)
(* received packets and interfaces.                                        *)
(***************************************************************************)
EXTENDS IPv6Output, FiniteSetTheorems, SequenceTheorems, TLAPS

Outputs ==
  [node : Nodes, tasks : SUBSET Tasks,
   action : [Sockets -> Actions], inUse : SUBSET Sockets,
   left : [Sockets -> 0..MaxPieces], currOut : Sockets,
   payloadIter : SUBSET IcmpClients, active : Seq(IcmpClients),
   wrapped : BOOLEAN, summing : BOOLEAN, handlingStatus : Statuses,
   queued : Seq(Incoming), inProgress : BOOLEAN, forwardingStatus : Statuses,
   selection : [Queues -> Seq(Packets)], sending : [Queues -> Seq(Packets)],
   subSenderWorking : BOOLEAN,
   routed : Seq(Packets), beingRouted : SUBSET Packets,
   assigned : SUBSET Packets, ifaceId : [Packets -> 0..NumInterfaces],
   choosing : [Interfaces -> Seq(Packets)],
   accepted : SUBSET (Interfaces \X Packets),
   carrying : SUBSET (Interfaces \X Packets),
   sent : SUBSET Packets]

-----------------------------------------------------------------------------
(* The inductive invariant, in parts.                                      *)

(* A queue of the virtualizer has packets of its client, each once.        *)
WellQueued(queues) ==
  \A q \in Queues :
    /\ Len(queues[q]) <= Capacity(q)
    /\ \A n \in 1..Len(queues[q]) : ProtocolOf(queues[q][n]) = q
    /\ \A m, n \in 1..Len(queues[q]) : queues[q][m] = queues[q][n] => m = n
In(queues, p) == \E n \in 1..Len(queues[ProtocolOf(p)]) :
                   queues[ProtocolOf(p)][n] = p
InHand(r, p) == In(r.selection, p) \/ In(r.sending, p)

(* The packet that the policy has is at one interface, or the task that    *)
(* offers it to the next one is posted.                                    *)
AtInterface(r, p) ==
  \/ /\ r.beingRouted = {} /\ r.accepted = {} /\ r.carrying = {}
     /\ "route" \in r.tasks
  \/ /\ r.beingRouted = {p}
     /\ \E i \in Interfaces : r.accepted \cup r.carrying = {<<i, p>>}
Idle(r) ==
  /\ ~r.subSenderWorking /\ r.routed = << >>
  /\ r.beingRouted = {} /\ r.accepted = {} /\ r.carrying = {}
Works(r, p) ==
  /\ r.subSenderWorking /\ r.routed = <<p>>
  /\ AtInterface(r, p)
Routes(r) ==
  \/ Idle(r) /\ \A q \in Queues : r.sending[q] = << >>
  \/ \E q \in Queues : r.sending[q] # << >> /\ Works(r, Head(r.sending[q]))

(* The interfaces select addresses for the heads of the queues for one.    *)
IsHead(queues, p) == /\ queues[ProtocolOf(p)] # << >>
                     /\ Head(queues[ProtocolOf(p)]) = p
IsChosen(choosing, p) ==
  \E i \in Interfaces : \E n \in 1..Len(choosing[i]) : choosing[i][n] = p
Once(choosing) ==
  \A i, j \in Interfaces : \A m \in 1..Len(choosing[i]) :
    \A n \in 1..Len(choosing[j]) :
      choosing[i][m] = choosing[j][n] => i = j /\ m = n
Choosing(r) ==
  /\ \A p \in Packets : IsChosen(r.choosing, p) <=> IsHead(r.selection, p)
  /\ Once(r.choosing)

StackInv(r) == /\ WellQueued(r.selection) /\ WellQueued(r.sending)
               /\ Routes(r) /\ Choosing(r)

(* A client that waits for the stack has given it its packet.              *)
SocketOn(r, s) == s \in r.inUse /\ r.action[s] = "WAITING"
IcmpOn(r) == r.active # << >> /\ r.wrapped /\ ~r.summing /\ "icmp" \notin r.tasks
ForwarderOn(r) == r.inProgress /\ "forwarded" \notin r.tasks
Waits(r, p) ==
  \/ \E s \in Sockets : p = PacketOf(s) /\ SocketOn(r, s)
  \/ p = icmp /\ IcmpOn(r)
  \/ p = fwd /\ ForwarderOn(r)

(* What a client has been told and not yet dealt with is success.          *)
Succeeded(r, p) ==
  \/ \E s \in r.inUse : p = PacketOf(s) /\ r.action[s] = "COMPLETE"
  \/ /\ p = icmp /\ "icmp" \in r.tasks /\ r.wrapped
     /\ r.handlingStatus = "SUCCESS"
  \/ /\ p = fwd /\ "forwarded" \in r.tasks /\ r.forwardingStatus = "SUCCESS"

SocketsInv(r) ==
  /\ \A s \in Sockets : s \notin r.inUse => r.action[s] = "WAITING"
  /\ \A s \in r.inUse : r.action[s] # "WAITING" => "udp" \in r.tasks
IcmpInv(r) ==
  /\ \A m, n \in 1..Len(r.active) : r.active[m] = r.active[n] => m = n
  /\ \A c \in IcmpClients :
       c \in r.payloadIter <=> \E n \in 1..Len(r.active) : r.active[n] = c
  /\ r.active = << >> => ~r.wrapped /\ "icmp" \notin r.tasks
  /\ r.summing => r.wrapped /\ "icmp" \notin r.tasks
  /\ r.active # << >> => r.wrapped \/ "icmp" \in r.tasks
ForwarderInv(r) ==
  /\ Len(r.queued) <= ForwardedLength
  /\ "forwarded" \in r.tasks => r.inProgress
  /\ r.inProgress => r.queued # << >>
  /\ r.queued # << >> => r.inProgress \/ "forward" \in r.tasks
ClientInv(r) == SocketsInv(r) /\ IcmpInv(r) /\ ForwarderInv(r)

(* All packets are in the hands of their clients or in one place of the    *)
(* stack, but for those of ps, which nobody has.                           *)
Held(r, ps) ==
  \A p \in Packets :
    /\ Waits(r, p) <=> InHand(r, p) \/ p \in ps
    /\ ~(In(r.selection, p) /\ In(r.sending, p))
    /\ p \in ps => ~InHand(r, p)
Reported(r) == \A p \in Packets : p \in r.sent <=> Succeeded(r, p)

OutputInv(r) ==
  /\ r \in Outputs /\ StackInv(r) /\ ClientInv(r)
  /\ Held(r, {}) /\ ~In(r.selection, fwd) /\ Reported(r)
IPv6Inv == OutputInv(ip)

-----------------------------------------------------------------------------
(* Packets, queues, interfaces.                                            *)

LEMMA PacketsAre ==
  /\ Queues = {"udp", "icmp", "fwd"}
  /\ \A s \in Sockets : /\ PacketOf(s) \in Packets /\ ProtocolOf(PacketOf(s)) = "udp"
                        /\ PacketOf(s) # icmp /\ PacketOf(s) # fwd
                        /\ \A t \in Sockets : PacketOf(s) = PacketOf(t) => s = t
  /\ icmp \in Packets /\ ProtocolOf(icmp) = "icmp"
  /\ fwd \in Packets /\ ProtocolOf(fwd) = "fwd"
  /\ icmp # fwd
  /\ \A p \in Packets : \/ \E s \in Sockets : p = PacketOf(s)
                        \/ p = icmp \/ p = fwd
<1>1. DOMAIN Protocols = {1, 2, 3}
  BY DEF Protocols
<1>2. Queues = {"udp", "icmp", "fwd"}
  BY <1>1 DEF Queues, Protocols
<1> QED  BY <1>2 DEF Packets, PacketOf, icmp, fwd, ProtocolOf

LEMMA OneProtocol == \A p \in Packets : ProtocolOf(p) \in Queues
BY PacketsAre

LEMMA ConstantsAre ==
  /\ NumSockets \in Nat \ {0} /\ NumInterfaces \in Nat \ {0}
  /\ RoutedLength \in Nat \ {0} /\ ForwardedLength \in Nat \ {0}
  /\ MaxPieces \in Nat \ {0}
  /\ Sockets = 0..(NumSockets - 1) /\ 0 \in Sockets
  /\ Selectors \subseteq Interfaces /\ None \notin Interfaces
  /\ \A i \in Interfaces : i \in 0..NumInterfaces /\ i + 1 \in 0..NumInterfaces
  /\ \A i \in 0..NumInterfaces : i # None => i \in Interfaces
  /\ \A q \in Queues : Capacity(q) \in 1..NumSockets
<1>1. NumSockets \in Nat \ {0} /\ NumInterfaces \in Nat \ {0}
  BY OutputConstants
<1> QED  BY <1>1, OutputConstants DEF Sockets, Interfaces, None, Capacity

LEMMA Appended ==
  ASSUME NEW S, NEW s \in Seq(S), NEW e \in S
  PROVE  /\ Append(s, e) \in Seq(S) /\ Append(s, e) # << >>
         /\ Len(s) \in Nat /\ Len(Append(s, e)) = Len(s) + 1
         /\ \A n \in 1..Len(s) : Append(s, e)[n] = s[n]
         /\ Append(s, e)[Len(s) + 1] = e
         /\ Head(Append(s, e)) = IF s = << >> THEN e ELSE Head(s)
<1>1. /\ Append(s, e) \in Seq(S)
      /\ Len(s) \in Nat /\ Len(Append(s, e)) = Len(s) + 1
      /\ \A n \in 1..Len(s) : Append(s, e)[n] = s[n]
      /\ Append(s, e)[Len(s) + 1] = e
  BY AppendProperties
<1>2. s = << >> <=> Len(s) = 0
  BY EmptySeq
<1>3. Append(s, e) # << >>
  BY <1>1, EmptySeq
<1>4. Head(Append(s, e)) = Append(s, e)[1]
  BY <1>1, <1>3
<1>5. s # << >> => Head(s) = s[1]
  BY <1>1
<1> QED  BY <1>1, <1>2, <1>3, <1>4, <1>5

LEMMA Tails ==
  ASSUME NEW S, NEW s \in Seq(S), s # << >>
  PROVE  /\ Tail(s) \in Seq(S) /\ Len(s) \in Nat /\ Len(s) >= 1
         /\ Len(Tail(s)) = Len(s) - 1
         /\ \A n \in 1..(Len(s) - 1) : Tail(s)[n] = s[n + 1]
         /\ Head(s) = s[1] /\ Head(s) \in S
BY HeadTailProperties, EmptySeq

Changed(S, g, f, x, v) == g[x] = v /\ \A y \in S : y # x => g[y] = f[y]

LEMMA OneWellQueued ==
  ASSUME NEW queues, WellQueued(queues), NEW q \in Queues, NEW g, NEW t,
         g[q] = t, \A k \in Queues : k # q => g[k] = queues[k],
         Len(t) <= Capacity(q), \A n \in 1..Len(t) : ProtocolOf(t[n]) = q,
         \A m, n \in 1..Len(t) : t[m] = t[n] => m = n
  PROVE  WellQueued(g)
<1> SUFFICES ASSUME NEW k \in Queues
             PROVE  /\ Len(g[k]) <= Capacity(k)
                    /\ \A n \in 1..Len(g[k]) : ProtocolOf(g[k][n]) = k
                    /\ \A m, n \in 1..Len(g[k]) : g[k][m] = g[k][n] => m = n
  BY DEF WellQueued
<1>1. CASE k = q
  BY <1>1
<1>2. CASE k # q
  BY <1>2 DEF WellQueued
<1> QED  BY <1>1, <1>2

(* Another packet in a queue.                                              *)
LEMMA QueueAppend ==
  ASSUME NEW queues \in [Queues -> Seq(Packets)], WellQueued(queues),
         NEW p \in Packets, ~In(queues, p), NEW q, q = ProtocolOf(p),
         Len(queues[q]) < Capacity(q),
         NEW g,
         Changed(Queues, g, queues, q, Append(queues[q], p))
  PROVE  /\ WellQueued(g)
         /\ \A x \in Packets : In(g, x) <=> In(queues, x) \/ x = p
         /\ \A x \in Packets : IsHead(g, x) <=>
              IsHead(queues, x) \/ (x = p /\ queues[q] = << >>)
         /\ \A k \in Queues : queues[k] # << >> => Head(g[k]) = Head(queues[k])
<1>1. q \in Queues
  BY OneProtocol
<1> DEFINE s == queues[q]
           t == Append(s, p)
<1>2. s \in Seq(Packets) /\ g[q] = t /\ \A k \in Queues : k # q => g[k] = queues[k]
  BY <1>1 DEF Changed
<1>3. /\ t \in Seq(Packets) /\ t # << >> /\ Len(s) \in Nat /\ Len(t) = Len(s) + 1
      /\ \A n \in 1..Len(s) : t[n] = s[n]
      /\ t[Len(s) + 1] = p
      /\ Head(t) = IF s = << >> THEN p ELSE Head(s)
  BY <1>2, Appended
<1>4. Capacity(q) \in Nat
  BY <1>1, ConstantsAre
<1>5. \A n \in 1..Len(s) : s[n] # p /\ ProtocolOf(s[n]) = q
  BY <1>1 DEF In, WellQueued
<1>6. \A m, n \in 1..Len(s) : s[m] = s[n] => m = n
  BY <1>1 DEF WellQueued
<1> HIDE DEF s, t
<1>8. WellQueued(g)
  <2>1. Len(t) <= Capacity(q)
    <3>1. Len(s) < Capacity(q)
      BY DEF s
    <3> QED  BY <1>3, <1>4, <3>1
  <2>2. \A n \in 1..Len(t) : ProtocolOf(t[n]) = q
    BY <1>3, <1>5
  <2>3. \A m, n \in 1..Len(t) : t[m] = t[n] => m = n
    BY <1>3, <1>5, <1>6
  <2>4. g[q] = t
    BY <1>2
  <2>5. \A k \in Queues : k # q => g[k] = queues[k]
    BY <1>2
  <2> QED  BY ONLY WellQueued(queues), <1>1, <2>1, <2>2, <2>3, <2>4, <2>5, OneWellQueued
<1>9. ASSUME NEW x \in Packets PROVE In(g, x) <=> In(queues, x) \/ x = p
  <2>1. CASE ProtocolOf(x) = q
    <3>1. In(queues, x) <=> \E n \in 1..Len(s) : s[n] = x
      BY <2>1 DEF In, s
    <3>2. In(g, x) <=> \E n \in 1..Len(t) : t[n] = x
      BY <1>2, <2>1 DEF In
    <3> QED  BY <1>3, <3>1, <3>2
  <2>2. CASE ProtocolOf(x) # q
    BY <1>2, <2>2, OneProtocol DEF In
  <2> QED  BY <2>1, <2>2
<1>10. ASSUME NEW x \in Packets
       PROVE  IsHead(g, x) <=> IsHead(queues, x) \/ (x = p /\ queues[q] = << >>)
  <2>1. CASE ProtocolOf(x) = q
    BY <1>2, <1>3, <2>1 DEF IsHead, s
  <2>2. CASE ProtocolOf(x) # q
    BY <1>2, <2>2, OneProtocol DEF IsHead
  <2> QED  BY <2>1, <2>2
<1>11. ASSUME NEW k \in Queues
       PROVE  queues[k] # << >> => Head(g[k]) = Head(queues[k])
  BY <1>2, <1>3 DEF s
<1> QED  BY <1>8, <1>9, <1>10, <1>11

(* The first packets leave a queue.                                        *)
LEMMA QueueDrop ==
  ASSUME NEW queues \in [Queues -> Seq(Packets)], WellQueued(queues),
         NEW q \in Queues, NEW k \in 0..Len(queues[q]),
         NEW t \in Seq(Packets), Len(t) = Len(queues[q]) - k,
         \A n \in 1..(Len(queues[q]) - k) : t[n] = queues[q][n + k],
         NEW g, Changed(Queues, g, queues, q, t)
  PROVE  /\ WellQueued(g)
         /\ \A x \in Packets : In(g, x) <=>
              In(queues, x) /\ \A n \in 1..k : x # queues[q][n]
         /\ \A x \in Packets : IsHead(g, x) <=>
              IF ProtocolOf(x) = q THEN k # Len(queues[q]) /\ x = queues[q][k + 1]
              ELSE IsHead(queues, x)
<1> DEFINE s == queues[q]
<1>1. s \in Seq(Packets) /\ g[q] = t /\ \A j \in Queues : j # q => g[j] = queues[j]
  BY DEF Changed
<1>2. Len(s) \in Nat /\ k \in Nat /\ k <= Len(s) /\ Len(t) = Len(s) - k
  BY <1>1
<1>3. \A n \in 1..Len(t) : n + k \in 1..Len(s) /\ t[n] = s[n + k]
  BY <1>2
<1>4. \A n \in 1..Len(s) : ProtocolOf(s[n]) = q
  BY DEF WellQueued
<1>5. \A m, n \in 1..Len(s) : s[m] = s[n] => m = n
  BY DEF WellQueued
<1>6. Len(s) <= Capacity(q) /\ Capacity(q) \in Nat
  BY ConstantsAre DEF WellQueued
<1>7. \A n \in 1..k : n \in 1..Len(s) /\ queues[q][n] = s[n]
  BY <1>2
<1> HIDE DEF s
<1>9. WellQueued(g)
  <2>1. /\ Len(t) <= Capacity(q)
        /\ \A n \in 1..Len(t) : ProtocolOf(t[n]) = q
    <3>1. Len(t) <= Capacity(q)
      BY <1>2, <1>6
    <3> QED  BY <1>3, <1>4, <3>1
  <2>2. \A m, n \in 1..Len(t) : t[m] = t[n] => m = n
    BY <1>2, <1>3, <1>5
  <2> QED  BY <1>1, <2>1, <2>2, OneWellQueued
<1>10. ASSUME NEW x \in Packets
       PROVE  In(g, x) <=> In(queues, x) /\ \A n \in 1..k : x # queues[q][n]
  <2>1. CASE ProtocolOf(x) = q
    <3>1. In(queues, x) <=> \E n \in 1..Len(s) : s[n] = x
      BY <2>1 DEF In, s
    <3>2. In(g, x) <=> \E n \in 1..Len(t) : t[n] = x
      BY <1>1, <2>1 DEF In
    <3>3. ASSUME NEW n \in 1..Len(s), s[n] = x, \A m \in 1..k : x # s[m]
          PROVE  \E m \in 1..Len(t) : t[m] = x
      <4>1. n - k \in 1..Len(t) /\ (n - k) + k = n
        BY <1>2, <3>3
      <4> QED  BY <1>3, <3>3, <4>1
    <3>4. ASSUME NEW n \in 1..Len(t), t[n] = x
          PROVE  (\E m \in 1..Len(s) : s[m] = x) /\ \A m \in 1..k : x # s[m]
      <4>1. n + k \in 1..Len(s) /\ s[n + k] = x
        BY <1>3, <3>4
      <4>2. \A m \in 1..k : m # n + k
        BY <1>2
      <4> QED  BY <1>5, <1>7, <4>1, <4>2
    <3> QED  BY <1>7, <3>1, <3>2, <3>3, <3>4
  <2>2. CASE ProtocolOf(x) # q
    <3>1. \A n \in 1..k : x # queues[q][n]
      BY <1>4, <1>7, <2>2
    <3> QED  BY <1>1, <2>2, <3>1, OneProtocol DEF In
  <2> QED  BY <2>1, <2>2
<1>11. ASSUME NEW x \in Packets
       PROVE  IsHead(g, x) <=>
                IF ProtocolOf(x) = q THEN k # Len(queues[q]) /\ x = queues[q][k + 1]
                ELSE IsHead(queues, x)
  <2>1. CASE ProtocolOf(x) = q
    <3>1. t # << >> <=> k # Len(s)
      <4>1. t # << >> <=> Len(t) # 0
        BY EmptySeq
      <4> QED  BY <1>2, <4>1
    <3>2. t # << >> => Head(t) = t[1] /\ t[1] = s[k + 1]
      <4> SUFFICES ASSUME t # << >> PROVE Head(t) = t[1] /\ t[1] = s[k + 1]
        OBVIOUS
      <4>1. 1 \in 1..Len(t)
        BY <1>2, <3>1
      <4> QED  BY <1>2, <1>3, <4>1
    <3> QED  BY <1>1, <2>1, <3>1, <3>2 DEF IsHead, s
  <2>2. CASE ProtocolOf(x) # q
    BY <1>1, <2>2, OneProtocol DEF IsHead
  <2> QED  BY <2>1, <2>2
<1> QED  BY <1>9, <1>10, <1>11

(* Another packet, or one less, in the queue of an interface.              *)
LEMMA ChosenAppend ==
  ASSUME NEW c \in [Interfaces -> Seq(Packets)], Once(c),
         NEW i \in Interfaces, NEW p \in Packets, ~IsChosen(c, p),
         NEW d,
         Changed(Interfaces, d, c, i, Append(c[i], p))
  PROVE  /\ Once(d)
         /\ \A x \in Packets : IsChosen(d, x) <=> IsChosen(c, x) \/ x = p
<1> DEFINE s == c[i]
           t == Append(s, p)
<1>1. s \in Seq(Packets) /\ d[i] = t /\ \A j \in Interfaces : j # i => d[j] = c[j]
  BY DEF Changed
<1>2. /\ t \in Seq(Packets) /\ Len(s) \in Nat /\ Len(t) = Len(s) + 1
      /\ \A n \in 1..Len(s) : t[n] = s[n]
      /\ t[Len(s) + 1] = p
  BY <1>1, Appended
<1>3. \A j \in Interfaces : \A n \in 1..Len(c[j]) : c[j][n] # p
  BY DEF IsChosen
<1> HIDE DEF s, t
<1>5. \A x : (\E n \in 1..Len(t) : t[n] = x) <=>
               (\E n \in 1..Len(s) : s[n] = x) \/ x = p
  <2>1. 1..Len(t) = 1..Len(s) \cup {Len(s) + 1}
    BY <1>2
  <2> QED  BY <1>2, <2>1
<1>6. ASSUME NEW x PROVE IsChosen(d, x) <=> IsChosen(c, x) \/ x = p
  <2>1. (\E n \in 1..Len(d[i]) : d[i][n] = x) <=>
          (\E n \in 1..Len(c[i]) : c[i][n] = x) \/ x = p
    BY <1>1, <1>5 DEF s
  <2>2. \A j \in Interfaces : j # i => d[j] = c[j]
    BY <1>1
  <2> QED  BY <2>1, <2>2 DEF IsChosen
<1>7. ASSUME NEW j \in Interfaces, NEW k \in Interfaces,
             NEW m \in 1..Len(d[j]), NEW n \in 1..Len(d[k]), d[j][m] = d[k][n]
      PROVE  j = k /\ m = n
  <2>1. \A l \in Interfaces : \A o \in 1..Len(d[l]) :
          \/ o \in 1..Len(c[l]) /\ d[l][o] = c[l][o]
          \/ l = i /\ o = Len(s) + 1 /\ d[l][o] = p
    <3> SUFFICES ASSUME NEW l \in Interfaces, NEW o \in 1..Len(d[l])
                 PROVE  \/ o \in 1..Len(c[l]) /\ d[l][o] = c[l][o]
                        \/ l = i /\ o = Len(s) + 1 /\ d[l][o] = p
      OBVIOUS
    <3>1. CASE l = i
      <4>1. o \in 1..(Len(s) + 1)
        BY <1>1, <1>2, <3>1
      <4>2. CASE o = Len(s) + 1
        BY <1>1, <1>2, <3>1, <4>2
      <4>3. CASE o \in 1..Len(s)
        BY <1>1, <1>2, <3>1, <4>3 DEF s
      <4> QED  BY <1>2, <4>1, <4>2, <4>3
    <3>2. CASE l # i
      BY <1>1, <3>2
    <3> QED  BY <3>1, <3>2
  <2>2. CASE m \in 1..Len(c[j]) /\ d[j][m] = c[j][m]
    <3>1. n \in 1..Len(c[k]) /\ d[k][n] = c[k][n]
      BY <1>3, <1>7, <2>1, <2>2
    <3>2. c[j][m] = c[k][n]
      BY <1>7, <2>2, <3>1
    <3> QED  BY <2>2, <3>1, <3>2 DEF Once
  <2>3. CASE j = i /\ m = Len(s) + 1 /\ d[j][m] = p
    <3>1. k = i /\ n = Len(s) + 1
      BY <1>3, <1>7, <2>1, <2>3
    <3> QED  BY <2>3, <3>1
  <2> QED  BY <2>1, <2>2, <2>3
<1>8. Once(d)
  BY <1>7 DEF Once
<1> QED  BY <1>6, <1>8

LEMMA ChosenTail ==
  ASSUME NEW c \in [Interfaces -> Seq(Packets)], Once(c),
         NEW i \in Interfaces, c[i] # << >>, NEW p, p = Head(c[i]),
         NEW d,
         Changed(Interfaces, d, c, i, Tail(c[i]))
  PROVE  /\ Once(d)
         /\ p \in Packets /\ IsChosen(c, p)
         /\ \A x \in Packets : IsChosen(d, x) <=> IsChosen(c, x) /\ x # p
<1> DEFINE s == c[i]
           t == Tail(s)
<1>1. s \in Seq(Packets) /\ d[i] = t /\ \A j \in Interfaces : j # i => d[j] = c[j]
  BY DEF Changed
<1>2. /\ t \in Seq(Packets) /\ Len(s) \in Nat /\ Len(s) >= 1 /\ Len(t) = Len(s) - 1
      /\ \A n \in 1..(Len(s) - 1) : t[n] = s[n + 1]
      /\ p = s[1] /\ p \in Packets
  BY <1>1, Tails
<1> HIDE DEF s, t
<1>4. \A l \in Interfaces : \A o \in 1..Len(d[l]) :
        IF l = i THEN o + 1 \in 1..Len(c[i]) /\ d[l][o] = c[i][o + 1]
        ELSE o \in 1..Len(c[l]) /\ d[l][o] = c[l][o]
  <2> SUFFICES ASSUME NEW l \in Interfaces, NEW o \in 1..Len(d[l])
               PROVE  IF l = i THEN o + 1 \in 1..Len(c[i]) /\ d[l][o] = c[i][o + 1]
                      ELSE o \in 1..Len(c[l]) /\ d[l][o] = c[l][o]
    OBVIOUS
  <2>1. CASE l = i
    <3>1. o \in 1..(Len(s) - 1)
      BY <1>1, <1>2, <2>1
    <3>2. o + 1 \in 1..Len(s) /\ t[o] = s[o + 1]
      BY <1>2, <3>1
    <3> QED  BY <1>1, <2>1, <3>2 DEF s
  <2>2. CASE l # i
    BY <1>1, <2>2
  <2> QED  BY <2>1, <2>2
<1>5. 1 \in 1..Len(c[i]) /\ c[i][1] = p
  BY <1>2 DEF s
<1>6. IsChosen(c, p)
  BY <1>5 DEF IsChosen
<1>7. ASSUME NEW j \in Interfaces, NEW k \in Interfaces,
             NEW m \in 1..Len(d[j]), NEW n \in 1..Len(d[k]), d[j][m] = d[k][n]
      PROVE  j = k /\ m = n
  <2> DEFINE a == IF j = i THEN m + 1 ELSE m
             b == IF k = i THEN n + 1 ELSE n
  <2>1. a \in 1..Len(c[j]) /\ d[j][m] = c[j][a]
    BY <1>4
  <2>2. b \in 1..Len(c[k]) /\ d[k][n] = c[k][b]
    BY <1>4
  <2>3. c[j][a] = c[k][b]
    BY <1>7, <2>1, <2>2
  <2>4. j = k /\ a = b
    <3> HIDE DEF a, b
    <3> QED  BY <2>1, <2>2, <2>3 DEF Once
  <2> QED  BY <2>4
<1>8. Once(d)
  BY <1>7 DEF Once
<1>9. ASSUME NEW x \in Packets, IsChosen(d, x) PROVE IsChosen(c, x) /\ x # p
  <2>1. PICK l \in Interfaces : \E o \in 1..Len(d[l]) : d[l][o] = x
    BY <1>9 DEF IsChosen
  <2>5. PICK o \in 1..Len(d[l]) : d[l][o] = x
    BY <2>1
  <2> DEFINE a == IF l = i THEN o + 1 ELSE o
  <2>2. a \in 1..Len(c[l]) /\ c[l][a] = x
    BY <1>4, <2>5
  <2>3. IsChosen(c, x)
    BY <2>2 DEF IsChosen
  <2>4. ASSUME x = p PROVE FALSE
    <3>1. l = i /\ a = 1
      BY <1>5, <2>2, <2>4 DEF Once
    <3> QED  BY <3>1
  <2> QED  BY <2>3, <2>4
<1>10. ASSUME NEW x \in Packets, IsChosen(c, x), x # p PROVE IsChosen(d, x)
  <2>1. PICK l \in Interfaces : \E o \in 1..Len(c[l]) : c[l][o] = x
    BY <1>10 DEF IsChosen
  <2>4. PICK o \in 1..Len(c[l]) : c[l][o] = x
    BY <2>1
  <2>2. CASE l # i
    BY <1>1, <2>2, <2>4 DEF IsChosen
  <2>3. CASE l = i
    <3>1. o # 1
      BY <1>5, <1>10, <2>3, <2>4
    <3>2. o - 1 \in 1..Len(t) /\ t[o - 1] = s[o]
      <4>1. o \in 1..Len(s)
        BY <2>3 DEF s
      <4>2. o - 1 \in 1..(Len(s) - 1) /\ (o - 1) + 1 = o
        BY <1>2, <3>1, <4>1
      <4> QED  BY <1>2, <4>2
    <3>3. d[i][o - 1] = x /\ o - 1 \in 1..Len(d[i])
      BY <1>1, <2>3, <2>4, <3>2 DEF s
    <3> QED  BY <3>3 DEF IsChosen
  <2> QED  BY <2>2, <2>3
<1> QED  BY <1>2, <1>6, <1>8, <1>9, <1>10

(* What the properties count.                                              *)
LEMMA HoldsIs ==
  ASSUME NEW queues \in [Queues -> Seq(Packets)], WellQueued(queues),
         NEW p \in Packets
  PROVE  Holds(queues, p) = IF In(queues, p) THEN 1 ELSE 0
<1> DEFINE q == ProtocolOf(p)
           places == {e \in Queues \X (1..NumSockets) :
                        e[2] <= Len(queues[e[1]]) /\ queues[e[1]][e[2]] = p}
<1>1. q \in Queues
  BY OneProtocol
<1>2. \A k \in Queues : /\ Len(queues[k]) \in Nat
                        /\ \A n \in 1..Len(queues[k]) : n \in 1..NumSockets
  <2> SUFFICES ASSUME NEW k \in Queues
               PROVE  /\ Len(queues[k]) \in Nat
                      /\ \A n \in 1..Len(queues[k]) : n \in 1..NumSockets
    OBVIOUS
  <2>1. Len(queues[k]) <= Capacity(k) /\ Capacity(k) \in 1..NumSockets
    BY ConstantsAre DEF WellQueued
  <2>2. queues[k] \in Seq(Packets)
    OBVIOUS
  <2> QED  BY <2>1, <2>2, ConstantsAre
<1>3. \A e \in places : /\ e[1] \in Queues /\ e[2] \in 1..Len(queues[e[1]])
                        /\ e = <<e[1], e[2]>> /\ queues[e[1]][e[2]] = p
  BY <1>2
<1>4. \A e \in places : e[1] = q
  BY <1>3 DEF WellQueued
<1> HIDE DEF q
<1>5. CASE In(queues, p)
  <2>1. PICK n \in 1..Len(queues[q]) : queues[q][n] = p
    BY <1>5 DEF In, q
  <2>2. <<q, n>> \in places
    BY <1>1, <1>2, <2>1
  <2>3. \A e \in places : e = <<q, n>>
    <3> SUFFICES ASSUME NEW e \in places PROVE e = <<q, n>>
      OBVIOUS
    <3>1. e[1] = q /\ e[2] \in 1..Len(queues[q]) /\ queues[q][e[2]] = p
      BY <1>3, <1>4
    <3>2. e[2] = n
      BY <1>1, <2>1, <3>1 DEF WellQueued
    <3> QED  BY <1>3, <3>1, <3>2
  <2>4. places = {<<q, n>>}
    BY <2>2, <2>3
  <2>5. Cardinality(places) = 1
    BY <2>4, FS_Singleton
  <2> QED  BY <1>5, <2>5 DEF Holds
<1>6. CASE ~In(queues, p)
  <2>1. places = {}
    <3> SUFFICES ASSUME NEW e \in places PROVE FALSE
      OBVIOUS
    <3>1. e[2] \in 1..Len(queues[q]) /\ queues[q][e[2]] = p
      BY <1>3, <1>4
    <3> QED  BY <1>6, <3>1 DEF In, q
  <2>2. Cardinality(places) = 0
    BY <2>1, FS_EmptySet
  <2> QED  BY <1>6, <2>2 DEF Holds
<1> QED  BY <1>5, <1>6

LEMMA ChosenOnce ==
  ASSUME NEW c \in [Interfaces -> Seq(Packets)], Once(c), NEW p, IsChosen(c, p),
         IsFiniteSet(Packets)
  PROVE  Cardinality({e \in Interfaces \X (1..Cardinality(Packets)) :
                        e[2] <= Len(c[e[1]]) /\ c[e[1]][e[2]] = p}) = 1
<1> DEFINE places == {e \in Interfaces \X (1..Cardinality(Packets)) :
                        e[2] <= Len(c[e[1]]) /\ c[e[1]][e[2]] = p}
<1>1. PICK i \in Interfaces : \E n \in 1..Len(c[i]) : c[i][n] = p
  BY DEF IsChosen
<1>2. PICK n \in 1..Len(c[i]) : c[i][n] = p
  BY <1>1
<1>3. \A j \in Interfaces : Len(c[j]) \in Nat
  OBVIOUS
<1>4. Len(c[i]) <= Cardinality(Packets) /\ Cardinality(Packets) \in Nat
  <2> DEFINE f == [m \in 1..Len(c[i]) |-> c[i][m]]
  <2>1. f \in [1..Len(c[i]) -> Packets]
    OBVIOUS
  <2>2. \A l, m \in 1..Len(c[i]) : f[l] = f[m] => l = m
    BY DEF Once
  <2>3. f \in Injection(1..Len(c[i]), Packets)
    BY <2>1, <2>2 DEF Injection, IsInjective
  <2>4. Cardinality(1..Len(c[i])) <= Cardinality(Packets)
    BY <2>3, FS_Injection
  <2>5. Cardinality(1..Len(c[i])) = Len(c[i])
    BY SMTT(30), <1>3, FS_Interval
  <2>6. Cardinality(Packets) \in Nat
    BY FS_CardinalityType
  <2> QED  BY <2>4, <2>5, <2>6
<1>5. <<i, n>> \in places
  <2>1. n \in 1..Cardinality(Packets) /\ n <= Len(c[i])
    BY <1>3, <1>4
  <2> QED  BY <1>2, <2>1
<1>6. \A e \in places : e = <<i, n>>
  <2> SUFFICES ASSUME NEW e \in places PROVE e = <<i, n>>
    OBVIOUS
  <2>1. e[1] \in Interfaces /\ e[2] \in 1..Len(c[e[1]]) /\ e = <<e[1], e[2]>>
    BY <1>3
  <2>2. c[e[1]][e[2]] = p
    OBVIOUS
  <2>3. e[1] = i /\ e[2] = n
    BY <1>2, <2>1, <2>2 DEF Once
  <2> QED  BY <2>1, <2>3
<1>7. places = {<<i, n>>}
  BY <1>5, <1>6
<1>8. Cardinality(places) = 1
  BY <1>7, FS_Singleton
<1> QED  BY <1>8

-----------------------------------------------------------------------------
(* What the events of the clients do: they take packets back from the      *)
(* stack, note how they ended, and change nothing else.                    *)
SameStack(g, r) ==
  /\ g.node = r.node /\ g.selection = r.selection /\ g.sending = r.sending
  /\ g.subSenderWorking = r.subSenderWorking
  /\ g.routed = r.routed /\ g.beingRouted = r.beingRouted
  /\ g.assigned = r.assigned /\ g.ifaceId = r.ifaceId
  /\ g.choosing = r.choosing /\ g.accepted = r.accepted
  /\ g.carrying = r.carrying /\ g.sent = r.sent
SameClients(g, r) ==
  /\ g.action = r.action /\ g.inUse = r.inUse
  /\ g.left = r.left /\ g.currOut = r.currOut
  /\ g.payloadIter = r.payloadIter /\ g.active = r.active
  /\ g.wrapped = r.wrapped /\ g.summing = r.summing
  /\ g.handlingStatus = r.handlingStatus
  /\ g.queued = r.queued /\ g.inProgress = r.inProgress
  /\ g.forwardingStatus = r.forwardingStatus
Told(g, r, ps, success) ==
  /\ g \in Outputs /\ ClientInv(g) /\ SameStack(g, r) /\ r.tasks \subseteq g.tasks
  /\ \A x \in Packets : Waits(g, x) <=> Waits(r, x) /\ x \notin ps
  /\ \A x \in Packets : Succeeded(g, x) <=>
       IF x \in ps THEN success ELSE Succeeded(r, x)

LEMMA Typing ==
  ASSUME NEW r \in Outputs
  PROVE  /\ r.node \in Nodes /\ r.tasks \subseteq Tasks
         /\ r.action \in [Sockets -> Actions] /\ r.inUse \subseteq Sockets
         /\ r.left \in [Sockets -> 0..MaxPieces] /\ r.currOut \in Sockets
         /\ r.payloadIter \subseteq IcmpClients /\ r.active \in Seq(IcmpClients)
         /\ r.wrapped \in BOOLEAN /\ r.summing \in BOOLEAN
         /\ r.handlingStatus \in Statuses
         /\ r.queued \in Seq(Incoming) /\ r.inProgress \in BOOLEAN
         /\ r.forwardingStatus \in Statuses
BY DEF Outputs

LEMMA Posts ==
  ASSUME NEW r \in Outputs, NEW t \in Tasks
  PROVE  /\ post(r, t) \in Outputs
         /\ post(r, t).tasks = r.tasks \cup {t}
         /\ SameStack(post(r, t), r) /\ SameClients(post(r, t), r)
<1>1. post(r, t).tasks = r.tasks \cup {t}
  BY DEF post, Outputs
<1>2. SameStack(post(r, t), r) /\ SameClients(post(r, t), r)
  BY DEF post, SameStack, SameClients, Outputs
<1>3. post(r, t) \in Outputs
  <2>1. r.tasks \cup {t} \subseteq Tasks
    BY Typing
  <2> QED  BY ZenonT(60), <2>1 DEF post, Outputs
<1> QED  BY <1>1, <1>2, <1>3

LEMMA WaitsOf ==
  ASSUME NEW r \in Outputs
  PROVE  /\ \A s \in Sockets : Waits(r, PacketOf(s)) <=> SocketOn(r, s)
         /\ Waits(r, icmp) <=> IcmpOn(r)
         /\ Waits(r, fwd) <=> ForwarderOn(r)
BY PacketsAre DEF Waits

LEMMA SucceededOf ==
  ASSUME NEW r \in Outputs
  PROVE  /\ \A s \in Sockets : Succeeded(r, PacketOf(s)) <=>
              s \in r.inUse /\ r.action[s] = "COMPLETE"
         /\ Succeeded(r, icmp) <=> /\ "icmp" \in r.tasks /\ r.wrapped
                                   /\ r.handlingStatus = "SUCCESS"
         /\ Succeeded(r, fwd) <=> /\ "forwarded" \in r.tasks
                                  /\ r.forwardingStatus = "SUCCESS"
BY PacketsAre, Typing DEF Succeeded

LEMMA SocketsToldIs ==
  ASSUME NEW r \in Outputs, ClientInv(r), NEW ps \in SUBSET Packets,
         \A p \in ps : Waits(r, p), NEW a \in Actions, a # "WAITING"
  PROVE  Told(SocketsTold(r, ps, a), r, {p \in ps : p # icmp /\ p # fwd},
              a = "COMPLETE")
<1> DEFINE told == {s \in Sockets : PacketOf(s) \in ps}
           g == SocketsTold(r, ps, a)
           qs == {p \in ps : p # icmp /\ p # fwd}
<1>1. \A s \in Sockets : PacketOf(s) \in qs <=> s \in told
  BY PacketsAre
<1>2. icmp \notin qs /\ fwd \notin qs
  OBVIOUS
<1>3. told \subseteq r.inUse
  BY WaitsOf DEF SocketOn
<1>4. /\ g.action = [s \in Sockets |-> IF s \in told THEN a ELSE r.action[s]]
      /\ g.tasks = IF told = {} THEN r.tasks ELSE r.tasks \cup {"udp"}
      /\ g \in Outputs
  <2>1. CASE told = {}
    <3>1. g = r
      BY <2>1 DEF SocketsTold
    <3>2. r.action = [s \in Sockets |-> r.action[s]]
      BY Typing
    <3> QED  BY <2>1, <3>1, <3>2
  <2>2. CASE told # {}
    <3> DEFINE f == [s \in Sockets |-> IF s \in told THEN a ELSE r.action[s]]
           h == [r EXCEPT !.action = f]
    <3>1. g = post(h, "udp")
      BY <2>2 DEF SocketsTold
    <3>2. f \in [Sockets -> Actions]
      BY Typing
    <3> HIDE DEF f
    <3>3. h \in Outputs /\ h.action = f /\ h.tasks = r.tasks
      BY ZenonT(60), <3>2 DEF Outputs
    <3> HIDE DEF h
    <3>4. "udp" \in Tasks
      BY DEF Tasks
    <3>5. g.action = f /\ g.tasks = r.tasks \cup {"udp"} /\ g \in Outputs
      BY <3>1, <3>3, <3>4, Posts DEF SameClients
    <3> QED  BY <2>2, <3>5 DEF f
  <2> QED  BY <2>1, <2>2
<1>5. /\ SameStack(g, r) /\ g.inUse = r.inUse
      /\ g.payloadIter = r.payloadIter /\ g.active = r.active
      /\ g.wrapped = r.wrapped /\ g.summing = r.summing
      /\ g.handlingStatus = r.handlingStatus /\ g.queued = r.queued
      /\ g.inProgress = r.inProgress /\ g.forwardingStatus = r.forwardingStatus
  BY DEF SocketsTold, post, SameStack, Outputs
<1> HIDE DEF g, qs, told
<1>6. /\ "udp" \in r.tasks => "udp" \in g.tasks
      /\ \A t : t # "udp" => (t \in g.tasks <=> t \in r.tasks)
      /\ r.tasks \subseteq g.tasks /\ told # {} => "udp" \in g.tasks
  BY <1>4
<1>7. ClientInv(g)
  <2>1. SocketsInv(g)
    BY <1>3, <1>4, <1>5, <1>6, Typing DEF ClientInv, SocketsInv
  <2>2. IcmpInv(g) /\ ForwarderInv(g)
    BY <1>5, <1>6 DEF ClientInv, IcmpInv, ForwarderInv
  <2> QED  BY <2>1, <2>2 DEF ClientInv
<1>8. ASSUME NEW x \in Packets
      PROVE  /\ Waits(g, x) <=> Waits(r, x) /\ x \notin qs
             /\ Succeeded(g, x) <=> IF x \in qs THEN a = "COMPLETE" ELSE Succeeded(r, x)
  <2>1. CASE x = icmp
    BY <1>2, <1>4, <1>5, <1>6, <2>1, WaitsOf, SucceededOf DEF IcmpOn
  <2>2. CASE x = fwd
    BY <1>2, <1>4, <1>5, <1>6, <2>2, WaitsOf, SucceededOf DEF ForwarderOn
  <2>3. ASSUME NEW s \in Sockets, x = PacketOf(s)
        PROVE  /\ Waits(g, x) <=> Waits(r, x) /\ x \notin qs
               /\ Succeeded(g, x) <=>
                    IF x \in qs THEN a = "COMPLETE" ELSE Succeeded(r, x)
    <3>1. x \in qs <=> s \in told
      BY <1>1, <2>3
    <3>2. g.action[s] = IF s \in told THEN a ELSE r.action[s]
      BY <1>4
    <3>3. /\ Waits(g, x) <=> SocketOn(g, s)
          /\ Waits(r, x) <=> SocketOn(r, s)
      BY <1>4, <2>3, WaitsOf
    <3>4. /\ Succeeded(g, x) <=> s \in g.inUse /\ g.action[s] = "COMPLETE"
          /\ Succeeded(r, x) <=> s \in r.inUse /\ r.action[s] = "COMPLETE"
      BY <1>4, <2>3, SucceededOf
    <3> QED  BY <1>3, <1>5, <3>1, <3>2, <3>3, <3>4 DEF SocketOn
  <2> QED  BY <2>1, <2>2, <2>3, PacketsAre
<1> QED  BY <1>4, <1>5, <1>6, <1>7, <1>8 DEF Told, g, qs

LEMMA IcmpToldIs ==
  ASSUME NEW r \in Outputs, ClientInv(r), NEW ps \in SUBSET Packets,
         icmp \in ps => r.active # << >> /\ r.wrapped /\ ~r.summing,
         NEW st \in Statuses
  PROVE  Told(IcmpTold(r, ps, st), r, ps \cap {icmp}, st = "SUCCESS")
<1> DEFINE g == IcmpTold(r, ps, st)
<1>1. CASE icmp \notin ps
  <2>1. g = r /\ ps \cap {icmp} = {}
    BY <1>1 DEF IcmpTold
  <2> QED  BY <2>1 DEF Told, SameStack
<1>2. CASE icmp \in ps
  <2> DEFINE h == [r EXCEPT !.handlingStatus = st]
  <2>1. g = post(h, "icmp") /\ "icmp" \in Tasks
    BY <1>2 DEF IcmpTold, Tasks
  <2>6. /\ h \in Outputs /\ SameStack(h, r)
        /\ h.tasks = r.tasks /\ h.handlingStatus = st
        /\ h.inUse = r.inUse /\ h.action = r.action
        /\ h.payloadIter = r.payloadIter /\ h.active = r.active
        /\ h.wrapped = r.wrapped /\ h.summing = r.summing /\ h.queued = r.queued
        /\ h.inProgress = r.inProgress /\ h.forwardingStatus = r.forwardingStatus
    BY ZenonT(60) DEF SameStack, Outputs
  <2> HIDE DEF h
  <2>2. /\ g \in Outputs /\ SameStack(g, r)
        /\ g.tasks = r.tasks \cup {"icmp"} /\ g.handlingStatus = st
        /\ g.inUse = r.inUse /\ g.action = r.action
        /\ g.payloadIter = r.payloadIter /\ g.active = r.active
        /\ g.wrapped = r.wrapped /\ g.summing = r.summing /\ g.queued = r.queued
        /\ g.inProgress = r.inProgress /\ g.forwardingStatus = r.forwardingStatus
    BY <2>1, <2>6, Posts DEF SameStack, SameClients
  <2> HIDE DEF g
  <2>3. ClientInv(g)
    <3>1. SocketsInv(g) /\ ForwarderInv(g)
      BY <2>2 DEF ClientInv, SocketsInv, ForwarderInv
    <3>2. IcmpInv(g)
      BY <1>2, <2>2 DEF ClientInv, IcmpInv
    <3> QED  BY <3>1, <3>2 DEF ClientInv
  <2>4. ASSUME NEW x \in Packets
        PROVE  /\ Waits(g, x) <=> Waits(r, x) /\ x # icmp
               /\ Succeeded(g, x) <=>
                    IF x = icmp THEN st = "SUCCESS" ELSE Succeeded(r, x)
    <3>1. CASE x = icmp
      BY <1>2, <2>2, <3>1, WaitsOf, SucceededOf DEF IcmpOn
    <3>2. CASE x = fwd
      BY <2>2, <3>2, WaitsOf, SucceededOf, PacketsAre DEF ForwarderOn
    <3>3. ASSUME NEW s \in Sockets, x = PacketOf(s)
          PROVE  /\ Waits(g, x) <=> Waits(r, x) /\ x # icmp
                 /\ Succeeded(g, x) <=>
                      IF x = icmp THEN st = "SUCCESS" ELSE Succeeded(r, x)
      BY <2>2, <3>3, WaitsOf, SucceededOf, PacketsAre DEF SocketOn
    <3> QED  BY <3>1, <3>2, <3>3, PacketsAre
  <2> QED  BY <1>2, <2>2, <2>3, <2>4 DEF Told, g
<1> QED  BY <1>1, <1>2

LEMMA ForwarderToldIs ==
  ASSUME NEW r \in Outputs, ClientInv(r), NEW ps \in SUBSET Packets,
         fwd \in ps => Waits(r, fwd), NEW st \in Statuses
  PROVE  Told(ForwarderTold(r, ps, st), r, ps \cap {fwd}, st = "SUCCESS")
<1> DEFINE g == ForwarderTold(r, ps, st)
<1>1. CASE fwd \notin ps
  <2>1. g = r /\ ps \cap {fwd} = {}
    BY <1>1 DEF ForwarderTold
  <2> QED  BY <2>1 DEF Told, SameStack
<1>2. CASE fwd \in ps
  <2> DEFINE h == [r EXCEPT !.forwardingStatus = st]
  <2>1. g = post(h, "forwarded") /\ "forwarded" \in Tasks
    BY <1>2 DEF ForwarderTold, Tasks
  <2>6. /\ h \in Outputs /\ SameStack(h, r)
        /\ h.tasks = r.tasks /\ h.forwardingStatus = st
        /\ h.inUse = r.inUse /\ h.action = r.action
        /\ h.payloadIter = r.payloadIter /\ h.active = r.active
        /\ h.wrapped = r.wrapped /\ h.summing = r.summing /\ h.queued = r.queued
        /\ h.inProgress = r.inProgress /\ h.handlingStatus = r.handlingStatus
    BY ZenonT(60) DEF SameStack, Outputs
  <2> HIDE DEF h
  <2>2. /\ g \in Outputs /\ SameStack(g, r)
        /\ g.tasks = r.tasks \cup {"forwarded"} /\ g.forwardingStatus = st
        /\ g.inUse = r.inUse /\ g.action = r.action
        /\ g.payloadIter = r.payloadIter /\ g.active = r.active
        /\ g.wrapped = r.wrapped /\ g.summing = r.summing /\ g.queued = r.queued
        /\ g.inProgress = r.inProgress /\ g.handlingStatus = r.handlingStatus
    BY <2>1, <2>6, Posts DEF SameStack, SameClients
  <2>3. r.inProgress
    BY <1>2, WaitsOf DEF ForwarderOn
  <2> HIDE DEF g
  <2>4. ClientInv(g)
    <3>1. SocketsInv(g) /\ IcmpInv(g)
      BY <2>2 DEF ClientInv, SocketsInv, IcmpInv
    <3>2. ForwarderInv(g)
      BY <2>2, <2>3 DEF ClientInv, ForwarderInv
    <3> QED  BY <3>1, <3>2 DEF ClientInv
  <2>5. ASSUME NEW x \in Packets
        PROVE  /\ Waits(g, x) <=> Waits(r, x) /\ x # fwd
               /\ Succeeded(g, x) <=>
                    IF x = fwd THEN st = "SUCCESS" ELSE Succeeded(r, x)
    <3>1. CASE x = icmp
      BY <2>2, <3>1, WaitsOf, SucceededOf, PacketsAre DEF IcmpOn
    <3>2. CASE x = fwd
      BY <2>2, <3>2, WaitsOf, SucceededOf DEF ForwarderOn
    <3>3. ASSUME NEW s \in Sockets, x = PacketOf(s)
          PROVE  /\ Waits(g, x) <=> Waits(r, x) /\ x # fwd
                 /\ Succeeded(g, x) <=>
                      IF x = fwd THEN st = "SUCCESS" ELSE Succeeded(r, x)
      BY <2>2, <3>3, WaitsOf, SucceededOf, PacketsAre DEF SocketOn
    <3> QED  BY <3>1, <3>2, <3>3, PacketsAre
  <2> QED  BY <1>2, <2>2, <2>4, <2>5 DEF Told, g
<1> QED  BY <1>1, <1>2

LEMMA ToldTwice ==
  ASSUME NEW r, NEW g, NEW h, NEW ps, NEW qs, NEW success,
         Told(g, r, ps, success), Told(h, g, qs, success)
  PROVE  Told(h, r, ps \cup qs, success)
BY DEF Told, SameStack

LEMMA ToldSentIs ==
  ASSUME NEW r \in Outputs, ClientInv(r), NEW ps \in SUBSET Packets,
         \A p \in ps : Waits(r, p), NEW st \in Statuses
  PROVE  Told(ToldSent(r, ps, st), r, ps, st = "SUCCESS")
<1> DEFINE end == IF st = "SUCCESS" THEN "COMPLETE" ELSE "TERMINATE"
           f == SocketsTold(r, ps, end)
           g == IcmpTold(f, ps, st)
           h == ForwarderTold(g, ps, st)
           qs == {p \in ps : p # icmp /\ p # fwd}
<1>1. end \in Actions /\ end # "WAITING" /\ (end = "COMPLETE" <=> st = "SUCCESS")
  BY DEF Actions
<1> HIDE DEF end
<1>2. Told(f, r, qs, end = "COMPLETE")
  BY <1>1, SocketsToldIs
<1>3. Told(f, r, qs, st = "SUCCESS")
  BY <1>1, <1>2 DEF Told
<1> HIDE DEF f
<1>4. \A p \in Packets : Waits(f, p) <=> Waits(r, p) /\ p \notin qs
  BY <1>3 DEF Told
<1>5. f \in Outputs /\ ClientInv(f)
  BY <1>3 DEF Told
<1>6. icmp \in ps => Waits(f, icmp)
  BY <1>4, PacketsAre
<1>7. icmp \in ps => f.active # << >> /\ f.wrapped /\ ~f.summing
  BY <1>5, <1>6, WaitsOf DEF IcmpOn
<1>8. Told(g, f, ps \cap {icmp}, st = "SUCCESS")
  BY <1>5, <1>7, IcmpToldIs
<1> HIDE DEF g
<1>9. fwd \in ps => Waits(g, fwd)
  BY <1>4, <1>8, PacketsAre DEF Told
<1>10. g \in Outputs /\ ClientInv(g)
  BY <1>8 DEF Told
<1>11. Told(h, g, ps \cap {fwd}, st = "SUCCESS")
  BY <1>9, <1>10, ForwarderToldIs
<1> HIDE DEF h
<1>12. Told(g, r, qs \cup (ps \cap {icmp}), st = "SUCCESS")
  BY <1>3, <1>8, ToldTwice
<1>13. Told(h, r, (qs \cup (ps \cap {icmp})) \cup (ps \cap {fwd}), st = "SUCCESS")
  BY <1>11, <1>12, ToldTwice
<1>14. (qs \cup (ps \cap {icmp})) \cup (ps \cap {fwd}) = ps
  OBVIOUS
<1>15. h = ToldSent(r, ps, st)
  BY DEF ToldSent, f, g, h, end
<1> QED  BY <1>13, <1>14, <1>15

LEMMA ToldSelectedIs ==
  ASSUME NEW r \in Outputs, ClientInv(r), NEW p \in Packets, p # fwd,
         Waits(r, p), NEW sums \in BOOLEAN
  PROVE  Told(ToldSelected(r, p, sums), r, {p}, FALSE)
<1> DEFINE g == ToldSelected(r, p, sums)
<1>1. CASE p # icmp
  <2>1. g = SocketsTold(r, {p}, "START_CHECKSUM")
    BY <1>1 DEF ToldSelected
  <2>2. "START_CHECKSUM" \in Actions /\ {p} \in SUBSET Packets
    BY DEF Actions
  <2>3. {x \in {p} : x # icmp /\ x # fwd} = {p}
    BY <1>1
  <2>4. Told(g, r, {p}, "START_CHECKSUM" = "COMPLETE")
    BY <2>1, <2>2, <2>3, SocketsToldIs
  <2> QED  BY <2>4 DEF Told
<1>2. CASE p = icmp /\ ~sums
  <2>1. g = IcmpTold(r, {icmp}, "FAIL")
    BY <1>2 DEF ToldSelected, IcmpSums
  <2>2. "FAIL" \in Statuses /\ {icmp} \in SUBSET Packets /\ {icmp} \cap {icmp} = {p}
    BY <1>2 DEF Statuses
  <2>3. r.active # << >> /\ r.wrapped /\ ~r.summing
    BY <1>2, WaitsOf DEF IcmpOn
  <2>4. Told(g, r, {p}, "FAIL" = "SUCCESS")
    BY <2>1, <2>2, <2>3, IcmpToldIs
  <2> QED  BY <2>4 DEF Told
<1>3. CASE p = icmp /\ sums
  <2>1. g = [r EXCEPT !.summing = TRUE]
    BY <1>3 DEF ToldSelected, IcmpSums
  <2>2. /\ g \in Outputs /\ SameStack(g, r)
        /\ g.tasks = r.tasks /\ g.summing
        /\ g.inUse = r.inUse /\ g.action = r.action
        /\ g.payloadIter = r.payloadIter /\ g.active = r.active
        /\ g.wrapped = r.wrapped /\ g.queued = r.queued
        /\ g.inProgress = r.inProgress /\ g.forwardingStatus = r.forwardingStatus
    BY ZenonT(120), <2>1 DEF SameStack, Outputs
  <2> HIDE DEF g
  <2>3. IcmpOn(r)
    BY <1>3, WaitsOf
  <2>4. ClientInv(g)
    <3>1. SocketsInv(g) /\ ForwarderInv(g)
      BY <2>2 DEF ClientInv, SocketsInv, ForwarderInv
    <3>2. IcmpInv(g)
      BY <2>2, <2>3 DEF ClientInv, IcmpInv, IcmpOn
    <3> QED  BY <3>1, <3>2 DEF ClientInv
  <2>5. ASSUME NEW x \in Packets
        PROVE  /\ Waits(g, x) <=> Waits(r, x) /\ x # icmp
               /\ Succeeded(g, x) <=> IF x = icmp THEN FALSE ELSE Succeeded(r, x)
    <3>1. CASE x = icmp
      BY <2>2, <2>3, <3>1, WaitsOf, SucceededOf DEF IcmpOn
    <3>2. CASE x = fwd
      BY <2>2, <3>2, WaitsOf, SucceededOf, PacketsAre DEF ForwarderOn
    <3>3. ASSUME NEW s \in Sockets, x = PacketOf(s)
          PROVE  /\ Waits(g, x) <=> Waits(r, x) /\ x # icmp
                 /\ Succeeded(g, x) <=> IF x = icmp THEN FALSE ELSE Succeeded(r, x)
      BY <2>2, <3>3, WaitsOf, SucceededOf, PacketsAre DEF SocketOn
    <3> QED  BY <3>1, <3>2, <3>3, PacketsAre
  <2> QED  BY <1>3, <2>2, <2>4, <2>5 DEF Told, g
<1> QED  BY <1>1, <1>2, <1>3

LEMMA ToldNotSelectedIs ==
  ASSUME NEW r \in Outputs, ClientInv(r), NEW ps \in SUBSET Packets, fwd \notin ps,
         \A p \in ps : Waits(r, p)
  PROVE  Told(ToldNotSelected(r, ps), r, ps, FALSE)
<1> DEFINE f == SocketsTold(r, ps, "TERMINATE")
           g == IcmpTold(f, ps, "FAIL")
           qs == {p \in ps : p # icmp /\ p # fwd}
<1>1. "TERMINATE" \in Actions /\ "FAIL" \in Statuses
  BY DEF Actions, Statuses
<1>2. Told(f, r, qs, "TERMINATE" = "COMPLETE")
  BY <1>1, SocketsToldIs
<1>3. Told(f, r, qs, FALSE)
  BY <1>2 DEF Told
<1> HIDE DEF f
<1>4. f \in Outputs /\ ClientInv(f)
  BY <1>3 DEF Told
<1>5. icmp \in ps => f.active # << >> /\ f.wrapped /\ ~f.summing
  <2>1. icmp \in ps => Waits(f, icmp)
    BY <1>3, PacketsAre DEF Told
  <2> QED  BY <1>4, <2>1, WaitsOf DEF IcmpOn
<1>6. Told(g, f, ps \cap {icmp}, "FAIL" = "SUCCESS")
  BY <1>1, <1>4, <1>5, IcmpToldIs
<1>7. Told(g, f, ps \cap {icmp}, FALSE)
  BY <1>6 DEF Told
<1> HIDE DEF g
<1>8. Told(g, r, qs \cup (ps \cap {icmp}), FALSE)
  BY <1>3, <1>7, ToldTwice
<1>9. qs \cup (ps \cap {icmp}) = ps
  OBVIOUS
<1>10. g = ToldNotSelected(r, ps)
  BY DEF ToldNotSelected, f, g
<1> QED  BY <1>8, <1>9, <1>10

(* What changes only the stack leaves the clients as they are.             *)
LEMMA ClientsKept ==
  ASSUME NEW r \in Outputs, NEW g \in Outputs, SameClients(g, r),
         \A t : t # "route" => (t \in g.tasks <=> t \in r.tasks)
  PROVE  /\ ClientInv(r) => ClientInv(g)
         /\ \A x \in Packets : /\ Waits(g, x) <=> Waits(r, x)
                               /\ Succeeded(g, x) <=> Succeeded(r, x)
<1>1. \A t \in {"udp", "icmp", "forward", "forwarded"} : t \in g.tasks <=> t \in r.tasks
  OBVIOUS
<1>2. ClientInv(r) => SocketsInv(g)
  BY <1>1 DEF SameClients, ClientInv, SocketsInv
<1>3. ClientInv(r) => IcmpInv(g)
  BY <1>1 DEF SameClients, ClientInv, IcmpInv
<1>4. ClientInv(r) => ForwarderInv(g)
  BY <1>1 DEF SameClients, ClientInv, ForwarderInv
<1>5. ASSUME NEW x \in Packets
      PROVE  (Waits(g, x) <=> Waits(r, x)) /\ (Succeeded(g, x) <=> Succeeded(r, x))
  BY <1>1 DEF SameClients, Waits, Succeeded, SocketOn, IcmpOn, ForwarderOn
<1> QED  BY <1>2, <1>3, <1>4, <1>5 DEF ClientInv

LEMMA RoutesKept ==
  ASSUME NEW r, NEW g, Routes(r), g.sending = r.sending,
         g.subSenderWorking = r.subSenderWorking, g.routed = r.routed,
         g.beingRouted = r.beingRouted, g.accepted = r.accepted,
         g.carrying = r.carrying, "route" \in r.tasks => "route" \in g.tasks
  PROVE  Routes(g)
<1>1. \A p : AtInterface(r, p) => AtInterface(g, p)
  BY DEF AtInterface
<1> QED  BY <1>1 DEF Routes, Idle, Works

LEMMA ToldKeepsStack ==
  ASSUME NEW r \in Outputs, NEW g, NEW ps, NEW success, Told(g, r, ps, success)
  PROVE  /\ Routes(r) => Routes(g)
         /\ StackInv(r) => StackInv(g)
<1>1. Routes(r) => Routes(g)
  BY RoutesKept DEF Told, SameStack
<1> QED  BY <1>1 DEF Told, SameStack, StackInv, Choosing

-----------------------------------------------------------------------------
(* The virtualizer takes a packet.                                         *)

LEMMA HeadIsIn ==
  ASSUME NEW queues \in [Queues -> Seq(Packets)], NEW p \in Packets, IsHead(queues, p)
  PROVE  In(queues, p)
<1>1. queues[ProtocolOf(p)] \in Seq(Packets) /\ queues[ProtocolOf(p)] # << >>
  BY OneProtocol DEF IsHead
<1>2. 1 \in 1..Len(queues[ProtocolOf(p)]) /\ queues[ProtocolOf(p)][1] = p
  BY <1>1, Tails DEF IsHead
<1> QED  BY <1>2 DEF In

LEMMA StartSelectingIs ==
  ASSUME NEW r \in Outputs, StackInv(r), NEW p \in Packets, ~In(r.selection, p),
         NEW i \in Chosen, Selects(r, p, i), NEW g, g = StartSelecting(r, p, i)
  PROVE  /\ g \in Outputs /\ StackInv(g) /\ SameClients(g, r)
         /\ g.tasks = r.tasks /\ g.sent = r.sent /\ g.sending = r.sending
         /\ \A x \in Packets : In(g.selection, x) <=> In(r.selection, x) \/ x = p
<1> DEFINE q == ProtocolOf(p)
           Q == [r.selection EXCEPT ![q] = Append(@, p)]
           first == r.selection[q] = << >>
<1>1. /\ r.selection \in [Queues -> Seq(Packets)] /\ WellQueued(r.selection)
      /\ r.choosing \in [Interfaces -> Seq(Packets)] /\ Once(r.choosing)
      /\ \A x \in Packets : IsChosen(r.choosing, x) <=> IsHead(r.selection, x)
      /\ r.assigned \subseteq Packets
  BY DEF StackInv, Outputs, Choosing
<1>2. Len(r.selection[q]) < Capacity(q)
  <2>1. Len(r.selection[q]) \in Nat /\ Capacity(q) \in Nat
    BY <1>1, OneProtocol, ConstantsAre
  <2> QED  BY <2>1 DEF Selects, SelectionFull
<1>3. /\ Q \in [Queues -> Seq(Packets)] /\ WellQueued(Q)
      /\ \A x \in Packets : In(Q, x) <=> In(r.selection, x) \/ x = p
      /\ \A x \in Packets : IsHead(Q, x) <=> IsHead(r.selection, x) \/ (x = p /\ first)
  <2>1. q \in Queues /\ q = ProtocolOf(p)
    BY OneProtocol
  <2>2. Append(r.selection[q], p) \in Seq(Packets)
    BY <1>1, <2>1, Appended
  <2>3. Q \in [Queues -> Seq(Packets)]
    BY <1>1, <2>1, <2>2
  <2>4. Changed(Queues, Q, r.selection, q, Append(r.selection[q], p))
    BY <1>1, <2>1 DEF Changed
  <2> HIDE DEF Q, q
  <2> QED  BY SMTT(30), <1>1, <1>2, <2>1, <2>3, <2>4, QueueAppend DEF first
<1>4. ~IsChosen(r.choosing, p)
  BY <1>1, HeadIsIn
<1>5. first => i \in Interfaces
  BY ConstantsAre DEF Selects, Chosen, None
<1> HIDE DEF first, Q
<1>6. /\ g \in Outputs /\ SameClients(g, r) /\ g.selection = Q
      /\ g.tasks = r.tasks /\ g.sent = r.sent /\ g.sending = r.sending
      /\ g.subSenderWorking = r.subSenderWorking /\ g.routed = r.routed
      /\ g.beingRouted = r.beingRouted /\ g.accepted = r.accepted
      /\ g.carrying = r.carrying
      /\ Once(g.choosing)
      /\ \A x \in Packets : IsChosen(g.choosing, x) <=>
           IsChosen(r.choosing, x) \/ (x = p /\ first)
  <2>1. CASE ~first
    <3>1. g = [r EXCEPT !.selection = Q]
      BY <2>1 DEF StartSelecting, first, Q
    <3>2. /\ g \in Outputs /\ SameClients(g, r) /\ g.selection = Q
          /\ g.tasks = r.tasks /\ g.sent = r.sent /\ g.sending = r.sending
          /\ g.subSenderWorking = r.subSenderWorking /\ g.routed = r.routed
          /\ g.beingRouted = r.beingRouted /\ g.accepted = r.accepted
          /\ g.carrying = r.carrying /\ g.choosing = r.choosing
      BY ZenonT(120), <1>3, <3>1 DEF Outputs, SameClients
    <3> QED  BY <1>1, <2>1, <3>2
  <2>2. CASE first
    <3> DEFINE c == [r.choosing EXCEPT ![i] = Append(@, p)]
               a == r.assigned \cup {p}
    <3>1. /\ c \in [Interfaces -> Seq(Packets)] /\ Once(c)
          /\ \A x \in Packets : IsChosen(c, x) <=> IsChosen(r.choosing, x) \/ x = p
      <4>1. i \in Interfaces
        BY <1>5, <2>2
      <4>2. Append(r.choosing[i], p) \in Seq(Packets)
        BY <1>1, <4>1, Appended
      <4>3. c \in [Interfaces -> Seq(Packets)]
        BY <1>1, <4>1, <4>2
      <4>4. Changed(Interfaces, c, r.choosing, i, Append(r.choosing[i], p))
        BY <1>1, <4>1 DEF Changed
      <4> HIDE DEF c
      <4> QED  BY <1>1, <1>4, <4>1, <4>3, <4>4, ChosenAppend
    <3>2. a \subseteq Packets
      BY <1>1
    <3>3. g = [r EXCEPT !.choosing = c, !.assigned = a, !.selection = Q]
      BY <2>2 DEF StartSelecting, SelectAt, first, Q, Outputs
    <3> HIDE DEF c, a
    <3>4. g \in Outputs
      BY ZenonT(120), <1>3, <3>1, <3>2, <3>3 DEF Outputs
    <3>5. /\ SameClients(g, r) /\ g.selection = Q
          /\ g.tasks = r.tasks /\ g.sent = r.sent /\ g.sending = r.sending
          /\ g.subSenderWorking = r.subSenderWorking /\ g.routed = r.routed
          /\ g.beingRouted = r.beingRouted /\ g.accepted = r.accepted
          /\ g.carrying = r.carrying /\ g.choosing = c
      BY <3>3 DEF Outputs, SameClients
    <3> QED  BY <2>2, <3>1, <3>4, <3>5
  <2> QED  BY <2>1, <2>2
<1>7. StackInv(g)
  <2>1. Routes(g)
    BY <1>6, RoutesKept DEF StackInv
  <2>2. Choosing(g)
    BY <1>1, <1>3, <1>6 DEF Choosing
  <2> QED  BY <1>3, <1>6, <2>1, <2>2 DEF StackInv
<1> QED  BY <1>3, <1>6, <1>7

LEMMA StartRoutingIs ==
  ASSUME NEW r \in Outputs, NEW p \in Packets, NEW g, g = StartRouting(r, p)
  PROVE  /\ g \in Outputs /\ SameClients(g, r) /\ g.tasks = r.tasks \cup {"route"}
         /\ g.sent = r.sent /\ g.selection = r.selection /\ g.sending = r.sending
         /\ g.choosing = r.choosing /\ g.subSenderWorking = r.subSenderWorking
         /\ g.routed = Append(r.routed, p) /\ g.beingRouted = r.beingRouted
         /\ g.accepted = r.accepted /\ g.carrying = r.carrying
<1> DEFINE s == Append(r.routed, p)
           f == [r.ifaceId EXCEPT ![p] = IF p \in r.assigned THEN @ ELSE 0]
           h == [r EXCEPT !.routed = s, !.ifaceId = f]
<1>1. r.routed \in Seq(Packets) /\ r.ifaceId \in [Packets -> 0..NumInterfaces]
  BY DEF Outputs
<1>2. s \in Seq(Packets)
  BY <1>1, Appended
<1>3. f \in [Packets -> 0..NumInterfaces]
  <2>1. 0 \in 0..NumInterfaces
    BY ConstantsAre
  <2> QED  BY <1>1, <2>1
<1>4. g = post(h, "route")
  BY DEF StartRouting, Outputs
<1> HIDE DEF s, f
<1>5. h \in Outputs
  BY ZenonT(60), <1>2, <1>3 DEF Outputs
<1>6. /\ SameClients(h, r) /\ h.tasks = r.tasks
      /\ h.sent = r.sent /\ h.selection = r.selection /\ h.sending = r.sending
      /\ h.choosing = r.choosing /\ h.subSenderWorking = r.subSenderWorking
      /\ h.routed = s /\ h.beingRouted = r.beingRouted
      /\ h.accepted = r.accepted /\ h.carrying = r.carrying
  BY DEF Outputs, SameClients
<1> HIDE DEF h
<1>7. "route" \in Tasks
  BY DEF Tasks
<1> QED  BY <1>4, <1>5, <1>6, <1>7, Posts DEF SameStack, SameClients, s

(* Its client's queue is full, and nothing happens; or the packet waits    *)
(* there, and is with the policy at once when no other is.                 *)
LEMMA StartSendingIs ==
  ASSUME NEW r \in Outputs, StackInv(r), NEW p \in Packets, ~In(r.sending, p),
         NEW g, g = StartSending(r, p)
  PROVE  /\ g \in Outputs /\ StackInv(g) /\ SameClients(g, r)
         /\ \A t : t # "route" => (t \in g.tasks <=> t \in r.tasks)
         /\ g.sent = r.sent /\ g.selection = r.selection
         /\ \A x \in Packets : In(g.sending, x) <=>
              In(r.sending, x) \/ (x = p /\ Sends(r, p))
<1> DEFINE q == ProtocolOf(p)
           Q == [r.sending EXCEPT ![q] = Append(@, p)]
<1>1. /\ r.sending \in [Queues -> Seq(Packets)] /\ WellQueued(r.sending)
      /\ q \in Queues /\ Capacity(q) \in 1..NumSockets /\ NumSockets \in Nat
      /\ Len(r.sending[q]) \in Nat
      /\ r.routed \in Seq(Packets) /\ r.subSenderWorking \in BOOLEAN
  <2>1. r.sending \in [Queues -> Seq(Packets)] /\ q \in Queues
    BY OneProtocol DEF Outputs
  <2> QED  BY SMTT(30), <2>1, ConstantsAre DEF StackInv, Outputs
<1>2. ~r.subSenderWorking => CanRoute(r) /\ Idle(r) /\ r.sending[q] = << >>
  <2>1. ~r.subSenderWorking => Idle(r) /\ r.sending[q] = << >>
    BY <1>1 DEF StackInv, Routes, Works
  <2>2. Idle(r) => CanRoute(r)
    BY ConstantsAre DEF Idle, CanRoute
  <2> QED  BY <2>1, <2>2
<1>3. Sends(r, p) <=> Len(r.sending[q]) < Capacity(q)
  BY <1>2 DEF Sends
<1>4. CASE ~Sends(r, p)
  <2>1. g = r
    BY <1>1, <1>3, <1>4 DEF StartSending
  <2> QED  BY <1>4, <2>1 DEF SameClients
<1>5. CASE Sends(r, p)
  <2>1. Len(r.sending[q]) < Capacity(q) /\ ~(Len(r.sending[q]) >= Capacity(q))
    BY <1>1, <1>3, <1>5
  <2>2. /\ Q \in [Queues -> Seq(Packets)]
        /\ Changed(Queues, Q, r.sending, q, Append(r.sending[q], p))
    <3>1. Append(r.sending[q], p) \in Seq(Packets)
      BY <1>1, Appended
    <3> QED  BY <1>1, <3>1 DEF Changed
  <2>3. /\ WellQueued(Q)
        /\ \A x \in Packets : In(Q, x) <=> In(r.sending, x) \/ x = p
        /\ \A k \in Queues : r.sending[k] # << >> =>
             Q[k] # << >> /\ Head(Q[k]) = Head(r.sending[k])
    <3>1. q = ProtocolOf(p)
      OBVIOUS
    <3> HIDE DEF Q, q
    <3>2. /\ r.sending \in [Queues -> Seq(Packets)] /\ WellQueued(r.sending)
          /\ Len(r.sending[q]) < Capacity(q)
      BY <1>1, <2>1
    <3>3. Q \in [Queues -> Seq(Packets)]
      BY <2>2
    <3>4. Changed(Queues, Q, r.sending, q, Append(r.sending[q], p))
      BY <2>2
    <3>5. WellQueued(Q)
      BY <3>1, <3>2, <3>3, <3>4, QueueAppend
    <3>6. \A x \in Packets : In(Q, x) <=> In(r.sending, x) \/ x = p
      BY <3>1, <3>2, <3>3, <3>4, QueueAppend
    <3>7. \A k \in Queues : r.sending[k] # << >> =>
            Q[k] # << >> /\ Head(Q[k]) = Head(r.sending[k])
      <4>1. \A k \in Queues : r.sending[k] # << >> => Q[k] # << >>
        <5>1. Append(r.sending[q], p) # << >>
          BY <1>1, Appended
        <5> QED  BY <3>4, <5>1 DEF Changed
      <4>2. \A k \in Queues : r.sending[k] # << >> => Head(Q[k]) = Head(r.sending[k])
        BY <3>1, <3>2, <3>3, <3>4, QueueAppend
      <4> QED  BY <4>1, <4>2
    <3> QED  BY <3>5, <3>6, <3>7
  <2>4. ~r.subSenderWorking => Q[q] # << >> /\ Head(Q[q]) = p
    <3>1. Q[q] = Append(r.sending[q], p)
      BY <1>1
    <3> QED  BY <1>1, <1>2, <3>1, Appended
  <2> DEFINE s == IF r.subSenderWorking THEN r ELSE StartRouting(r, p)
  <2>5. g = [s EXCEPT !.subSenderWorking = TRUE, !.sending = Q]
    <3>1. s.sending = r.sending /\ s \in Outputs
      BY StartRoutingIs
    <3>2. s = IF r.subSenderWorking \/ ~CanRoute(r) THEN r ELSE StartRouting(r, p)
      BY <1>2
    <3> HIDE DEF s
    <3> QED  BY <1>5, <2>1, <3>1, <3>2 DEF StartSending, Outputs
  <2>6. /\ s \in Outputs /\ SameClients(s, r) /\ s.sent = r.sent
        /\ s.selection = r.selection /\ s.choosing = r.choosing
        /\ s.beingRouted = r.beingRouted
        /\ s.accepted = r.accepted /\ s.carrying = r.carrying
        /\ s.routed = IF r.subSenderWorking THEN r.routed ELSE Append(r.routed, p)
        /\ s.tasks = IF r.subSenderWorking THEN r.tasks ELSE r.tasks \cup {"route"}
    <3>1. CASE r.subSenderWorking
      BY <3>1 DEF SameClients
    <3>2. CASE ~r.subSenderWorking
      BY <3>2, StartRoutingIs
    <3> QED  BY <3>1, <3>2
  <2> HIDE DEF s, Q, q
  <2>7. g \in Outputs
    BY ZenonT(120), <2>2, <2>5, <2>6 DEF Outputs
  <2>8. /\ SameClients(g, s) /\ g.sent = s.sent /\ g.selection = s.selection
        /\ g.choosing = s.choosing /\ g.beingRouted = s.beingRouted
        /\ g.accepted = s.accepted /\ g.carrying = s.carrying
        /\ g.routed = s.routed /\ g.tasks = s.tasks
        /\ g.subSenderWorking /\ g.sending = Q
    BY <2>5, <2>6 DEF Outputs, SameClients
  <2>9. Routes(g)
    <3>1. CASE ~r.subSenderWorking
      <4>1. g.routed = <<p>>
        <5>1. g.routed = Append(<< >>, p)
          BY <1>2, <2>6, <2>8, <3>1 DEF Idle
        <5>2. Append(<< >>, p) = <<p>>
          OBVIOUS
        <5> QED  BY <5>1, <5>2
      <4>2. "route" \in g.tasks
        BY <2>6, <2>8, <3>1
      <4>3. Works(g, p)
        BY <1>2, <2>6, <2>8, <3>1, <4>1, <4>2 DEF Works, AtInterface, Idle
      <4> QED  BY <1>1, <2>3, <2>4, <2>8, <3>1, <4>3 DEF Routes
    <3>2. CASE r.subSenderWorking
      <4>1. PICK k \in Queues : r.sending[k] # << >> /\ Works(r, Head(r.sending[k]))
        BY <3>2 DEF StackInv, Routes, Idle
      <4>2. Works(g, Head(r.sending[k]))
        BY <2>6, <2>8, <3>2, <4>1 DEF Works, AtInterface
      <4> QED  BY <2>3, <2>8, <4>1, <4>2 DEF Routes
    <3> QED  BY <3>1, <3>2
  <2>10. StackInv(g)
    BY <2>3, <2>6, <2>8, <2>9 DEF StackInv, Choosing
  <2>11. SameClients(g, r)
    BY <2>6, <2>8 DEF SameClients
  <2> QED  BY <1>5, <2>3, <2>6, <2>7, <2>8, <2>10, <2>11
<1> QED  BY <1>4, <1>5

LEMMA HandsKept ==
  ASSUME NEW r \in Outputs, NEW g \in Outputs, SameClients(g, r),
         \A t : t # "route" => (t \in g.tasks <=> t \in r.tasks),
         g.selection = r.selection, g.sending = r.sending
  PROVE  /\ ClientInv(r) => ClientInv(g)
         /\ Held(r, {}) => Held(g, {})
         /\ g.sent = r.sent => (Reported(r) => Reported(g))
<1>1. /\ ClientInv(r) => ClientInv(g)
      /\ \A x \in Packets : /\ Waits(g, x) <=> Waits(r, x)
                            /\ Succeeded(g, x) <=> Succeeded(r, x)
  BY ClientsKept
<1>2. Held(r, {}) => Held(g, {})
  BY <1>1 DEF Held, InHand
<1>3. g.sent = r.sent => (Reported(r) => Reported(g))
  BY <1>1 DEF Reported
<1> QED  BY <1>1, <1>2, <1>3

LEMMA WaitingIsNotTold ==
  ASSUME NEW r \in Outputs, NEW p \in Packets, Waits(r, p)
  PROVE  ~Succeeded(r, p)
<1>1. CASE p = icmp
  BY <1>1, WaitsOf, SucceededOf DEF IcmpOn
<1>2. CASE p = fwd
  BY <1>2, WaitsOf, SucceededOf DEF ForwarderOn
<1>3. ASSUME NEW s \in Sockets, p = PacketOf(s) PROVE ~Succeeded(r, p)
  BY <1>3, WaitsOf, SucceededOf DEF SocketOn
<1> QED  BY <1>1, <1>2, <1>3, PacketsAre

-----------------------------------------------------------------------------
(* A packet is finished, and the virtualizer sends the next one.           *)

(* What holds between two packets.                                         *)
Between(r) ==
  /\ r \in Outputs /\ WellQueued(r.selection) /\ WellQueued(r.sending)
  /\ Choosing(r) /\ ClientInv(r) /\ ~In(r.selection, fwd)

LEMMA SendNextIs ==
  ASSUME NEW r, Between(r), Idle(r), Held(r, {}), Reported(r)
  PROVE  OutputInv(SendNext(r))
<1>1. CASE Waiting(r) = {}
  <2>1. SendNext(r) = r
    BY <1>1 DEF SendNext
  <2>2. \A q \in Queues : r.sending[q] = << >>
    BY <1>1 DEF Waiting, Queues
  <2>3. StackInv(r)
    BY <2>2 DEF StackInv, Routes, Between
  <2> QED  BY <2>1, <2>3 DEF OutputInv, Between
<1>2. CASE Waiting(r) # {}
  <2> DEFINE first == CHOOSE i \in Waiting(r) : \A j \in Waiting(r) : i <= j
             q == Protocols[first]
             p == Head(r.sending[q])
             h == [r EXCEPT !.subSenderWorking = TRUE]
             g == StartRouting(h, p)
  <2>1. first \in Waiting(r)
    <3>1. Waiting(r) \subseteq {1, 2, 3}
      BY DEF Waiting, Protocols
    <3>2. \E i \in Waiting(r) : \A j \in Waiting(r) : i <= j
      BY <1>2, <3>1
    <3> QED  BY <3>2
  <2>2. q \in Queues /\ r.sending[q] # << >>
    BY <2>1 DEF Waiting, Queues
  <2> HIDE DEF q
  <2>3. p \in Packets
    <3>1. r.sending[q] \in Seq(Packets)
      BY <2>2 DEF Between, Outputs
    <3> QED  BY <2>2, <3>1, Tails
  <2>4. SendNext(r) = g
    <3>1. CanRoute(r)
      BY ConstantsAre DEF CanRoute, Idle
    <3> QED  BY <1>2, <3>1 DEF SendNext, q
  <2>5. /\ h \in Outputs /\ SameClients(h, r) /\ h.tasks = r.tasks
        /\ h.sent = r.sent /\ h.selection = r.selection /\ h.sending = r.sending
        /\ h.choosing = r.choosing /\ h.subSenderWorking
        /\ h.routed = r.routed /\ h.beingRouted = r.beingRouted
        /\ h.accepted = r.accepted /\ h.carrying = r.carrying
    BY ZenonT(60) DEF Between, Outputs, SameClients
  <2> HIDE DEF h, p, g
  <2>13. g = StartRouting(h, p)
    BY DEF g
  <2>6. /\ g \in Outputs /\ SameClients(g, h) /\ g.tasks = h.tasks \cup {"route"}
        /\ g.sent = h.sent /\ g.selection = h.selection /\ g.sending = h.sending
        /\ g.choosing = h.choosing /\ g.subSenderWorking = h.subSenderWorking
        /\ g.routed = Append(h.routed, p) /\ g.beingRouted = h.beingRouted
        /\ g.accepted = h.accepted /\ g.carrying = h.carrying
    BY ZenonT(60), <2>3, <2>5, <2>13, StartRoutingIs
  <2>7. SameClients(g, r)
    BY <2>5, <2>6 DEF SameClients
  <2>8. ClientInv(g) /\ Held(g, {}) /\ Reported(g)
    <3>1. \A t : t # "route" => (t \in g.tasks <=> t \in r.tasks)
      BY <2>5, <2>6
    <3>2. r \in Outputs /\ ClientInv(r)
      BY DEF Between
    <3> QED  BY <2>5, <2>6, <2>7, <3>1, <3>2, HandsKept
  <2>9. Works(g, p)
    <3>1. g.routed = Append(<< >>, p)
      BY <2>5, <2>6 DEF Idle
    <3>2. Append(<< >>, p) = <<p>>
      OBVIOUS
    <3> QED  BY <2>5, <2>6, <3>1, <3>2 DEF Works, AtInterface, Idle
  <2>10. Routes(g)
    BY <2>2, <2>5, <2>6, <2>9 DEF Routes, p
  <2>11. StackInv(g)
    BY <2>5, <2>6, <2>10 DEF StackInv, Choosing, Between
  <2>12. ~In(g.selection, fwd)
    BY <2>5, <2>6 DEF Between
  <2> QED  BY <2>4, <2>6, <2>8, <2>11, <2>12, <2>13 DEF OutputInv
<1> QED  BY <1>1, <1>2

LEMMA RemovedAt ==
  ASSUME NEW r, NEW p, r.routed = <<p>>
  PROVE  RemoveAt(r.routed, findQueueIndexOfRoutedPacket(r, p)) = << >>
<1>1. DOMAIN r.routed = {1} /\ r.routed[1] = p
  OBVIOUS
<1>2. findQueueIndexOfRoutedPacket(r, p) = 1
  BY <1>1 DEF findQueueIndexOfRoutedPacket
<1> QED  BY <1>2 DEF RemoveAt

(* The policy gives up the packet p that it has, which nobody else has, or *)
(* an interface has sent it.                                               *)
Ends(r, p, st) ==
  /\ Between(r) /\ Held(r, {})
  /\ r.subSenderWorking /\ r.routed = <<p>>
  /\ r.beingRouted \subseteq {p} /\ r.accepted = {} /\ r.carrying = {}
  /\ p \in Packets /\ IsHead(r.sending, p) /\ st \in Statuses
  /\ \A x \in Packets : x \in r.sent <=>
       Succeeded(r, x) \/ (x = p /\ st = "SUCCESS")

LEMMA FinishRoutedIs ==
  ASSUME NEW r, NEW p, NEW st, Ends(r, p, st)
  PROVE  OutputInv(FinishRouted(r, p, st))
<1> DEFINE q == ProtocolOf(p)
           t == Tail(r.sending[q])
           Q == [r.sending EXCEPT ![q] = t]
           h == [r EXCEPT !.routed = << >>, !.beingRouted = {},
                          !.subSenderWorking = FALSE, !.sending = Q]
           g == ToldSent(h, {p}, st)
<1>1. /\ r \in Outputs /\ p \in Packets /\ st \in Statuses
      /\ r.sending \in [Queues -> Seq(Packets)] /\ WellQueued(r.sending)
      /\ q \in Queues /\ r.sending[q] # << >> /\ p = Head(r.sending[q])
      /\ In(r.sending, p)
  <2>1. r \in Outputs /\ p \in Packets /\ IsHead(r.sending, p)
    BY DEF Ends, Between
  <2>2. r.sending \in [Queues -> Seq(Packets)]
    BY <2>1 DEF Outputs
  <2>3. In(r.sending, p)
    BY <2>1, <2>2, HeadIsIn
  <2> QED  BY <2>1, <2>2, <2>3, OneProtocol DEF Ends, Between, IsHead
<1>2. FinishRouted(r, p, st) = SendNext(g)
  <2>1. RemoveAt(r.routed, findQueueIndexOfRoutedPacket(r, p)) = << >>
    BY RemovedAt DEF Ends
  <2>2. r.beingRouted \ {p} = {}
    BY DEF Ends
  <2> DEFINE f == [r EXCEPT !.routed = << >>, !.beingRouted = {}]
  <2>3. FinishRouted(r, p, st) = FinishSending(f, p, st)
    BY <2>1, <2>2 DEF FinishRouted
  <2>4. [f EXCEPT !.subSenderWorking = FALSE, !.sending[q] = Tail(@)] = h
    BY <1>1 DEF Outputs
  <2> HIDE DEF f, h
  <2> QED  BY <2>3, <2>4 DEF FinishSending
<1>3. /\ Q \in [Queues -> Seq(Packets)] /\ WellQueued(Q)
      /\ \A x \in Packets : In(Q, x) <=> In(r.sending, x) /\ x # p
  <2>1. r.sending[q] \in Seq(Packets) /\ r.sending[q] # << >>
    BY <1>1
  <2>2. /\ t \in Seq(Packets) /\ Len(r.sending[q]) \in Nat /\ Len(r.sending[q]) >= 1
        /\ Len(t) = Len(r.sending[q]) - 1
        /\ \A n \in 1..(Len(r.sending[q]) - 1) : t[n] = r.sending[q][n + 1]
        /\ p = r.sending[q][1]
    BY <1>1, <2>1, Tails
  <2> HIDE DEF t
  <2>3. Q \in [Queues -> Seq(Packets)]
    BY <1>1, <2>2
  <2>4. Changed(Queues, Q, r.sending, q, t)
    BY <1>1 DEF Changed
  <2>5. 1 \in 0..Len(r.sending[q])
    BY <2>2
  <2> HIDE DEF Q, q
  <2>6. /\ WellQueued(Q)
        /\ \A x \in Packets : In(Q, x) <=>
             In(r.sending, x) /\ \A n \in 1..1 : x # r.sending[q][n]
    BY ZenonT(60), <1>1, <2>2, <2>4, <2>5, QueueDrop
  <2>7. \A x : (\A n \in 1..1 : x # r.sending[q][n]) <=> x # p
    BY <2>2
  <2> QED  BY <2>3, <2>6, <2>7
<1> HIDE DEF t, Q, q
<1>4. /\ h \in Outputs /\ SameClients(h, r) /\ h.tasks = r.tasks
      /\ h.sent = r.sent /\ h.selection = r.selection /\ h.sending = Q
      /\ h.choosing = r.choosing /\ ~h.subSenderWorking
      /\ h.routed = << >> /\ h.beingRouted = {}
      /\ h.accepted = {} /\ h.carrying = {}
  <2>1. h \in Outputs
    <3>1. << >> \in Seq(Packets)
      BY EmptySeq
    <3> QED  BY ZenonT(60), <1>1, <1>3, <3>1 DEF Outputs
  <2> QED  BY ZenonT(120), <1>1, <2>1 DEF Outputs, SameClients, Ends
<1> HIDE DEF h
<1>5. /\ ClientInv(h)
      /\ \A x \in Packets : /\ Waits(h, x) <=> Waits(r, x)
                            /\ Succeeded(h, x) <=> Succeeded(r, x)
  <2>1. \A x : x # "route" => (x \in h.tasks <=> x \in r.tasks)
    BY <1>4
  <2> QED  BY <1>1, <1>4, <2>1, ClientsKept DEF Ends, Between
<1>6. \A x \in Packets : /\ Waits(h, x) <=> InHand(h, x) \/ x = p
                         /\ ~(In(h.selection, x) /\ In(h.sending, x))
                         /\ ~InHand(h, p)
  BY <1>1, <1>3, <1>4, <1>5 DEF InHand, Held, Ends
<1>7. Told(g, h, {p}, st = "SUCCESS")
  <2>1. \A x \in {p} : Waits(h, x)
    BY <1>1, <1>6
  <2>2. {p} \in SUBSET Packets
    BY <1>1
  <2> QED  BY <1>1, <1>4, <1>5, <2>1, <2>2, ToldSentIs
<1> HIDE DEF g
<1>8. Held(g, {})
  BY <1>6, <1>7 DEF Held, InHand, Told, SameStack
<1>9. Reported(g)
  <2>1. ~Succeeded(r, p)
    <3>1. Waits(r, p)
      BY <1>1, <1>5, <1>6
    <3> QED  BY <1>1, <3>1, WaitingIsNotTold
  <2>2. g.sent = r.sent
    BY <1>4, <1>7 DEF Told, SameStack
  <2>3. \A x \in Packets : x \in r.sent <=> Succeeded(r, x) \/ (x = p /\ st = "SUCCESS")
    BY DEF Ends
  <2>4. \A x \in Packets : Succeeded(g, x) <=>
          IF x = p THEN st = "SUCCESS" ELSE Succeeded(r, x)
    BY <1>5, <1>7 DEF Told
  <2> QED  BY <2>1, <2>2, <2>3, <2>4 DEF Reported
<1>10. Idle(g)
  BY <1>4, <1>7 DEF Idle, Told, SameStack
<1>11. Between(g)
  BY <1>3, <1>4, <1>7 DEF Between, Ends, Told, SameStack, Choosing
<1> QED  BY <1>2, <1>8, <1>9, <1>10, <1>11, SendNextIs

-----------------------------------------------------------------------------
(* The policy and the interfaces.                                          *)

(* The clients and the virtualizer stay as they are.                       *)
SameRest(g, r) ==
  /\ SameClients(g, r)
  /\ \A t : t # "route" => (t \in g.tasks <=> t \in r.tasks)
  /\ g.selection = r.selection /\ g.sending = r.sending
  /\ g.choosing = r.choosing /\ g.subSenderWorking = r.subSenderWorking
  /\ g.routed = r.routed

LEMMA OneWorks ==
  ASSUME NEW r, OutputInv(r), ~Idle(r)
  PROVE  \E p \in Packets : IsHead(r.sending, p) /\ Works(r, p)
<1>1. PICK q \in Queues : r.sending[q] # << >> /\ Works(r, Head(r.sending[q]))
  BY DEF OutputInv, StackInv, Routes
<1> DEFINE p == Head(r.sending[q])
<1>2. r.sending[q] \in Seq(Packets) /\ WellQueued(r.sending)
  BY DEF OutputInv, Outputs, StackInv
<1>3. p \in Packets /\ p = r.sending[q][1] /\ 1 \in 1..Len(r.sending[q])
  BY <1>1, <1>2, Tails
<1>4. ProtocolOf(p) = q
  BY <1>2, <1>3 DEF WellQueued
<1> QED  BY <1>1, <1>3, <1>4 DEF IsHead

LEMMA StillRoutes ==
  ASSUME NEW r, OutputInv(r), NEW g \in Outputs, SameRest(g, r),
         g.sent = r.sent, Routes(g)
  PROVE  OutputInv(g)
<1>1. ClientInv(g) /\ Held(g, {}) /\ Reported(g)
  BY HandsKept DEF OutputInv, SameRest
<1>2. StackInv(g)
  BY DEF OutputInv, StackInv, Choosing, SameRest
<1> QED  BY <1>1, <1>2 DEF OutputInv, SameRest

LEMMA StillWorks ==
  ASSUME NEW r, OutputInv(r), NEW p \in Packets, IsHead(r.sending, p), Works(r, p),
         NEW g \in Outputs, SameRest(g, r), g.sent = r.sent, AtInterface(g, p)
  PROVE  OutputInv(g)
<1>1. Routes(g)
  <2>1. Works(g, p)
    BY DEF Works, SameRest
  <2> QED  BY <2>1, OneProtocol DEF Routes, IsHead, SameRest
<1> QED  BY <1>1, StillRoutes

LEMMA WorkEnds ==
  ASSUME NEW r, OutputInv(r), NEW p \in Packets, IsHead(r.sending, p), Works(r, p),
         NEW g \in Outputs, SameRest(g, r),
         g.beingRouted \subseteq {p}, g.accepted = {}, g.carrying = {},
         NEW st \in Statuses,
         g.sent = IF st = "SUCCESS" THEN r.sent \cup {p} ELSE r.sent
  PROVE  OutputInv(FinishRouted(g, p, st))
<1>1. /\ ClientInv(g) /\ Held(g, {})
      /\ \A x \in Packets : Succeeded(g, x) <=> Succeeded(r, x)
  <2>1. ClientInv(g) /\ Held(g, {})
    BY HandsKept DEF OutputInv, SameRest
  <2> QED  BY <2>1, ClientsKept DEF OutputInv, SameRest
<1>2. Between(g)
  BY <1>1 DEF Between, OutputInv, StackInv, Choosing, SameRest
<1>3. \A x \in Packets : x \in g.sent <=>
        Succeeded(g, x) \/ (x = p /\ st = "SUCCESS")
  BY <1>1 DEF OutputInv, Reported
<1>4. Ends(g, p, st)
  BY <1>1, <1>2, <1>3 DEF Ends, SameRest, Works
<1> QED  BY <1>4, FinishRoutedIs

LEMMA OfferIs ==
  ASSUME NEW r, OutputInv(r), NEW p \in Packets, IsHead(r.sending, p), Works(r, p),
         r.beingRouted = {}, "route" \in r.tasks, NEW answer \in Statuses
  PROVE  OutputInv(Offer(r, p, answer))
<1> DEFINE i == r.ifaceId[p]
<1>1. /\ r \in Outputs /\ i \in 0..NumInterfaces /\ (i # None => i \in Interfaces)
      /\ r.accepted = {} /\ r.carrying = {}
  <2>1. r \in Outputs
    BY DEF OutputInv
  <2>2. i \in 0..NumInterfaces
    BY <2>1 DEF Outputs
  <2>3. i # None => i \in Interfaces
    BY <2>2, ConstantsAre
  <2> QED  BY <2>1, <2>2, <2>3 DEF Works, AtInterface
<1>2. SameRest(r, r)
  BY DEF SameRest, SameClients
<1>3. ASSUME NEW st \in Statuses, st # "SUCCESS"
      PROVE  OutputInv(FinishRouted(r, p, st))
  <2>1. /\ r.beingRouted \subseteq {p}
        /\ r.sent = IF st = "SUCCESS" THEN r.sent \cup {p} ELSE r.sent
    BY <1>3
  <2> QED  BY <1>1, <1>2, <2>1, WorkEnds
<1>4. CASE i = None
  <2>1. "ENOROUTE" \in Statuses
    BY DEF Statuses
  <2> QED  BY <1>3, <1>4, <2>1 DEF Offer
<1>5. CASE i # None /\ answer = "SUCCESS"
  <2> DEFINE g == [r EXCEPT !.beingRouted = @ \cup {p}, !.accepted = @ \cup {<<i, p>>}]
  <2>1. Offer(r, p, answer) = g
    BY <1>5 DEF Offer
  <2>2. /\ g.beingRouted = {p} /\ g.accepted = {<<i, p>>} /\ g.carrying = {}
        /\ SameRest(g, r) /\ g.sent = r.sent
    BY <1>1 DEF Outputs, SameRest, SameClients
  <2>3. g \in Outputs
    <3>1. /\ r.beingRouted \cup {p} \subseteq Packets
          /\ r.accepted \cup {<<i, p>>} \subseteq Interfaces \X Packets
      BY <1>1, <1>5
    <3> HIDE DEF i
    <3> QED  BY ZenonT(60), <1>1, <3>1 DEF Outputs
  <2> HIDE DEF g, i
  <2>4. AtInterface(g, p)
    <3>1. g.accepted \cup g.carrying = {<<i, p>>}
      BY <2>2
    <3> QED  BY <1>1, <1>5, <2>2, <3>1 DEF AtInterface
  <2> QED  BY <2>1, <2>2, <2>3, <2>4, StillWorks
<1>6. CASE /\ i # None /\ answer # "SUCCESS"
           /\ p \in r.assigned \/ answer # "ENOROUTE"
  BY <1>3, <1>6 DEF Offer
<1>7. CASE i # None /\ p \notin r.assigned /\ answer = "ENOROUTE"
  <2> DEFINE f == [r.ifaceId EXCEPT ![p] = i + 1]
             g == [r EXCEPT !.ifaceId = f]
  <2>1. Offer(r, p, answer) = g
    BY <1>1, <1>7 DEF Offer, Outputs
  <2>2. f \in [Packets -> 0..NumInterfaces]
    <3>1. i + 1 \in 0..NumInterfaces
      BY <1>1, <1>7, ConstantsAre
    <3>2. r.ifaceId \in [Packets -> 0..NumInterfaces]
      BY <1>1 DEF Outputs
    <3> HIDE DEF i
    <3> QED  BY <3>1, <3>2
  <2> HIDE DEF f
  <2>3. /\ g.beingRouted = {} /\ g.accepted = {} /\ g.carrying = {}
        /\ SameRest(g, r) /\ g.sent = r.sent /\ g.tasks = r.tasks
    BY <1>1 DEF Outputs, SameRest, SameClients
  <2>4. g \in Outputs
    BY ZenonT(60), <1>1, <2>2 DEF Outputs
  <2> HIDE DEF g
  <2>5. AtInterface(g, p)
    BY <2>3 DEF AtInterface
  <2> QED  BY <2>1, <2>3, <2>4, <2>5, StillWorks
<1> QED  BY <1>4, <1>5, <1>6, <1>7

LEMMA InterfaceSentIs ==
  ASSUME NEW r, OutputInv(r), NEW i \in Interfaces, NEW p \in Packets,
         <<i, p>> \in r.accepted \cup r.carrying, NEW st \in Statuses
  PROVE  /\ IsHead(r.sending, p) /\ Works(r, p)
         /\ r.accepted \cup r.carrying = {<<i, p>>} /\ r.beingRouted = {p}
         /\ OutputInv(InterfaceSent(r, i, p, st))
<1>1. /\ IsHead(r.sending, p) /\ Works(r, p)
      /\ r.accepted \cup r.carrying = {<<i, p>>} /\ r.beingRouted = {p}
  <2>1. PICK x \in Packets : IsHead(r.sending, x) /\ Works(r, x)
    BY OneWorks DEF Idle
  <2>2. PICK j \in Interfaces : r.beingRouted = {x} /\ r.accepted \cup r.carrying = {<<j, x>>}
    BY <2>1 DEF Works, AtInterface
  <2>3. <<i, p>> = <<j, x>>
    BY <2>2
  <2> QED  BY <2>1, <2>2, <2>3
<1> DEFINE S == IF st = "SUCCESS" THEN r.sent \cup {p} ELSE r.sent
           done == [r EXCEPT !.accepted = {}, !.carrying = {}, !.sent = S]
           f == [r.ifaceId EXCEPT ![p] = i + 1]
           h == [r EXCEPT !.accepted = {}, !.carrying = {}, !.beingRouted = {},
                          !.ifaceId = f]
<1>2. r \in Outputs
  BY DEF OutputInv
<1>3. InterfaceSent(r, i, p, st) =
        IF p \in r.assigned \/ st # "ENOROUTE" THEN FinishRouted(done, p, st)
        ELSE post(h, "route")
  <2>1. r.accepted \ {<<i, p>>} = {} /\ r.carrying \ {<<i, p>>} = {}
        /\ r.beingRouted \ {p} = {}
    BY <1>1
  <2> DEFINE d == [r EXCEPT !.accepted = @ \ {<<i, p>>}, !.carrying = @ \ {<<i, p>>},
                            !.sent = IF st = "SUCCESS" THEN @ \cup {p} ELSE @]
             g == [d EXCEPT !.beingRouted = @ \ {p}, !.ifaceId[p] = i + 1]
  <2>2. d = done
    BY <1>2, <2>1 DEF Outputs
  <2>3. st = "ENOROUTE" => g = h
    BY <1>2, <2>1 DEF Outputs
  <2>4. InterfaceSent(r, i, p, st) =
          IF p \in r.assigned \/ st # "ENOROUTE" THEN FinishRouted(d, p, st)
          ELSE post(g, "route")
    BY DEF InterfaceSent
  <2> HIDE DEF h, done, d, g
  <2> QED  BY <2>2, <2>3, <2>4
<1>4. OutputInv(FinishRouted(done, p, st))
  <2>1. S \subseteq Packets
    BY <1>2 DEF Outputs
  <2>2. S = IF st = "SUCCESS" THEN r.sent \cup {p} ELSE r.sent
    OBVIOUS
  <2> HIDE DEF S
  <2>3. done \in Outputs
    BY ZenonT(60), <1>2, <2>1 DEF Outputs
  <2>4. /\ SameRest(done, r) /\ done.sent = S /\ done.beingRouted \subseteq {p}
        /\ done.accepted = {} /\ done.carrying = {}
    BY <1>1, <1>2 DEF Outputs, SameRest, SameClients
  <2> HIDE DEF done
  <2> QED  BY <1>1, <2>2, <2>3, <2>4, WorkEnds
<1>5. OutputInv(post(h, "route"))
  <2>1. f \in [Packets -> 0..NumInterfaces]
    <3>1. i + 1 \in 0..NumInterfaces
      BY ConstantsAre
    <3> QED  BY <1>2, <3>1 DEF Outputs
  <2> HIDE DEF f
  <2>2. h \in Outputs
    BY ZenonT(60), <1>2, <2>1 DEF Outputs
  <2>3. /\ SameRest(h, r) /\ h.sent = r.sent /\ h.tasks = r.tasks
        /\ h.beingRouted = {} /\ h.accepted = {} /\ h.carrying = {}
    BY <1>2 DEF Outputs, SameRest, SameClients
  <2> HIDE DEF h
  <2> DEFINE g == post(h, "route")
  <2>4. "route" \in Tasks
    BY DEF Tasks
  <2>5. /\ g \in Outputs /\ g.tasks = h.tasks \cup {"route"}
        /\ SameStack(g, h) /\ SameClients(g, h)
    BY <2>2, <2>4, Posts
  <2> HIDE DEF g
  <2>6. SameRest(g, r) /\ g.sent = r.sent
    BY <2>3, <2>5 DEF SameRest, SameStack, SameClients
  <2>7. AtInterface(g, p)
    BY <2>3, <2>5 DEF AtInterface, SameStack
  <2>8. OutputInv(g)
    BY <1>1, <2>5, <2>6, <2>7, StillWorks
  <2> QED  BY <2>8 DEF g
<1> QED  BY <1>1, <1>3, <1>4, <1>5

LEMMA RoutingIs ==
  ASSUME NEW r, OutputInv(r), "route" \in r.tasks, NEW answer \in Statuses
  PROVE  OutputInv(routeOutstandingPackets([r EXCEPT !.tasks = @ \ {"route"}], answer))
<1> DEFINE h == [r EXCEPT !.tasks = @ \ {"route"}]
<1>1. r \in Outputs
  BY DEF OutputInv
<1>2. /\ h \in Outputs /\ SameRest(h, r) /\ h.sent = r.sent
      /\ h.beingRouted = r.beingRouted /\ h.accepted = r.accepted
      /\ h.carrying = r.carrying /\ h.tasks = r.tasks \ {"route"}
  BY ZenonT(60), <1>1 DEF Outputs, SameRest, SameClients
<1> HIDE DEF h
<1>3. CASE Idle(r)
  <2>1. Unrouted(h) = {}
    BY <1>2, <1>3 DEF Unrouted, Idle, SameRest
  <2>2. Routes(h)
    BY <1>2, <1>3 DEF OutputInv, StackInv, Routes, Idle, Works, SameRest
  <2> QED  BY <1>2, <2>1, <2>2, StillRoutes DEF routeOutstandingPackets, h
<1>4. CASE ~Idle(r)
  <2>1. PICK p \in Packets : IsHead(r.sending, p) /\ Works(r, p)
    BY <1>4, OneWorks
  <2>2. h.routed = <<p>> /\ DOMAIN h.routed = {1} /\ h.routed[1] = p
    BY <1>2, <2>1 DEF Works, SameRest
  <2>3. CASE r.beingRouted = {p}
    <3>1. Unrouted(h) = {}
      BY <1>2, <2>2, <2>3 DEF Unrouted
    <3>2. AtInterface(h, p)
      BY <1>2, <2>1, <2>3 DEF Works, AtInterface
    <3> QED  BY <1>2, <2>1, <3>1, <3>2, StillWorks DEF routeOutstandingPackets, h
  <2>4. CASE r.beingRouted = {}
    <3> DEFINE g == post(h, "route")
    <3>1. Unrouted(h) = {1}
      BY <1>2, <2>2, <2>4 DEF Unrouted
    <3>2. (CHOOSE n \in Unrouted(h) : \A m \in Unrouted(h) : n <= m) = 1
      BY <3>1
    <3>3. routeOutstandingPackets(h, answer) = Offer(g, p, answer)
      BY <2>2, <3>1, <3>2 DEF routeOutstandingPackets
    <3>4. "route" \in Tasks
      BY DEF Tasks
    <3>5. /\ g \in Outputs /\ g.tasks = h.tasks \cup {"route"}
          /\ SameStack(g, h) /\ SameClients(g, h)
      BY <1>2, <3>4, Posts
    <3> HIDE DEF g
    <3>6. SameRest(g, r) /\ g.sent = r.sent
      BY <1>2, <3>5 DEF SameRest, SameStack, SameClients
    <3>7. AtInterface(g, p) /\ g.beingRouted = {} /\ "route" \in g.tasks
      BY <1>2, <2>1, <2>4, <3>5 DEF Works, AtInterface, SameStack
    <3>8. OutputInv(g)
      BY <2>1, <3>5, <3>6, <3>7, StillWorks
    <3>9. IsHead(g.sending, p) /\ Works(g, p)
      BY <2>1, <3>6, <3>7 DEF SameRest, Works
    <3>10. OutputInv(Offer(g, p, answer))
      BY <3>7, <3>8, <3>9, OfferIs
    <3> QED  BY <3>3, <3>10 DEF h
  <2> QED  BY <2>1, <2>3, <2>4 DEF Works, AtInterface
<1> QED  BY <1>3, <1>4

LEMMA InterfaceStartsIs ==
  ASSUME NEW r, OutputInv(r), NEW i \in Interfaces, NEW p \in Packets,
         <<i, p>> \in r.accepted, NEW st \in Statuses
  PROVE  OutputInv(InterfaceStarts(r, i, p, st))
<1>1. <<i, p>> \in r.accepted \cup r.carrying
  OBVIOUS
<1>2. /\ IsHead(r.sending, p) /\ Works(r, p)
      /\ r.accepted \cup r.carrying = {<<i, p>>} /\ r.beingRouted = {p}
      /\ OutputInv(InterfaceSent(r, i, p, st))
  BY <1>1, InterfaceSentIs
<1>3. CASE st # "SUCCESS"
  BY <1>2, <1>3 DEF InterfaceStarts
<1>4. CASE st = "SUCCESS"
  <2> DEFINE A == r.accepted \ {<<i, p>>}
             C == r.carrying \cup {<<i, p>>}
             P == r.assigned \cup {p}
             g == [r EXCEPT !.accepted = A, !.carrying = C, !.assigned = P]
  <2>1. r \in Outputs
    BY DEF OutputInv
  <2>2. /\ A \subseteq Interfaces \X Packets /\ C \subseteq Interfaces \X Packets
        /\ P \subseteq Packets /\ A \cup C = {<<i, p>>}
    BY <1>2, <2>1 DEF Outputs
  <2>3. InterfaceStarts(r, i, p, st) = g
    BY <1>4 DEF InterfaceStarts
  <2> HIDE DEF A, C, P
  <2>4. g \in Outputs
    BY ZenonT(120), <2>1, <2>2 DEF Outputs
  <2>5. /\ SameRest(g, r) /\ g.sent = r.sent /\ g.beingRouted = r.beingRouted
        /\ g.accepted = A /\ g.carrying = C
    BY <2>1 DEF Outputs, SameRest, SameClients
  <2> HIDE DEF g
  <2>6. AtInterface(g, p)
    BY <1>2, <2>2, <2>5 DEF AtInterface
  <2>7. OutputInv(g)
    BY <1>2, <2>4, <2>5, <2>6, StillWorks
  <2> QED  BY <2>3, <2>7
<1> QED  BY <1>3, <1>4

(* The first k of s are its head and those of ps; t is the others, which   *)
(* are rest but for the first n.                                           *)
Parted(S, s, n, rest, k, t, ps) ==
  /\ Len(rest) = Len(s) - 1 /\ k \in 0..Len(s)
  /\ t \in Seq(S) /\ Len(t) = Len(s) - k
  /\ \A m \in 1..(Len(s) - k) : t[m] = s[m + k]
  /\ \A x : (\E m \in 1..k : x = s[m]) <=> x = Head(s) \/ x \in ps
  /\ ps \subseteq S
  /\ \A x \in ps : \E m \in 2..k : x = s[m]
  /\ n # Len(rest) => n + 2 \in 1..Len(s) /\ rest[n + 1] = s[n + 2]

LEMMA Refused ==
  ASSUME NEW S, NEW s \in Seq(S), s # << >>, NEW n \in 0..(Len(s) - 1),
         NEW rest, rest = Tail(s), NEW k, k = n + 1,
         NEW t, t = SubSeq(rest, n + 1, Len(rest)),
         NEW ps, ps = ToSet(SubSeq(rest, 1, n))
  PROVE  Parted(S, s, n, rest, k, t, ps)
<1>1. /\ rest \in Seq(S) /\ Len(s) \in Nat /\ Len(s) >= 1 /\ Len(rest) = Len(s) - 1
      /\ \A m \in 1..(Len(s) - 1) : rest[m] = s[m + 1]
      /\ Head(s) = s[1] /\ Head(s) \in S
  BY Tails
<1>2. n \in Nat /\ n <= Len(s) - 1
  BY <1>1
<1> DEFINE u == SubSeq(rest, 1, n)
<1>3. \A m \in 1..Len(rest) : rest[m] \in S
  BY <1>1
<1>4. /\ t \in Seq(S) /\ Len(t) = Len(s) - (n + 1)
      /\ \A m \in 1..(Len(s) - (n + 1)) : t[m] = rest[m + n]
  <2>1. \A m \in (n + 1)..Len(rest) : rest[m] \in S
    BY <1>1, <1>2, <1>3
  <2>2. n + 1 \in Int /\ Len(rest) \in Int
    BY <1>1, <1>2
  <2>3. /\ t \in Seq(S)
        /\ Len(t) = IF n + 1 <= Len(rest) THEN Len(rest) - (n + 1) + 1 ELSE 0
        /\ \A m \in 1..(Len(rest) - (n + 1) + 1) : t[m] = rest[(n + 1) + m - 1]
    BY <2>1, <2>2, SubSeqProperties
  <2>4. Len(t) = Len(s) - (n + 1)
    <3> DEFINE l == Len(s)
    <3>1. l \in Nat /\ Len(rest) = l - 1
      BY <1>1
    <3> HIDE DEF l
    <3>2. (IF n + 1 <= l - 1 THEN (l - 1) - (n + 1) + 1 ELSE 0) = l - (n + 1)
      <4>1. n <= l - 1
        BY <1>2 DEF l
      <4> QED  BY <1>2, <3>1, <4>1
    <3> QED  BY <2>3, <3>1, <3>2 DEF l
  <2>5. \A m \in 1..(Len(s) - (n + 1)) : t[m] = rest[m + n]
    <3>1. Len(rest) - (n + 1) + 1 = Len(s) - (n + 1)
      BY <1>1, <1>2
    <3>2. \A m \in 1..(Len(s) - (n + 1)) : (n + 1) + m - 1 = m + n
      BY <1>1, <1>2
    <3> QED  BY <2>3, <3>1, <3>2
  <2> QED  BY <2>3, <2>4, <2>5
<1>5. /\ u \in Seq(S) /\ Len(u) = n
      /\ \A m \in 1..n : u[m] = rest[m]
  <2>1. \A m \in 1..n : rest[m] \in S
    BY <1>1, <1>2, <1>3
  <2>2. 1 \in Int /\ n \in Int
    BY <1>2
  <2>3. /\ u \in Seq(S) /\ Len(u) = IF 1 <= n THEN n - 1 + 1 ELSE 0
        /\ \A m \in 1..(n - 1 + 1) : u[m] = rest[1 + m - 1]
    BY <2>1, <2>2, SubSeqProperties
  <2> HIDE DEF u
  <2>4. \A m \in 1..n : m \in 1..(n - 1 + 1) /\ 1 + m - 1 = m
    BY <1>2
  <2> QED  BY <1>2, <2>3, <2>4
<1>6. ToSet(u) = {s[m + 1] : m \in 1..n}
  <2>1. DOMAIN u = 1..n
    BY <1>5
  <2>2. \A m \in 1..n : u[m] = s[m + 1]
    BY <1>1, <1>2, <1>5
  <2> QED  BY <2>1, <2>2 DEF ToSet
<1> HIDE DEF u
<1>7. \A m \in 1..(Len(s) - (n + 1)) : t[m] = s[m + (n + 1)]
  <2> SUFFICES ASSUME NEW m \in 1..(Len(s) - (n + 1)) PROVE t[m] = s[m + (n + 1)]
    OBVIOUS
  <2>1. m + n \in 1..(Len(s) - 1) /\ (m + n) + 1 = m + (n + 1)
    BY <1>1, <1>2
  <2> QED  BY <1>1, <1>4, <2>1
<1>8. ASSUME NEW x
      PROVE  (\E m \in 1..(n + 1) : x = s[m]) <=> x = Head(s) \/ x \in ToSet(u)
  <2>1. ASSUME NEW m \in 1..(n + 1), x = s[m]
        PROVE  x = Head(s) \/ x \in ToSet(u)
    <3>1. CASE m = 1
      BY <1>1, <2>1, <3>1
    <3>2. CASE m # 1
      <4>1. m - 1 \in 1..n /\ (m - 1) + 1 = m
        BY <1>2, <3>2
      <4> QED  BY <1>6, <2>1, <4>1
    <3> QED  BY <3>1, <3>2
  <2>2. ASSUME x = Head(s) PROVE \E m \in 1..(n + 1) : x = s[m]
    <3>1. 1 \in 1..(n + 1)
      BY <1>2
    <3> QED  BY <1>1, <2>2, <3>1
  <2>3. ASSUME x \in ToSet(u) PROVE \E m \in 1..(n + 1) : x = s[m]
    <3>1. PICK m \in 1..n : x = s[m + 1]
      BY <1>6, <2>3
    <3>2. m + 1 \in 1..(n + 1)
      BY <1>2
    <3> QED  BY <3>1, <3>2
  <2> QED  BY <2>1, <2>2, <2>3
<1>9. ToSet(u) \subseteq S
  BY <1>5 DEF ToSet
<1>12. \A x \in ToSet(u) : \E m \in 2..(n + 1) : x = s[m]
  <2>1. \A m \in 1..n : m + 1 \in 2..(n + 1)
    BY ONLY n \in Nat
  <2> QED  BY <1>6, <2>1
<1>10. n # Len(rest) => n + 2 \in 1..Len(s) /\ rest[n + 1] = s[n + 2]
  <2> SUFFICES ASSUME n # Len(rest)
               PROVE  n + 2 \in 1..Len(s) /\ rest[n + 1] = s[n + 2]
    BY Zenon
  <2> DEFINE l == Len(s)
  <2>1. l \in Nat /\ n <= l - 1 /\ n # l - 1
    BY <1>1, <1>2
  <2> HIDE DEF l
  <2>2. n + 1 \in 1..(l - 1) /\ (n + 1) + 1 = n + 2 /\ n + 2 \in 1..l
    BY <1>2, <2>1
  <2> QED  BY <1>1, <2>2 DEF l
<1>11. n + 1 \in 0..Len(s)
  BY <1>1, <1>2
<1> QED  BY <1>1, <1>4, <1>7, <1>8, <1>9, <1>10, <1>11, <1>12 DEF u, Parted

(* The address of the first packet of a queue is there: its client and     *)
(* those of the packets that no interface takes are told.                  *)
LEMMA InterfaceSelectedIs ==
  ASSUME NEW r, OutputInv(r), NEW j \in Interfaces, r.choosing[j] # << >>,
         NEW sums \in BOOLEAN,
         NEW refused \in 0..(Len(r.selection[ProtocolOf(Head(r.choosing[j]))]) - 1),
         NEW i \in Selectors
  PROVE  OutputInv(InterfaceSelected(r, j, sums, refused, i))
<1> DEFINE p == Head(r.choosing[j])
           q == ProtocolOf(p)
           s == r.selection[q]
           rest == Tail(s)
           k == refused + 1
           ps == ToSet(SubSeq(rest, 1, refused))
           t == SubSeq(rest, refused + 1, Len(rest))
           c == [r.choosing EXCEPT ![j] = Tail(@)]
           f == [r.ifaceId EXCEPT ![p] = j]
           h == [r EXCEPT !.choosing = c, !.ifaceId = f]
           told == ToldNotSelected(ToldSelected(h, p, sums), ps)
           Q == [r.selection EXCEPT ![q] = t]
           next == [told EXCEPT !.selection = Q]
<1>1. /\ r \in Outputs /\ r.selection \in [Queues -> Seq(Packets)]
      /\ WellQueued(r.selection)
      /\ r.choosing \in [Interfaces -> Seq(Packets)] /\ Once(r.choosing)
      /\ \A x \in Packets : IsChosen(r.choosing, x) <=> IsHead(r.selection, x)
      /\ Held(r, {}) /\ Reported(r) /\ ClientInv(r) /\ ~In(r.selection, fwd)
  BY DEF OutputInv, StackInv, Outputs, Choosing
<1>2. /\ c \in [Interfaces -> Seq(Packets)] /\ Once(c) /\ p \in Packets
      /\ IsHead(r.selection, p)
      /\ \A x \in Packets : IsChosen(c, x) <=> IsChosen(r.choosing, x) /\ x # p
  <2>1. r.choosing[j] \in Seq(Packets) /\ p = Head(r.choosing[j])
    BY <1>1
  <2>2. Tail(r.choosing[j]) \in Seq(Packets)
    BY <2>1, Tails
  <2>3. c \in [Interfaces -> Seq(Packets)]
    BY <1>1, <2>2
  <2>4. Changed(Interfaces, c, r.choosing, j, Tail(r.choosing[j]))
    BY <1>1 DEF Changed
  <2> HIDE DEF c, p
  <2>5. /\ Once(c) /\ p \in Packets /\ IsChosen(r.choosing, p)
        /\ \A x \in Packets : IsChosen(c, x) <=> IsChosen(r.choosing, x) /\ x # p
    BY ZenonT(120), <1>1, <2>1, <2>4, ChosenTail
  <2> QED  BY <1>1, <2>3, <2>5
<1>3. /\ q \in Queues /\ s \in Seq(Packets) /\ s # << >> /\ Head(s) = p
      /\ refused \in 0..(Len(s) - 1)
  BY <1>1, <1>2, OneProtocol DEF IsHead
<1>4. FinishSelecting(h, p, sums, refused, i) =
        IF refused = Len(rest) THEN next ELSE SelectAt(next, rest[k], i)
  <2>1. h.selection = r.selection
    BY <1>1 DEF Outputs
  <2> DEFINE n == [told EXCEPT !.selection[q] = t]
  <2>2. FinishSelecting(h, p, sums, refused, i) =
          IF refused = Len(rest) THEN n ELSE SelectAt(n, rest[k], i)
    <3> HIDE DEF h, p
    <3> QED  BY <2>1 DEF FinishSelecting
  <2>3. told.selection = r.selection
    <3> HIDE DEF h
    <3> QED  BY <2>1 DEF ToldNotSelected, ToldSelected, SocketsTold, IcmpTold, IcmpSums, post
  <2> QED  BY <2>2, <2>3
<1>5. /\ Len(rest) = Len(s) - 1 /\ k \in 0..Len(s)
      /\ t \in Seq(Packets) /\ Len(t) = Len(s) - k
      /\ \A m \in 1..(Len(s) - k) : t[m] = s[m + k]
      /\ \A x : (\E m \in 1..k : x = s[m]) <=> x = p \/ x \in ps
      /\ ps \subseteq Packets /\ \A x \in ps : \E m \in 2..k : x = s[m]
      /\ refused # Len(rest) => refused + 2 \in 1..Len(s) /\ rest[k] = s[refused + 2]
  <2>1. rest = Tail(s) /\ s \in Seq(Packets) /\ s # << >>
        /\ refused \in 0..(Len(s) - 1) /\ Head(s) = p
    BY <1>3
  <2> HIDE DEF s, p, rest
  <2>2. /\ k = refused + 1 /\ t = SubSeq(rest, refused + 1, Len(rest))
        /\ ps = ToSet(SubSeq(rest, 1, refused))
    OBVIOUS
  <2> HIDE DEF k, t, ps
  <2>3. Parted(Packets, s, refused, rest, k, t, ps)
    BY <2>1, <2>2, Refused
  <2>4. k = refused + 1
    BY <2>2
  <2> QED  BY <2>1, <2>3, <2>4 DEF Parted
<1>6. Len(s) \in Nat /\ k + 1 = refused + 2 /\ refused \in Nat
  BY <1>3
<1>7. (refused = Len(rest)) <=> (k = Len(s))
  <2>1. k = refused + 1
    OBVIOUS
  <2> HIDE DEF s, rest, k
  <2>2. Len(rest) = Len(s) - 1
    BY <1>5
  <2> QED  BY <1>6, <2>1, <2>2
<1>8. /\ WellQueued(Q) /\ Q \in [Queues -> Seq(Packets)]
      /\ \A x \in Packets : In(Q, x) <=> In(r.selection, x) /\ ~(x = p \/ x \in ps)
      /\ \A x \in Packets : IsHead(Q, x) <=>
           IF ProtocolOf(x) = q THEN k # Len(s) /\ x = s[k + 1]
           ELSE IsHead(r.selection, x)
  <2>1. Q \in [Queues -> Seq(Packets)]
    BY <1>1, <1>3, <1>5
  <2>2. Changed(Queues, Q, r.selection, q, t)
    BY <1>1, <1>3 DEF Changed
  <2>3. /\ k \in 0..Len(r.selection[q]) /\ Len(t) = Len(r.selection[q]) - k
        /\ \A m \in 1..(Len(r.selection[q]) - k) : t[m] = r.selection[q][m + k]
    BY <1>5
  <2> HIDE DEF Q, t, q, k
  <2>4. t \in Seq(Packets)
    BY <1>5
  <2>5. /\ WellQueued(Q)
        /\ \A x \in Packets : In(Q, x) <=>
             In(r.selection, x) /\ \A n \in 1..k : x # r.selection[q][n]
        /\ \A x \in Packets : IsHead(Q, x) <=>
             IF ProtocolOf(x) = q
             THEN k # Len(r.selection[q]) /\ x = r.selection[q][k + 1]
             ELSE IsHead(r.selection, x)
    BY <1>1, <1>3, <2>2, <2>3, <2>4, QueueDrop
  <2> QED  BY ZenonT(60), <1>5, <2>1, <2>5
<1>9. \A x \in ps : x \in Packets /\ In(r.selection, x) /\ x # p /\ x # fwd
  <2> SUFFICES ASSUME NEW x \in ps
               PROVE  x \in Packets /\ In(r.selection, x) /\ x # p /\ x # fwd
    OBVIOUS
  <2>1. PICK m \in 2..k : x = s[m]
    BY <1>5
  <2>5. p = s[1] /\ Len(s) >= 1
    <3> HIDE DEF p, s
    <3> QED  BY <1>3, Tails
  <2>2. m \in 1..Len(s) /\ 1 \in 1..Len(s) /\ m # 1 /\ p = s[1]
    <3> HIDE DEF p, s, k
    <3>1. k \in 0..Len(s)
      BY <1>5
    <3> QED  BY SMTT(30), <1>6, <2>1, <2>5, <3>1
  <2>3. ProtocolOf(x) = q /\ x # p
    BY SMTT(30), <1>1, <1>3, <2>1, <2>2 DEF WellQueued
  <2>4. In(r.selection, x)
    BY <2>1, <2>2, <2>3 DEF In
  <2> QED  BY <1>1, <1>5, <2>3, <2>4
<1>10. In(r.selection, p) /\ p # fwd
  BY <1>1, <1>2, HeadIsIn
<1>11. \A x \in Packets : x = p \/ x \in ps => Waits(r, x)
  BY <1>1, <1>9, <1>10 DEF Held, InHand
<1>12. /\ h \in Outputs /\ SameClients(h, r) /\ h.tasks = r.tasks
       /\ h.sent = r.sent /\ h.selection = r.selection /\ h.sending = r.sending
       /\ h.choosing = c /\ h.subSenderWorking = r.subSenderWorking
       /\ h.routed = r.routed /\ h.beingRouted = r.beingRouted
       /\ h.accepted = r.accepted /\ h.carrying = r.carrying
  <2>1. f \in [Packets -> 0..NumInterfaces]
    <3>1. j \in 0..NumInterfaces
      BY ConstantsAre
    <3> HIDE DEF p
    <3> QED  BY <1>1, <3>1 DEF Outputs
  <2> HIDE DEF f, c
  <2>2. h \in Outputs
    BY ZenonT(60), <1>1, <1>2, <2>1 DEF Outputs
  <2> QED  BY ZenonT(60), <1>1, <2>2 DEF Outputs, SameClients
<1>13. InterfaceSelected(r, j, sums, refused, i) = FinishSelecting(h, p, sums, refused, i)
  BY DEF InterfaceSelected
<1> HIDE DEF p, q, s, rest, k, ps, t, c, f, h, Q
<1>14. Told(told, h, {p} \cup ps, FALSE)
  <2> DEFINE a == ToldSelected(h, p, sums)
  <2>1. /\ ClientInv(h)
        /\ \A x \in Packets : Waits(h, x) <=> Waits(r, x)
    BY <1>1, <1>12, ClientsKept
  <2>2. Waits(h, p)
    BY <1>2, <1>11, <2>1
  <2>3. Told(a, h, {p}, FALSE)
    BY <1>2, <1>10, <1>12, <2>1, <2>2, ToldSelectedIs
  <2> HIDE DEF a
  <2>4. /\ a \in Outputs /\ ClientInv(a)
        /\ \A x \in Packets : Waits(a, x) <=> Waits(h, x) /\ x \notin {p}
    BY <2>3 DEF Told
  <2>5. \A x \in ps : Waits(a, x)
    BY <1>9, <1>11, <2>1, <2>4
  <2>6. ps \in SUBSET Packets /\ fwd \notin ps
    BY <1>5, <1>9
  <2>7. Told(ToldNotSelected(a, ps), a, ps, FALSE)
    BY <2>4, <2>5, <2>6, ToldNotSelectedIs
  <2>8. told = ToldNotSelected(a, ps)
    BY DEF a
  <2> HIDE DEF told
  <2>9. Told(told, a, ps, FALSE)
    BY <2>7, <2>8
  <2> QED  BY <2>3, <2>9, ToldTwice
<1> HIDE DEF told
<1>15. /\ next \in Outputs /\ SameClients(next, told) /\ next.tasks = told.tasks
       /\ next.sent = told.sent /\ next.selection = Q /\ next.sending = told.sending
       /\ next.choosing = told.choosing
       /\ next.subSenderWorking = told.subSenderWorking
       /\ next.routed = told.routed /\ next.beingRouted = told.beingRouted
       /\ next.accepted = told.accepted /\ next.carrying = told.carrying
  <2>1. told \in Outputs
    BY <1>14 DEF Told
  <2>2. next \in Outputs
    BY ZenonT(120), <1>8, <2>1 DEF Outputs
  <2> QED  BY ZenonT(120), <2>1, <2>2 DEF Outputs, SameClients
<1> HIDE DEF next
<1> DEFINE g == InterfaceSelected(r, j, sums, refused, i)
<1>16. \A x \in Packets : IsChosen(c, x) <=>
         IsHead(r.selection, x) /\ ProtocolOf(x) # q
  <2>1. \A x \in Packets : IsHead(r.selection, x) /\ ProtocolOf(x) = q => x = p
    BY <1>3 DEF IsHead, s
  <2>2. ProtocolOf(p) = q
    BY DEF q
  <2> QED  BY <1>1, <1>2, <2>1, <2>2
<1>17. /\ g \in Outputs /\ SameClients(g, told) /\ g.tasks = told.tasks
       /\ g.sent = told.sent /\ g.selection = Q /\ g.sending = told.sending
       /\ g.subSenderWorking = told.subSenderWorking
       /\ g.routed = told.routed /\ g.beingRouted = told.beingRouted
       /\ g.accepted = told.accepted /\ g.carrying = told.carrying
       /\ Once(g.choosing)
       /\ \A x \in Packets : IsChosen(g.choosing, x) <=> IsHead(Q, x)
  <2>1. told.choosing = c
    BY <1>12, <1>14 DEF Told, SameStack
  <2>2. CASE refused = Len(rest)
    <3>1. g = next /\ k = Len(s)
      BY <1>4, <1>7, <1>13, <2>2
    <3> HIDE DEF g
    <3>2. \A x \in Packets : IsChosen(c, x) <=> IsHead(Q, x)
      BY <1>8, <1>16, <3>1
    <3> QED  BY <1>2, <1>15, <2>1, <3>1, <3>2
  <2>3. CASE refused # Len(rest)
    <3> DEFINE y == rest[k]
               d == [c EXCEPT ![i] = Append(@, y)]
               a == told.assigned \cup {y}
    <3>1. k # Len(s) /\ y = s[k + 1] /\ k + 1 \in 1..Len(s)
      BY <1>5, <1>6, <1>7, <2>3 DEF k
    <3>2. y \in Packets /\ ProtocolOf(y) = q
      BY <1>1, <1>3, <3>1 DEF WellQueued, s
    <3>3. g = SelectAt(next, y, i)
      BY <1>4, <1>13, <2>3
    <3> HIDE DEF y, g
    <3>4. ~IsChosen(c, y)
      BY <1>16, <3>2
    <3>5. i \in Interfaces
      BY ConstantsAre
    <3>6. /\ d \in [Interfaces -> Seq(Packets)] /\ Once(d)
          /\ \A x \in Packets : IsChosen(d, x) <=> IsChosen(c, x) \/ x = y
      <4>1. Append(c[i], y) \in Seq(Packets)
        BY <1>2, <3>2, <3>5, Appended
      <4>2. d \in [Interfaces -> Seq(Packets)]
        BY <1>2, <3>5, <4>1
      <4>3. Changed(Interfaces, d, c, i, Append(c[i], y))
        BY <1>2, <3>5 DEF Changed
      <4> HIDE DEF d
      <4> QED  BY <1>2, <3>2, <3>4, <3>5, <4>2, <4>3, ChosenAppend
    <3>7. a \subseteq Packets /\ next.assigned \subseteq Packets
      <4>1. told.assigned \subseteq Packets /\ next.assigned \subseteq Packets
        BY <1>14, <1>15 DEF Told, Outputs
      <4> QED  BY <3>2, <4>1
    <3> DEFINE b == next.assigned \cup {y}
    <3>8. g = [next EXCEPT !.choosing = d, !.assigned = b]
      BY <1>15, <2>1, <3>3 DEF SelectAt, Outputs
    <3>9. b \subseteq Packets
      BY <3>2, <3>7
    <3> HIDE DEF d, b
    <3>10. g \in Outputs
      BY ZenonT(60), <1>15, <3>6, <3>8, <3>9 DEF Outputs
    <3>11. /\ SameClients(g, next) /\ g.tasks = next.tasks /\ g.sent = next.sent
           /\ g.selection = next.selection /\ g.sending = next.sending
           /\ g.subSenderWorking = next.subSenderWorking
           /\ g.routed = next.routed /\ g.beingRouted = next.beingRouted
           /\ g.accepted = next.accepted /\ g.carrying = next.carrying
           /\ g.choosing = d
      BY <1>15, <3>8 DEF Outputs, SameClients
    <3>12. SameClients(g, told)
      BY <1>15, <3>11 DEF SameClients
    <3>13. \A x \in Packets : IsChosen(d, x) <=> IsHead(Q, x)
      BY <1>8, <1>16, <3>1, <3>2, <3>6
    <3> QED  BY <1>15, <3>6, <3>10, <3>11, <3>12, <3>13
  <2> QED  BY <2>2, <2>3
<1> HIDE DEF g
<1>18. /\ ClientInv(g)
       /\ \A x \in Packets : /\ Waits(g, x) <=> Waits(r, x) /\ ~(x = p \/ x \in ps)
                             /\ Succeeded(g, x) <=> Succeeded(r, x)
  <2>1. /\ told \in Outputs /\ ClientInv(told)
        /\ \A x \in Packets : Waits(told, x) <=> Waits(h, x) /\ ~(x = p \/ x \in ps)
        /\ \A x \in Packets : Succeeded(told, x) <=>
             Succeeded(h, x) /\ ~(x = p \/ x \in ps)
    BY <1>14 DEF Told
  <2>2. \A x \in Packets : /\ Waits(h, x) <=> Waits(r, x)
                           /\ Succeeded(h, x) <=> Succeeded(r, x)
    BY <1>1, <1>12, ClientsKept
  <2>3. /\ ClientInv(g)
        /\ \A x \in Packets : /\ Waits(g, x) <=> Waits(told, x)
                              /\ Succeeded(g, x) <=> Succeeded(told, x)
    BY <1>17, <2>1, ClientsKept
  <2>4. \A x \in Packets : x = p \/ x \in ps => ~Succeeded(r, x)
    BY <1>1, <1>11, WaitingIsNotTold
  <2> QED  BY <2>1, <2>2, <2>3, <2>4
<1>19. g.sending = r.sending /\ g.sent = r.sent /\ Routes(g)
  <2>1. /\ g.sending = r.sending /\ g.sent = r.sent
        /\ g.subSenderWorking = r.subSenderWorking
        /\ g.routed = r.routed /\ g.beingRouted = r.beingRouted
        /\ g.accepted = r.accepted /\ g.carrying = r.carrying
        /\ r.tasks \subseteq g.tasks
    BY <1>12, <1>14, <1>17 DEF Told, SameStack
  <2>2. Routes(r)
    BY DEF OutputInv, StackInv
  <2> QED  BY <2>1, <2>2, RoutesKept
<1>20. Held(g, {})
  BY <1>1, <1>8, <1>9, <1>10, <1>17, <1>18, <1>19 DEF Held, InHand
<1>21. Reported(g)
  BY <1>1, <1>18, <1>19 DEF Reported
<1>22. StackInv(g)
  BY <1>8, <1>17, <1>19 DEF StackInv, Choosing, OutputInv
<1>23. ~In(g.selection, fwd)
  BY <1>1, <1>8, <1>17, PacketsAre
<1> QED  BY <1>17, <1>18, <1>20, <1>21, <1>22, <1>23 DEF OutputInv, g

-----------------------------------------------------------------------------
(* The steps of the clients.                                               *)

SameQueues(g, r) ==
  /\ g.selection = r.selection /\ g.sending = r.sending
  /\ g.choosing = r.choosing /\ g.subSenderWorking = r.subSenderWorking
  /\ g.routed = r.routed /\ g.beingRouted = r.beingRouted
  /\ g.accepted = r.accepted /\ g.carrying = r.carrying
  /\ "route" \in r.tasks => "route" \in g.tasks
OtherSockets(g, r, s) ==
  /\ g.inUse \ {s} = r.inUse \ {s}
  /\ \A t \in Sockets \ {s} : g.action[t] = r.action[t]
SocketsSame(g, r) ==
  /\ g.inUse = r.inUse /\ g.action = r.action
  /\ "udp" \in g.tasks <=> "udp" \in r.tasks
IcmpSame(g, r) ==
  /\ g.payloadIter = r.payloadIter /\ g.active = r.active
  /\ g.wrapped = r.wrapped /\ g.summing = r.summing
  /\ g.handlingStatus = r.handlingStatus
  /\ "icmp" \in g.tasks <=> "icmp" \in r.tasks
ForwarderSame(g, r) ==
  /\ g.queued = r.queued /\ g.inProgress = r.inProgress
  /\ g.forwardingStatus = r.forwardingStatus
  /\ "forward" \in g.tasks <=> "forward" \in r.tasks
  /\ "forwarded" \in g.tasks <=> "forwarded" \in r.tasks
(* What the client of p does with it is no matter of the others.           *)
OthersSame(g, r, p) ==
  \A x \in Packets : x # p => /\ Waits(g, x) <=> Waits(r, x)
                              /\ Succeeded(g, x) <=> Succeeded(r, x)

LEMMA SocketAlone ==
  ASSUME NEW r \in Outputs, NEW g \in Outputs, NEW s \in Sockets,
         OtherSockets(g, r, s), IcmpSame(g, r), ForwarderSame(g, r)
  PROVE  /\ OthersSame(g, r, PacketOf(s))
         /\ ClientInv(r) => IcmpInv(g) /\ ForwarderInv(g)
<1>1. ClientInv(r) => IcmpInv(g) /\ ForwarderInv(g)
  BY DEF ClientInv, IcmpSame, IcmpInv, ForwarderSame, ForwarderInv
<1>2. ASSUME NEW x \in Packets, x # PacketOf(s)
      PROVE  (Waits(g, x) <=> Waits(r, x)) /\ (Succeeded(g, x) <=> Succeeded(r, x))
  <2>1. CASE x = icmp
    BY <2>1, WaitsOf, SucceededOf DEF IcmpSame, IcmpOn
  <2>2. CASE x = fwd
    BY <2>2, WaitsOf, SucceededOf DEF ForwarderSame, ForwarderOn
  <2>3. ASSUME NEW t \in Sockets, x = PacketOf(t)
        PROVE  (Waits(g, x) <=> Waits(r, x)) /\ (Succeeded(g, x) <=> Succeeded(r, x))
    <3>1. t # s
      BY <1>2, <2>3
    <3>2. (t \in g.inUse <=> t \in r.inUse) /\ g.action[t] = r.action[t]
      BY <3>1 DEF OtherSockets
    <3> QED  BY <2>3, <3>2, WaitsOf, SucceededOf DEF SocketOn
  <2> QED  BY <2>1, <2>2, <2>3, PacketsAre
<1> QED  BY <1>1, <1>2 DEF OthersSame

LEMMA IcmpAlone ==
  ASSUME NEW r \in Outputs, NEW g \in Outputs,
         SocketsSame(g, r), ForwarderSame(g, r)
  PROVE  /\ OthersSame(g, r, icmp)
         /\ ClientInv(r) => SocketsInv(g) /\ ForwarderInv(g)
<1>1. ClientInv(r) => SocketsInv(g) /\ ForwarderInv(g)
  BY DEF ClientInv, SocketsSame, SocketsInv, ForwarderSame, ForwarderInv
<1>2. ASSUME NEW x \in Packets, x # icmp
      PROVE  (Waits(g, x) <=> Waits(r, x)) /\ (Succeeded(g, x) <=> Succeeded(r, x))
  <2>1. CASE x = fwd
    BY <2>1, WaitsOf, SucceededOf DEF ForwarderSame, ForwarderOn
  <2>2. ASSUME NEW t \in Sockets, x = PacketOf(t)
        PROVE  (Waits(g, x) <=> Waits(r, x)) /\ (Succeeded(g, x) <=> Succeeded(r, x))
    BY <2>2, WaitsOf, SucceededOf DEF SocketsSame, SocketOn
  <2> QED  BY <1>2, <2>1, <2>2, PacketsAre
<1> QED  BY <1>1, <1>2 DEF OthersSame

LEMMA ForwarderAlone ==
  ASSUME NEW r \in Outputs, NEW g \in Outputs,
         SocketsSame(g, r), IcmpSame(g, r)
  PROVE  /\ OthersSame(g, r, fwd)
         /\ ClientInv(r) => SocketsInv(g) /\ IcmpInv(g)
<1>1. ClientInv(r) => SocketsInv(g) /\ IcmpInv(g)
  BY DEF ClientInv, SocketsSame, SocketsInv, IcmpSame, IcmpInv
<1>2. ASSUME NEW x \in Packets, x # fwd
      PROVE  (Waits(g, x) <=> Waits(r, x)) /\ (Succeeded(g, x) <=> Succeeded(r, x))
  <2>1. CASE x = icmp
    BY <2>1, WaitsOf, SucceededOf DEF IcmpSame, IcmpOn
  <2>2. ASSUME NEW t \in Sockets, x = PacketOf(t)
        PROVE  (Waits(g, x) <=> Waits(r, x)) /\ (Succeeded(g, x) <=> Succeeded(r, x))
    BY <2>2, WaitsOf, SucceededOf DEF SocketsSame, SocketOn
  <2> QED  BY <1>2, <2>1, <2>2, PacketsAre
<1> QED  BY <1>1, <1>2 DEF OthersSame

(* A client that has its packet works on it, and gives it to the stack or  *)
(* keeps it.                                                               *)
Given(g, r, p) ==
  /\ OthersSame(g, r, p)
  /\ g.sent \ {p} = r.sent \ {p} /\ (p \in g.sent <=> Succeeded(g, p))
  /\ \A x \in Packets : x # p => /\ In(g.selection, x) <=> In(r.selection, x)
                                 /\ In(g.sending, x) <=> In(r.sending, x)
  /\ Waits(g, p) <=> InHand(g, p)
  /\ ~(In(g.selection, p) /\ In(g.sending, p))
  /\ p = fwd => ~In(g.selection, p)

LEMMA ClientGives ==
  ASSUME NEW r, OutputInv(r), NEW g \in Outputs, StackInv(g), ClientInv(g),
         NEW p \in Packets, Given(g, r, p)
  PROVE  OutputInv(g)
<1>1. Held(r, {}) /\ Reported(r) /\ ~In(r.selection, fwd)
  BY DEF OutputInv
<1>2. Held(g, {})
  BY <1>1 DEF Held, InHand, Given, OthersSame
<1>3. Reported(g)
  BY <1>1 DEF Reported, Given, OthersSame
<1>4. ~In(g.selection, fwd)
  BY <1>1, PacketsAre DEF Given
<1> QED  BY <1>2, <1>3, <1>4 DEF OutputInv

LEMMA NotInHand ==
  ASSUME NEW r, OutputInv(r), NEW p \in Packets, ~Waits(r, p)
  PROVE  ~InHand(r, p) /\ ~In(r.selection, p) /\ ~In(r.sending, p)
BY DEF OutputInv, Held, InHand

LEMMA ClientKeeps ==
  ASSUME NEW r, OutputInv(r), NEW g \in Outputs, SameQueues(g, r), ClientInv(g),
         NEW p \in Packets, OthersSame(g, r, p), ~Waits(r, p), ~Waits(g, p),
         g.sent \ {p} = r.sent \ {p}, p \in g.sent <=> Succeeded(g, p)
  PROVE  OutputInv(g)
<1>1. StackInv(g)
  <2>1. Routes(g)
    BY RoutesKept DEF OutputInv, StackInv, SameQueues
  <2> QED  BY <2>1 DEF OutputInv, StackInv, Choosing, SameQueues
<1>2. Given(g, r, p)
  BY NotInHand DEF Given, SameQueues, InHand
<1> QED  BY <1>1, <1>2, ClientGives

(* Nothing that matters to a packet has changed.                           *)
LEMMA NothingHappens ==
  ASSUME NEW r, OutputInv(r), NEW g \in Outputs, SameQueues(g, r), ClientInv(g),
         g.inUse = r.inUse, g.action = r.action, IcmpSame(g, r),
         g.inProgress = r.inProgress, g.forwardingStatus = r.forwardingStatus,
         "forwarded" \in g.tasks <=> "forwarded" \in r.tasks, g.sent = r.sent
  PROVE  OutputInv(g)
<1>1. ASSUME NEW x \in Packets
      PROVE  (Waits(g, x) <=> Waits(r, x)) /\ (Succeeded(g, x) <=> Succeeded(r, x))
  BY DEF Waits, Succeeded, SocketOn, IcmpOn, ForwarderOn, IcmpSame
<1>2. Held(g, {}) /\ Reported(g) /\ ~In(g.selection, fwd)
  BY <1>1 DEF OutputInv, Held, InHand, Reported, SameQueues
<1>3. Routes(g)
  BY RoutesKept DEF OutputInv, StackInv, SameQueues
<1>4. StackInv(g)
  BY <1>3 DEF OutputInv, StackInv, Choosing, SameQueues
<1> QED  BY <1>2, <1>4 DEF OutputInv

-----------------------------------------------------------------------------
(* The sockets.                                                            *)

LEMMA AgainIs ==
  ASSUME NEW r, OutputInv(r), NEW s \in Sockets
  PROVE  OutputInv(Again(r, s))
<1> DEFINE n == (s + 1) % NumSockets
           h == [r EXCEPT !.currOut = n]
           g == post(h, "udp")
<1>1. n \in Sockets /\ r \in Outputs /\ "udp" \in Tasks
  BY ConstantsAre DEF OutputInv, Tasks
<1>2. Again(r, s) = g
  BY DEF Again
<1> HIDE DEF n
<1>3. /\ h \in Outputs /\ SameStack(h, r) /\ h.tasks = r.tasks
      /\ h.inUse = r.inUse /\ h.action = r.action /\ h.active = r.active
      /\ h.payloadIter = r.payloadIter /\ h.wrapped = r.wrapped
      /\ h.summing = r.summing /\ h.handlingStatus = r.handlingStatus
      /\ h.queued = r.queued /\ h.inProgress = r.inProgress
      /\ h.forwardingStatus = r.forwardingStatus
  BY ZenonT(60), <1>1 DEF Outputs, SameStack
<1> HIDE DEF h
<1>4. /\ g \in Outputs /\ g.tasks = h.tasks \cup {"udp"}
      /\ SameStack(g, h) /\ SameClients(g, h)
  BY <1>1, <1>3, Posts
<1> HIDE DEF g
<1>5. /\ SameQueues(g, r) /\ g.sent = r.sent
      /\ IcmpSame(g, r) /\ ForwarderSame(g, r)
      /\ g.inUse = r.inUse /\ g.action = r.action
  BY <1>3, <1>4 DEF SameStack, SameClients, SameQueues, IcmpSame, ForwarderSame
<1>6. ClientInv(g)
  <2>1. SocketsInv(g)
    BY <1>3, <1>4, <1>5 DEF OutputInv, ClientInv, SocketsInv
  <2>2. IcmpInv(g) /\ ForwarderInv(g)
    BY <1>5 DEF OutputInv, ClientInv, IcmpInv, ForwarderInv, IcmpSame, ForwarderSame
  <2> QED  BY <2>1, <2>2 DEF ClientInv
<1>7. OutputInv(g)
  BY <1>4, <1>5, <1>6, NothingHappens DEF ForwarderSame
<1> QED  BY <1>2, <1>7

LEMMA LeftIs ==
  ASSUME NEW r, OutputInv(r), NEW s \in Sockets, NEW n \in 0..MaxPieces
  PROVE  OutputInv([r EXCEPT !.left[s] = n])
<1> DEFINE f == [r.left EXCEPT ![s] = n]
           g == [r EXCEPT !.left = f]
<1>1. r \in Outputs /\ f \in [Sockets -> 0..MaxPieces]
  BY DEF OutputInv, Outputs
<1> HIDE DEF f
<1>2. g \in Outputs
  BY ZenonT(60), <1>1 DEF Outputs
<1>3. /\ SameQueues(g, r) /\ g.sent = r.sent /\ IcmpSame(g, r)
      /\ ForwarderSame(g, r) /\ SocketsSame(g, r)
  BY <1>1 DEF Outputs, SameQueues, IcmpSame, ForwarderSame, SocketsSame
<1> HIDE DEF g
<1>4. ClientInv(g)
  BY <1>3 DEF OutputInv, ClientInv, IcmpInv, ForwarderInv, SocketsInv,
              IcmpSame, ForwarderSame, SocketsSame
<1>5. OutputInv(g)
  BY <1>2, <1>3, <1>4, NothingHappens DEF ForwarderSame, SocketsSame
<1> QED  BY <1>5 DEF g, f

(* A socket that works on its packet notes what it will do with it next.   *)
LEMMA DoesIs ==
  ASSUME NEW r \in Outputs, ClientInv(r), NEW s \in r.inUse,
         NEW a \in Actions, a = "WAITING" \/ "udp" \in r.tasks,
         NEW g, g = Does(r, s, a)
  PROVE  /\ g \in Outputs /\ SameStack(g, r) /\ SameQueues(g, r) /\ ClientInv(g)
         /\ OthersSame(g, r, PacketOf(s))
         /\ Waits(g, PacketOf(s)) <=> a = "WAITING"
         /\ Succeeded(g, PacketOf(s)) <=> a = "COMPLETE"
<1> DEFINE f == [r.action EXCEPT ![s] = a]
<1>1. s \in Sockets /\ r.action \in [Sockets -> Actions] /\ r.inUse \subseteq Sockets
  BY Typing
<1>2. f \in [Sockets -> Actions] /\ f[s] = a /\ \A t \in Sockets \ {s} : f[t] = r.action[t]
  BY <1>1
<1>3. g = [r EXCEPT !.action = f]
  BY DEF Does
<1> HIDE DEF f
<1>4. g \in Outputs
  <2>1. f \in [Sockets -> Actions]
    BY <1>2
  <2>2. [r EXCEPT !.action = f] \in Outputs
    BY ZenonT(60), <2>1 DEF Outputs
  <2> QED  BY <1>3, <2>2
<1>5. /\ SameStack(g, r) /\ SameQueues(g, r) /\ g.tasks = r.tasks
      /\ IcmpSame(g, r) /\ ForwarderSame(g, r)
      /\ g.inUse = r.inUse /\ g.action = f
  BY <1>3 DEF Outputs, SameStack, SameQueues, IcmpSame, ForwarderSame
<1>6. OtherSockets(g, r, s)
  BY <1>2, <1>5 DEF OtherSockets
<1>7. OthersSame(g, r, PacketOf(s)) /\ IcmpInv(g) /\ ForwarderInv(g)
  BY <1>1, <1>4, <1>5, <1>6, SocketAlone
<1>8. SocketsInv(g)
  BY <1>1, <1>2, <1>5 DEF ClientInv, SocketsInv
<1>9. /\ Waits(g, PacketOf(s)) <=> a = "WAITING"
      /\ Succeeded(g, PacketOf(s)) <=> a = "COMPLETE"
  BY <1>1, <1>2, <1>4, <1>5, WaitsOf, SucceededOf DEF SocketOn
<1> QED  BY <1>4, <1>5, <1>7, <1>8, <1>9 DEF ClientInv

(* s works on its packet, and has not been told how it ended.              *)
LEMMA WorkerKeeps ==
  ASSUME NEW r, OutputInv(r), NEW s \in r.inUse, r.action[s] \notin {"WAITING", "COMPLETE"},
         NEW a \in Actions, a \notin {"WAITING", "COMPLETE"}
  PROVE  OutputInv(Does(r, s, a))
<1> DEFINE g == Does(r, s, a)
           p == PacketOf(s)
<1>1. r \in Outputs /\ ClientInv(r) /\ s \in Sockets /\ p \in Packets /\ "udp" \in r.tasks
  BY PacketsAre DEF OutputInv, ClientInv, SocketsInv, Outputs
<1>2. ~Waits(r, p) /\ ~Succeeded(r, p)
  BY <1>1, WaitsOf, SucceededOf DEF SocketOn
<1>3. p \notin r.sent
  BY <1>1, <1>2 DEF OutputInv, Reported
<1>4. /\ g \in Outputs /\ SameStack(g, r) /\ SameQueues(g, r) /\ ClientInv(g)
      /\ OthersSame(g, r, p) /\ ~Waits(g, p) /\ ~Succeeded(g, p)
  BY <1>1, DoesIs
<1> HIDE DEF g, p
<1>5. g.sent = r.sent
  BY <1>4 DEF SameStack
<1>6. OutputInv(g)
  BY <1>1, <1>2, <1>3, <1>4, <1>5, ClientKeeps
<1> QED  BY <1>6 DEF g

LEMMA SelectionIs ==
  ASSUME NEW r, OutputInv(r), NEW s \in r.inUse, r.action[s] \notin {"WAITING", "COMPLETE"},
         NEW i \in Chosen
  PROVE  OutputInv(startAddressSelection(r, s, i))
<1> DEFINE p == PacketOf(s)
           h == StartSelecting(r, p, i)
           g == Does(h, s, "WAITING")
<1>1. /\ r \in Outputs /\ ClientInv(r) /\ s \in Sockets /\ p \in Packets
      /\ "udp" \in r.tasks /\ p # fwd /\ StackInv(r)
  BY PacketsAre DEF OutputInv, ClientInv, SocketsInv, Outputs
<1>2. ~Waits(r, p) /\ ~Succeeded(r, p)
  BY <1>1, WaitsOf, SucceededOf DEF SocketOn
<1>3. p \notin r.sent /\ ~In(r.selection, p) /\ ~In(r.sending, p)
  <2>1. p \notin r.sent
    BY <1>1, <1>2 DEF OutputInv, Reported
  <2> HIDE DEF p
  <2> QED  BY <1>1, <1>2, <2>1, NotInHand
<1>4. "WAITING" \in Actions /\ "TERMINATE" \in Actions
  BY DEF Actions
<1>5. CASE ~Selects(r, p, i)
  <2>1. startAddressSelection(r, s, i) = Does(r, s, "TERMINATE")
    BY <1>5 DEF startAddressSelection
  <2> QED  BY <1>4, <2>1, WorkerKeeps
<1>6. CASE Selects(r, p, i)
  <2>1. startAddressSelection(r, s, i) = g
    BY <1>6 DEF startAddressSelection
  <2> HIDE DEF p
  <2>2. /\ h \in Outputs /\ StackInv(h) /\ SameClients(h, r)
        /\ h.tasks = r.tasks /\ h.sent = r.sent /\ h.sending = r.sending
        /\ \A x \in Packets : In(h.selection, x) <=> In(r.selection, x) \/ x = p
    BY <1>1, <1>3, <1>6, StartSelectingIs
  <2> HIDE DEF h
  <2>3. /\ ClientInv(h)
        /\ \A x \in Packets : /\ Waits(h, x) <=> Waits(r, x)
                              /\ Succeeded(h, x) <=> Succeeded(r, x)
    BY <1>1, <2>2, ClientsKept
  <2>4. s \in h.inUse
    BY <2>2 DEF SameClients
  <2>5. /\ g \in Outputs /\ SameStack(g, h) /\ SameQueues(g, h) /\ ClientInv(g)
        /\ OthersSame(g, h, p) /\ Waits(g, p) /\ ~Succeeded(g, p)
    BY <1>4, <2>2, <2>3, <2>4, DoesIs DEF p
  <2> HIDE DEF g
  <2>6. StackInv(g)
    <3>1. Routes(g)
      BY <2>2, <2>5, RoutesKept DEF StackInv, SameQueues
    <3> QED  BY <2>2, <2>5, <3>1 DEF StackInv, Choosing, SameQueues
  <2>7. /\ g.sent = r.sent /\ g.sending = r.sending
        /\ \A x \in Packets : In(g.selection, x) <=> In(r.selection, x) \/ x = p
    BY <2>2, <2>5 DEF SameStack
  <2>8. OthersSame(g, r, p)
    BY <2>3, <2>5 DEF OthersSame
  <2>9. Given(g, r, p)
    BY <1>1, <1>3, <2>5, <2>7, <2>8 DEF Given, InHand
  <2>10. OutputInv(g)
    BY <1>1, <2>5, <2>6, <2>9, ClientGives
  <2> QED  BY <2>1, <2>10
<1> QED  BY <1>5, <1>6

LEMMA RoutingStartsIs ==
  ASSUME NEW r, OutputInv(r), NEW s \in r.inUse, r.action[s] \notin {"WAITING", "COMPLETE"}
  PROVE  OutputInv(startPacketRouting(r, s))
<1> DEFINE p == PacketOf(s)
           h == StartSending(r, p)
           a == IF Sends(r, p) THEN "WAITING" ELSE "TERMINATE"
           g == Does(h, s, a)
<1>1. /\ r \in Outputs /\ ClientInv(r) /\ s \in Sockets /\ p \in Packets
      /\ "udp" \in r.tasks /\ p # fwd /\ StackInv(r)
  BY PacketsAre DEF OutputInv, ClientInv, SocketsInv, Outputs
<1>2. ~Waits(r, p) /\ ~Succeeded(r, p)
  BY <1>1, WaitsOf, SucceededOf DEF SocketOn
<1>3. p \notin r.sent /\ ~In(r.selection, p) /\ ~In(r.sending, p)
  <2>1. p \notin r.sent
    BY <1>1, <1>2 DEF OutputInv, Reported
  <2> HIDE DEF p
  <2> QED  BY <1>1, <1>2, <2>1, NotInHand
<1>4. a \in Actions /\ a # "COMPLETE" /\ (a = "WAITING" <=> Sends(r, p))
  BY DEF Actions
<1>5. startPacketRouting(r, s) = g
  BY DEF startPacketRouting
<1> HIDE DEF p, a
<1>6. /\ h \in Outputs /\ StackInv(h) /\ SameClients(h, r)
      /\ \A t : t # "route" => (t \in h.tasks <=> t \in r.tasks)
      /\ h.sent = r.sent /\ h.selection = r.selection
      /\ \A x \in Packets : In(h.sending, x) <=>
           In(r.sending, x) \/ (x = p /\ Sends(r, p))
  BY <1>1, <1>3, StartSendingIs
<1> HIDE DEF h
<1>7. /\ ClientInv(h)
      /\ \A x \in Packets : /\ Waits(h, x) <=> Waits(r, x)
                            /\ Succeeded(h, x) <=> Succeeded(r, x)
  BY <1>1, <1>6, ClientsKept
<1>8. s \in h.inUse /\ "udp" \in h.tasks
  BY <1>1, <1>6 DEF SameClients
<1>9. /\ g \in Outputs /\ SameStack(g, h) /\ SameQueues(g, h) /\ ClientInv(g)
      /\ OthersSame(g, h, p) /\ (Waits(g, p) <=> Sends(r, p)) /\ ~Succeeded(g, p)
  BY <1>4, <1>6, <1>7, <1>8, DoesIs DEF p
<1> HIDE DEF g
<1>10. StackInv(g)
  <2>1. Routes(g)
    BY <1>6, <1>9, RoutesKept DEF StackInv, SameQueues
  <2> QED  BY <1>6, <1>9, <2>1 DEF StackInv, Choosing, SameQueues
<1>11. /\ g.sent = r.sent /\ g.selection = r.selection
       /\ \A x \in Packets : In(g.sending, x) <=>
            In(r.sending, x) \/ (x = p /\ Sends(r, p))
  BY <1>6, <1>9 DEF SameStack
<1>12. OthersSame(g, r, p)
  BY <1>7, <1>9 DEF OthersSame
<1>13. Given(g, r, p)
  BY <1>1, <1>3, <1>9, <1>11, <1>12 DEF Given, InHand
<1>14. OutputInv(g)
  BY <1>1, <1>9, <1>10, <1>13, ClientGives
<1> QED  BY <1>5, <1>14

LEMMA ForgottenIs ==
  ASSUME NEW r \in Outputs, NEW p \in Packets, NEW g, g = Forgotten(r, p)
  PROVE  /\ g \in Outputs /\ SameClients(g, r) /\ g.tasks = r.tasks
         /\ SameQueues(g, r) /\ g.sent = r.sent \ {p} /\ g.node = r.node
<1> DEFINE f == [r.ifaceId EXCEPT ![p] = 0]
           A == r.assigned \ {p}
           S == r.sent \ {p}
<1>1. f \in [Packets -> 0..NumInterfaces] /\ A \subseteq Packets /\ S \subseteq Packets
  <2>1. 0 \in 0..NumInterfaces
    BY ConstantsAre
  <2> QED  BY <2>1 DEF Outputs
<1>2. g = [r EXCEPT !.assigned = A, !.sent = S, !.ifaceId = f]
  BY DEF Forgotten
<1> HIDE DEF f, A, S
<1>3. g \in Outputs
  <2>1. [r EXCEPT !.assigned = A, !.sent = S, !.ifaceId = f] \in Outputs
    BY ZenonT(60), <1>1 DEF Outputs
  <2> QED  BY <1>2, <2>1
<1>4. /\ SameClients(g, r) /\ g.tasks = r.tasks /\ SameQueues(g, r) /\ g.sent = S
      /\ g.node = r.node
  BY <1>2 DEF Outputs, SameClients, SameQueues
<1> QED  BY <1>3, <1>4 DEF S

LEMMA HandlingEndsIs ==
  ASSUME NEW r, OutputInv(r), NEW s \in r.inUse, r.action[s] # "WAITING"
  PROVE  OutputInv(finishHandling(r, s))
<1> DEFINE p == PacketOf(s)
           I == r.inUse \ {s}
           L == [r.left EXCEPT ![s] = 0]
           h == [r EXCEPT !.inUse = I, !.left = L]
           e == Forgotten(h, p)
           f == [e.action EXCEPT ![s] = "WAITING"]
           g == [e EXCEPT !.action = f]
<1>1. /\ r \in Outputs /\ ClientInv(r) /\ s \in Sockets /\ p \in Packets
  BY PacketsAre DEF OutputInv, Outputs
<1>2. ~Waits(r, p)
  BY <1>1, WaitsOf DEF SocketOn
<1>3. finishHandling(r, s) = g
  BY DEF finishHandling, Does
<1>4. I \subseteq Sockets /\ L \in [Sockets -> 0..MaxPieces] /\ s \notin I /\ I = r.inUse \ {s}
  <2>1. 0 \in 0..MaxPieces
    BY ConstantsAre
  <2> QED  BY <1>1, <2>1 DEF Outputs
<1> HIDE DEF L, I
<1>5. /\ h \in Outputs /\ SameQueues(h, r) /\ h.sent = r.sent
      /\ IcmpSame(h, r) /\ ForwarderSame(h, r) /\ h.tasks = r.tasks
      /\ h.inUse = I /\ h.action = r.action
  <2>1. h \in Outputs
    BY ZenonT(120), <1>1, <1>4 DEF Outputs
  <2> QED  BY ZenonT(120), <1>1, <2>1 DEF Outputs, SameQueues, IcmpSame, ForwarderSame
<1> HIDE DEF h
<1>6. /\ e \in Outputs /\ SameClients(e, h) /\ e.tasks = h.tasks
      /\ SameQueues(e, h) /\ e.sent = h.sent \ {p}
  BY <1>1, <1>5, ForgottenIs
<1> HIDE DEF e
<1>7. /\ f \in [Sockets -> Actions] /\ f[s] = "WAITING"
      /\ \A t \in Sockets \ {s} : f[t] = r.action[t]
  <2>1. e.action \in [Sockets -> Actions] /\ e.action = r.action
    BY <1>5, <1>6, Typing DEF SameClients
  <2>2. "WAITING" \in Actions
    BY DEF Actions
  <2> QED  BY <1>1, <2>1, <2>2
<1> HIDE DEF f
<1>8. /\ g \in Outputs /\ SameQueues(g, e) /\ g.sent = e.sent
      /\ IcmpSame(g, e) /\ ForwarderSame(g, e) /\ g.tasks = e.tasks
      /\ g.inUse = e.inUse /\ g.action = f
  <2>1. g \in Outputs
    BY ZenonT(60), <1>6, <1>7 DEF Outputs
  <2> QED  BY ZenonT(120), <1>6, <2>1 DEF Outputs, SameQueues, IcmpSame, ForwarderSame
<1> HIDE DEF g
<1>9. /\ SameQueues(g, r) /\ g.sent = r.sent \ {p} /\ g.tasks = r.tasks
      /\ IcmpSame(g, r) /\ ForwarderSame(g, r) /\ g.inUse = I
  BY <1>5, <1>6, <1>8 DEF SameQueues, IcmpSame, ForwarderSame, SameClients
<1>10. OtherSockets(g, r, s)
  BY <1>4, <1>7, <1>8, <1>9 DEF OtherSockets
<1>11. OthersSame(g, r, p) /\ IcmpInv(g) /\ ForwarderInv(g)
  BY <1>1, <1>8, <1>9, <1>10, SocketAlone
<1>12. SocketsInv(g)
  BY <1>1, <1>4, <1>7, <1>8, <1>9 DEF ClientInv, SocketsInv
<1>13. ~Waits(g, p) /\ ~Succeeded(g, p)
  BY <1>1, <1>4, <1>8, <1>9, WaitsOf, SucceededOf DEF SocketOn
<1> HIDE DEF p
<1>14. g.sent \ {p} = r.sent \ {p} /\ p \notin g.sent
  BY <1>9
<1>15. OutputInv(g)
  BY <1>1, <1>2, <1>8, <1>9, <1>11, <1>12, <1>13, <1>14, ClientKeeps DEF ClientInv
<1> QED  BY <1>3, <1>15

LEMMA SocketSendsIs ==
  ASSUME OutputInv(ip), NEW s \in Sockets, SocketSends(s)
  PROVE  OutputInv(ip')
<1> DEFINE p == PacketOf(s)
           I == ip.inUse \cup {s}
           f == [ip.action EXCEPT ![s] = "START"]
           h == [ip EXCEPT !.inUse = I, !.action = f]
           g == post(h, "udp")
<1>1. /\ ip \in Outputs /\ ClientInv(ip) /\ p \in Packets /\ s \notin ip.inUse
      /\ ip' = g /\ "udp" \in Tasks
  BY PacketsAre DEF OutputInv, SocketSends, Tasks
<1>2. /\ f \in [Sockets -> Actions] /\ f[s] = "START"
      /\ \A t \in Sockets \ {s} : f[t] = ip.action[t]
      /\ I \subseteq Sockets /\ I = ip.inUse \cup {s}
  BY <1>1, Typing DEF Actions
<1> HIDE DEF f, I
<1>3. /\ h \in Outputs /\ SameStack(h, ip) /\ h.tasks = ip.tasks
      /\ IcmpSame(h, ip) /\ ForwarderSame(h, ip) /\ h.inUse = I /\ h.action = f
  <2>1. h \in Outputs
    BY ZenonT(120), <1>1, <1>2 DEF Outputs
  <2> QED  BY ZenonT(120), <1>1, <2>1 DEF Outputs, SameStack, IcmpSame, ForwarderSame
<1> HIDE DEF h
<1>4. /\ g \in Outputs /\ g.tasks = h.tasks \cup {"udp"}
      /\ SameStack(g, h) /\ SameClients(g, h)
  BY <1>1, <1>3, Posts
<1> HIDE DEF g
<1>5. /\ SameQueues(g, ip) /\ g.sent = ip.sent /\ "udp" \in g.tasks
      /\ IcmpSame(g, ip) /\ ForwarderSame(g, ip) /\ g.inUse = I /\ g.action = f
  BY <1>3, <1>4 DEF SameStack, SameClients, SameQueues, IcmpSame, ForwarderSame
<1>6. OtherSockets(g, ip, s)
  BY <1>2, <1>5 DEF OtherSockets
<1>7. OthersSame(g, ip, p) /\ IcmpInv(g) /\ ForwarderInv(g)
  BY <1>1, <1>4, <1>5, <1>6, SocketAlone
<1>8. SocketsInv(g)
  BY <1>1, <1>2, <1>5 DEF ClientInv, SocketsInv
<1>9. /\ ~Waits(g, p) /\ ~Succeeded(g, p) /\ ~Waits(ip, p) /\ ~Succeeded(ip, p)
  BY <1>1, <1>2, <1>4, <1>5, WaitsOf, SucceededOf DEF SocketOn
<1> HIDE DEF p
<1>10. g.sent \ {p} = ip.sent \ {p} /\ p \notin g.sent
  BY <1>1, <1>5, <1>9 DEF OutputInv, Reported
<1>11. OutputInv(g)
  BY <1>1, <1>4, <1>5, <1>7, <1>8, <1>9, <1>10, ClientKeeps DEF ClientInv
<1> QED  BY <1>1, <1>11

LEMMA UdpIdleIs ==
  ASSUME OutputInv(ip), UdpIdle
  PROVE  OutputInv(ip')
<1> DEFINE g == [ip EXCEPT !.tasks = @ \ {"udp"}]
<1>1. ip \in Outputs /\ ClientInv(ip) /\ ip' = g
  BY DEF OutputInv, UdpIdle
<1>2. \A s \in ip.inUse : ip.action[s] = "WAITING"
  BY DEF UdpIdle, WithWork
<1>3. /\ SameQueues(g, ip) /\ g.sent = ip.sent /\ IcmpSame(g, ip)
      /\ ForwarderSame(g, ip) /\ g.inUse = ip.inUse /\ g.action = ip.action
  BY <1>1 DEF Outputs, SameQueues, IcmpSame, ForwarderSame
<1>4. g \in Outputs
  <2>1. ip.tasks \ {"udp"} \subseteq Tasks
    BY <1>1, Typing
  <2> QED  BY ZenonT(60), <1>1, <2>1 DEF Outputs
<1> HIDE DEF g
<1>5. ClientInv(g)
  <2>1. SocketsInv(g)
    BY <1>1, <1>2, <1>3 DEF ClientInv, SocketsInv
  <2>2. IcmpInv(g) /\ ForwarderInv(g)
    BY <1>1, <1>3 DEF ClientInv, IcmpInv, ForwarderInv, IcmpSame, ForwarderSame
  <2> QED  BY <2>1, <2>2 DEF ClientInv
<1>6. OutputInv(g)
  BY <1>3, <1>4, <1>5, NothingHappens DEF ForwarderSame
<1> QED  BY <1>1, <1>6

LEMMA UdpRunsIs ==
  ASSUME OutputInv(ip), UdpRuns
  PROVE  OutputInv(ip')
<1>1. CASE UdpIdle
  BY <1>1, UdpIdleIs
<1>2. ASSUME NEW s \in Sockets, NEW stage, UdpTask(s, stage)
      PROVE  s \in ip.inUse /\ ip.action[s] = stage
  BY <1>2 DEF UdpTask, OnTurn, WithWork
<1>3. \A n \in 1..MaxPieces : n \in 0..MaxPieces
  BY ConstantsAre
<1>4. "CHECKSUM" \in Actions /\ "TERMINATE" \in Actions
  BY DEF Actions
<1>5. ASSUME NEW s \in ip.inUse, ip.action[s] \notin {"WAITING", "COMPLETE"},
             NEW n \in 1..MaxPieces
      PROVE  OutputInv(initChecksum(ip, s, n))
  <2>1. OutputInv(Does(ip, s, "CHECKSUM")) /\ s \in Sockets
    BY ZenonT(60), <1>4, <1>5, WorkerKeeps DEF OutputInv, Outputs
  <2> QED  BY <1>3, <2>1, LeftIs DEF initChecksum
<1>6. ASSUME NEW s \in Sockets, UdpStart(s) PROVE OutputInv(ip')
  <2>1. s \in ip.inUse /\ ip.action[s] = "START"
    BY <1>2, <1>6 DEF UdpStart
  <2>2. ASSUME NEW i \in Chosen, ip' = Again(startAddressSelection(ip, s, i), s)
        PROVE  OutputInv(ip')
    <3>1. OutputInv(startAddressSelection(ip, s, i))
      BY <2>1, SelectionIs
    <3> QED  BY <2>2, <3>1, AgainIs
  <2>3. ASSUME NEW n \in 1..MaxPieces, ip' = Again(initChecksum(ip, s, n), s)
        PROVE  OutputInv(ip')
    <3>1. OutputInv(initChecksum(ip, s, n))
      BY <1>5, <2>1
    <3> QED  BY <2>3, <3>1, AgainIs
  <2> QED  BY <1>6, <2>2, <2>3 DEF UdpStart
<1>7. ASSUME NEW s \in Sockets, UdpStartChecksum(s) PROVE OutputInv(ip')
  <2>1. s \in ip.inUse /\ ip.action[s] = "START_CHECKSUM"
    BY <1>2, <1>7 DEF UdpStartChecksum
  <2>2. PICK n \in 1..MaxPieces : ip' = Again(initChecksum(ip, s, n), s)
    BY <1>7 DEF UdpStartChecksum
  <2>3. OutputInv(initChecksum(ip, s, n))
    BY <1>5, <2>1
  <2> QED  BY <2>2, <2>3, AgainIs
<1>8. ASSUME NEW s \in Sockets, UdpChecksum(s) PROVE OutputInv(ip')
  <2>1. s \in ip.inUse /\ ip.action[s] = "CHECKSUM"
    BY <1>2, <1>8 DEF UdpChecksum
  <2>2. ASSUME ip.left[s] > 0, NEW whole \in BOOLEAN,
               ip' = Again(contChecksum(ip, s, whole), s)
        PROVE  OutputInv(ip')
    <3>1. CASE whole
      <4>1. ip.left[s] - 1 \in 0..MaxPieces
        <5>1. ip.left[s] \in 0..MaxPieces
          BY DEF OutputInv, Outputs
        <5> QED  BY <2>2, <5>1, ConstantsAre
      <4>2. contChecksum(ip, s, whole) = [ip EXCEPT !.left[s] = ip.left[s] - 1]
        BY <3>1 DEF contChecksum
      <4>3. OutputInv(contChecksum(ip, s, whole))
        BY <4>1, <4>2, LeftIs
      <4> QED  BY <2>2, <4>3, AgainIs
    <3>2. CASE ~whole
      <4>1. OutputInv(Does(ip, s, "TERMINATE"))
        BY <1>4, <2>1, WorkerKeeps
      <4>2. contChecksum(ip, s, whole) = Does(ip, s, "TERMINATE")
        BY <3>2 DEF contChecksum
      <4> QED  BY <2>2, <4>1, <4>2, AgainIs
    <3> QED  BY <3>1, <3>2
  <2>3. ASSUME ip' = Again(startPacketRouting(ip, s), s) PROVE OutputInv(ip')
    <3>1. OutputInv(startPacketRouting(ip, s))
      BY <2>1, RoutingStartsIs
    <3> QED  BY <2>3, <3>1, AgainIs
  <2> QED  BY <1>8, <2>2, <2>3 DEF UdpChecksum
<1>9. ASSUME NEW s \in Sockets, UdpFinish(s) PROVE OutputInv(ip')
  <2>1. s \in ip.inUse /\ ip.action[s] # "WAITING"
    BY <1>2, <1>9 DEF UdpFinish
  <2>2. OutputInv(finishHandling(ip, s))
    BY <2>1, HandlingEndsIs
  <2> QED  BY <1>9, <2>2, AgainIs DEF UdpFinish
<1> QED  BY <1>1, <1>6, <1>7, <1>8, <1>9 DEF UdpRuns

-----------------------------------------------------------------------------
(* ICMPv6.                                                                 *)

(* The clients whose messages wait are queued, each once.                  *)
Queued(active, clients) ==
  /\ \A m, n \in 1..Len(active) : active[m] = active[n] => m = n
  /\ \A c \in IcmpClients : c \in clients <=> \E n \in 1..Len(active) : active[n] = c

LEMMA QueuedAppend ==
  ASSUME NEW a \in Seq(IcmpClients), NEW cs \in SUBSET IcmpClients, Queued(a, cs),
         NEW c \in IcmpClients, c \notin cs
  PROVE  /\ Append(a, c) \in Seq(IcmpClients) /\ Append(a, c) # << >>
         /\ Queued(Append(a, c), cs \cup {c})
<1> DEFINE t == Append(a, c)
<1>1. /\ t \in Seq(IcmpClients) /\ t # << >> /\ Len(a) \in Nat
      /\ Len(t) = Len(a) + 1 /\ \A n \in 1..Len(a) : t[n] = a[n]
      /\ t[Len(a) + 1] = c
  BY Appended
<1> HIDE DEF t
<1>2. 1..Len(t) = 1..Len(a) \cup {Len(a) + 1}
  BY <1>1
<1>3. \A n \in 1..Len(a) : a[n] # c
  BY DEF Queued
<1>4. \A m, n \in 1..Len(t) : t[m] = t[n] => m = n
  BY <1>1, <1>2, <1>3 DEF Queued
<1>5. \A x \in IcmpClients : x \in cs \cup {c} <=> \E n \in 1..Len(t) : t[n] = x
  BY <1>1, <1>2 DEF Queued
<1> QED  BY <1>1, <1>4, <1>5 DEF Queued, t

LEMMA QueuedTail ==
  ASSUME NEW a \in Seq(IcmpClients), NEW cs \in SUBSET IcmpClients, Queued(a, cs),
         a # << >>
  PROVE  Tail(a) \in Seq(IcmpClients) /\ Queued(Tail(a), cs \ {Head(a)})
<1> DEFINE t == Tail(a)
<1>1. /\ t \in Seq(IcmpClients) /\ Len(a) \in Nat /\ Len(a) >= 1
      /\ Len(t) = Len(a) - 1 /\ \A n \in 1..(Len(a) - 1) : t[n] = a[n + 1]
      /\ Head(a) = a[1]
  BY Tails
<1> HIDE DEF t
<1>2. \A n \in 1..Len(t) : n + 1 \in 1..Len(a) /\ t[n] = a[n + 1] /\ n + 1 # 1
  BY <1>1
<1>3. \A m, n \in 1..Len(t) : t[m] = t[n] => m = n
  <2> SUFFICES ASSUME NEW m \in 1..Len(t), NEW n \in 1..Len(t), t[m] = t[n]
               PROVE  m = n
    OBVIOUS
  <2>1. m + 1 = n + 1
    BY <1>2 DEF Queued
  <2> QED  BY <2>1
<1>4. 1 \in 1..Len(a)
  BY <1>1
<1>5. ASSUME NEW x \in IcmpClients
      PROVE  x \in cs \ {Head(a)} <=> \E n \in 1..Len(t) : t[n] = x
  <2>1. ASSUME NEW n \in 1..Len(t), t[n] = x PROVE x \in cs \ {Head(a)}
    <3>1. n + 1 \in 1..Len(a) /\ a[n + 1] = x /\ n + 1 # 1
      BY <1>2, <2>1
    <3>2. x \in cs
      BY <3>1 DEF Queued
    <3>3. a[1] # x
      BY <1>4, <3>1 DEF Queued
    <3> QED  BY <1>1, <3>2, <3>3
  <2>2. ASSUME x \in cs, x # Head(a) PROVE \E n \in 1..Len(t) : t[n] = x
    <3>1. PICK m \in 1..Len(a) : a[m] = x
      BY <2>2 DEF Queued
    <3>2. m # 1
      BY <1>1, <2>2, <3>1
    <3>3. m - 1 \in 1..Len(t) /\ (m - 1) + 1 = m
      BY <1>1, <3>2
    <3>4. t[m - 1] = x
      BY <1>2, <3>1, <3>3
    <3> QED  BY <3>3, <3>4
  <2> QED  BY <2>1, <2>2
<1> QED  BY <1>1, <1>3, <1>5 DEF Queued, t

LEMMA QueuesKept ==
  ASSUME NEW r, StackInv(r), NEW g, SameQueues(g, r)
  PROVE  StackInv(g)
<1>1. Routes(g)
  BY RoutesKept DEF StackInv, SameQueues
<1> QED  BY <1>1 DEF StackInv, Choosing, SameQueues

LEMMA IcmpSendsIs ==
  ASSUME OutputInv(ip), NEW c \in IcmpClients, IcmpSends(c)
  PROVE  OutputInv(ip')
<1> DEFINE P == ip.payloadIter \cup {c}
           A == Append(ip.active, c)
           h == [ip EXCEPT !.payloadIter = P, !.active = A]
<1>1. /\ ip \in Outputs /\ ClientInv(ip) /\ StackInv(ip) /\ c \notin ip.payloadIter
      /\ Queued(ip.active, ip.payloadIter) /\ ip.active \in Seq(IcmpClients)
      /\ ip.payloadIter \subseteq IcmpClients
  BY Typing DEF OutputInv, ClientInv, IcmpInv, Queued, IcmpSends
<1>2. /\ ip.active = << >> => ip' = post(h, "icmp")
      /\ ip.active # << >> => ip' = h
  BY DEF IcmpSends, IcmpSendsAs
<1>3. A \in Seq(IcmpClients) /\ A # << >> /\ Queued(A, P) /\ P \subseteq IcmpClients
  BY <1>1, QueuedAppend
<1> HIDE DEF A, P
<1>4. /\ h \in Outputs /\ SameStack(h, ip) /\ h.tasks = ip.tasks
      /\ SocketsSame(h, ip) /\ ForwarderSame(h, ip) /\ h.payloadIter = P
      /\ h.active = A /\ h.wrapped = ip.wrapped /\ h.summing = ip.summing
      /\ h.handlingStatus = ip.handlingStatus
  <2>1. h \in Outputs
    BY ZenonT(60), <1>1, <1>3 DEF Outputs
  <2> QED  BY ZenonT(120), <1>1, <2>1 DEF Outputs, SameStack, SocketsSame, ForwarderSame
<1> HIDE DEF h
<1> DEFINE g == ip'
<1>5. /\ g \in Outputs /\ SameStack(g, ip) /\ SocketsSame(g, ip)
      /\ ForwarderSame(g, ip) /\ g.payloadIter = P
      /\ g.active = A /\ g.wrapped = ip.wrapped /\ g.summing = ip.summing
      /\ g.handlingStatus = ip.handlingStatus
      /\ g.tasks = ip.tasks \cup (IF ip.active = << >> THEN {"icmp"} ELSE {})
  <2>1. CASE ip.active # << >>
    BY <1>2, <1>4, <2>1
  <2>2. CASE ip.active = << >>
    <3>1. "icmp" \in Tasks
      BY DEF Tasks
    <3> DEFINE f == post(h, "icmp")
    <3>2. /\ f \in Outputs /\ f.tasks = h.tasks \cup {"icmp"}
          /\ SameStack(f, h) /\ SameClients(f, h)
      BY <1>4, <3>1, Posts
    <3> HIDE DEF f
    <3>3. g = f
      BY <1>2, <2>2 DEF f
    <3> HIDE DEF g
    <3> QED  BY <1>4, <2>2, <3>2, <3>3 DEF SameStack, SameClients, SocketsSame, ForwarderSame
  <2> QED  BY <2>1, <2>2
<1> HIDE DEF g
<1>6. SameQueues(g, ip) /\ g.sent = ip.sent
  BY <1>5 DEF SameStack, SameQueues
<1>7. OthersSame(g, ip, icmp) /\ SocketsInv(g) /\ ForwarderInv(g)
  BY <1>1, <1>5, IcmpAlone
<1>8. IcmpInv(g)
  BY <1>1, <1>3, <1>5 DEF ClientInv, IcmpInv, Queued
<1>9. (Waits(g, icmp) <=> Waits(ip, icmp)) /\ (Succeeded(g, icmp) <=> Succeeded(ip, icmp))
  BY <1>1, <1>3, <1>5, WaitsOf, SucceededOf DEF IcmpOn, ClientInv, IcmpInv
<1>10. icmp \in Packets /\ icmp # fwd
  BY PacketsAre
<1>11. StackInv(g)
  BY <1>1, <1>6, QueuesKept
<1>12. Given(g, ip, icmp)
  <2>1. icmp \in g.sent <=> Succeeded(g, icmp)
    BY <1>6, <1>9, <1>10 DEF OutputInv, Reported
  <2>2. /\ Waits(g, icmp) <=> InHand(g, icmp)
        /\ ~(In(g.selection, icmp) /\ In(g.sending, icmp))
    BY <1>6, <1>9, <1>10 DEF OutputInv, Held, InHand, SameQueues
  <2> QED  BY <1>6, <1>7, <1>10, <2>1, <2>2 DEF Given, SameQueues
<1>13. OutputInv(g)
  BY <1>5, <1>7, <1>8, <1>10, <1>11, <1>12, ClientGives DEF ClientInv
<1> QED  BY <1>13 DEF g

(* The task of ICMPv6 runs: what it does is with the first message.        *)
IcmpAt(h, r) ==
  /\ h \in Outputs /\ SameStack(h, r) /\ h.tasks = r.tasks \ {"icmp"}
  /\ SocketsSame(h, r) /\ ForwarderSame(h, r)
  /\ h.payloadIter = r.payloadIter /\ h.active = r.active
  /\ h.summing = r.summing

LEMMA FinishFirstIs ==
  ASSUME NEW r, OutputInv(r), "icmp" \in r.tasks, NEW h, IcmpAt(h, r)
  PROVE  OutputInv(FinishFirst(h))
<1> DEFINE e == Forgotten(h, icmp)
           A == Tail(e.active)
           P == e.payloadIter \ {Head(h.active)}
           d == [e EXCEPT !.active = A, !.wrapped = FALSE, !.payloadIter = P,
                          !.handlingStatus = "SUCCESS"]
           g == FinishFirst(h)
<1>1. /\ r \in Outputs /\ ClientInv(r) /\ r.active # << >> /\ ~r.summing
      /\ Queued(r.active, r.payloadIter) /\ r.active \in Seq(IcmpClients)
      /\ r.payloadIter \subseteq IcmpClients
  BY Typing DEF OutputInv, ClientInv, IcmpInv, Queued
<1>2. icmp \in Packets /\ h \in Outputs
  BY PacketsAre DEF IcmpAt
<1>3. /\ e \in Outputs /\ SameClients(e, h) /\ e.tasks = h.tasks
      /\ SameQueues(e, h) /\ e.sent = h.sent \ {icmp}
  BY <1>2, ForgottenIs
<1>4. g = IF A = << >> THEN d ELSE post(d, "icmp")
  <2>1. d.active = A
    <3> HIDE DEF A, P
    <3> QED  BY <1>3 DEF Outputs
  <2> DEFINE y == [e EXCEPT !.active = Tail(@), !.wrapped = FALSE,
                            !.payloadIter = @ \ {Head(h.active)},
                            !.handlingStatus = "SUCCESS"]
  <2>2. g = IF y.active = << >> THEN y ELSE post(y, "icmp")
    BY DEF FinishFirst
  <2>3. y = d
    OBVIOUS
  <2> HIDE DEF y, d, g, A
  <2> QED  BY <2>1, <2>2, <2>3
<1> HIDE DEF e
<1>5. /\ A \in Seq(IcmpClients) /\ P \subseteq IcmpClients /\ Queued(A, P)
  <2>1. e.active = r.active /\ e.payloadIter = r.payloadIter /\ h.active = r.active
    BY <1>3 DEF IcmpAt, SameClients
  <2> QED  BY <1>1, <2>1, QueuedTail
<1> HIDE DEF A, P
<1>6. /\ d \in Outputs /\ SameStack(d, e) /\ d.tasks = e.tasks
      /\ SocketsSame(d, e) /\ ForwarderSame(d, e) /\ d.payloadIter = P
      /\ d.active = A /\ ~d.wrapped /\ d.summing = e.summing
      /\ d.handlingStatus = "SUCCESS"
  <2>1. d \in Outputs
    BY ZenonT(120), <1>3, <1>5 DEF Outputs, Statuses
  <2> QED  BY ZenonT(120), <1>3, <2>1 DEF Outputs, SameStack, SocketsSame, ForwarderSame
<1> HIDE DEF d, g
<1>7. /\ g \in Outputs /\ SameStack(g, e) /\ SocketsSame(g, e)
      /\ ForwarderSame(g, e) /\ g.payloadIter = P
      /\ g.active = A /\ ~g.wrapped /\ g.summing = e.summing
      /\ g.tasks = e.tasks \cup (IF A = << >> THEN {} ELSE {"icmp"})
  <2>1. CASE A = << >>
    BY <1>4, <1>6, <2>1
  <2>2. CASE A # << >>
    <3>1. "icmp" \in Tasks
      BY DEF Tasks
    <3> DEFINE f == post(d, "icmp")
    <3>2. /\ f \in Outputs /\ f.tasks = d.tasks \cup {"icmp"}
          /\ SameStack(f, d) /\ SameClients(f, d)
      BY <1>6, <3>1, Posts
    <3> HIDE DEF f
    <3>3. g = f
      BY <1>4, <2>2 DEF f
    <3> QED  BY <1>6, <2>2, <3>2, <3>3 DEF SameStack, SameClients, SocketsSame, ForwarderSame
  <2> QED  BY <2>1, <2>2
<1>8. /\ SameQueues(g, r) /\ g.sent = r.sent \ {icmp} /\ ~g.summing
      /\ SocketsSame(g, r) /\ ForwarderSame(g, r)
      /\ "icmp" \in g.tasks <=> A # << >>
  <2>1. /\ SameQueues(g, r) /\ g.sent = r.sent \ {icmp} /\ ~g.summing
        /\ "icmp" \in g.tasks <=> A # << >>
    BY <1>1, <1>3, <1>7 DEF IcmpAt, SameStack, SameQueues, SameClients
  <2>2. SocketsSame(g, r) /\ ForwarderSame(g, r)
    BY <1>3, <1>7 DEF IcmpAt, SameClients, SocketsSame, ForwarderSame
  <2> QED  BY <2>1, <2>2
<1>9. OthersSame(g, r, icmp) /\ SocketsInv(g) /\ ForwarderInv(g)
  BY <1>1, <1>7, <1>8, IcmpAlone
<1>10. IcmpInv(g)
  BY <1>5, <1>7, <1>8 DEF IcmpInv, Queued
<1>11. ~Waits(g, icmp) /\ ~Succeeded(g, icmp) /\ ~Waits(r, icmp)
  BY <1>1, <1>7, WaitsOf, SucceededOf DEF IcmpOn
<1>12. g.sent \ {icmp} = r.sent \ {icmp} /\ icmp \notin g.sent
  BY <1>8
<1>13. OutputInv(g)
  BY <1>2, <1>7, <1>8, <1>9, <1>10, <1>11, <1>12, ClientKeeps DEF ClientInv
<1> QED  BY <1>13 DEF g

LEMMA IcmpStarts ==
  ASSUME OutputInv(ip), IcmpTask
  PROVE  /\ IcmpAt(IcmpRun, ip) /\ IcmpAt(IcmpWrapped, ip) /\ IcmpWrapped.wrapped
         /\ ip.active # << >> /\ ~ip.summing /\ ~Waits(ip, icmp)
         /\ ~ip.wrapped => ~Succeeded(ip, icmp)
<1>1. ip \in Outputs /\ ClientInv(ip) /\ "icmp" \in ip.tasks
  BY DEF OutputInv, IcmpTask
<1>2. IcmpRun \in Outputs /\ IcmpWrapped \in Outputs
  <2>1. ip.tasks \ {"icmp"} \subseteq Tasks
    BY <1>1, Typing
  <2>2. IcmpRun \in Outputs
    BY ZenonT(60), <1>1, <2>1 DEF Outputs, IcmpRun
  <2> QED  BY ZenonT(60), <2>2 DEF Outputs, IcmpWrapped
<1>3. IcmpAt(IcmpRun, ip)
  BY ZenonT(120), <1>1, <1>2 DEF IcmpAt, IcmpRun, Outputs, SameStack, SocketsSame, ForwarderSame
<1>4. IcmpAt(IcmpWrapped, ip) /\ IcmpWrapped.wrapped
  <2>1. /\ SameStack(IcmpWrapped, IcmpRun) /\ IcmpWrapped.tasks = IcmpRun.tasks
        /\ SocketsSame(IcmpWrapped, IcmpRun) /\ ForwarderSame(IcmpWrapped, IcmpRun)
        /\ IcmpWrapped.payloadIter = IcmpRun.payloadIter
        /\ IcmpWrapped.active = IcmpRun.active
        /\ IcmpWrapped.summing = IcmpRun.summing /\ IcmpWrapped.wrapped
    BY <1>2 DEF IcmpWrapped, Outputs, SameStack, SocketsSame, ForwarderSame
  <2> QED  BY <1>2, <1>3, <2>1 DEF IcmpAt, SameStack, SocketsSame, ForwarderSame
<1>5. ip.active # << >> /\ ~ip.summing
  BY <1>1 DEF ClientInv, IcmpInv
<1>6. ~Waits(ip, icmp) /\ (~ip.wrapped => ~Succeeded(ip, icmp))
  BY <1>1, WaitsOf, SucceededOf DEF IcmpOn
<1> QED  BY <1>3, <1>4, <1>5, <1>6

LEMMA IcmpRunsIs ==
  ASSUME OutputInv(ip), IcmpRuns
  PROVE  OutputInv(ip')
<1> DEFINE h == IcmpWrapped
<1>1. IcmpTask /\ "icmp" \in ip.tasks
  BY DEF IcmpRuns, IcmpFails, IcmpEnds, IcmpSelects, IcmpSumsAtOnce, IcmpTask
<1>2. /\ IcmpAt(IcmpRun, ip) /\ IcmpAt(h, ip) /\ h.wrapped
      /\ ip.active # << >> /\ ~ip.summing /\ ~Waits(ip, icmp)
      /\ ~ip.wrapped => ~Succeeded(ip, icmp)
  BY <1>1, IcmpStarts
<1>3. OutputInv(FinishFirst(IcmpRun)) /\ OutputInv(FinishFirst(h))
  BY <1>1, <1>2, FinishFirstIs
<1> HIDE DEF h
<1>4. icmp \in Packets /\ icmp # fwd
  BY PacketsAre
<1>5. /\ ip \in Outputs /\ ClientInv(ip) /\ StackInv(ip)
      /\ ~ip.wrapped => icmp \notin ip.sent
      /\ ~In(ip.selection, icmp) /\ ~In(ip.sending, icmp)
  BY <1>2, <1>4, NotInHand DEF OutputInv, Reported
<1>6. /\ h \in Outputs /\ StackInv(h) /\ h.sent = ip.sent
      /\ h.selection = ip.selection /\ h.sending = ip.sending
      /\ SameQueues(h, ip) /\ "icmp" \notin h.tasks
  <2>1. SameQueues(h, ip) /\ h \in Outputs /\ h.sent = ip.sent /\ "icmp" \notin h.tasks
    BY <1>2 DEF IcmpAt, SameStack, SameQueues
  <2> QED  BY <1>5, <2>1, QueuesKept DEF SameQueues
<1>7. ASSUME NEW i \in Chosen, IcmpSelects(i) PROVE OutputInv(ip')
  <2>1. CASE ~Selects(h, icmp, i)
    BY <1>3, <1>7, <2>1 DEF IcmpSelects, h
  <2>2. CASE Selects(h, icmp, i)
    <3> DEFINE g == StartSelecting(h, icmp, i)
    <3>1. ip' = g /\ ~ip.wrapped
      BY <1>7, <2>2 DEF IcmpSelects, h
    <3>2. ~In(h.selection, icmp)
      BY <1>5, <1>6
    <3>3. /\ g \in Outputs /\ StackInv(g) /\ SameClients(g, h)
          /\ g.tasks = h.tasks /\ g.sent = h.sent /\ g.sending = h.sending
          /\ \A x \in Packets : In(g.selection, x) <=> In(h.selection, x) \/ x = icmp
      BY <1>4, <1>6, <2>2, <3>2, StartSelectingIs
    <3> HIDE DEF g
    <3>4. /\ SocketsSame(g, ip) /\ ForwarderSame(g, ip)
          /\ g.payloadIter = ip.payloadIter /\ g.active = ip.active
          /\ ~g.summing /\ g.wrapped /\ "icmp" \notin g.tasks
      BY <1>2, <1>6, <3>3 DEF IcmpAt, SameClients, SocketsSame, ForwarderSame
    <3>5. OthersSame(g, ip, icmp) /\ SocketsInv(g) /\ ForwarderInv(g)
      BY <1>5, <3>3, <3>4, IcmpAlone
    <3>6. IcmpInv(g)
      BY <1>2, <1>5, <3>4 DEF ClientInv, IcmpInv
    <3>7. Waits(g, icmp) /\ ~Succeeded(g, icmp)
      BY <1>2, <3>3, <3>4, WaitsOf, SucceededOf DEF IcmpOn
    <3>8. Given(g, ip, icmp)
      BY <1>4, <1>5, <1>6, <3>1, <3>3, <3>5, <3>7 DEF Given, InHand
    <3>9. OutputInv(g)
      BY <1>4, <3>3, <3>5, <3>6, <3>8, ClientGives DEF ClientInv
    <3> QED  BY <3>1, <3>9
  <2> QED  BY <2>1, <2>2
<1>8. ASSUME IcmpSumsAtOnce(TRUE) PROVE OutputInv(ip')
  <2> DEFINE g == [h EXCEPT !.summing = TRUE]
  <2>1. ip' = g /\ ~ip.wrapped
    BY <1>8 DEF IcmpSumsAtOnce, IcmpSums, h
  <2>2. g \in Outputs
    BY ZenonT(60), <1>6 DEF Outputs
  <2>3. /\ SameStack(g, h) /\ SocketsSame(g, h) /\ ForwarderSame(g, h)
        /\ g.payloadIter = h.payloadIter /\ g.active = h.active
        /\ g.summing /\ g.wrapped = h.wrapped /\ g.tasks = h.tasks
    BY <1>6 DEF Outputs, SameStack, SocketsSame, ForwarderSame
  <2> HIDE DEF g
  <2>4. /\ SocketsSame(g, ip) /\ ForwarderSame(g, ip) /\ SameQueues(g, ip)
        /\ g.payloadIter = ip.payloadIter /\ g.active = ip.active
        /\ g.summing /\ g.wrapped /\ "icmp" \notin g.tasks /\ g.sent = ip.sent
    BY <1>2, <1>6, <2>3 DEF IcmpAt, SameStack, SameQueues, SocketsSame, ForwarderSame
  <2>5. OthersSame(g, ip, icmp) /\ SocketsInv(g) /\ ForwarderInv(g)
    BY <1>5, <2>2, <2>4, IcmpAlone
  <2>6. IcmpInv(g)
    BY <1>2, <1>5, <2>4 DEF ClientInv, IcmpInv
  <2>7. ~Waits(g, icmp) /\ ~Succeeded(g, icmp)
    BY <2>2, <2>4, WaitsOf, SucceededOf DEF IcmpOn
  <2>8. g.sent \ {icmp} = ip.sent \ {icmp} /\ icmp \notin g.sent
    BY <1>5, <2>1, <2>4
  <2>9. OutputInv(g)
    BY <1>2, <1>4, <2>2, <2>4, <2>5, <2>6, <2>7, <2>8, ClientKeeps DEF ClientInv
  <2> QED  BY <2>1, <2>9
<1>9. ASSUME IcmpSumsAtOnce(FALSE) PROVE OutputInv(ip')
  BY <1>3, <1>9 DEF IcmpSumsAtOnce, h
<1>10. CASE IcmpFails \/ IcmpEnds
  BY <1>3, <1>10 DEF IcmpFails, IcmpEnds
<1> QED  BY <1>7, <1>8, <1>9, <1>10 DEF IcmpRuns

LEMMA ChecksumDoneIs ==
  ASSUME OutputInv(ip), ChecksumDone
  PROVE  OutputInv(ip')
<1> DEFINE h == [ip EXCEPT !.summing = FALSE]
           e == StartSending(h, icmp)
           g == ip'
<1>1. /\ ip \in Outputs /\ ClientInv(ip) /\ StackInv(ip)
      /\ ip.summing /\ ip.wrapped /\ ip.active # << >> /\ "icmp" \notin ip.tasks
  BY DEF OutputInv, ChecksumDone, ClientInv, IcmpInv
<1>2. ~Waits(ip, icmp) /\ ~Succeeded(ip, icmp) /\ icmp \in Packets /\ icmp # fwd
  BY <1>1, WaitsOf, SucceededOf, PacketsAre DEF IcmpOn
<1>3. icmp \notin ip.sent /\ ~In(ip.selection, icmp) /\ ~In(ip.sending, icmp)
  BY <1>2, NotInHand DEF OutputInv, Reported
<1>4. g = IF Sends(h, icmp) THEN [e EXCEPT !.handlingStatus = "SUCCESS"]
          ELSE IcmpTold(e, {icmp}, "FAIL")
  BY DEF ChecksumDone
<1>5. h \in Outputs
  BY ZenonT(60), <1>1 DEF Outputs
<1>6. /\ SameStack(h, ip) /\ SocketsSame(h, ip) /\ ForwarderSame(h, ip)
      /\ h.payloadIter = ip.payloadIter /\ h.active = ip.active
      /\ ~h.summing /\ h.wrapped = ip.wrapped /\ h.tasks = ip.tasks
  BY ZenonT(60), <1>1 DEF Outputs, SameStack, SocketsSame, ForwarderSame
<1> HIDE DEF h
<1>7. StackInv(h) /\ ~In(h.sending, icmp)
  <2>1. SameQueues(h, ip)
    BY <1>6 DEF SameStack, SameQueues
  <2> QED  BY <1>1, <1>3, <2>1, QueuesKept DEF SameQueues
<1>8. /\ e \in Outputs /\ StackInv(e) /\ SameClients(e, h)
      /\ \A t : t # "route" => (t \in e.tasks <=> t \in h.tasks)
      /\ e.sent = h.sent /\ e.selection = h.selection
      /\ \A x \in Packets : In(e.sending, x) <=>
           In(h.sending, x) \/ (x = icmp /\ Sends(h, icmp))
  BY <1>2, <1>5, <1>7, StartSendingIs
<1> HIDE DEF e, g
<1>9. /\ SocketsSame(e, ip) /\ ForwarderSame(e, ip)
      /\ e.payloadIter = ip.payloadIter /\ e.active = ip.active
      /\ ~e.summing /\ e.wrapped /\ "icmp" \notin e.tasks
  BY <1>1, <1>6, <1>8 DEF SameClients, SocketsSame, ForwarderSame
<1>10. OthersSame(e, ip, icmp) /\ SocketsInv(e) /\ ForwarderInv(e)
  BY <1>1, <1>8, <1>9, IcmpAlone
<1>11. IcmpInv(e)
  BY <1>1, <1>9 DEF ClientInv, IcmpInv
<1>12. /\ e.sent = ip.sent /\ e.selection = ip.selection
       /\ \A x \in Packets : In(e.sending, x) <=>
            In(ip.sending, x) \/ (x = icmp /\ Sends(h, icmp))
  BY <1>6, <1>8 DEF SameStack
<1>13. CASE Sends(h, icmp)
  <2>1. g = [e EXCEPT !.handlingStatus = "SUCCESS"]
    BY <1>4, <1>13
  <2>2. [e EXCEPT !.handlingStatus = "SUCCESS"] \in Outputs
    BY ZenonT(60), <1>8 DEF Outputs, Statuses
  <2>3. g \in Outputs
    BY <2>1, <2>2
  <2>4. /\ SameStack(g, e) /\ SocketsSame(g, e) /\ ForwarderSame(g, e)
        /\ g.payloadIter = e.payloadIter /\ g.active = e.active
        /\ g.summing = e.summing /\ g.wrapped = e.wrapped /\ g.tasks = e.tasks
    BY <1>8, <2>1 DEF Outputs, SameStack, SocketsSame, ForwarderSame
  <2>5. OthersSame(g, e, icmp) /\ SocketsInv(g) /\ ForwarderInv(g)
    <3>1. OthersSame(g, e, icmp)
      BY <1>8, <2>3, <2>4, IcmpAlone
    <3>2. SocketsInv(g) /\ ForwarderInv(g)
      BY <1>10, <2>4 DEF SocketsInv, ForwarderInv, SocketsSame, ForwarderSame
    <3> QED  BY <3>1, <3>2
  <2>6. IcmpInv(g)
    BY <1>11, <2>4 DEF IcmpInv
  <2>7. Waits(g, icmp) /\ ~Succeeded(g, icmp)
    BY <1>1, <1>9, <2>3, <2>4, WaitsOf, SucceededOf DEF IcmpOn
  <2>8. OthersSame(g, ip, icmp)
    BY <1>10, <2>5 DEF OthersSame
  <2>9. StackInv(g)
    <3>1. SameQueues(g, e)
      BY <2>4 DEF SameStack, SameQueues
    <3> QED  BY <1>8, <3>1, QueuesKept
  <2>10. /\ g.sent = ip.sent /\ g.selection = ip.selection
         /\ \A x \in Packets : In(g.sending, x) <=> In(ip.sending, x) \/ x = icmp
    BY <1>12, <1>13, <2>4 DEF SameStack
  <2>11. Given(g, ip, icmp)
    BY <1>2, <1>3, <2>7, <2>8, <2>10 DEF Given, InHand
  <2>12. OutputInv(g)
    BY <1>2, <2>3, <2>5, <2>6, <2>9, <2>11, ClientGives DEF ClientInv
  <2> QED  BY <2>12 DEF g
<1>14. CASE ~Sends(h, icmp)
  <2>1. g = IcmpTold(e, {icmp}, "FAIL") /\ "FAIL" \in Statuses
        /\ {icmp} \in SUBSET Packets /\ {icmp} \cap {icmp} = {icmp}
    BY <1>2, <1>4, <1>14 DEF Statuses
  <2>2. ClientInv(e) /\ e.active # << >> /\ e.wrapped /\ ~e.summing
    BY <1>1, <1>9, <1>10, <1>11 DEF ClientInv
  <2>3. Told(g, e, {icmp}, "FAIL" = "SUCCESS")
    BY <1>8, <2>1, <2>2, IcmpToldIs
  <2>4. /\ g \in Outputs /\ ClientInv(g) /\ ~Waits(g, icmp) /\ ~Succeeded(g, icmp)
        /\ OthersSame(g, e, icmp)
    BY <1>2, <2>3 DEF Told, OthersSame
  <2>5. StackInv(g)
    BY <1>8, <2>3, ToldKeepsStack
  <2>6. OthersSame(g, ip, icmp)
    BY <1>10, <2>4 DEF OthersSame
  <2>7. /\ g.sent = ip.sent /\ g.selection = ip.selection
        /\ \A x \in Packets : In(g.sending, x) <=> In(ip.sending, x)
    BY <1>12, <1>14, <2>3 DEF Told, SameStack
  <2>8. Given(g, ip, icmp)
    BY <1>2, <1>3, <2>4, <2>6, <2>7 DEF Given, InHand
  <2>9. OutputInv(g)
    BY <1>2, <2>4, <2>5, <2>8, ClientGives
  <2> QED  BY <2>9 DEF g
<1> QED  BY <1>13, <1>14

-----------------------------------------------------------------------------
(* The forwarder.                                                          *)

LEMMA PacketReceivedIs ==
  ASSUME OutputInv(ip), NEW x \in Incoming, PacketReceived(x)
  PROVE  OutputInv(ip')
<1> DEFINE A == Append(ip.queued, x)
           h == [ip EXCEPT !.queued = A]
           g == ip'
<1>1. /\ ip \in Outputs /\ ClientInv(ip) /\ ip.queued \in Seq(Incoming)
      /\ Len(ip.queued) < ForwardedLength /\ ForwardedLength \in Nat
  BY Typing, ConstantsAre DEF OutputInv, PacketReceived
<1>2. g = IF ip.inProgress THEN h ELSE post(h, "forward")
  BY DEF PacketReceived
<1>3. A \in Seq(Incoming) /\ A # << >> /\ Len(A) <= ForwardedLength
  <2>1. A \in Seq(Incoming) /\ A # << >> /\ Len(A) = Len(ip.queued) + 1 /\ Len(ip.queued) \in Nat
    BY <1>1, Appended
  <2> QED  BY <1>1, <2>1
<1> HIDE DEF A, g
<1>4. /\ h \in Outputs /\ SameStack(h, ip) /\ SocketsSame(h, ip) /\ IcmpSame(h, ip)
      /\ h.queued = A /\ h.inProgress = ip.inProgress
      /\ h.forwardingStatus = ip.forwardingStatus /\ h.tasks = ip.tasks
  <2>1. h \in Outputs
    BY ZenonT(60), <1>1, <1>3 DEF Outputs
  <2> QED  BY ZenonT(120), <1>1, <2>1 DEF Outputs, SameStack, SocketsSame, IcmpSame
<1> HIDE DEF h
<1>5. /\ g \in Outputs /\ SameStack(g, ip) /\ SocketsSame(g, ip) /\ IcmpSame(g, ip)
      /\ g.queued = A /\ g.inProgress = ip.inProgress
      /\ g.forwardingStatus = ip.forwardingStatus
      /\ g.tasks = ip.tasks \cup (IF ip.inProgress THEN {} ELSE {"forward"})
  <2>1. CASE ip.inProgress
    BY <1>2, <1>4, <2>1
  <2>2. CASE ~ip.inProgress
    <3>1. "forward" \in Tasks
      BY DEF Tasks
    <3> DEFINE f == post(h, "forward")
    <3>2. /\ f \in Outputs /\ f.tasks = h.tasks \cup {"forward"}
          /\ SameStack(f, h) /\ SameClients(f, h)
      BY <1>4, <3>1, Posts
    <3> HIDE DEF f
    <3>3. g = f
      BY <1>2, <2>2 DEF f
    <3> QED  BY <1>4, <2>2, <3>2, <3>3 DEF SameStack, SameClients, SocketsSame, IcmpSame
  <2> QED  BY <2>1, <2>2
<1>6. SameQueues(g, ip) /\ g.sent = ip.sent
  BY <1>5 DEF SameStack, SameQueues
<1>7. ClientInv(g)
  <2>1. SocketsInv(g) /\ IcmpInv(g)
    BY <1>1, <1>5, ForwarderAlone
  <2>2. ForwarderInv(g)
    BY <1>1, <1>3, <1>5 DEF ClientInv, ForwarderInv
  <2> QED  BY <2>1, <2>2 DEF ClientInv
<1>8. OutputInv(g)
  BY <1>5, <1>6, <1>7, NothingHappens DEF SocketsSame
<1> QED  BY <1>8 DEF g

LEMMA ForwardRunsIs ==
  ASSUME OutputInv(ip), ForwardRuns
  PROVE  OutputInv(ip')
<1> DEFINE h == [ip EXCEPT !.tasks = @ \ {"forward"}]
           e == StartSending(h, fwd)
           g == ip'
<1>1. /\ ip \in Outputs /\ ClientInv(ip) /\ StackInv(ip)
      /\ g = StartForwarding(h)
  BY DEF OutputInv, ForwardRuns
<1>2. /\ h \in Outputs /\ SameStack(h, ip) /\ SocketsSame(h, ip) /\ IcmpSame(h, ip)
      /\ h.queued = ip.queued /\ h.inProgress = ip.inProgress
      /\ h.forwardingStatus = ip.forwardingStatus
      /\ h.tasks = ip.tasks \ {"forward"}
  <2>1. h \in Outputs
    <3>1. ip.tasks \ {"forward"} \subseteq Tasks
      BY <1>1, Typing
    <3> QED  BY ZenonT(120), <1>1, <3>1 DEF Outputs
  <2> QED  BY ZenonT(120), <1>1, <2>1 DEF Outputs, SameStack, SocketsSame, IcmpSame
<1> HIDE DEF h, g
<1>3. SameQueues(h, ip) /\ h.sent = ip.sent
  BY <1>2 DEF SameStack, SameQueues
<1>4. CASE h.queued = << >> \/ h.inProgress
  <2>1. g = h
    BY <1>1, <1>4 DEF StartForwarding
  <2>2. SocketsInv(h) /\ IcmpInv(h)
    BY <1>1, <1>2, ForwarderAlone
  <2>3. ForwarderInv(h)
    BY <1>1, <1>2, <1>4 DEF ClientInv, ForwarderInv
  <2>4. OutputInv(h)
    BY <1>2, <1>3, <2>2, <2>3, NothingHappens DEF SocketsSame, ClientInv
  <2> QED  BY <2>1, <2>4 DEF g
<1>5. CASE h.queued # << >> /\ ~h.inProgress
  <2>1. /\ ~Waits(ip, fwd) /\ ~Succeeded(ip, fwd) /\ fwd \in Packets
        /\ "forwarded" \notin ip.tasks
    <3>1. "forwarded" \notin ip.tasks /\ ~ip.inProgress
      BY <1>1, <1>2, <1>5 DEF ClientInv, ForwarderInv
    <3> QED  BY <1>1, <3>1, WaitsOf, SucceededOf, PacketsAre DEF ForwarderOn
  <2>2. fwd \notin ip.sent /\ ~In(ip.selection, fwd) /\ ~In(ip.sending, fwd)
    BY <2>1, NotInHand DEF OutputInv, Reported
  <2>3. StackInv(h) /\ ~In(h.sending, fwd)
    BY <1>1, <1>3, <2>2, QueuesKept DEF SameQueues
  <2>4. /\ e \in Outputs /\ StackInv(e) /\ SameClients(e, h)
        /\ \A t : t # "route" => (t \in e.tasks <=> t \in h.tasks)
        /\ e.sent = h.sent /\ e.selection = h.selection
        /\ \A x \in Packets : In(e.sending, x) <=>
             In(h.sending, x) \/ (x = fwd /\ Sends(h, fwd))
    BY <1>2, <2>1, <2>3, StartSendingIs
  <2>5. g = IF Sends(h, fwd) THEN [e EXCEPT !.inProgress = TRUE]
            ELSE post([e EXCEPT !.queued = Tail(@)], "forward")
    BY <1>1, <1>5 DEF StartForwarding
  <2> HIDE DEF e
  <2>6. /\ SocketsSame(e, ip) /\ IcmpSame(e, ip) /\ e.queued = ip.queued
        /\ e.inProgress = ip.inProgress
        /\ e.forwardingStatus = ip.forwardingStatus
        /\ "forwarded" \notin e.tasks
    BY <1>2, <2>1, <2>4 DEF SameClients, SocketsSame, IcmpSame
  <2>7. /\ e.sent = ip.sent /\ e.selection = ip.selection
        /\ \A x \in Packets : In(e.sending, x) <=>
             In(ip.sending, x) \/ (x = fwd /\ Sends(h, fwd))
    BY <1>3, <2>4 DEF SameQueues
  <2>8. CASE Sends(h, fwd)
    <3>1. g = [e EXCEPT !.inProgress = TRUE]
      BY <2>5, <2>8
    <3>2. [e EXCEPT !.inProgress = TRUE] \in Outputs
      BY ZenonT(60), <2>4 DEF Outputs
    <3>3. /\ g \in Outputs /\ SameStack(g, e) /\ SocketsSame(g, e) /\ IcmpSame(g, e)
          /\ g.queued = e.queued /\ g.inProgress /\ g.tasks = e.tasks
      BY ZenonT(120), <2>4, <3>1, <3>2 DEF Outputs, SameStack, SocketsSame, IcmpSame
    <3>4. SocketsSame(g, ip) /\ IcmpSame(g, ip)
      BY <2>6, <3>3 DEF SocketsSame, IcmpSame
    <3>5. OthersSame(g, ip, fwd) /\ SocketsInv(g) /\ IcmpInv(g)
      BY <1>1, <3>3, <3>4, ForwarderAlone
    <3>6. ForwarderInv(g)
      BY <1>1, <1>2, <1>5, <2>6, <3>3 DEF ClientInv, ForwarderInv
    <3>7. Waits(g, fwd) /\ ~Succeeded(g, fwd)
      BY <2>6, <3>3, WaitsOf, SucceededOf DEF ForwarderOn
    <3>8. StackInv(g)
      <4>1. SameQueues(g, e)
        BY <3>3 DEF SameStack, SameQueues
      <4> QED  BY <2>4, <4>1, QueuesKept
    <3>9. /\ g.sent = ip.sent /\ g.selection = ip.selection
          /\ \A x \in Packets : In(g.sending, x) <=> In(ip.sending, x) \/ x = fwd
      BY <2>7, <2>8, <3>3 DEF SameStack
    <3>10. Given(g, ip, fwd)
      BY <2>1, <2>2, <3>5, <3>7, <3>9 DEF Given, InHand
    <3>11. OutputInv(g)
      BY <2>1, <3>3, <3>5, <3>6, <3>8, <3>10, ClientGives DEF ClientInv
    <3> QED  BY <3>11 DEF g
  <2>9. CASE ~Sends(h, fwd)
    <3> DEFINE T == Tail(e.queued)
               d == [e EXCEPT !.queued = T]
               f == post(d, "forward")
    <3>1. g = f
      BY <2>5, <2>9
    <3>2. T \in Seq(Incoming) /\ Len(T) <= ForwardedLength
      <4>1. /\ e.queued \in Seq(Incoming) /\ e.queued # << >>
            /\ Len(e.queued) <= ForwardedLength
        BY <1>1, <1>2, <1>5, <2>4, <2>6, Typing DEF ClientInv, ForwarderInv
      <4>2. /\ T \in Seq(Incoming) /\ Len(T) = Len(e.queued) - 1
            /\ Len(e.queued) \in Nat
        BY <4>1, Tails
      <4> HIDE DEF T
      <4> QED  BY <4>1, <4>2, ConstantsAre
    <3> HIDE DEF T
    <3>3. d \in Outputs
      BY ZenonT(60), <2>4, <3>2 DEF Outputs
    <3>4. /\ SameStack(d, e) /\ SocketsSame(d, e) /\ IcmpSame(d, e)
          /\ d.queued = T /\ d.inProgress = e.inProgress
          /\ d.forwardingStatus = e.forwardingStatus /\ d.tasks = e.tasks
      BY <2>4 DEF Outputs, SameStack, SocketsSame, IcmpSame
    <3> HIDE DEF d
    <3>5. "forward" \in Tasks
      BY DEF Tasks
    <3>6. /\ f \in Outputs /\ f.tasks = d.tasks \cup {"forward"}
          /\ SameStack(f, d) /\ SameClients(f, d)
      BY <3>3, <3>5, Posts
    <3> HIDE DEF f
    <3>7. /\ SocketsSame(g, ip) /\ IcmpSame(g, ip) /\ g.queued = T
          /\ g.inProgress = ip.inProgress /\ "forward" \in g.tasks
          /\ "forwarded" \notin g.tasks
      BY <2>6, <3>1, <3>4, <3>6 DEF SameClients, SocketsSame, IcmpSame
    <3>8. g \in Outputs /\ SameStack(g, e)
      BY <3>1, <3>4, <3>6 DEF SameStack
    <3>9. OthersSame(g, ip, fwd) /\ SocketsInv(g) /\ IcmpInv(g)
      BY <1>1, <3>7, <3>8, ForwarderAlone
    <3>10. ForwarderInv(g)
      BY <1>2, <1>5, <3>2, <3>7 DEF ForwarderInv
    <3>11. ~Waits(g, fwd) /\ ~Succeeded(g, fwd)
      BY <1>2, <1>5, <3>7, <3>8, WaitsOf, SucceededOf DEF ForwarderOn
    <3>12. StackInv(g)
      <4>1. SameQueues(g, e)
        <5>1. "route" \in e.tasks => "route" \in g.tasks
          BY <3>1, <3>4, <3>6
        <5> QED  BY <3>8, <5>1 DEF SameStack, SameQueues
      <4> QED  BY <2>4, <4>1, QueuesKept
    <3>13. /\ g.sent = ip.sent /\ g.selection = ip.selection
           /\ \A x \in Packets : In(g.sending, x) <=> In(ip.sending, x)
      BY <2>7, <2>9, <3>8 DEF SameStack
    <3>14. Given(g, ip, fwd)
      BY <2>1, <2>2, <3>9, <3>11, <3>13 DEF Given, InHand
    <3>15. OutputInv(g)
      BY <2>1, <3>8, <3>9, <3>10, <3>12, <3>14, ClientGives DEF ClientInv
    <3> QED  BY <3>15 DEF g
  <2> QED  BY <2>8, <2>9
<1> QED  BY <1>4, <1>5

LEMMA ForwardedRunsIs ==
  ASSUME OutputInv(ip), ForwardedRuns
  PROVE  OutputInv(ip')
<1> DEFINE h == [ip EXCEPT !.tasks = @ \ {"forwarded"}]
           e == Forgotten(h, fwd)
           T == Tail(e.queued)
           d == [e EXCEPT !.inProgress = FALSE, !.queued = T,
                          !.forwardingStatus = "SUCCESS"]
           g == post(d, "forward")
<1>1. /\ ip \in Outputs /\ ClientInv(ip) /\ fwd \in Packets
      /\ "forwarded" \in ip.tasks /\ ip.queued # << >>
      /\ Len(ip.queued) <= ForwardedLength /\ ip.queued \in Seq(Incoming)
  BY PacketsAre, Typing DEF OutputInv, ForwardedRuns, ClientInv, ForwarderInv
<1>2. ip' = g
  BY DEF ForwardedRuns, EndForwarding
<1>3. /\ h \in Outputs /\ SameStack(h, ip) /\ SocketsSame(h, ip) /\ IcmpSame(h, ip)
      /\ h.queued = ip.queued /\ h.tasks = ip.tasks \ {"forwarded"}
  <2>1. h \in Outputs
    <3>1. ip.tasks \ {"forwarded"} \subseteq Tasks
      BY <1>1, Typing
    <3> QED  BY ZenonT(60), <1>1, <3>1 DEF Outputs
  <2> QED  BY ZenonT(120), <1>1, <2>1 DEF Outputs, SameStack, SocketsSame, IcmpSame
<1> HIDE DEF h
<1>4. /\ e \in Outputs /\ SameClients(e, h) /\ e.tasks = h.tasks
      /\ SameQueues(e, h) /\ e.sent = h.sent \ {fwd}
  BY <1>1, <1>3, ForgottenIs
<1> HIDE DEF e
<1>5. T \in Seq(Incoming) /\ Len(T) <= ForwardedLength
  <2>1. e.queued = ip.queued
    BY <1>3, <1>4 DEF SameClients
  <2>2. /\ T \in Seq(Incoming) /\ Len(T) = Len(ip.queued) - 1
        /\ Len(ip.queued) \in Nat
    BY <1>1, <2>1, Tails
  <2> HIDE DEF T
  <2> QED  BY <1>1, <2>2, ConstantsAre
<1> HIDE DEF T
<1>6. /\ d \in Outputs /\ SameStack(d, e) /\ SocketsSame(d, e) /\ IcmpSame(d, e)
      /\ d.queued = T /\ ~d.inProgress /\ d.tasks = e.tasks
  <2>1. d \in Outputs
    BY ZenonT(60), <1>4, <1>5 DEF Outputs, Statuses
  <2> QED  BY ZenonT(120), <1>4, <2>1 DEF Outputs, SameStack, SocketsSame, IcmpSame
<1> HIDE DEF d
<1>7. "forward" \in Tasks
  BY DEF Tasks
<1>8. /\ g \in Outputs /\ g.tasks = d.tasks \cup {"forward"}
      /\ SameStack(g, d) /\ SameClients(g, d)
  BY <1>6, <1>7, Posts
<1> HIDE DEF g
<1>9. /\ SocketsSame(g, ip) /\ IcmpSame(g, ip)
      /\ g.queued = T /\ ~g.inProgress /\ "forward" \in g.tasks
      /\ "forwarded" \notin g.tasks
  BY <1>3, <1>4, <1>6, <1>8 DEF SameClients, SocketsSame, IcmpSame
<1>10. SameQueues(g, ip) /\ g.sent = ip.sent \ {fwd}
  BY <1>3, <1>4, <1>6, <1>8 DEF SameStack, SameQueues
<1>11. OthersSame(g, ip, fwd) /\ SocketsInv(g) /\ IcmpInv(g)
  BY <1>1, <1>8, <1>9, ForwarderAlone
<1>12. ForwarderInv(g)
  BY <1>5, <1>9 DEF ForwarderInv
<1>13. ~Waits(g, fwd) /\ ~Succeeded(g, fwd) /\ ~Waits(ip, fwd)
  BY <1>1, <1>8, <1>9, WaitsOf, SucceededOf DEF ForwarderOn
<1>14. g.sent \ {fwd} = ip.sent \ {fwd} /\ fwd \notin g.sent
  BY <1>10
<1>15. OutputInv(g)
  BY <1>1, <1>8, <1>10, <1>11, <1>12, <1>13, <1>14, ClientKeeps DEF ClientInv
<1> QED  BY <1>2, <1>15

-----------------------------------------------------------------------------
(* The whole.                                                              *)

LEMMA OutputStarts == Init => OutputInv(ip)
<1> SUFFICES ASSUME NEW n \in Nodes, ip = Start(n) PROVE OutputInv(ip)
  BY DEF Init
<1>1. /\ 0 \in 0..MaxPieces /\ 0 \in Sockets /\ 0 \in 0..NumInterfaces
      /\ "WAITING" \in Actions /\ "SUCCESS" \in Statuses
      /\ << >> \in Seq(Packets) /\ << >> \in Seq(IcmpClients) /\ << >> \in Seq(Incoming)
  BY ConstantsAre DEF Actions, Statuses
<1>2. ip \in Outputs
  BY <1>1 DEF Outputs, Start
<1>3. /\ ip.tasks = {} /\ ip.inUse = {}
      /\ \A s \in Sockets : ip.action[s] = "WAITING"
      /\ ip.payloadIter = {} /\ ip.active = << >> /\ ~ip.wrapped /\ ~ip.summing
      /\ ip.queued = << >> /\ ~ip.inProgress
      /\ \A q \in Queues : ip.selection[q] = << >> /\ ip.sending[q] = << >>
      /\ Idle(ip) /\ \A i \in Interfaces : ip.choosing[i] = << >>
      /\ ip.sent = {}
  BY DEF Start, Idle
<1>4. Len(<< >>) = 0 /\ 1..0 = {} /\ 0 <= ForwardedLength
  BY ConstantsAre
<1>5. WellQueued(ip.selection) /\ WellQueued(ip.sending)
  <2>1. \A q \in Queues : 0 <= Capacity(q)
    BY ConstantsAre
  <2> QED  BY <1>3, <1>4, <2>1 DEF WellQueued
<1>6. \A p \in Packets : ~In(ip.selection, p) /\ ~In(ip.sending, p)
  BY <1>3, <1>4, OneProtocol DEF In
<1>7. Choosing(ip)
  <2>1. \A p \in Packets : ~IsChosen(ip.choosing, p) /\ ~IsHead(ip.selection, p)
    BY <1>3, <1>4, OneProtocol DEF IsChosen, IsHead
  <2>2. Once(ip.choosing)
    BY <1>3, <1>4 DEF Once
  <2> QED  BY <2>1, <2>2 DEF Choosing
<1>8. StackInv(ip)
  BY <1>3, <1>5, <1>7 DEF StackInv, Routes
<1>9. ClientInv(ip)
  BY <1>3, <1>4 DEF ClientInv, SocketsInv, IcmpInv, ForwarderInv
<1>10. \A p \in Packets : ~Waits(ip, p) /\ ~Succeeded(ip, p)
  BY <1>3 DEF Waits, Succeeded, SocketOn, IcmpOn, ForwarderOn
<1>11. Held(ip, {}) /\ Reported(ip)
  BY <1>3, <1>6, <1>10 DEF Held, InHand, Reported
<1>12. ~In(ip.selection, fwd)
  BY <1>6, PacketsAre
<1> QED  BY <1>2, <1>8, <1>9, <1>11, <1>12 DEF OutputInv

LEMMA OutputSteps == OutputInv(ip) /\ [Next]_ip => OutputInv(ip')
<1> SUFFICES ASSUME OutputInv(ip), [Next]_ip PROVE OutputInv(ip')
  OBVIOUS
<1>1. CASE UNCHANGED ip
  BY <1>1
<1>2. ASSUME NEW s \in Sockets, SocketSends(s) PROVE OutputInv(ip')
  BY <1>2, SocketSendsIs
<1>3. ASSUME NEW c \in IcmpClients, IcmpSends(c) PROVE OutputInv(ip')
  BY <1>3, IcmpSendsIs
<1>4. ASSUME NEW x \in Incoming, PacketReceived(x) PROVE OutputInv(ip')
  BY <1>4, PacketReceivedIs
<1>5. CASE UdpRuns
  BY <1>5, UdpRunsIs
<1>6. CASE IcmpRuns
  BY <1>6, IcmpRunsIs
<1>7. CASE ChecksumDone
  BY <1>7, ChecksumDoneIs
<1>8. CASE ForwardRuns
  BY <1>8, ForwardRunsIs
<1>9. CASE ForwardedRuns
  BY <1>9, ForwardedRunsIs
<1>10. CASE RouteRuns
  <2>1. PICK answer \in Statuses :
          ip' = routeOutstandingPackets([ip EXCEPT !.tasks = @ \ {"route"}], answer)
    BY <1>10 DEF RouteRuns
  <2>2. "route" \in ip.tasks
    BY <1>10 DEF RouteRuns
  <2> QED  BY <2>1, <2>2, RoutingIs
<1>11. CASE InterfaceRuns
  <2>1. PICK e \in ip.accepted : \E status \in Statuses :
          ip' = InterfaceStarts(ip, e[1], e[2], status)
    BY <1>11 DEF InterfaceRuns
  <2>2. PICK status \in Statuses : ip' = InterfaceStarts(ip, e[1], e[2], status)
    BY <2>1
  <2>3. ip.accepted \subseteq Interfaces \X Packets
    BY DEF OutputInv, Outputs
  <2>4. e[1] \in Interfaces /\ e[2] \in Packets /\ <<e[1], e[2]>> \in ip.accepted
    BY <2>3
  <2> QED  BY <2>2, <2>4, InterfaceStartsIs
<1>12. CASE InterfaceSends
  <2>1. PICK e \in ip.carrying : \E status \in {"SUCCESS", "FAIL"} :
          ip' = InterfaceSent(ip, e[1], e[2], status)
    BY <1>12 DEF InterfaceSends
  <2>2. PICK status \in {"SUCCESS", "FAIL"} : ip' = InterfaceSent(ip, e[1], e[2], status)
    BY <2>1
  <2>3. ip.carrying \subseteq Interfaces \X Packets
    BY DEF OutputInv, Outputs
  <2>4. /\ e[1] \in Interfaces /\ e[2] \in Packets
        /\ <<e[1], e[2]>> \in ip.accepted \cup ip.carrying
    BY <2>3
  <2>5. status \in Statuses
    BY DEF Statuses
  <2> QED  BY <2>2, <2>4, <2>5, InterfaceSentIs
<1>13. ASSUME NEW j \in Interfaces, InterfaceSelects(j) PROVE OutputInv(ip')
  <2> DEFINE n == Len(ip.selection[ProtocolOf(Head(ip.choosing[j]))]) - 1
  <2>1. ip.choosing[j] # << >>
    BY <1>13 DEF InterfaceSelects
  <2>2. PICK sums \in BOOLEAN : \E refused \in 0..n, i \in Selectors :
          ip' = InterfaceSelected(ip, j, sums, refused, i)
    BY <1>13 DEF InterfaceSelects
  <2>3. PICK refused \in 0..n : \E i \in Selectors :
          ip' = InterfaceSelected(ip, j, sums, refused, i)
    BY <2>2
  <2>4. PICK i \in Selectors : ip' = InterfaceSelected(ip, j, sums, refused, i)
    BY <2>3
  <2>5. OutputInv(InterfaceSelected(ip, j, sums, refused, i))
    BY <2>1, InterfaceSelectedIs
  <2> QED  BY <2>4, <2>5
<1> QED  BY <1>1, <1>2, <1>3, <1>4, <1>5, <1>6, <1>7, <1>8, <1>9, <1>10, <1>11,
            <1>12, <1>13 DEF Next

(* Every packet is in the hands of its client or in one place of the      *)
(* stack, whatever the clients, the routing policy and the interfaces do.  *)
THEOREM OutputInvariant == Spec => []IPv6Inv
<1>1. Init => IPv6Inv
  BY OutputStarts DEF IPv6Inv
<1>2. IPv6Inv /\ [Next]_ip => IPv6Inv'
  BY OutputSteps DEF IPv6Inv
<1> QED  BY <1>1, <1>2, PTL DEF Spec

-----------------------------------------------------------------------------
(* What the invariant says of the properties.                              *)

LEMMA FinitePackets == IsFiniteSet(Packets)
<1>1. IsFiniteSet(Sockets)
  BY ConstantsAre, FS_Interval DEF Sockets
<1>2. IsFiniteSet({PacketOf(s) : s \in Sockets})
  <2> DEFINE all == {PacketOf(s) : s \in Sockets}
             f == [s \in Sockets |-> PacketOf(s)]
  <2>1. f \in Surjection(Sockets, all)
    BY DEF Surjection
  <2> HIDE DEF f
  <2> QED  BY <1>1, <2>1, FS_Surjection
<1>3. IsFiniteSet({icmp, fwd})
  <2>1. IsFiniteSet({icmp})
    BY FS_Singleton
  <2>2. IsFiniteSet({icmp} \cup {fwd}) /\ {icmp} \cup {fwd} = {icmp, fwd}
    BY <2>1, FS_AddElement
  <2> QED  BY <2>2
<1> QED  BY <1>2, <1>3, FS_Union DEF Packets

LEMMA TypesAre ==
  ASSUME OutputInv(ip)
  PROVE  TypeOK
<1>1. ip \in Outputs /\ WellQueued(ip.sending) /\ ForwarderInv(ip)
  BY DEF OutputInv, StackInv, ClientInv
<1>2. /\ \A q \in Queues : Len(ip.sending[q]) <= Capacity(q)
      /\ Len(ip.queued) <= ForwardedLength
  BY <1>1 DEF WellQueued, ForwarderInv
<1>3. Len(ip.routed) <= RoutedLength
  <2>1. CASE Idle(ip)
    BY <2>1, ConstantsAre DEF Idle
  <2>2. ASSUME NEW p, Works(ip, p) PROVE Len(ip.routed) <= RoutedLength
    <3>1. ip.routed = <<p>> /\ Len(<<p>>) = 1
      BY <2>2 DEF Works
    <3> QED  BY <3>1, ConstantsAre
  <2> QED  BY <2>1, <2>2 DEF OutputInv, StackInv, Routes
<1>4. \A p \in Packets : ip.ifaceId[p] \in 0..NumInterfaces
  BY <1>1 DEF Outputs
<1>5. ip.subSenderWorking \in BOOLEAN
  BY <1>1 DEF Outputs
<1> QED  BY <1>1, <1>2, <1>3, <1>4, <1>5, Typing DEF TypeOK

LEMMA OneIs ==
  ASSUME OutputInv(ip)
  PROVE  OneIsSent
<1>1. CASE Idle(ip) /\ \A q \in Queues : ip.sending[q] = << >>
  <2>1. ip.accepted \cup ip.carrying = {}
    BY <1>1 DEF Idle
  <2>2. Cardinality(ip.accepted \cup ip.carrying) <= 1
    BY <2>1, FS_EmptySet
  <2> QED  BY <1>1, <2>1, <2>2 DEF OneIsSent, Idle
<1>2. ASSUME NEW q \in Queues, ip.sending[q] # << >>, Works(ip, Head(ip.sending[q]))
      PROVE  OneIsSent
  <2> DEFINE p == Head(ip.sending[q])
  <2>1. ip.subSenderWorking /\ ip.routed = <<p>> /\ ip.routed # << >>
    BY <1>2 DEF Works
  <2>2. ToSet(ip.routed) = {p}
    <3> HIDE DEF p
    <3> QED  BY <2>1 DEF ToSet
  <2>3. /\ {e[2] : e \in ip.accepted \cup ip.carrying} = ip.beingRouted
        /\ ip.beingRouted \subseteq {p}
        /\ Cardinality(ip.accepted \cup ip.carrying) <= 1
        /\ ip.beingRouted # {} \/ "route" \in ip.tasks
    <3> HIDE DEF p
    <3>1. CASE /\ ip.beingRouted = {} /\ ip.accepted = {} /\ ip.carrying = {}
               /\ "route" \in ip.tasks
      <4>1. ip.accepted \cup ip.carrying = {}
        BY <3>1
      <4>2. Cardinality(ip.accepted \cup ip.carrying) <= 1
        BY <4>1, FS_EmptySet
      <4> QED  BY <3>1, <4>1, <4>2
    <3>2. ASSUME ip.beingRouted = {p}, NEW i \in Interfaces,
                 ip.accepted \cup ip.carrying = {<<i, p>>}
          PROVE  /\ {e[2] : e \in ip.accepted \cup ip.carrying} = ip.beingRouted
                 /\ Cardinality(ip.accepted \cup ip.carrying) <= 1
      <4>1. Cardinality(ip.accepted \cup ip.carrying) <= 1
        <5>1. Cardinality({<<i, p>>}) = 1
          BY FS_Singleton
        <5> QED  BY <3>2, <5>1
      <4>2. {e[2] : e \in {<<i, p>>}} = {p}
        OBVIOUS
      <4> QED  BY <3>2, <4>1, <4>2
    <3> QED  BY <1>2, <3>1, <3>2 DEF Works, AtInterface, p
  <2> QED  BY <1>2, <2>1, <2>2, <2>3 DEF OneIsSent
<1> QED  BY <1>1, <1>2 DEF OutputInv, StackInv, Routes

LEMMA HeadsAre ==
  ASSUME OutputInv(ip)
  PROVE  HeadsAreSelected
<1> DEFINE busy == {q \in Queues : ip.selection[q] # << >>}
           heads == {Head(ip.selection[q]) : q \in busy}
           c == ip.choosing
<1>1. /\ ip.selection \in [Queues -> Seq(Packets)] /\ WellQueued(ip.selection)
      /\ c \in [Interfaces -> Seq(Packets)] /\ Once(c)
      /\ \A p \in Packets : IsChosen(c, p) <=> IsHead(ip.selection, p)
  BY DEF OutputInv, Outputs, StackInv, Choosing
<1>2. \A x : x \in heads <=> x \in Packets /\ IsHead(ip.selection, x)
  <2>1. ASSUME NEW q \in Queues, ip.selection[q] # << >>
        PROVE  /\ Head(ip.selection[q]) \in Packets
               /\ IsHead(ip.selection, Head(ip.selection[q]))
    <3> DEFINE p == Head(ip.selection[q])
    <3>1. p \in Packets /\ p = ip.selection[q][1] /\ 1 \in 1..Len(ip.selection[q])
      BY <1>1, <2>1, Tails
    <3>2. ProtocolOf(p) = q
      BY <1>1, <3>1 DEF WellQueued
    <3> QED  BY <2>1, <3>1, <3>2 DEF IsHead
  <2>2. ASSUME NEW x \in Packets, IsHead(ip.selection, x) PROVE x \in heads
    BY <2>2, OneProtocol DEF IsHead
  <2> QED  BY <2>1, <2>2
<1>3. \A x : x \in UNION {ToSet(c[i]) : i \in Interfaces} <=>
               x \in Packets /\ IsChosen(c, x)
  <2>1. \A i \in Interfaces : /\ DOMAIN c[i] = 1..Len(c[i])
                              /\ \A n \in 1..Len(c[i]) : c[i][n] \in Packets
    BY <1>1
  <2>2. \A i \in Interfaces : \A x : x \in ToSet(c[i]) <=> \E n \in 1..Len(c[i]) : c[i][n] = x
    BY <2>1 DEF ToSet
  <2> HIDE DEF c
  <2> SUFFICES ASSUME NEW x
               PROVE  (\E i \in Interfaces : x \in ToSet(c[i])) <=>
                        x \in Packets /\ IsChosen(c, x)
    OBVIOUS
  <2>3. ASSUME NEW i \in Interfaces, x \in ToSet(c[i])
        PROVE  x \in Packets /\ IsChosen(c, x)
    <3>1. PICK n \in 1..Len(c[i]) : c[i][n] = x
      BY <2>2, <2>3
    <3> QED  BY <2>1, <3>1 DEF IsChosen
  <2>4. ASSUME IsChosen(c, x) PROVE \E i \in Interfaces : x \in ToSet(c[i])
    <3>1. PICK i \in Interfaces : \E n \in 1..Len(c[i]) : c[i][n] = x
      BY <2>4 DEF IsChosen
    <3> QED  BY <2>2, <3>1
  <2> QED  BY <2>3, <2>4
<1>4. UNION {ToSet(c[i]) : i \in Interfaces} = heads
  <2> HIDE DEF heads, c
  <2> QED  BY <1>1, <1>2, <1>3
<1>5. ASSUME NEW p \in heads
      PROVE  Cardinality({e \in Interfaces \X (1..Cardinality(Packets)) :
                            /\ e[2] <= Len(c[e[1]])
                            /\ c[e[1]][e[2]] = p}) = 1
  <2>1. IsChosen(c, p)
    BY <1>1, <1>2
  <2> HIDE DEF c, heads
  <2> QED  BY <1>1, <2>1, ChosenOnce, FinitePackets
<1> QED  BY <1>4, <1>5 DEF HeadsAreSelected

LEMMA ClientsWait ==
  ASSUME OutputInv(ip)
  PROVE  SocketsWait /\ IcmpWaits /\ ForwarderWaits
<1>1. /\ ip \in Outputs /\ ClientInv(ip)
      /\ ip.selection \in [Queues -> Seq(Packets)] /\ WellQueued(ip.selection)
      /\ ip.sending \in [Queues -> Seq(Packets)] /\ WellQueued(ip.sending)
  BY DEF OutputInv, Outputs, StackInv
<1>2. ASSUME NEW p \in Packets
      PROVE  InStack(p) = IF Waits(ip, p) THEN 1 ELSE 0
  <2>1. /\ Holds(ip.selection, p) = IF In(ip.selection, p) THEN 1 ELSE 0
        /\ Holds(ip.sending, p) = IF In(ip.sending, p) THEN 1 ELSE 0
    BY <1>1, HoldsIs
  <2>2. /\ Waits(ip, p) <=> In(ip.selection, p) \/ In(ip.sending, p)
        /\ ~(In(ip.selection, p) /\ In(ip.sending, p))
    BY DEF OutputInv, Held, InHand
  <2> QED  BY <2>1, <2>2 DEF InStack
<1>3. SocketsWait
  <2> SUFFICES ASSUME NEW s \in Sockets
               PROVE  /\ InStack(PacketOf(s)) = IF SocketOn(ip, s) THEN 1 ELSE 0
                      /\ s \in ip.inUse /\ ~SocketOn(ip, s) => "udp" \in ip.tasks
    BY DEF SocketsWait, SocketOn
  <2>1. InStack(PacketOf(s)) = IF SocketOn(ip, s) THEN 1 ELSE 0
    BY <1>1, <1>2, WaitsOf, PacketsAre
  <2>2. s \in ip.inUse /\ ~SocketOn(ip, s) => "udp" \in ip.tasks
    BY <1>1 DEF SocketOn, ClientInv, SocketsInv
  <2> QED  BY <2>1, <2>2
<1>4. IcmpWaits
  <2>1. InStack(icmp) = IF IcmpOn(ip) THEN 1 ELSE 0
    BY <1>1, <1>2, WaitsOf, PacketsAre
  <2>2. ip.active \in Seq(IcmpClients) /\ ip.payloadIter \subseteq IcmpClients
    BY <1>1, Typing
  <2>3. DOMAIN ip.active = 1..Len(ip.active)
    BY <2>2
  <2>4. ToSet(ip.active) = ip.payloadIter
    <3>1. \A x : x \in ToSet(ip.active) <=> \E n \in 1..Len(ip.active) : ip.active[n] = x
      BY <2>3 DEF ToSet
    <3>2. \A n \in 1..Len(ip.active) : ip.active[n] \in IcmpClients
      BY <2>2
    <3>3. \A x \in IcmpClients : x \in ip.payloadIter <=>
            \E n \in 1..Len(ip.active) : ip.active[n] = x
      BY <1>1 DEF ClientInv, IcmpInv
    <3>4. \A x : x \in ToSet(ip.active) <=> x \in ip.payloadIter
      BY <2>2, <3>1, <3>2, <3>3
    <3> QED  BY <3>4
  <2>5. IsInjective(ip.active)
    BY <1>1, <2>3 DEF IsInjective, ClientInv, IcmpInv
  <2>6. ip.active = << >> => ~ip.wrapped /\ ~IcmpTask
    BY <1>1 DEF IcmpTask, ClientInv, IcmpInv
  <2>7. ip.active # << >> =>
          InStack(icmp) + (IF ip.summing THEN 1 ELSE 0)
            + (IF IcmpTask THEN 1 ELSE 0) = 1
    BY <1>1, <2>1 DEF IcmpTask, IcmpOn, ClientInv, IcmpInv
  <2> QED  BY <2>4, <2>5, <2>6, <2>7 DEF IcmpWaits
<1>5. ForwarderWaits
  <2>1. InStack(fwd) = IF ForwarderOn(ip) THEN 1 ELSE 0
    BY <1>1, <1>2, WaitsOf, PacketsAre
  <2> QED  BY <1>1, <2>1 DEF ForwarderWaits, ForwarderOn, ClientInv, ForwarderInv
<1> QED  BY <1>3, <1>4, <1>5

(* Between the clients, the virtualizer, the routing policy and the        *)
(* interfaces every packet is in the hands of exactly one, who has a task  *)
(* posted or is asked by one who has: whatever the number of sockets, of   *)
(* messages and of interfaces, nobody waits for nobody.                    *)
THEOREM OutputKeepsNothing == Spec => []NothingWaitsForNobody
<1>1. IPv6Inv => NothingWaitsForNobody
  BY TypesAre, OneIs, HeadsAre, ClientsWait DEF NothingWaitsForNobody, IPv6Inv
<1> QED  BY <1>1, OutputInvariant, PTL

(* A client of the outgoing stack reports success if and only if an        *)
(* interface has reported that it has sent the packet.                     *)
THEOREM OutputReports == Spec => []ReportsWhatHappened
<1>1. IPv6Inv => ReportsWhatHappened
  <2> SUFFICES ASSUME OutputInv(ip) PROVE ReportsWhatHappened
    BY DEF IPv6Inv
  <2>1. /\ ip \in Outputs /\ ip.inUse \subseteq Sockets
        /\ \A p \in Packets : p \in ip.sent <=> Succeeded(ip, p)
    BY DEF OutputInv, Reported, Outputs
  <2>2. ASSUME NEW s \in ip.inUse
        PROVE  /\ ip.action[s] = "COMPLETE" => PacketOf(s) \in ip.sent
               /\ ip.action[s] = "TERMINATE" => PacketOf(s) \notin ip.sent
    <3>1. s \in Sockets /\ PacketOf(s) \in Packets
      BY <2>1, PacketsAre
    <3>2. PacketOf(s) \in ip.sent <=> ip.action[s] = "COMPLETE"
      BY <2>1, <3>1, SucceededOf
    <3> QED  BY <3>2
  <2>3. IcmpTask /\ ip.wrapped => (ip.handlingStatus = "SUCCESS" <=> icmp \in ip.sent)
    BY <2>1, SucceededOf, PacketsAre DEF IcmpTask
  <2>4. "forwarded" \in ip.tasks => (ip.forwardingStatus = "SUCCESS" <=> fwd \in ip.sent)
    BY <2>1, SucceededOf, PacketsAre
  <2> QED  BY <2>2, <2>3, <2>4 DEF ReportsWhatHappened
<1> QED  BY <1>1, OutputInvariant, PTL
=============================================================================
