------------------------- MODULE Forwarding_proofs --------------------------
(***************************************************************************)
(* Proofs about Forwarding for any number of tokens, packets, frames and   *)
(* addresses.                                                              *)
(***************************************************************************)
EXTENDS Forwarding, FiniteSetTheorems, SequenceTheorems, WellFoundedInduction,
        TLAPS

-----------------------------------------------------------------------------
(* The sets that the parts of the state are in.                            *)

FrameOrNone == Frames \cup {NULL}
Addrs == UNION {Routes[p] : p \in Packets}
Elems == [packet : Packets, addr : Addrs, status : Statuses]
TokenRecords ==
  [packet : Packets \cup {NULL}, offset : Nat, ready : FrameOrNone,
   sent : FrameOrNone, flags : SUBSET {"PROCESSED", "FAILED", "CANCELED"}]
SlotRecords == [elem : Elems \cup {NULL}, free : FrameOrNone,
                used : FrameOrNone, retx : 0..MaxRetransmissions]
Fragments == [packet : Packets, offset : Nat, size : Nat,
              bc0 : 0..(SeqNos - 1) \cup {NULL}]

TaskNames == {"completed", "staged", "fragmentation", "sendQueue", "frames"}
ForwarderTasks == {"completed", "staged", "frames"}
FrSet == [token : [Tokens -> TokenRecords], jobs : Seq(Tokens),
          posted : BOOLEAN]
SqSet == [queue : Seq(Frames), sending : BOOLEAN, posted : BOOLEAN]
FwSet == [staged : Seq(Elems), completed : Seq(Elems), freeFrame : FrameOrNone,
          slot : [Tokens -> SlotRecords], ring : Seq(Tokens), txBit : BOOLEAN,
          timer : BOOLEAN, bcastSeqNo : 0..(SeqNos - 1),
          tasks : SUBSET ForwarderTasks]

-----------------------------------------------------------------------------
(* The inductive invariant, in parts.                                      *)

(* The queue of the fragmenter holds exactly the tokens with PROCESSED,    *)
(* each once, and they are in use.                                         *)
Jobs(fr) ==
  /\ fr \in FrSet
  /\ \A i, j \in 1..Len(fr.jobs) : fr.jobs[i] = fr.jobs[j] => i = j
  /\ \A i \in 1..Len(fr.jobs) :
       /\ "PROCESSED" \in fr.token[fr.jobs[i]].flags
       /\ fr.token[fr.jobs[i]].packet # NULL
  /\ \A t \in Tokens : "PROCESSED" \in fr.token[t].flags =>
       \E i \in 1..Len(fr.jobs) : fr.jobs[i] = t
  /\ fr.posted <=> fr.jobs # <<>>
  /\ \A t \in Tokens : fr.token[t].packet # NULL =>
       fr.token[t].offset <= PacketLength[fr.token[t].packet]

(* A packet is on the lists of the staging queue once.                     *)
Lists(fw) ==
  /\ fw \in FwSet
  /\ Len(fw.staged) + Len(fw.completed) <= MaxStaged
  /\ \A i, j \in 1..Len(fw.staged) :
       fw.staged[i].packet = fw.staged[j].packet => i = j
  /\ \A i, j \in 1..Len(fw.completed) :
       fw.completed[i].packet = fw.completed[j].packet => i = j
  /\ \A i \in 1..Len(fw.staged), j \in 1..Len(fw.completed) :
       fw.staged[i].packet # fw.completed[j].packet

(* What is being fragmented is staged, and no two share packet or address. *)
Slots(fw) ==
  /\ \A t \in Tokens : fw.slot[t].elem # NULL =>
       \E i \in 1..Len(fw.staged) : fw.staged[i] = fw.slot[t].elem
  /\ \A t, u \in Tokens :
       t # u /\ fw.slot[t].elem # NULL /\ fw.slot[u].elem # NULL =>
         /\ fw.slot[t].elem.addr # fw.slot[u].elem.addr
         /\ fw.slot[t].elem.packet # fw.slot[u].elem.packet

(* A token and the slot of the same index.                                 *)
Match(tk, s) ==
  /\ tk.packet = NULL <=> s.elem = NULL
  /\ s.elem = NULL => s.free = NULL /\ s.used = NULL
  /\ s.elem # NULL => /\ s.elem.packet = tk.packet
                      /\ s.free = NULL <=> s.used # NULL
  /\ tk.ready = NULL \/ tk.sent = NULL
  /\ s.used = IF tk.ready # NULL THEN tk.ready ELSE tk.sent
Matched(fr, fw) == \A t \in Tokens : Match(fr.token[t], fw.slot[t])

(* Each frame is in one place.                                             *)
FrameOf(s) == IF s.free # NULL THEN s.free ELSE s.used
Placed(fw, free) ==
  /\ free \subseteq Frames
  /\ fw.freeFrame \notin free
  /\ \A t \in Tokens : FrameOf(fw.slot[t]) # NULL =>
       /\ FrameOf(fw.slot[t]) \notin free
       /\ FrameOf(fw.slot[t]) # fw.freeFrame
       /\ \A u \in Tokens : FrameOf(fw.slot[u]) = FrameOf(fw.slot[t]) => t = u
  /\ \A f \in Frames : \/ f \in free \/ f = fw.freeFrame
                       \/ \E t \in Tokens : FrameOf(fw.slot[t]) = f

(* The send queue holds what the tokens have sent; the ring has the owner  *)
(* of its head when it is sending; below is the frame at its head.         *)
Sending(fr, sq, fw, low) ==
  /\ sq \in SqSet /\ low \in FrameOrNone
  /\ Len(sq.queue) <= Cardinality(Tokens)
  /\ \A i, j \in 1..Len(sq.queue) : sq.queue[i] = sq.queue[j] => i = j
  /\ \A t \in Tokens : fr.token[t].sent # NULL =>
       \E i \in 1..Len(sq.queue) : sq.queue[i] = fr.token[t].sent
  /\ \A i \in 1..Len(sq.queue) :
       \E t \in Tokens : fr.token[t].sent = sq.queue[i]
  /\ Len(fw.ring) = IF sq.sending THEN 1 ELSE 0
  /\ sq.sending => sq.queue # <<>> /\ fr.token[fw.ring[1]].sent = sq.queue[1]
  /\ fw.txBit <=> low # NULL
  /\ low # NULL => sq.sending /\ low = sq.queue[1]

(* What was cut for a frame, and how much of a packet was sent.            *)
CountOf(tk, s, cont, bytes) ==
  /\ s.used # NULL => /\ cont[s.used] \in Fragments
                      /\ cont[s.used].packet = tk.packet
  /\ ~IsStopped(tk) /\ tk.packet # NULL =>
       IF s.used = NULL THEN bytes[tk.packet] = tk.offset
       ELSE /\ bytes[tk.packet] = cont[s.used].offset
            /\ cont[s.used].offset + cont[s.used].size = tk.offset
Counted(fr, fw, cont, bytes) ==
  /\ bytes \in [Packets -> Nat] /\ DOMAIN cont = Frames
  /\ \A t \in Tokens : CountOf(fr.token[t], fw.slot[t], cont, bytes)
  /\ \A p \in Packets :
       /\ \A t \in Tokens : fr.token[t].packet # p
       /\ \A i \in 1..Len(fw.completed) : fw.completed[i].packet # p
       => bytes[p] = 0
  /\ \A i \in 1..Len(fw.completed) : fw.completed[i].status = "SUCCESS" =>
       bytes[fw.completed[i].packet] = PacketLength[fw.completed[i].packet]

(* The BC0 numbers.                                                        *)
Numbered(fw, low, cont, last) ==
  /\ last \in 0..(SeqNos - 1)
  /\ \A t \in Tokens : fw.slot[t].used # NULL =>
       IF fw.slot[t].elem.addr = Broadcast
         THEN /\ cont[fw.slot[t].used].bc0 = fw.bcastSeqNo
              /\ fw.slot[t].retx = 0
         ELSE cont[fw.slot[t].used].bc0 = NULL
  /\ IF low # NULL /\ cont[low].bc0 # NULL THEN last = fw.bcastSeqNo
     ELSE fw.bcastSeqNo = (last + 1) % SeqNos

(* fragmentationTask is in the task queue only once, and when it is posted.*)
Tasked(queue, posted) ==
  /\ queue \in Seq(TaskNames)
  /\ \A i, j \in 1..Len(queue) :
       queue[i] = "fragmentation" /\ queue[j] = "fragmentation" => i = j
  /\ \A i \in 1..Len(queue) : queue[i] = "fragmentation" => posted

Whole(fr, sq, fw, free, low, cont, bytes, last) ==
  /\ Jobs(fr) /\ Lists(fw) /\ Slots(fw) /\ Matched(fr, fw) /\ Placed(fw, free)
  /\ Sending(fr, sq, fw, low) /\ Counted(fr, fw, cont, bytes)
  /\ Numbered(fw, low, cont, last)

IInv ==
  /\ Whole(fragmenter, sendQueue, forwarder, pool, below, content, sentBytes,
           lastBc0)
  /\ Tasked(taskQueue, fragmenter.posted)

-----------------------------------------------------------------------------
(* The constants.                                                          *)
LEMMA NoneIsNothing ==
  /\ NULL \notin Frames /\ NULL \notin Packets /\ NULL \notin Elems
  /\ NULL \notin Nat /\ NULL \notin 0..(SeqNos - 1)
  /\ IsFiniteSet(Frames) /\ IsFiniteSet(Tokens) /\ Tokens \subseteq Nat
  /\ SeqNos \in Nat \ {0} /\ MaxRetransmissions \in Nat /\ FrameRoom \in Nat
  /\ MaxStaged \in Nat /\ Cardinality(Tokens) \in Nat
<1>1. IsFiniteSet(Tokens) /\ Cardinality(Tokens) \in Nat
  BY FragmenterConstants, FS_CardinalityType
<1>2. Tokens \subseteq Nat
  BY <1>1, FragmenterConstants
<1>3. NULL \notin Nat /\ NULL \notin Elems
  BY ForwardingConstants DEF Elems, Addrs
<1>4. 0..(SeqNos - 1) \subseteq Nat
  BY PacketForwarderConstants
<1> QED
  BY <1>1, <1>2, <1>3, <1>4, FragmenterConstants, PacketForwarderConstants,
     ForwardingConstants

LEMMA HeadIsFirst ==
  ASSUME NEW S, NEW r \in Seq(S), r # <<>>
  PROVE  Head(r) = r[1]
  OBVIOUS

LEMMA CountUpto ==
  ASSUME NEW n \in Nat
  PROVE  IsFiniteSet(1..n) /\ Cardinality(1..n) = n
<1>1. 1 \in Int /\ n \in Int
  OBVIOUS
<1>2. Cardinality(1..n) = IF 1 > n THEN 0 ELSE n - 1 + 1
  BY <1>1, FS_Interval
<1>3. IsFiniteSet(1..n)
  BY <1>1, FS_Interval
<1> QED  BY <1>2, <1>3

LEMMA LeastOf ==
  ASSUME NEW T \in SUBSET Nat, T # {}
  PROVE  Min(T) \in T /\ \A m \in T : Min(T) <= m
<1>1. PICK n \in T : \A m \in T : ~(<<m, n>> \in OpToRel(<, Nat))
  BY NatLessThanWellFounded, WFMin
<1>2. \A m \in T : ~(m < n)
  BY <1>1 DEF OpToRel
<1>3. \E x \in T : \A y \in T : x <= y
  BY <1>2
<1>4. Min(T) \in T /\ \A y \in T : Min(T) <= y
  BY <1>3 DEF Min
<1> QED  BY <1>4

-----------------------------------------------------------------------------
(* The fragmenter.                                                         *)

SamePlace(a, b) == /\ a.packet = b.packet /\ a.offset = b.offset
                   /\ a.ready = b.ready /\ a.sent = b.sent

(* g is fr after a handler that is about token t.                          *)
Handled(fr, g, t) ==
  /\ Jobs(g) /\ (fr.posted => g.posted)
  /\ \A u \in Tokens \ {t} : g.token[u] = fr.token[u]

LEMMA TokenFields ==
  ASSUME NEW fr \in FrSet, NEW t \in Tokens
  PROVE  /\ fr.token[t] \in TokenRecords
         /\ fr.token[t].packet \in Packets \cup {NULL}
         /\ fr.token[t].offset \in Nat
         /\ fr.token[t].ready \in FrameOrNone
         /\ fr.token[t].sent \in FrameOrNone
         /\ fr.token[t].flags \subseteq {"PROCESSED", "FAILED", "CANCELED"}
BY DEF FrSet, TokenRecords

(* A token may be changed as long as it is in use and stays in the queue   *)
(* of the fragmenter, or out of it.                                        *)
LEMMA TokenChanged ==
  ASSUME NEW fr, Jobs(fr), NEW t \in Tokens, NEW tk \in TokenRecords,
         "PROCESSED" \in tk.flags <=> "PROCESSED" \in fr.token[t].flags,
         tk.packet = NULL => "PROCESSED" \notin tk.flags,
         tk.packet # NULL => tk.offset <= PacketLength[tk.packet]
  PROVE  LET g == [fr EXCEPT !.token[t] = tk] IN
         Handled(fr, g, t) /\ g.token[t] = tk
<1> DEFINE g == [fr EXCEPT !.token[t] = tk]
<1>1. fr \in FrSet
  BY DEF Jobs
<1>2. /\ g \in FrSet /\ g.jobs = fr.jobs /\ g.posted = fr.posted
      /\ g.token[t] = tk /\ \A u \in Tokens \ {t} : g.token[u] = fr.token[u]
  BY <1>1 DEF FrSet
<1>3. \A i \in 1..Len(fr.jobs) : fr.jobs[i] \in Tokens
  BY <1>1 DEF FrSet
<1>4. \A i \in 1..Len(fr.jobs) :
        /\ "PROCESSED" \in g.token[fr.jobs[i]].flags
        /\ g.token[fr.jobs[i]].packet # NULL
  BY <1>2, <1>3 DEF Jobs
<1>5. \A u \in Tokens : "PROCESSED" \in g.token[u].flags =>
        \E i \in 1..Len(fr.jobs) : fr.jobs[i] = u
  BY <1>2 DEF Jobs
<1>6. \A u \in Tokens : g.token[u].packet # NULL =>
        g.token[u].offset <= PacketLength[g.token[u].packet]
  BY <1>2 DEF Jobs
<1>7. Jobs(g)
  BY <1>2, <1>4, <1>5, <1>6 DEF Jobs
<1> QED  BY <1>2, <1>7 DEF Handled

(* Posting the task for a token puts it into the queue once.               *)
LEMMA PostedOnce ==
  ASSUME NEW fr, Jobs(fr), NEW t \in Tokens, fr.token[t].packet # NULL
  PROVE  LET g == postIfNecessary(fr, t) IN
         /\ Handled(fr, g, t) /\ SamePlace(g.token[t], fr.token[t])
         /\ IsStopped(g.token[t]) <=> IsStopped(fr.token[t])
<1> DEFINE g == postIfNecessary(fr, t)
           tk == [fr.token[t] EXCEPT !.flags = @ \cup {"PROCESSED"}]
<1>0. fr \in FrSet /\ fr.token[t] \in TokenRecords
  BY TokenFields DEF Jobs
<1>1. CASE "PROCESSED" \in fr.token[t].flags
  BY <1>1 DEF postIfNecessary, Handled, SamePlace
<1>2. CASE "PROCESSED" \notin fr.token[t].flags
  <2>1. /\ tk \in TokenRecords /\ SamePlace(tk, fr.token[t])
        /\ tk.flags = fr.token[t].flags \cup {"PROCESSED"}
    BY <1>0 DEF TokenRecords, SamePlace
  <2>2. /\ g \in FrSet /\ g.jobs = Append(fr.jobs, t) /\ g.posted = TRUE
        /\ g.token[t] = tk
        /\ \A u \in Tokens \ {t} : g.token[u] = fr.token[u]
    <3>1. g = [fr EXCEPT !.token[t] = tk, !.jobs = Append(@, t),
                         !.posted = TRUE]
      BY <1>2 DEF postIfNecessary
    <3>2. /\ fr.token \in [Tokens -> TokenRecords]
          /\ Append(fr.jobs, t) \in Seq(Tokens)
      BY <1>0 DEF FrSet
    <3> HIDE DEF g, tk
    <3> QED  BY <1>0, <2>1, <3>1, <3>2 DEF FrSet
  <2> HIDE DEF g, tk
  <2>3. /\ fr.jobs \in Seq(Tokens) /\ Len(fr.jobs) \in Nat
        /\ Len(g.jobs) = Len(fr.jobs) + 1 /\ g.jobs[Len(fr.jobs) + 1] = t
        /\ \A i \in 1..Len(fr.jobs) : g.jobs[i] = fr.jobs[i]
    BY <1>0, <2>2 DEF FrSet
  <2>4. \A i \in 1..Len(fr.jobs) : fr.jobs[i] \in Tokens \ {t}
    BY <1>2, <2>3 DEF Jobs
  <2>5. \A i, j \in 1..Len(g.jobs) : g.jobs[i] = g.jobs[j] => i = j
    <3>1. \A i, j \in 1..Len(fr.jobs) : fr.jobs[i] = fr.jobs[j] => i = j
      BY DEF Jobs
    <3> TAKE i, j \in 1..Len(g.jobs)
    <3> HAVE g.jobs[i] = g.jobs[j]
    <3>2. /\ i \in 1..Len(fr.jobs) \/ i = Len(fr.jobs) + 1
          /\ j \in 1..Len(fr.jobs) \/ j = Len(fr.jobs) + 1
      BY <2>3
    <3>3. CASE i \in 1..Len(fr.jobs) /\ j \in 1..Len(fr.jobs)
      BY <2>3, <3>1, <3>3
    <3>4. CASE i \in 1..Len(fr.jobs) /\ j = Len(fr.jobs) + 1
      BY <2>3, <2>4, <3>4
    <3>5. CASE i = Len(fr.jobs) + 1 /\ j \in 1..Len(fr.jobs)
      BY <2>3, <2>4, <3>5
    <3> QED  BY <3>2, <3>3, <3>4, <3>5
  <2>6. \A i \in 1..Len(g.jobs) :
          /\ "PROCESSED" \in g.token[g.jobs[i]].flags
          /\ g.token[g.jobs[i]].packet # NULL
    <3> TAKE i \in 1..Len(g.jobs)
    <3>1. CASE i = Len(fr.jobs) + 1
      <4>1. g.token[g.jobs[i]] = tk
        BY <2>2, <2>3, <3>1
      <4>2. "PROCESSED" \in tk.flags /\ tk.packet # NULL
        BY <2>1 DEF SamePlace
      <4> QED  BY <4>1, <4>2
    <3>2. CASE i \in 1..Len(fr.jobs)
      BY <2>2, <2>3, <2>4, <3>2 DEF Jobs
    <3> QED  BY <2>3, <3>1, <3>2
  <2>7. \A u \in Tokens : "PROCESSED" \in g.token[u].flags =>
          \E i \in 1..Len(g.jobs) : g.jobs[i] = u
    <3> TAKE u \in Tokens
    <3> HAVE "PROCESSED" \in g.token[u].flags
    <3>1. CASE u = t
      BY <2>3, <3>1
    <3>2. CASE u # t
      <4>1. PICK i \in 1..Len(fr.jobs) : fr.jobs[i] = u
        BY <2>2, <3>2 DEF Jobs
      <4>2. i \in 1..Len(g.jobs) /\ g.jobs[i] = u
        BY <2>3, <4>1
      <4> QED  BY <4>2
    <3> QED  BY <3>1, <3>2
  <2>8. \A u \in Tokens : g.token[u].packet # NULL =>
          g.token[u].offset <= PacketLength[g.token[u].packet]
    <3>1. \A u \in Tokens : fr.token[u].packet # NULL =>
            fr.token[u].offset <= PacketLength[fr.token[u].packet]
      BY DEF Jobs
    <3> TAKE u \in Tokens
    <3> HAVE g.token[u].packet # NULL
    <3>2. CASE u = t
      <4>1. tk.packet = fr.token[t].packet /\ tk.offset = fr.token[t].offset
        BY <2>1 DEF SamePlace
      <4>2. g.token[t].packet = fr.token[t].packet
            /\ g.token[t].offset = fr.token[t].offset
        BY <2>2, <4>1
      <4> QED  BY <3>1, <3>2, <4>2
    <3>3. CASE u # t
      <4>1. g.token[u] = fr.token[u]
        BY <2>2, <3>3
      <4> QED  BY <3>1, <4>1
    <3> QED  BY <3>2, <3>3
  <2>9. g.posted <=> g.jobs # <<>>
    <3>1. Len(<<>>) = 0 /\ Len(g.jobs) # 0
      BY <2>3
    <3> QED  BY <2>2, <3>1
  <2>10. Jobs(g)
    BY <2>2, <2>5, <2>6, <2>7, <2>8, <2>9 DEF Jobs
  <2>11. Handled(fr, g, t) /\ SamePlace(g.token[t], fr.token[t])
    BY <2>1, <2>2, <2>10 DEF Handled, SamePlace
  <2>12. IsStopped(g.token[t]) <=> IsStopped(fr.token[t])
    BY <2>1, <2>2 DEF IsStopped
  <2> QED  BY <2>11, <2>12 DEF g
<1> QED  BY <1>1, <1>2

LEMMA ChangedAndPosted ==
  ASSUME NEW fr, Jobs(fr), NEW t \in Tokens, NEW tk \in TokenRecords,
         "PROCESSED" \in tk.flags <=> "PROCESSED" \in fr.token[t].flags,
         tk.packet # NULL, tk.offset <= PacketLength[tk.packet]
  PROVE  LET g == postIfNecessary([fr EXCEPT !.token[t] = tk], t) IN
         /\ Handled(fr, g, t) /\ SamePlace(g.token[t], tk)
         /\ IsStopped(g.token[t]) <=> IsStopped(tk)
<1> DEFINE h == [fr EXCEPT !.token[t] = tk]
           g == postIfNecessary(h, t)
<1>1. Handled(fr, h, t) /\ h.token[t] = tk
  BY TokenChanged
<1> HIDE DEF h
<1>2. /\ Handled(h, g, t) /\ SamePlace(g.token[t], tk)
      /\ IsStopped(g.token[t]) <=> IsStopped(tk)
  BY <1>1, PostedOnce DEF Handled
<1> HIDE DEF g
<1>3. Handled(fr, g, t)
  BY <1>1, <1>2 DEF Handled
<1> QED  BY <1>2, <1>3 DEF g, h

At(tk, p, o, r, s) ==
  tk.packet = p /\ tk.offset = o /\ tk.ready = r /\ tk.sent = s

LEMMA Starting ==
  ASSUME NEW fr, Jobs(fr), NEW t \in Tokens, NEW p \in Packets,
         fr.token[t].packet = NULL
  PROVE  LET g == startFragmenting(fr, t, p) IN
         /\ Handled(fr, g, t) /\ At(g.token[t], p, 0, NULL, NULL)
         /\ ~IsStopped(g.token[t])
<1> DEFINE tk == [NoToken EXCEPT !.packet = p]
<1>1. /\ tk = [packet |-> p, offset |-> 0, ready |-> NULL, sent |-> NULL,
               flags |-> {}]
      /\ tk \in TokenRecords /\ tk.packet = p /\ tk.offset = 0
      /\ tk.flags = {} /\ tk.ready = NULL /\ tk.sent = NULL
  BY DEF NoToken, TokenRecords, FrameOrNone
<1>2. "PROCESSED" \notin fr.token[t].flags
  BY DEF Jobs
<1>3. tk.packet # NULL /\ tk.offset <= PacketLength[p]
  BY <1>1, NoneIsNothing, FragmenterConstants
<1>4. startFragmenting(fr, t, p)
        = postIfNecessary([fr EXCEPT !.token[t] = tk], t)
  BY DEF startFragmenting
<1> HIDE DEF tk
<1> DEFINE g == startFragmenting(fr, t, p)
<1>5. /\ Handled(fr, g, t) /\ SamePlace(g.token[t], tk)
      /\ IsStopped(g.token[t]) <=> IsStopped(tk)
  <2>1. /\ tk \in TokenRecords /\ tk.packet # NULL
        /\ tk.offset <= PacketLength[tk.packet]
        /\ "PROCESSED" \in tk.flags <=> "PROCESSED" \in fr.token[t].flags
    BY <1>1, <1>2, <1>3
  <2> DEFINE h == postIfNecessary([fr EXCEPT !.token[t] = tk], t)
  <2>2. /\ Handled(fr, h, t) /\ SamePlace(h.token[t], tk)
        /\ IsStopped(h.token[t]) <=> IsStopped(tk)
    BY <2>1, ChangedAndPosted
  <2> QED  BY <1>4, <2>2
<1>6. ~IsStopped(tk)
  BY <1>1 DEF IsStopped
<1> QED  BY <1>1, <1>5, <1>6 DEF At, SamePlace

LEMMA Stopping ==
  ASSUME NEW fr, Jobs(fr), NEW t \in Tokens, fr.token[t].packet # NULL
  PROVE  LET g == stopFragmenting(fr, t) IN
         /\ Handled(fr, g, t) /\ SamePlace(g.token[t], fr.token[t])
         /\ IsStopped(g.token[t])
<1> DEFINE tk == [fr.token[t] EXCEPT !.flags = @ \cup {"CANCELED"}]
<1>1. fr \in FrSet /\ fr.token[t] \in TokenRecords
  BY TokenFields DEF Jobs
<1>2. /\ tk \in TokenRecords /\ SamePlace(tk, fr.token[t])
      /\ tk.flags = fr.token[t].flags \cup {"CANCELED"}
  BY <1>1 DEF TokenRecords, SamePlace
<1>3. tk.packet # NULL /\ tk.offset <= PacketLength[tk.packet]
  BY <1>2 DEF Jobs, SamePlace
<1>4. stopFragmenting(fr, t)
        = postIfNecessary([fr EXCEPT !.token[t] = tk], t)
  BY DEF stopFragmenting
<1> HIDE DEF tk
<1> QED
  BY <1>2, <1>3, <1>4, ChangedAndPosted DEF SamePlace, IsStopped

LEMMA Failing ==
  ASSUME NEW fr, Jobs(fr), NEW t \in Tokens, fr.token[t].packet # NULL
  PROVE  LET g == postIfNecessary(Failed(fr, t), t) IN
         /\ Handled(fr, g, t) /\ SamePlace(g.token[t], fr.token[t])
         /\ IsStopped(g.token[t])
<1> DEFINE tk == [fr.token[t] EXCEPT !.flags = @ \cup {"FAILED"}]
<1>1. fr \in FrSet /\ fr.token[t] \in TokenRecords
  BY TokenFields DEF Jobs
<1>2. /\ tk \in TokenRecords /\ SamePlace(tk, fr.token[t])
      /\ tk.flags = fr.token[t].flags \cup {"FAILED"}
  BY <1>1 DEF TokenRecords, SamePlace
<1>3. tk.packet # NULL /\ tk.offset <= PacketLength[tk.packet]
  BY <1>2 DEF Jobs, SamePlace
<1>4. Failed(fr, t) = [fr EXCEPT !.token[t] = tk]
  BY DEF Failed
<1> HIDE DEF tk
<1> QED
  BY <1>2, <1>3, <1>4, ChangedAndPosted DEF SamePlace, IsStopped

(* The token at the head of the queue is in use, and can be posted anew.   *)
LEMMA Dequeuing ==
  ASSUME NEW fr, Jobs(fr), fr.jobs # <<>>
  PROVE  LET t == Head(fr.jobs)
             g == Dequeued(fr)
         IN /\ t \in Tokens /\ Jobs(g)
            /\ g.token[t].packet # NULL /\ "PROCESSED" \notin g.token[t].flags
            /\ \A u \in Tokens : /\ SamePlace(g.token[u], fr.token[u])
                                 /\ IsStopped(g.token[u]) <=> IsStopped(fr.token[u])
<1> DEFINE t == Head(fr.jobs)
           g == Dequeued(fr)
           tk == [fr.token[t] EXCEPT !.flags = @ \ {"PROCESSED"}]
<1>1. fr \in FrSet /\ fr.jobs \in Seq(Tokens) /\ Len(fr.jobs) \in Nat
  BY DEF Jobs, FrSet
<1>2. /\ t = fr.jobs[1] /\ t \in Tokens /\ 1 \in 1..Len(fr.jobs)
      /\ Tail(fr.jobs) \in Seq(Tokens) /\ Len(Tail(fr.jobs)) = Len(fr.jobs) - 1
      /\ \A i \in 1..(Len(fr.jobs) - 1) : Tail(fr.jobs)[i] = fr.jobs[i + 1]
  BY <1>1
<1> HIDE DEF t
<1>3. fr.token[t].packet # NULL /\ fr.token[t] \in TokenRecords
  BY <1>1, <1>2, TokenFields DEF Jobs
<1>4. /\ tk \in TokenRecords /\ SamePlace(tk, fr.token[t])
      /\ tk.flags = fr.token[t].flags \ {"PROCESSED"}
  BY <1>3 DEF TokenRecords, SamePlace
<1>5. /\ g \in FrSet /\ g.jobs = Tail(fr.jobs)
      /\ g.posted <=> Tail(fr.jobs) # <<>>
      /\ g.token[t] = tk /\ \A u \in Tokens \ {t} : g.token[u] = fr.token[u]
  <2>1. g = [fr EXCEPT !.token[t] = tk, !.jobs = Tail(fr.jobs),
                       !.posted = (Tail(fr.jobs) # <<>>)]
    BY DEF Dequeued, t
  <2> HIDE DEF g, tk
  <2>2. fr.token \in [Tokens -> TokenRecords]
    BY <1>1 DEF FrSet
  <2>3. /\ g.token = [fr.token EXCEPT ![t] = tk] /\ g.jobs = Tail(fr.jobs)
        /\ g.posted = (Tail(fr.jobs) # <<>>)
    BY <1>1, <2>1 DEF FrSet
  <2>4. g \in FrSet
    BY <1>1, <1>2, <1>4, <2>1, <2>2 DEF FrSet
  <2> QED  BY <1>2, <2>2, <2>3, <2>4
<1> HIDE DEF g, tk
<1>6. \A i \in 1..Len(g.jobs) : i + 1 \in 1..Len(fr.jobs)
                                /\ g.jobs[i] = fr.jobs[i + 1]
  BY <1>1, <1>2, <1>5
<1>7. \A i \in 1..Len(g.jobs) : g.jobs[i] # t
  <2> SUFFICES ASSUME NEW i \in 1..Len(g.jobs), g.jobs[i] = t PROVE FALSE
    OBVIOUS
  <2>1. fr.jobs[i + 1] = fr.jobs[1]
    BY <1>2, <1>6
  <2>2. i + 1 = 1
    BY <1>2, <1>6, <2>1 DEF Jobs
  <2>3. i \in Nat \ {0}
    BY <1>1, <1>2, <1>5
  <2> QED  BY <2>2, <2>3
<1>8. \A i, j \in 1..Len(g.jobs) : g.jobs[i] = g.jobs[j] => i = j
  <2> TAKE i, j \in 1..Len(g.jobs)
  <2> HAVE g.jobs[i] = g.jobs[j]
  <2>1. i + 1 = j + 1
    BY <1>6 DEF Jobs
  <2>2. i \in Nat /\ j \in Nat
    BY <1>1, <1>2, <1>5
  <2> QED  BY <2>1, <2>2
<1>9. \A i \in 1..Len(g.jobs) : /\ "PROCESSED" \in g.token[g.jobs[i]].flags
                                /\ g.token[g.jobs[i]].packet # NULL
  <2> TAKE i \in 1..Len(g.jobs)
  <2>1. fr.jobs[i + 1] \in Tokens
    BY <1>1, <1>6
  <2> QED  BY <1>5, <1>6, <1>7, <2>1 DEF Jobs
<1>10. \A u \in Tokens : "PROCESSED" \in g.token[u].flags =>
         \E i \in 1..Len(g.jobs) : g.jobs[i] = u
  <2> SUFFICES ASSUME NEW u \in Tokens, "PROCESSED" \in g.token[u].flags
               PROVE  \E i \in 1..Len(g.jobs) : g.jobs[i] = u
    OBVIOUS
  <2>1. u # t /\ "PROCESSED" \in fr.token[u].flags
    BY <1>4, <1>5
  <2>2. PICK k \in 1..Len(fr.jobs) : fr.jobs[k] = u
    BY <2>1 DEF Jobs
  <2>3. k - 1 \in 1..Len(g.jobs) /\ (k - 1) + 1 = k
    BY <1>1, <1>2, <1>5, <2>1, <2>2
  <2> QED  BY <1>6, <2>2, <2>3
<1>11. \A u \in Tokens : /\ SamePlace(g.token[u], fr.token[u])
                         /\ IsStopped(g.token[u]) <=> IsStopped(fr.token[u])
  BY <1>4, <1>5 DEF SamePlace, IsStopped
<1>12. \A u \in Tokens : g.token[u].packet # NULL =>
         g.token[u].offset <= PacketLength[g.token[u].packet]
  BY <1>11 DEF Jobs, SamePlace
<1>13. Jobs(g)
  BY <1>5, <1>8, <1>9, <1>10, <1>12 DEF Jobs
<1> QED
  BY <1>2, <1>3, <1>4, <1>5, <1>11, <1>13 DEF SamePlace, g, t

(* attemptToReserveFrame and obtainNextFragment, in their three outcomes.  *)
LEMMA SizeOfPacked ==
  ASSUME NEW tk \in TokenRecords, tk.packet # NULL, HasNext(tk)
  PROVE  /\ PackedSize(tk) \in Nat
         /\ tk.offset + PackedSize(tk) <= PacketLength[tk.packet]
<1>1. /\ tk.offset \in Nat /\ PacketLength[tk.packet] \in Nat
      /\ FrameRoom \in Nat /\ tk.offset < PacketLength[tk.packet]
  BY NoneIsNothing, FragmenterConstants DEF TokenRecords, HasNext
<1>2. FrameRoom - (FrameRoom % 8) \in Nat
      /\ FrameRoom - (FrameRoom % 8) <= FrameRoom
  BY <1>1
<1> QED  BY <1>1, <1>2 DEF PackedSize

LEMMA Obtaining ==
  ASSUME NEW fr, Jobs(fr), NEW t \in Tokens, fr.token[t].packet # NULL,
         HasNext(fr.token[t]), NEW f \in FrameOrNone, NEW packed \in BOOLEAN
  PROVE  LET tk == fr.token[t]
             g == reserveAndObtain(fr, t, f, packed)
             gk == g.token[t]
             good == packed /\ PackedSize(tk) # 0
         IN /\ f # NULL \/ tk.sent = NULL => Handled(fr, g, t)
            /\ f = NULL /\ tk.sent # NULL => g = fr
            /\ f = NULL => SamePlace(gk, tk) /\ (IsStopped(tk) => IsStopped(gk))
            /\ f # NULL /\ ~good => /\ At(gk, tk.packet, tk.offset, f, tk.sent)
                                    /\ IsStopped(gk)
            /\ f # NULL /\ good =>
                 /\ At(gk, tk.packet, tk.offset + PackedSize(tk), f, tk.sent)
                 /\ IsStopped(gk) <=> IsStopped(tk)
<1> DEFINE tk == fr.token[t]
           g == reserveAndObtain(fr, t, f, packed)
           gk == g.token[t]
           good == packed /\ PackedSize(tk) # 0
<1>1. fr \in FrSet /\ tk \in TokenRecords
  BY TokenFields DEF Jobs
<1>2. tk.offset \in Nat /\ tk.offset <= PacketLength[tk.packet]
  BY <1>1 DEF Jobs, TokenRecords
<1>3. CASE f = NULL /\ tk.sent # NULL
  BY <1>3 DEF reserveAndObtain, SamePlace
<1>4. CASE f = NULL /\ tk.sent = NULL
  <2>1. g = postIfNecessary(Failed(fr, t), t)
    BY <1>4 DEF reserveAndObtain
  <2>2. Handled(fr, g, t) /\ SamePlace(gk, tk) /\ IsStopped(gk)
    BY <2>1, Failing
  <2> HIDE DEF g, tk
  <2> QED  BY <1>4, <2>2 DEF g, tk
<1>5. CASE f # NULL /\ ~good
  <2> DEFINE nk == [tk EXCEPT !.ready = f, !.flags = @ \cup {"FAILED"}]
  <2>1. /\ nk \in TokenRecords /\ At(nk, tk.packet, tk.offset, f, tk.sent)
        /\ nk.flags = tk.flags \cup {"FAILED"}
    BY <1>1, <1>5 DEF TokenRecords, At
  <2>2. g = postIfNecessary([fr EXCEPT !.token[t] = nk], t)
    <3>1. g = postIfNecessary(Failed([fr EXCEPT !.token[t].ready = f], t), t)
      BY <1>5 DEF reserveAndObtain
    <3>2. Failed([fr EXCEPT !.token[t].ready = f], t)
            = [fr EXCEPT !.token[t] = nk]
      BY <1>1 DEF Failed, FrSet, TokenRecords
    <3> QED  BY <3>1, <3>2
  <2> HIDE DEF g, nk, tk
  <2>3. /\ Handled(fr, g, t) /\ SamePlace(g.token[t], nk)
        /\ IsStopped(g.token[t]) <=> IsStopped(nk)
    BY <1>2, <2>1, <2>2, ChangedAndPosted DEF At, tk
  <2>4. IsStopped(nk)
    BY <2>1 DEF IsStopped
  <2> QED  BY <1>5, <2>1, <2>3, <2>4 DEF At, SamePlace, g, tk
<1>6. CASE f # NULL /\ good
  <2> DEFINE nk == [tk EXCEPT !.ready = f, !.offset = @ + PackedSize(tk)]
  <2>1. tk.offset + PackedSize(tk) \in Nat
        /\ tk.offset + PackedSize(tk) <= PacketLength[tk.packet]
    BY <1>1, <1>2, SizeOfPacked
  <2>2. /\ nk \in TokenRecords /\ nk.flags = tk.flags
        /\ At(nk, tk.packet, tk.offset + PackedSize(tk), f, tk.sent)
    BY <1>1, <1>6, <2>1 DEF TokenRecords, At
  <2>3. g = postIfNecessary([fr EXCEPT !.token[t] = nk], t)
    <3>1. g = postIfNecessary([[fr EXCEPT !.token[t].ready = f]
                                 EXCEPT !.token[t].offset = @ + PackedSize(tk)], t)
      BY <1>6 DEF reserveAndObtain
    <3>2. [[fr EXCEPT !.token[t].ready = f]
             EXCEPT !.token[t].offset = @ + PackedSize(tk)]
            = [fr EXCEPT !.token[t] = nk]
      BY <1>1 DEF FrSet, TokenRecords
    <3> QED  BY <3>1, <3>2
  <2> HIDE DEF g, nk, tk
  <2>4. /\ Handled(fr, g, t) /\ SamePlace(g.token[t], nk)
        /\ IsStopped(g.token[t]) <=> IsStopped(nk)
    BY <1>2, <2>1, <2>2, <2>3, ChangedAndPosted DEF At, tk
  <2>5. IsStopped(nk) <=> IsStopped(tk)
    BY <2>2 DEF IsStopped
  <2> QED  BY <1>6, <2>2, <2>4, <2>5 DEF At, SamePlace, g, tk
<1> QED  BY <1>3, <1>4, <1>5, <1>6

LEMMA SendingOff ==
  ASSUME NEW fr, Jobs(fr), NEW t \in Tokens, fr.token[t].packet # NULL,
         NEW taken \in BOOLEAN
  PROVE  LET tk == fr.token[t]
             g == sendFrame(fr, t, taken)
             gk == g.token[t]
         IN /\ Handled(fr, g, t)
            /\ taken => /\ At(gk, tk.packet, tk.offset, NULL, tk.ready)
                        /\ IsStopped(gk) <=> IsStopped(tk)
            /\ ~taken => SamePlace(gk, tk) /\ IsStopped(gk)
<1> DEFINE tk == fr.token[t]
           g == sendFrame(fr, t, taken)
           nk == [tk EXCEPT !.sent = tk.ready, !.ready = NULL]
<1>1. fr \in FrSet /\ tk \in TokenRecords
  BY TokenFields DEF Jobs
<1>2. tk.offset <= PacketLength[tk.packet]
  BY <1>1 DEF Jobs
<1>3. CASE taken
  <2>1. /\ nk \in TokenRecords /\ nk.flags = tk.flags
        /\ At(nk, tk.packet, tk.offset, NULL, tk.ready)
    BY <1>1 DEF TokenRecords, At, FrameOrNone
  <2>2. g = postIfNecessary([fr EXCEPT !.token[t] = nk], t)
    <3>1. g = postIfNecessary([fr EXCEPT !.token[t].sent = fr.token[t].ready,
                                         !.token[t].ready = NULL], t)
      BY <1>3 DEF sendFrame
    <3>2. [fr EXCEPT !.token[t].sent = fr.token[t].ready,
                     !.token[t].ready = NULL] = [fr EXCEPT !.token[t] = nk]
      BY <1>1 DEF FrSet, TokenRecords
    <3> QED  BY <3>1, <3>2
  <2> HIDE DEF g, nk, tk
  <2>3. /\ Handled(fr, g, t) /\ SamePlace(g.token[t], nk)
        /\ IsStopped(g.token[t]) <=> IsStopped(nk)
    BY <1>2, <2>1, <2>2, ChangedAndPosted DEF At, tk
  <2>4. IsStopped(nk) <=> IsStopped(tk)
    BY <2>1 DEF IsStopped
  <2> QED  BY <1>3, <2>1, <2>3, <2>4 DEF At, SamePlace, g, tk
<1>4. CASE ~taken
  <2>1. g = postIfNecessary(Failed(fr, t), t)
    BY <1>4 DEF sendFrame
  <2> QED  BY <1>4, <2>1, Failing
<1> QED  BY <1>3, <1>4

LEMMA Finishing ==
  ASSUME NEW fr, Jobs(fr), NEW t \in Tokens, "PROCESSED" \notin fr.token[t].flags
  PROVE  LET g == finishFragmenting(fr, t) IN
         Handled(fr, g, t) /\ g.token[t] = NoToken
<1>1. /\ NoToken \in TokenRecords /\ NoToken.flags = {}
      /\ NoToken.packet = NULL
  BY DEF NoToken, TokenRecords, FrameOrNone
<1> QED  BY <1>1, TokenChanged DEF finishFragmenting

(* A frame comes back to the fragmenter.                                   *)
LEMMA Returning ==
  ASSUME NEW fr, Jobs(fr), NEW f, NEW t \in Tokens, SentBy(fr, f) = t,
         fr.token[t].packet # NULL, NEW status
  PROVE  LET tk == fr.token[t]
             g == fragmentSent(fr, f, status)
             gk == g.token[t]
         IN /\ Handled(fr, g, t)
            /\ At(gk, tk.packet, tk.offset, tk.ready, NULL)
            /\ status = "SUCCESS" => (IsStopped(gk) <=> IsStopped(tk))
            /\ status # "SUCCESS" => IsStopped(gk)
<1> DEFINE tk == fr.token[t]
           g == fragmentSent(fr, f, status)
           nk == [tk EXCEPT !.sent = NULL,
                            !.flags = IF status = "SUCCESS" THEN @
                                      ELSE @ \cup {"FAILED"}]
<1>1. fr \in FrSet /\ tk \in TokenRecords
  BY TokenFields DEF Jobs
<1>2. tk.offset <= PacketLength[tk.packet]
  BY <1>1 DEF Jobs
<1>3. /\ nk \in TokenRecords
      /\ nk.flags = IF status = "SUCCESS" THEN tk.flags
                    ELSE tk.flags \cup {"FAILED"}
      /\ At(nk, tk.packet, tk.offset, tk.ready, NULL)
  BY <1>1 DEF TokenRecords, At, FrameOrNone
<1>4. g = postIfNecessary([fr EXCEPT !.token[t] = nk], t)
  <2> DEFINE done == [fr EXCEPT !.token[t].sent = NULL]
  <2>1. g = postIfNecessary(IF status = "SUCCESS" THEN done
                            ELSE Failed(done, t), t)
    BY DEF fragmentSent
  <2>2. CASE status = "SUCCESS"
    <3>1. done = [fr EXCEPT !.token[t] = nk]
      BY <1>1, <2>2 DEF FrSet, TokenRecords
    <3> QED  BY <2>1, <2>2, <3>1
  <2>3. CASE status # "SUCCESS"
    <3>1. Failed(done, t) = [fr EXCEPT !.token[t] = nk]
      BY <1>1, <2>3 DEF FrSet, TokenRecords, Failed
    <3> QED  BY <2>1, <2>3, <3>1
  <2> QED  BY <2>2, <2>3
<1> HIDE DEF g, nk, tk
<1>5. /\ Handled(fr, g, t) /\ SamePlace(g.token[t], nk)
      /\ IsStopped(g.token[t]) <=> IsStopped(nk)
  BY <1>2, <1>3, <1>4, ChangedAndPosted DEF At, tk
<1>6. /\ status = "SUCCESS" => (IsStopped(nk) <=> IsStopped(tk))
      /\ status # "SUCCESS" => IsStopped(nk)
  BY <1>3 DEF IsStopped
<1> QED  BY <1>3, <1>5, <1>6 DEF At, SamePlace, g, tk

-----------------------------------------------------------------------------
(* The forwarder.                                                          *)

LEMMA WithoutOne ==
  ASSUME NEW S, NEW s \in Seq(S), NEW i \in 1..Len(s)
  PROVE  LET r == SubSeq(s, 1, i - 1) \o SubSeq(s, i + 1, Len(s)) IN
         /\ r \in Seq(S) /\ Len(r) = Len(s) - 1
         /\ \A j \in 1..(Len(s) - 1) :
              r[j] = IF j < i THEN s[j] ELSE s[j + 1]
<1> DEFINE a == SubSeq(s, 1, i - 1)
           b == SubSeq(s, i + 1, Len(s))
<1>1. Len(s) \in Nat /\ i \in Nat /\ i >= 1 /\ i <= Len(s)
  OBVIOUS
<1>2. /\ a \in Seq(S) /\ Len(a) = i - 1
      /\ \A j \in 1..(i - 1) : a[j] = s[j]
  <2>1. \A j \in 1..(i - 1) : s[j] \in S
    BY <1>1
  <2> QED  BY <1>1, <2>1, SubSeqProperties
<1>3. /\ b \in Seq(S) /\ Len(b) = Len(s) - i
      /\ \A j \in 1..(Len(s) - i) : b[j] = s[j + i]
  <2>1. \A j \in (i + 1)..Len(s) : s[j] \in S
    BY <1>1
  <2>2. b \in Seq(S) /\ Len(b) = IF i + 1 <= Len(s) THEN Len(s) - (i + 1) + 1 ELSE 0
    BY <1>1, <2>1, SubSeqProperties
  <2>3. Len(b) = Len(s) - i
    BY <1>1, <2>2
  <2>4. \A j \in 1..(Len(s) - i) : b[j] = s[(i + 1) + j - 1]
    BY <1>1, <2>1, <2>3, SubSeqProperties
  <2> QED  BY <1>1, <2>2, <2>3, <2>4
<1> HIDE DEF a, b
<1>4. /\ a \o b \in Seq(S) /\ Len(a \o b) = Len(s) - 1
      /\ \A j \in 1..(Len(s) - 1) :
           (a \o b)[j] = IF j <= i - 1 THEN a[j] ELSE b[j - (i - 1)]
  <2>1. /\ a \o b \in Seq(S) /\ Len(a \o b) = Len(a) + Len(b)
        /\ \A j \in 1..(Len(a) + Len(b)) :
             (a \o b)[j] = IF j <= Len(a) THEN a[j] ELSE b[j - Len(a)]
    BY <1>2, <1>3, ConcatProperties
  <2>2. Len(a) + Len(b) = Len(s) - 1
    BY <1>1, <1>2, <1>3
  <2> QED  BY <1>2, <2>1, <2>2
<1>5. \A j \in 1..(Len(s) - 1) : (a \o b)[j] = IF j < i THEN s[j] ELSE s[j + 1]
  <2> TAKE j \in 1..(Len(s) - 1)
  <2>1. CASE j < i
    BY <1>1, <1>2, <1>4, <2>1
  <2>2. CASE ~(j < i)
    <3>1. j - (i - 1) \in 1..(Len(s) - i) /\ (j - (i - 1)) + i = j + 1
      BY <1>1, <2>2
    <3>2. (a \o b)[j] = b[j - (i - 1)]
      <4>1. ~(j <= i - 1)
        BY <1>1, <2>2
      <4> QED  BY <1>4, <4>1
    <3> QED  BY <1>3, <2>2, <3>1, <3>2
  <2> QED  BY <2>1, <2>2
<1> QED  BY <1>4, <1>5 DEF a, b

LEMMA FwFields ==
  ASSUME NEW fw \in FwSet
  PROVE  /\ fw.staged \in Seq(Elems) /\ fw.completed \in Seq(Elems)
         /\ Len(fw.staged) \in Nat /\ Len(fw.completed) \in Nat
         /\ \A i \in 1..Len(fw.staged) : fw.staged[i] \in Elems
         /\ \A i \in 1..Len(fw.completed) : fw.completed[i] \in Elems
         /\ fw.freeFrame \in FrameOrNone /\ fw.ring \in Seq(Tokens)
         /\ fw.slot \in [Tokens -> SlotRecords]
         /\ fw.txBit \in BOOLEAN /\ fw.timer \in BOOLEAN
         /\ fw.bcastSeqNo \in 0..(SeqNos - 1) /\ fw.tasks \in SUBSET ForwarderTasks
BY DEF FwSet

LEMMA SlotFields ==
  ASSUME NEW fw \in FwSet, NEW t \in Tokens
  PROVE  /\ fw.slot[t] \in SlotRecords
         /\ fw.slot[t].elem \in Elems \cup {NULL}
         /\ fw.slot[t].free \in FrameOrNone /\ fw.slot[t].used \in FrameOrNone
         /\ fw.slot[t].retx \in 0..MaxRetransmissions
BY DEF FwSet, SlotRecords

(* Only what the invariant does not look at differs.                       *)
Alike(fw, g) ==
  /\ g \in FwSet /\ g.staged = fw.staged /\ g.completed = fw.completed
  /\ g.freeFrame = fw.freeFrame /\ g.slot = fw.slot /\ g.ring = fw.ring
  /\ g.txBit = fw.txBit /\ g.bcastSeqNo = fw.bcastSeqNo

LEMMA TasksAreAlike ==
  ASSUME NEW fw \in FwSet, NEW T \in SUBSET ForwarderTasks, NEW b \in BOOLEAN
  PROVE  /\ Alike(fw, [fw EXCEPT !.tasks = T])
         /\ Alike(fw, [fw EXCEPT !.tasks = T, !.timer = b])
BY DEF FwSet, Alike

(* An element is taken out of the pool and staged.                         *)
LEMMA Staging ==
  ASSUME NEW fw \in FwSet, NEW p \in Packets, NEW a \in Routes[p]
  PROVE  LET g == startForwarding(fw, p, a)
             e == [packet |-> p, addr |-> a, status |-> "SUCCESS"]
         IN /\ g \in FwSet /\ e \in Elems /\ g.staged = Append(fw.staged, e)
            /\ g.completed = fw.completed /\ g.freeFrame = fw.freeFrame
            /\ g.slot = fw.slot /\ g.ring = fw.ring /\ g.txBit = fw.txBit
            /\ g.bcastSeqNo = fw.bcastSeqNo
<1> DEFINE e == [packet |-> p, addr |-> a, status |-> "SUCCESS"]
           g == startForwarding(fw, p, a)
<1>1. e \in Elems
  BY DEF Elems, Addrs, Statuses
<1>2. Append(fw.staged, e) \in Seq(Elems)
  BY <1>1, FwFields
<1>3. fw.tasks \cup {"staged"} \in SUBSET ForwarderTasks
  BY FwFields DEF ForwarderTasks
<1>4. g = [fw EXCEPT !.staged = Append(fw.staged, e),
                     !.tasks = fw.tasks \cup {"staged"}]
  BY DEF startForwarding, Posted, FwSet
<1> HIDE DEF e, g
<1>5. /\ g \in FwSet /\ g.staged = Append(fw.staged, e)
      /\ g.completed = fw.completed /\ g.freeFrame = fw.freeFrame
      /\ g.slot = fw.slot /\ g.ring = fw.ring /\ g.txBit = fw.txBit
      /\ g.bcastSeqNo = fw.bcastSeqNo
  BY <1>2, <1>3, <1>4 DEF FwSet
<1> QED  BY <1>1, <1>5 DEF e, g

(* The element of a packet goes from the one list to the other.            *)
Completed(fw, g, p, status) ==
  LET n == Len(fw.completed) IN
  /\ Lists(g)
  /\ \A i \in 1..Len(fw.staged) : fw.staged[i].packet # p =>
       \E j \in 1..Len(g.staged) : g.staged[j] = fw.staged[i]
  /\ Len(g.completed) = n + 1
  /\ \A i \in 1..n : g.completed[i] = fw.completed[i]
  /\ g.completed[n + 1].packet = p /\ g.completed[n + 1].status = status
  /\ g.freeFrame = fw.freeFrame
  /\ g.slot = fw.slot /\ g.ring = fw.ring /\ g.txBit = fw.txBit
  /\ g.bcastSeqNo = fw.bcastSeqNo

LEMMA Completing ==
  ASSUME NEW fw, Lists(fw), NEW p \in Packets, Places(fw.staged, p) # {},
         NEW status \in Statuses
  PROVE  Completed(fw, markCompleted(fw, p, status), p, status)
<1> DEFINE g == markCompleted(fw, p, status)
           n == Len(fw.completed)
           i == Min(Places(fw.staged, p))
           e == [fw.staged[i] EXCEPT !.status = status]
           r == SubSeq(fw.staged, 1, i - 1)
                  \o SubSeq(fw.staged, i + 1, Len(fw.staged))
<1>1. fw \in FwSet /\ n \in Nat /\ Len(fw.staged) \in Nat
  BY FwFields DEF Lists
<1>2. i \in 1..Len(fw.staged) /\ fw.staged[i].packet = p
  <2>1. Places(fw.staged, p) \subseteq Nat
    BY <1>1 DEF Places
  <2>2. i \in Places(fw.staged, p)
    BY <2>1, LeastOf
  <2> QED  BY <2>2 DEF Places
<1> HIDE DEF i
<1>3. e \in Elems /\ e.packet = p /\ e.status = status
  BY <1>1, <1>2, FwFields DEF Elems
<1>4. /\ r \in Seq(Elems) /\ Len(r) = Len(fw.staged) - 1
      /\ \A j \in 1..(Len(fw.staged) - 1) :
           r[j] = IF j < i THEN fw.staged[j] ELSE fw.staged[j + 1]
  BY <1>1, <1>2, FwFields, WithoutOne
<1>5. g = [fw EXCEPT !.staged = r, !.completed = Append(fw.completed, e),
                     !.tasks = fw.tasks \cup {"completed"}]
  BY <1>1 DEF markCompleted, Posted, FwSet, i
<1> HIDE DEF g, e, r
<1>6. /\ g \in FwSet /\ g.staged = r /\ g.completed = Append(fw.completed, e)
      /\ g.freeFrame = fw.freeFrame
      /\ g.slot = fw.slot /\ g.ring = fw.ring /\ g.txBit = fw.txBit
      /\ g.bcastSeqNo = fw.bcastSeqNo
  <2>1. Append(fw.completed, e) \in Seq(Elems)
        /\ fw.tasks \cup {"completed"} \in SUBSET ForwarderTasks
    BY <1>1, <1>3, FwFields DEF ForwarderTasks
  <2> QED  BY <1>1, <1>4, <1>5, <2>1 DEF FwSet
<1>7. /\ Len(g.completed) = n + 1 /\ g.completed[n + 1] = e
      /\ \A k \in 1..n : g.completed[k] = fw.completed[k]
  BY <1>1, <1>3, <1>6, FwFields
<1> HIDE DEF n
<1> DEFINE from(j) == IF j < i THEN j ELSE j + 1
<1>8. \A j \in 1..Len(g.staged) :
        /\ from(j) \in 1..Len(fw.staged) /\ from(j) # i
        /\ g.staged[j] = fw.staged[from(j)]
  BY <1>1, <1>2, <1>4, <1>6
<1>9. \A j, k \in 1..Len(g.staged) : from(j) = from(k) => j = k
  BY <1>1, <1>2
<1>10. \A k \in 1..Len(fw.staged) : k # i =>
         \E j \in 1..Len(g.staged) : from(j) = k
  <2> TAKE k \in 1..Len(fw.staged)
  <2> HAVE k # i
  <2>1. CASE k < i
    BY <1>1, <1>2, <1>4, <1>6, <2>1
  <2>2. CASE k > i
    <3>1. k - 1 \in 1..Len(g.staged) /\ from(k - 1) = k
      BY <1>1, <1>2, <1>4, <1>6, <2>2
    <3> QED  BY <3>1
  <2> QED  BY <1>1, <1>2, <2>1, <2>2
<1> HIDE DEF from
<1>11. \A j, k \in 1..Len(fw.staged) :
         fw.staged[j].packet = fw.staged[k].packet => j = k
  BY DEF Lists
<1>12. \A j \in 1..Len(g.staged) : g.staged[j].packet # p
  BY <1>2, <1>8, <1>11
<1>13. \A k \in 1..Len(fw.staged) : fw.staged[k].packet # p =>
         \E j \in 1..Len(g.staged) : g.staged[j] = fw.staged[k]
  BY <1>2, <1>8, <1>10
<1>14. Lists(g)
  <2>1. Len(g.staged) + Len(g.completed) <= MaxStaged
    <3>1. Len(fw.staged) + n <= MaxStaged
      BY DEF Lists, n
    <3>2. Len(g.staged) = Len(fw.staged) - 1
      BY <1>4, <1>6
    <3>3. Len(g.completed) = n + 1
      BY <1>7
    <3>4. Len(g.staged) + Len(g.completed) = Len(fw.staged) + n
      <4>1. \A a, b \in Nat : (a - 1) + (b + 1) = a + b
        OBVIOUS
      <4>2. Len(fw.staged) \in Nat /\ n \in Nat
        BY <1>1
      <4> QED  BY <3>2, <3>3, <4>1, <4>2
    <3> QED  BY <3>1, <3>4
  <2>2. \A j, k \in 1..Len(g.staged) :
          g.staged[j].packet = g.staged[k].packet => j = k
    <3> TAKE j, k \in 1..Len(g.staged)
    <3> HAVE g.staged[j].packet = g.staged[k].packet
    <3>1. /\ from(j) \in 1..Len(fw.staged) /\ g.staged[j] = fw.staged[from(j)]
          /\ from(k) \in 1..Len(fw.staged) /\ g.staged[k] = fw.staged[from(k)]
      BY <1>8
    <3>2. from(j) = from(k)
      BY <1>11, <3>1
    <3> QED  BY <1>9, <3>2
  <2>3. \A k \in 1..n : fw.completed[k].packet # p
    BY <1>2 DEF Lists, n
  <2>4. \A j, k \in 1..n :
          fw.completed[j].packet = fw.completed[k].packet => j = k
    BY DEF Lists, n
  <2>5. \A j, k \in 1..Len(g.completed) :
          g.completed[j].packet = g.completed[k].packet => j = k
    <3> TAKE j, k \in 1..Len(g.completed)
    <3> HAVE g.completed[j].packet = g.completed[k].packet
    <3>1. /\ j \in 1..n \/ j = n + 1
          /\ k \in 1..n \/ k = n + 1
      BY <1>1, <1>7
    <3>2. CASE j \in 1..n /\ k \in 1..n
      BY <1>7, <2>4, <3>2
    <3>3. CASE j \in 1..n /\ k = n + 1
      BY <1>3, <1>7, <2>3, <3>3
    <3>4. CASE j = n + 1 /\ k \in 1..n
      BY <1>3, <1>7, <2>3, <3>4
    <3> QED  BY <3>1, <3>2, <3>3, <3>4
  <2>6. \A j \in 1..Len(g.staged), k \in 1..Len(g.completed) :
          g.staged[j].packet # g.completed[k].packet
    <3> TAKE j \in 1..Len(g.staged), k \in 1..Len(g.completed)
    <3>1. k \in 1..n \/ k = n + 1
      BY <1>1, <1>7
    <3>2. CASE k \in 1..n
      <4>1. \A l \in 1..Len(fw.staged) :
              fw.staged[l].packet # fw.completed[k].packet
        BY <3>2 DEF Lists, n
      <4> QED  BY <1>7, <1>8, <3>2, <4>1
    <3>3. CASE k = n + 1
      BY <1>3, <1>7, <1>12, <3>3
    <3> QED  BY <3>1, <3>2, <3>3
  <2> QED  BY <1>6, <2>1, <2>2, <2>5, <2>6 DEF Lists
<1> QED
  BY <1>3, <1>6, <1>7, <1>13, <1>14 DEF g, n, Completed

(* g is fw but for the slot of t, the spare frame, and what Alike omits.   *)
SlotAt(s, e, f, u) == s.elem = e /\ s.free = f /\ s.used = u
Moved(fw, g, t) ==
  /\ g \in FwSet /\ g.staged = fw.staged /\ g.completed = fw.completed
  /\ g.ring = fw.ring /\ g.txBit = fw.txBit /\ g.bcastSeqNo = fw.bcastSeqNo
  /\ \A u \in Tokens \ {t} : g.slot[u] = fw.slot[u]

LEMMA SlotChanged ==
  ASSUME NEW fw \in FwSet, NEW t \in Tokens, NEW s \in SlotRecords
  PROVE  LET g == [fw EXCEPT !.slot[t] = s] IN
         Moved(fw, g, t) /\ g.freeFrame = fw.freeFrame /\ g.slot[t] = s
BY DEF FwSet, Moved



LEMMA FragmentingStarted ==
  ASSUME NEW fw \in FwSet, NEW t \in Tokens, NEW e \in Elems,
         NEW f \in FrameOrNone
  PROVE  LET g == fragmentingStarted(fw, t, e, f) IN
         /\ Moved(fw, g, t) /\ g.freeFrame = NULL
         /\ SlotAt(g.slot[t], e, f, NULL)
<1> DEFINE s == [FreeSlot EXCEPT !.elem = e, !.free = f]
           h == [fw EXCEPT !.slot[t] = s, !.freeFrame = NULL]
           g == fragmentingStarted(fw, t, e, f)
<1>1. s \in SlotRecords /\ SlotAt(s, e, f, NULL)
  <2>1. FreeSlot \in SlotRecords /\ FreeSlot.used = NULL
    <3>1. 0 \in 0..MaxRetransmissions
      BY NoneIsNothing
    <3> QED  BY <3>1 DEF FreeSlot, SlotRecords, FrameOrNone
  <2> QED  BY <2>1 DEF SlotRecords, SlotAt
<1> HIDE DEF s
<1>2. /\ h \in FwSet /\ Moved(fw, h, t) /\ h.freeFrame = NULL
      /\ h.slot[t] = s
  <2>1. NULL \in FrameOrNone
    BY DEF FrameOrNone
  <2>2. Moved(fw, h, t) /\ h.freeFrame = NULL /\ h.slot[t] = s
    BY <1>1, <2>1 DEF FwSet, Moved
  <2> QED  BY <2>2 DEF Moved
<1>3. g = [h EXCEPT !.tasks = h.tasks \cup {"staged"}]
  BY DEF fragmentingStarted, Posted, s
<1> HIDE DEF g, h
<1>4. Alike(h, g)
  <2>1. h.tasks \cup {"staged"} \in SUBSET ForwarderTasks
    BY <1>2, FwFields DEF ForwarderTasks
  <2> QED  BY <1>2, <1>3, <2>1, TasksAreAlike
<1>5. Moved(fw, g, t) /\ g.freeFrame = NULL /\ g.slot[t] = s
  BY <1>2, <1>4 DEF Moved, Alike
<1> QED  BY <1>1, <1>5 DEF g

LEMMA FrameGiven ==
  ASSUME NEW fw \in FwSet, NEW t \in Tokens
  PROVE  LET g == frameGiven(fw, t)
             s == fw.slot[t]
         IN /\ Moved(fw, g, t) /\ g.freeFrame = fw.freeFrame
            /\ SlotAt(g.slot[t], s.elem, NULL, s.free)
            /\ s.elem.addr = Broadcast => g.slot[t].retx = 0
<1> DEFINE s == fw.slot[t]
           retx == IF IsBroadcast(fw, t) THEN 0 ELSE MaxRetransmissions
           n == [s EXCEPT !.used = s.free, !.free = NULL, !.retx = retx]
           g == frameGiven(fw, t)
<1>1. s \in SlotRecords
  BY SlotFields
<1>2. retx \in 0..MaxRetransmissions
  BY NoneIsNothing
<1>3. /\ n \in SlotRecords /\ SlotAt(n, s.elem, NULL, s.free)
      /\ n.retx = retx
  BY <1>1, <1>2 DEF SlotRecords, SlotAt, FrameOrNone
<1>4. g = [fw EXCEPT !.slot[t] = n]
  <2>1. g = [fw EXCEPT !.slot[t].used = fw.slot[t].free, !.slot[t].free = NULL,
                       !.slot[t].retx = retx]
    BY DEF frameGiven
  <2> HIDE DEF retx
  <2>2. fw.slot \in [Tokens -> SlotRecords]
    BY DEF FwSet
  <2> DEFINE slots == [fw.slot EXCEPT ![t] = n]
  <2>3. [fw.slot EXCEPT ![t] = [[[fw.slot[t] EXCEPT !.used = fw.slot[t].free]
                                 EXCEPT !.free = NULL] EXCEPT !.retx = retx]]
          = slots
    BY <1>1 DEF SlotRecords
  <2>4. g = [fw EXCEPT !.slot = slots]
    BY <2>1, <2>2, <2>3, ZenonT(60) DEF FwSet
  <2> QED  BY <2>4
<1> HIDE DEF n, g
<1>5. Moved(fw, g, t) /\ g.freeFrame = fw.freeFrame /\ g.slot[t] = n
  BY <1>3, <1>4, SlotChanged
<1> QED  BY <1>3, <1>5 DEF IsBroadcast, g

LEMMA FrameReleased ==
  ASSUME NEW fw \in FwSet, NEW t \in Tokens, NEW f \in Frames
  PROVE  LET g == frameReleased(fw, t, f)
             s == fw.slot[t]
         IN /\ Moved(fw, g, t) /\ g.freeFrame = fw.freeFrame
            /\ SlotAt(g.slot[t], s.elem,
                      IF s.free = NULL THEN f ELSE s.free, NULL)
<1> DEFINE s == fw.slot[t]
           free == IF s.free = NULL THEN f ELSE s.free
           n == [s EXCEPT !.used = NULL, !.free = free]
           g == frameReleased(fw, t, f)
<1>1. s \in SlotRecords /\ s.free \in FrameOrNone
  BY SlotFields
<1>2. free \in FrameOrNone
  BY <1>1 DEF FrameOrNone
<1>3. n \in SlotRecords /\ SlotAt(n, s.elem, free, NULL)
  BY <1>1, <1>2 DEF SlotRecords, SlotAt, FrameOrNone
<1>4. g = [fw EXCEPT !.slot[t] = n]
  BY <1>1 DEF FwSet, SlotRecords, frameReleased
<1> HIDE DEF n, g
<1>5. Moved(fw, g, t) /\ g.freeFrame = fw.freeFrame /\ g.slot[t] = n
  BY <1>3, <1>4, SlotChanged
<1> QED  BY <1>3, <1>5 DEF g

(* The slot is free again before the packet is completed.                  *)
SlotFreed(fw, t) ==
  [fw EXCEPT !.slot[t] = FreeSlot,
             !.freeFrame = IF @ = NULL THEN fw.slot[t].free ELSE @]

LEMMA SlotIsFreed ==
  ASSUME NEW fw \in FwSet, NEW t \in Tokens
  PROVE  LET g == SlotFreed(fw, t) IN
         /\ Moved(fw, g, t) /\ SlotAt(g.slot[t], NULL, NULL, NULL)
         /\ g.freeFrame = IF fw.freeFrame = NULL THEN fw.slot[t].free
                          ELSE fw.freeFrame
<1> DEFINE f == IF fw.freeFrame = NULL THEN fw.slot[t].free ELSE fw.freeFrame
<1>1. f \in FrameOrNone
  BY FwFields, SlotFields
<1>2. FreeSlot \in SlotRecords /\ SlotAt(FreeSlot, NULL, NULL, NULL)
  BY NoneIsNothing DEF FreeSlot, SlotRecords, SlotAt, FrameOrNone
<1>3. SlotFreed(fw, t) = [fw EXCEPT !.slot[t] = FreeSlot, !.freeFrame = f]
  BY DEF SlotFreed
<1> HIDE DEF f
<1> DEFINE g == SlotFreed(fw, t)
           slots == [fw.slot EXCEPT ![t] = FreeSlot]
<1>4. /\ slots \in [Tokens -> SlotRecords] /\ slots[t] = FreeSlot
      /\ \A u \in Tokens \ {t} : slots[u] = fw.slot[u]
  BY <1>2 DEF FwSet
<1>5. g = [fw EXCEPT !.slot = slots, !.freeFrame = f]
  BY <1>3
<1> HIDE DEF g, slots
<1>6. /\ g \in FwSet /\ g.slot = slots /\ g.freeFrame = f
      /\ g.staged = fw.staged /\ g.completed = fw.completed
      /\ g.ring = fw.ring /\ g.txBit = fw.txBit
      /\ g.bcastSeqNo = fw.bcastSeqNo
  BY <1>1, <1>4, <1>5 DEF FwSet
<1>7. Moved(fw, g, t) /\ g.slot[t] = FreeSlot
  BY <1>4, <1>6 DEF Moved
<1> QED  BY <1>2, <1>6, <1>7 DEF f, g

LEMMA FinishedIsCompleted ==
  ASSUME NEW fw, NEW t, NEW status
  PROVE  fragmentingFinished(fw, t, status)
           = markCompleted(SlotFreed(fw, t), fw.slot[t].elem.packet, status)
BY DEF fragmentingFinished, SlotFreed

(* The ring.                                                               *)
LEMMA FrameEnqueued ==
  ASSUME NEW fw \in FwSet, NEW f, OwnerOf(fw, f) \in Tokens
  PROVE  LET g == frameEnqueued(fw, f) IN
         /\ g \in FwSet /\ g.staged = fw.staged /\ g.completed = fw.completed
         /\ g.freeFrame = fw.freeFrame /\ g.slot = fw.slot
         /\ g.txBit = fw.txBit /\ g.bcastSeqNo = fw.bcastSeqNo
         /\ g.ring = Append(fw.ring, OwnerOf(fw, f))
<1>1. Append(fw.ring, OwnerOf(fw, f)) \in Seq(Tokens)
  <2>1. fw.ring \in Seq(Tokens)
    BY FwFields
  <2> QED  BY <2>1, AppendProperties
<1>2. (fw.timer \/ ~fw.txBit) \in BOOLEAN
  OBVIOUS
<1>3. frameEnqueued(fw, f) = [fw EXCEPT !.ring = Append(fw.ring, OwnerOf(fw, f)),
                                        !.timer = (fw.timer \/ ~fw.txBit)]
  BY DEF frameEnqueued
<1> QED  BY <1>1, <1>2, <1>3 DEF FwSet

Attempted(fw, g, t) ==
  /\ g \in FwSet /\ g.staged = fw.staged /\ g.completed = fw.completed
  /\ g.freeFrame = fw.freeFrame
  /\ \A u \in Tokens \ {t} : g.slot[u] = fw.slot[u]
  /\ SlotAt(g.slot[t], fw.slot[t].elem, fw.slot[t].free, fw.slot[t].used)

LEMMA AttemptMade ==
  ASSUME NEW fw \in FwSet, fw.ring # <<>>, Len(fw.ring) = 1, NEW status
  PROVE  LET g == AfterAttempt(fw, status)
             t == fw.ring[1]
         IN /\ t \in Tokens /\ t = Head(fw.ring)
            /\ Attempted(fw, g, t)
            /\ g.txBit = fw.txBit /\ g.bcastSeqNo = fw.bcastSeqNo
            /\ Retries(fw, status) => g.ring = fw.ring /\ fw.slot[t].retx > 0
            /\ ~Retries(fw, status) =>
                 g.ring = <<>> /\ g.slot[t].retx = fw.slot[t].retx
<1> DEFINE t == fw.ring[1]
           s == fw.slot[t]
           again == Retries(fw, status)
           n == [s EXCEPT !.retx = IF again THEN @ - 1 ELSE @]
           ring == IF again THEN Append(Tail(fw.ring), t) ELSE Tail(fw.ring)
           g == AfterAttempt(fw, status)
<1>1. t \in Tokens /\ t = Head(fw.ring) /\ Tail(fw.ring) = <<>>
  <2>1. fw.ring \in Seq(Tokens) /\ 1 \in 1..Len(fw.ring)
    BY FwFields
  <2>2. t \in Tokens /\ t = Head(fw.ring)
    BY <2>1
  <2>3. Tail(fw.ring) \in Seq(Tokens) /\ Len(Tail(fw.ring)) = 0
    BY <2>1, HeadTailProperties
  <2> QED  BY <2>2, <2>3, EmptySeq
<1>2. s \in SlotRecords /\ s.retx \in 0..MaxRetransmissions
  BY <1>1, SlotFields
<1>3. again => s.retx > 0
  BY <1>1 DEF Retries
<1> HIDE DEF again
<1>4. /\ n \in SlotRecords /\ SlotAt(n, s.elem, s.free, s.used)
      /\ ~again => n.retx = s.retx
  <2>1. (IF again THEN s.retx - 1 ELSE s.retx) \in 0..MaxRetransmissions
    BY <1>2, <1>3, NoneIsNothing
  <2> QED  BY <1>2, <2>1 DEF SlotRecords, SlotAt
<1>5. /\ ring = IF again THEN fw.ring ELSE <<>>
      /\ ring \in Seq(Tokens)
  <2>1. Append(<<>>, t) = fw.ring
    <3>1. fw.ring \in Seq(Tokens) /\ Append(<<>>, t) \in Seq(Tokens)
      BY <1>1, FwFields
    <3>2. Len(Append(<<>>, t)) = 1 /\ Append(<<>>, t)[1] = t
      BY <1>1
    <3> QED  BY <3>1, <3>2, SeqEqual
  <2>2. fw.ring \in Seq(Tokens) /\ <<>> \in Seq(Tokens)
    BY FwFields
  <2> QED  BY <1>1, <2>1, <2>2
<1>6. g = [fw EXCEPT !.ring = ring, !.slot[t] = n, !.timer = TRUE]
  BY <1>1, <1>2 DEF AfterAttempt, again, FwSet, SlotRecords
<1> HIDE DEF n, ring, g
<1>7. /\ g \in FwSet /\ g.staged = fw.staged /\ g.completed = fw.completed
      /\ g.freeFrame = fw.freeFrame /\ g.txBit = fw.txBit
      /\ g.bcastSeqNo = fw.bcastSeqNo /\ g.ring = ring /\ g.slot[t] = n
      /\ \A u \in Tokens \ {t} : g.slot[u] = fw.slot[u]
  <2>1. [fw.slot EXCEPT ![t] = n] \in [Tokens -> SlotRecords]
    BY <1>4, FwFields
  <2> QED  BY <1>1, <1>4, <1>5, <1>6, <2>1 DEF FwSet
<1>8. Attempted(fw, g, t)
  BY <1>4, <1>7 DEF Attempted, SlotAt
<1> QED  BY <1>1, <1>3, <1>4, <1>5, <1>7, <1>8 DEF g, again

LEMMA AttemptEnded ==
  ASSUME NEW fw \in FwSet, fw.ring # <<>>, Len(fw.ring) = 1, NEW status
  PROVE  LET g == frameSendingFinished(fw, status)
             t == fw.ring[1]
         IN /\ t \in Tokens /\ t = Head(fw.ring)
            /\ Attempted(fw, g, t)
            /\ g.txBit = FALSE
            /\ g.bcastSeqNo = IF IsBroadcast(fw, t)
                                THEN (fw.bcastSeqNo + 1) % SeqNos
                                ELSE fw.bcastSeqNo
            /\ Retries(fw, status) => g.ring = fw.ring /\ fw.slot[t].retx > 0
            /\ ~Retries(fw, status) =>
                 g.ring = <<>> /\ g.slot[t].retx = fw.slot[t].retx
<1> DEFINE t == fw.ring[1]
           h == AfterAttempt(fw, status)
           g == frameSendingFinished(fw, status)
           n == IF IsBroadcast(fw, t) THEN (fw.bcastSeqNo + 1) % SeqNos
                ELSE fw.bcastSeqNo
<1>1. /\ t \in Tokens /\ t = Head(fw.ring)
      /\ Attempted(fw, h, t)
      /\ h.txBit = fw.txBit /\ h.bcastSeqNo = fw.bcastSeqNo
      /\ Retries(fw, status) => h.ring = fw.ring /\ fw.slot[t].retx > 0
      /\ ~Retries(fw, status) =>
           h.ring = <<>> /\ h.slot[t].retx = fw.slot[t].retx
  BY AttemptMade
<1> HIDE DEF h
<1>2. n \in 0..(SeqNos - 1)
  <2>1. fw.bcastSeqNo \in Nat /\ SeqNos \in Nat \ {0}
    BY FwFields, NoneIsNothing
  <2>2. (fw.bcastSeqNo + 1) % SeqNos \in 0..(SeqNos - 1)
    BY <2>1
  <2> QED  BY <2>2, FwFields
<1>3. g = [h EXCEPT !.txBit = FALSE, !.bcastSeqNo = n]
  BY <1>1 DEF frameSendingFinished, h
<1> HIDE DEF g, n
<1>4. /\ g \in FwSet /\ g.staged = h.staged /\ g.completed = h.completed
      /\ g.freeFrame = h.freeFrame /\ g.slot = h.slot /\ g.ring = h.ring
      /\ g.txBit = FALSE /\ g.bcastSeqNo = n
  BY <1>1, <1>2, <1>3 DEF FwSet, Attempted
<1>5. Attempted(fw, g, t)
  BY <1>1, <1>4 DEF Attempted
<1> HIDE DEF t
<1> QED  BY <1>1, <1>4, <1>5 DEF g, n, t

-----------------------------------------------------------------------------
(* The steps.  What the parts of the invariant say together:               *)
LEMMA Together ==
  ASSUME NEW fr, NEW sq, NEW fw, NEW free, NEW low, NEW cont, NEW bytes,
         NEW last, Whole(fr, sq, fw, free, low, cont, bytes, last)
  PROVE  /\ fr \in FrSet /\ fw \in FwSet
         /\ \A t \in Tokens : fw.slot[t].used # NULL =>
              /\ fw.slot[t].used \in Frames /\ fw.slot[t].free = NULL
              /\ FrameOf(fw.slot[t]) = fw.slot[t].used
              /\ fw.slot[t].elem # NULL /\ fr.token[t].packet # NULL
         /\ \A t, u \in Tokens :
              fw.slot[t].used # NULL /\ fw.slot[t].used = fw.slot[u].used => t = u
         /\ \A t \in Tokens : fr.token[t].packet # NULL =>
              /\ fw.slot[t].elem \in Elems /\ fr.token[t].packet \in Packets
              /\ fw.slot[t].elem.packet = fr.token[t].packet
              /\ fw.slot[t].elem # NULL
              /\ FrameOf(fw.slot[t]) \in Frames
              /\ \A i \in 1..Len(fw.completed) :
                   fw.completed[i].packet # fr.token[t].packet
         /\ \A t, u \in Tokens :
              /\ fr.token[t].packet # NULL
              /\ fr.token[t].packet = fr.token[u].packet
              => t = u
         /\ \A t \in Tokens :
              /\ fr.token[t].sent # NULL =>
                   fw.slot[t].used = fr.token[t].sent /\ fr.token[t].ready = NULL
              /\ fr.token[t].ready # NULL =>
                   fw.slot[t].used = fr.token[t].ready /\ fr.token[t].sent = NULL
<1>1. fr \in FrSet /\ fw \in FwSet
  BY DEF Whole, Jobs, Lists
<1>2. \A t \in Tokens : Match(fr.token[t], fw.slot[t])
  BY DEF Whole, Matched
<1>3. \A t \in Tokens :
        /\ fw.slot[t].elem \in Elems \cup {NULL}
        /\ fw.slot[t].free \in FrameOrNone /\ fw.slot[t].used \in FrameOrNone
        /\ fr.token[t].packet \in Packets \cup {NULL}
  BY <1>1, SlotFields, TokenFields
<1>4. \A t \in Tokens : fw.slot[t].used # NULL =>
        /\ fw.slot[t].used \in Frames /\ fw.slot[t].free = NULL
        /\ FrameOf(fw.slot[t]) = fw.slot[t].used
        /\ fw.slot[t].elem # NULL /\ fr.token[t].packet # NULL
  BY <1>2, <1>3 DEF Match, FrameOf, FrameOrNone
<1>5. \A t, u \in Tokens :
        fw.slot[t].used # NULL /\ fw.slot[t].used = fw.slot[u].used => t = u
  <2>1. \A t, u \in Tokens : /\ FrameOf(fw.slot[t]) # NULL
                             /\ FrameOf(fw.slot[u]) = FrameOf(fw.slot[t])
                             => t = u
    BY DEF Whole, Placed
  <2> QED  BY <1>4, <2>1
<1>6. \A t \in Tokens : fr.token[t].packet # NULL =>
        /\ fw.slot[t].elem \in Elems /\ fr.token[t].packet \in Packets
        /\ fw.slot[t].elem.packet = fr.token[t].packet
        /\ fw.slot[t].elem # NULL /\ FrameOf(fw.slot[t]) \in Frames
  BY <1>2, <1>3 DEF Match, FrameOf, FrameOrNone
<1>7. \A t \in Tokens : fr.token[t].packet # NULL =>
        \A i \in 1..Len(fw.completed) :
          fw.completed[i].packet # fr.token[t].packet
  <2> TAKE t \in Tokens
  <2> HAVE fr.token[t].packet # NULL
  <2>1. PICK j \in 1..Len(fw.staged) : fw.staged[j] = fw.slot[t].elem
    BY <1>6 DEF Whole, Slots
  <2>2. \A i \in 1..Len(fw.completed) :
          fw.staged[j].packet # fw.completed[i].packet
    BY DEF Whole, Lists
  <2> QED  BY <1>6, <2>1, <2>2
<1>8. \A t, u \in Tokens : /\ fr.token[t].packet # NULL
                           /\ fr.token[t].packet = fr.token[u].packet
                           => t = u
  <2>1. \A t, u \in Tokens :
          t # u /\ fw.slot[t].elem # NULL /\ fw.slot[u].elem # NULL =>
            fw.slot[t].elem.packet # fw.slot[u].elem.packet
    BY DEF Whole, Slots
  <2> QED  BY <1>6, <2>1
<1>9. \A t \in Tokens :
        /\ fr.token[t].sent # NULL =>
             fw.slot[t].used = fr.token[t].sent /\ fr.token[t].ready = NULL
        /\ fr.token[t].ready # NULL =>
             fw.slot[t].used = fr.token[t].ready /\ fr.token[t].sent = NULL
  BY <1>2 DEF Match
<1> QED  BY <1>1, <1>4, <1>5, <1>6, <1>7, <1>8, <1>9

LEMMA SameLists ==
  ASSUME NEW fw, Lists(fw), NEW g \in FwSet, g.staged = fw.staged,
         g.completed = fw.completed
  PROVE  Lists(g)
PROOF
<1>1. Len(g.staged) + Len(g.completed) <= MaxStaged
  BY DEF Lists
<1>2. \A i, j \in 1..Len(g.staged) :
        g.staged[i].packet = g.staged[j].packet => i = j
  BY DEF Lists
<1>3. \A i, j \in 1..Len(g.completed) :
        g.completed[i].packet = g.completed[j].packet => i = j
  BY DEF Lists
<1>4. \A i \in 1..Len(g.staged), j \in 1..Len(g.completed) :
        g.staged[i].packet # g.completed[j].packet
  BY DEF Lists
<1> QED  BY <1>1, <1>2, <1>3, <1>4 DEF Lists

(* Slots is about what is staged and what the slots are for, no more.      *)
LEMMA SameElems ==
  ASSUME NEW fw, Slots(fw), NEW g, g.staged = fw.staged,
         \A t \in Tokens : g.slot[t].elem = fw.slot[t].elem
  PROVE  Slots(g)
PROOF
<1>1. \A t \in Tokens : g.slot[t].elem # NULL =>
        \E i \in 1..Len(g.staged) : g.staged[i] = g.slot[t].elem
  BY DEF Slots
<1>2. ASSUME NEW t \in Tokens, NEW u \in Tokens, t # u,
             g.slot[t].elem # NULL, g.slot[u].elem # NULL
      PROVE  /\ g.slot[t].elem.addr # g.slot[u].elem.addr
             /\ g.slot[t].elem.packet # g.slot[u].elem.packet
  <2>1. g.slot[t].elem = fw.slot[t].elem /\ g.slot[u].elem = fw.slot[u].elem
    OBVIOUS
  <2> QED  BY <1>2, <2>1 DEF Slots
<1> QED  BY <1>1, <1>2 DEF Slots

(* CountOf is about the frame that the slot has sent, no other.            *)
LEMMA SameFragment ==
  ASSUME NEW tk, NEW s, NEW cont, NEW bytes, CountOf(tk, s, cont, bytes),
         NEW new, s.used # NULL => new[s.used] = cont[s.used],
         NEW r, r.used = s.used
  PROVE  CountOf(tk, r, new, bytes)
BY DEF CountOf

(* Tasks and the timer of the forwarder are not in the invariant.          *)
LEMMA AlikeIsWhole ==
  ASSUME NEW fr, NEW sq, NEW fw, NEW free, NEW low, NEW cont, NEW bytes,
         NEW last, Whole(fr, sq, fw, free, low, cont, bytes, last),
         NEW g, Alike(fw, g)
  PROVE  Whole(fr, sq, g, free, low, cont, bytes, last)
<1>1. Jobs(fr)
  BY DEF Whole
<1>2. Lists(g)
  BY SameLists DEF Whole, Alike
<1>3. Slots(g)
  BY DEF Whole, Slots, Alike
<1>4. Matched(fr, g)
  BY DEF Whole, Matched, Alike
<1>5. Placed(g, free)
  BY DEF Whole, Placed, Alike
<1>6. Sending(fr, sq, g, low)
  BY DEF Whole, Sending, Alike
<1>7. Counted(fr, g, cont, bytes)
  BY DEF Whole, Counted, Alike
<1>8. Numbered(g, low, cont, last)
  BY DEF Whole, Numbered, Alike
<1> QED  BY <1>1, <1>2, <1>3, <1>4, <1>5, <1>6, <1>7, <1>8 DEF Whole

(* Nor is the queue of the fragmenter, but for Jobs; and a token may be    *)
(* stopped at any time.                                                    *)
LEMMA StoppedIsWhole ==
  ASSUME NEW fr, NEW sq, NEW fw, NEW free, NEW low, NEW cont, NEW bytes,
         NEW last, Whole(fr, sq, fw, free, low, cont, bytes, last),
         NEW h, Jobs(h),
         \A u \in Tokens : /\ SamePlace(h.token[u], fr.token[u])
                           /\ IsStopped(fr.token[u]) => IsStopped(h.token[u])
  PROVE  Whole(h, sq, fw, free, low, cont, bytes, last)
<1>1. Matched(h, fw)
  BY DEF Whole, Matched, Match, SamePlace
<1>2. Sending(h, sq, fw, low)
  <2>1. \A u \in Tokens : h.token[u].sent = fr.token[u].sent
    BY DEF SamePlace
  <2>2. sq.sending => fw.ring[1] \in Tokens
    BY FwFields DEF Whole, Lists, Sending
  <2> QED  BY <2>1, <2>2 DEF Whole, Sending
<1>3. Counted(h, fw, cont, bytes)
  <2>1. \A u \in Tokens : CountOf(h.token[u], fw.slot[u], cont, bytes)
    BY DEF Whole, Counted, CountOf, SamePlace
  <2>2. \A u \in Tokens : h.token[u].packet = fr.token[u].packet
    BY DEF SamePlace
  <2> QED  BY <2>1, <2>2 DEF Whole, Counted
<1> QED  BY <1>1, <1>2, <1>3 DEF Whole

(* startForwardingIpv6Packet, for a packet that is not on the lists.       *)
LEMMA StagingIsWhole ==
  ASSUME NEW fr, NEW sq, NEW fw, NEW free, NEW low, NEW cont, NEW bytes,
         NEW last, Whole(fr, sq, fw, free, low, cont, bytes, last),
         NEW p \in Packets, NEW a \in Routes[p], MayEnqueue(fw),
         Places(fw.staged, p) = {}, Places(fw.completed, p) = {}
  PROVE  Whole(fr, sq, startForwarding(fw, p, a), free, low, cont, bytes, last)
<1> DEFINE g == startForwarding(fw, p, a)
           n == Len(fw.staged)
<1>1. fw \in FwSet /\ fw.staged \in Seq(Elems) /\ n \in Nat
      /\ Len(fw.completed) \in Nat
  BY FwFields DEF Whole, Lists
<1> DEFINE e == [packet |-> p, addr |-> a, status |-> "SUCCESS"]
<1>2. /\ e \in Elems /\ e.packet = p
      /\ g \in FwSet /\ g.staged = Append(fw.staged, e)
      /\ g.completed = fw.completed /\ g.freeFrame = fw.freeFrame
      /\ g.slot = fw.slot /\ g.ring = fw.ring /\ g.txBit = fw.txBit
      /\ g.bcastSeqNo = fw.bcastSeqNo
  BY <1>1, Staging
<1> HIDE DEF g, e
<1>3. /\ Len(g.staged) = n + 1 /\ g.staged[n + 1] = e
      /\ \A i \in 1..n : g.staged[i] = fw.staged[i]
  BY <1>1, <1>2
<1>4. /\ \A i \in 1..n : fw.staged[i].packet # p
      /\ \A i \in 1..Len(fw.completed) : fw.completed[i].packet # p
  BY DEF Places
<1>5. Lists(g)
  <2>1. Len(g.staged) + Len(g.completed) <= MaxStaged
    <3>1. Len(fw.staged) + Len(fw.completed) < MaxStaged /\ MaxStaged \in Nat
      BY NoneIsNothing DEF MayEnqueue
    <3>2. Len(g.staged) = n + 1 /\ Len(g.completed) = Len(fw.completed)
      BY <1>2, <1>3
    <3>3. \A i, j, k \in Nat : i + j < k => (i + 1) + j <= k
      OBVIOUS
    <3> QED  BY <1>1, <3>1, <3>2, <3>3
  <2>2. \A i, j \in 1..n : fw.staged[i].packet = fw.staged[j].packet => i = j
    BY DEF Whole, Lists
  <2>3. \A i, j \in 1..Len(g.staged) :
          g.staged[i].packet = g.staged[j].packet => i = j
    <3> TAKE i, j \in 1..Len(g.staged)
    <3> HAVE g.staged[i].packet = g.staged[j].packet
    <3>1. /\ i \in 1..n \/ i = n + 1
          /\ j \in 1..n \/ j = n + 1
      BY <1>1, <1>3
    <3>2. CASE i \in 1..n /\ j \in 1..n
      BY <1>3, <2>2, <3>2
    <3>3. CASE i \in 1..n /\ j = n + 1
      BY <1>2, <1>3, <1>4, <3>3
    <3>4. CASE i = n + 1 /\ j \in 1..n
      BY <1>2, <1>3, <1>4, <3>4
    <3> QED  BY <3>1, <3>2, <3>3, <3>4
  <2>4. \A i, j \in 1..Len(g.completed) :
          g.completed[i].packet = g.completed[j].packet => i = j
    BY <1>2 DEF Whole, Lists
  <2>5. \A i \in 1..Len(g.staged), j \in 1..Len(g.completed) :
          g.staged[i].packet # g.completed[j].packet
    <3> TAKE i \in 1..Len(g.staged), j \in 1..Len(g.completed)
    <3>1. i \in 1..n \/ i = n + 1
      BY <1>1, <1>3
    <3>2. CASE i \in 1..n
      <4>1. \A k \in 1..Len(fw.completed) :
              fw.staged[i].packet # fw.completed[k].packet
        BY <3>2 DEF Whole, Lists
      <4> QED  BY <1>2, <1>3, <3>2, <4>1
    <3>3. CASE i = n + 1
      BY <1>2, <1>3, <1>4, <3>3
    <3> QED  BY <3>1, <3>2, <3>3
  <2> QED  BY <1>2, <2>1, <2>3, <2>4, <2>5 DEF Lists
<1>6. Slots(g)
  <2>1. \A t \in Tokens : g.slot[t].elem # NULL =>
          \E i \in 1..Len(g.staged) : g.staged[i] = g.slot[t].elem
    <3> TAKE t \in Tokens
    <3> HAVE g.slot[t].elem # NULL
    <3>1. PICK i \in 1..n : fw.staged[i] = fw.slot[t].elem
      BY <1>2 DEF Whole, Slots
    <3>2. i \in 1..Len(g.staged)
      BY <1>1, <1>3
    <3> QED  BY <1>2, <1>3, <3>1, <3>2
  <2> QED  BY <1>2, <2>1 DEF Whole, Slots
<1>7. Matched(fr, g) /\ Placed(g, free)
  BY <1>2 DEF Whole, Matched, Placed
<1>8. Sending(fr, sq, g, low)
  BY <1>2 DEF Whole, Sending
<1>9. Counted(fr, g, cont, bytes)
  BY <1>2 DEF Whole, Counted
<1>10. Numbered(g, low, cont, last)
  BY <1>2 DEF Whole, Numbered
<1> QED
  BY <1>5, <1>6, <1>7, <1>8, <1>9, <1>10 DEF Whole, g

(* forwardingIpv6PacketFinished: the packet is not on the lists any more.  *)
LEMMA ReportingIsWhole ==
  ASSUME NEW fr, NEW sq, NEW fw, NEW free, NEW low, NEW cont, NEW bytes,
         NEW last, Whole(fr, sq, fw, free, low, cont, bytes, last),
         fw.completed # <<>>
  PROVE  LET p == Head(fw.completed).packet
             g == RemovedFirst(fw)
         IN /\ p \in Packets
            /\ Places(g.staged, p) = {} /\ Places(g.completed, p) = {}
            /\ MayEnqueue(fw) => MayEnqueue(g)
            /\ Whole(fr, sq, g, free, low, cont, [bytes EXCEPT ![p] = 0], last)
<1> DEFINE p == Head(fw.completed).packet
           g == RemovedFirst(fw)
           n == Len(fw.completed)
           sent == [bytes EXCEPT ![p] = 0]
<1>1. /\ fw \in FwSet /\ fw.completed \in Seq(Elems) /\ n \in Nat
      /\ Len(fw.staged) \in Nat
  BY FwFields DEF Whole, Lists
<1>2. /\ n >= 1 /\ Head(fw.completed) = fw.completed[1]
      /\ fw.completed[1] \in Elems
      /\ Tail(fw.completed) \in Seq(Elems) /\ Len(Tail(fw.completed)) = n - 1
      /\ \A i \in 1..(n - 1) : Tail(fw.completed)[i] = fw.completed[i + 1]
  BY <1>1
<1>3. p = fw.completed[1].packet /\ p \in Packets
  BY <1>2 DEF Elems
<1> HIDE DEF p
<1>4. /\ g \in FwSet /\ g.completed = Tail(fw.completed)
      /\ g.staged = fw.staged /\ g.freeFrame = fw.freeFrame
      /\ g.slot = fw.slot /\ g.ring = fw.ring /\ g.txBit = fw.txBit
      /\ g.bcastSeqNo = fw.bcastSeqNo
  BY <1>1, <1>2 DEF RemovedFirst, FwSet
<1> HIDE DEF g
<1>5. \A i \in 1..Len(g.completed) :
        i + 1 \in 1..n /\ i + 1 # 1 /\ g.completed[i] = fw.completed[i + 1]
  BY <1>1, <1>2, <1>4
<1>6. /\ \A i, j \in 1..n :
           fw.completed[i].packet = fw.completed[j].packet => i = j
      /\ \A i \in 1..Len(fw.staged), j \in 1..n :
           fw.staged[i].packet # fw.completed[j].packet
  BY DEF Whole, Lists
<1>7. 1 \in 1..n
  BY <1>1, <1>2
<1>8. /\ \A i \in 1..Len(g.completed) : g.completed[i].packet # p
      /\ \A i \in 1..Len(g.staged) : g.staged[i].packet # p
  BY <1>3, <1>4, <1>5, <1>6, <1>7
<1>9. Places(g.staged, p) = {} /\ Places(g.completed, p) = {}
  BY <1>8 DEF Places
<1>10. /\ Len(g.staged) + Len(g.completed) < Len(fw.staged) + n
       /\ Len(g.staged) + Len(g.completed) \in Nat
       /\ Len(fw.staged) + n \in Nat
  <2>1. Len(g.staged) = Len(fw.staged) /\ Len(g.completed) = n - 1
    BY <1>2, <1>4
  <2>2. \A i, j \in Nat : j >= 1 => /\ i + (j - 1) < i + j
                                    /\ i + (j - 1) \in Nat /\ i + j \in Nat
    OBVIOUS
  <2> QED  BY <1>1, <1>2, <2>1, <2>2
<1>11. MayEnqueue(fw) => MayEnqueue(g)
  <2>1. \A i, j, k \in Nat : i < j /\ j < k => i < k
    OBVIOUS
  <2> QED  BY <1>10, <2>1, NoneIsNothing DEF MayEnqueue
<1>12. Lists(g)
  <2>1. Len(g.staged) + Len(g.completed) <= MaxStaged
    <3>1. Len(fw.staged) + n <= MaxStaged /\ MaxStaged \in Nat
      BY NoneIsNothing DEF Whole, Lists
    <3>2. \A i, j, k \in Nat : i < j /\ j <= k => i <= k
      OBVIOUS
    <3> QED  BY <1>10, <3>1, <3>2
  <2>2. \A i, j \in 1..Len(g.completed) :
          g.completed[i].packet = g.completed[j].packet => i = j
    <3> TAKE i, j \in 1..Len(g.completed)
    <3> HAVE g.completed[i].packet = g.completed[j].packet
    <3>1. i + 1 = j + 1
      <4>1. /\ i + 1 \in 1..n /\ fw.completed[i + 1].packet = g.completed[i].packet
            /\ j + 1 \in 1..n /\ fw.completed[j + 1].packet = g.completed[j].packet
        BY <1>5
      <4>2. fw.completed[i + 1].packet = fw.completed[j + 1].packet
        BY <4>1
      <4> QED  BY <1>6, <4>1, <4>2
    <3>2. i \in Nat /\ j \in Nat
      BY <1>1, <1>2, <1>4
    <3> QED  BY <3>1, <3>2
  <2>3. \A i, j \in 1..Len(g.staged) :
          g.staged[i].packet = g.staged[j].packet => i = j
    BY <1>4 DEF Whole, Lists
  <2>4. \A i \in 1..Len(g.staged), j \in 1..Len(g.completed) :
          g.staged[i].packet # g.completed[j].packet
    BY <1>4, <1>5, <1>6
  <2> QED  BY <1>4, <2>1, <2>2, <2>3, <2>4 DEF Lists
<1>13. Slots(g) /\ Matched(fr, g) /\ Placed(g, free)
  BY <1>4 DEF Whole, Slots, Matched, Placed
<1>14. Sending(fr, sq, g, low)
  BY <1>4 DEF Whole, Sending
<1>15. Counted(fr, g, cont, sent)
  <2>1. bytes \in [Packets -> Nat] /\ DOMAIN cont = Frames
    BY DEF Whole, Counted
  <2>2. /\ sent \in [Packets -> Nat] /\ sent[p] = 0
        /\ \A q \in Packets : q # p => sent[q] = bytes[q]
    BY <1>3, <2>1
  <2> HIDE DEF sent
  <2>3. \A t \in Tokens : fr.token[t].packet # NULL =>
          fr.token[t].packet \in Packets \ {p}
    BY <1>3, <1>7, Together
  <2>4. \A t \in Tokens : CountOf(fr.token[t], g.slot[t], cont, sent)
    <3> TAKE t \in Tokens
    <3>1. CountOf(fr.token[t], g.slot[t], cont, bytes)
      BY <1>4 DEF Whole, Counted
    <3> QED  BY <2>2, <2>3, <3>1 DEF CountOf
  <2>5. \A q \in Packets :
          /\ \A t \in Tokens : fr.token[t].packet # q
          /\ \A i \in 1..Len(g.completed) : g.completed[i].packet # q
          => sent[q] = 0
    <3> SUFFICES ASSUME NEW q \in Packets, q # p,
                        \A t \in Tokens : fr.token[t].packet # q,
                        \A i \in 1..Len(g.completed) : g.completed[i].packet # q
                 PROVE  bytes[q] = 0
      BY <2>2
    <3>1. \A i \in 1..n : fw.completed[i].packet # q
      <4> TAKE i \in 1..n
      <4>1. CASE i = 1
        BY <1>3, <4>1
      <4>2. CASE i # 1
        <5>1. i - 1 \in 1..Len(g.completed) /\ (i - 1) + 1 = i
          BY <1>1, <1>2, <1>4, <4>2
        <5> QED  BY <1>5, <5>1
      <4> QED  BY <4>1, <4>2
    <3> QED  BY <3>1 DEF Whole, Counted
  <2>6. \A i \in 1..Len(g.completed) : g.completed[i].status = "SUCCESS" =>
          sent[g.completed[i].packet] = PacketLength[g.completed[i].packet]
    <3> TAKE i \in 1..Len(g.completed)
    <3> HAVE g.completed[i].status = "SUCCESS"
    <3>1. g.completed[i].packet \in Packets
      BY <1>4, FwFields DEF Elems
    <3>2. bytes[g.completed[i].packet] = PacketLength[g.completed[i].packet]
      BY <1>5 DEF Whole, Counted
    <3> QED  BY <1>8, <2>2, <3>1, <3>2
  <2> QED  BY <2>1, <2>2, <2>4, <2>5, <2>6 DEF Counted
<1>16. Numbered(g, low, cont, last)
  BY <1>4 DEF Whole, Numbered
<1>17. Whole(fr, sq, g, free, low, cont, sent, last)
  BY <1>12, <1>13, <1>14, <1>15, <1>16 DEF Whole
<1> QED  BY <1>3, <1>9, <1>11, <1>17 DEF g, p

(* stopForwardingIpv6Packet, for a packet that no slot has.                *)
LEMMA StoppingStagedIsWhole ==
  ASSUME NEW fr, NEW sq, NEW fw, NEW free, NEW low, NEW cont, NEW bytes,
         NEW last, Whole(fr, sq, fw, free, low, cont, bytes, last),
         NEW p \in Packets, Places(fw.staged, p) # {},
         \A t \in Tokens : fw.slot[t].elem # NULL => fw.slot[t].elem.packet # p
  PROVE  Whole(fr, sq, markCompleted(fw, p, "ECANCEL"), free, low, cont, bytes,
               last)
<1> DEFINE g == markCompleted(fw, p, "ECANCEL")
           n == Len(fw.completed)
<1>1. Lists(fw) /\ n \in Nat
  BY FwFields DEF Whole, Lists
<1>2. /\ Lists(g)
      /\ \A i \in 1..Len(fw.staged) : fw.staged[i].packet # p =>
           \E j \in 1..Len(g.staged) : g.staged[j] = fw.staged[i]
      /\ Len(g.completed) = n + 1
      /\ \A i \in 1..n : g.completed[i] = fw.completed[i]
      /\ g.completed[n + 1].packet = p /\ g.completed[n + 1].status = "ECANCEL"
      /\ g.freeFrame = fw.freeFrame
      /\ g.slot = fw.slot /\ g.ring = fw.ring /\ g.txBit = fw.txBit
      /\ g.bcastSeqNo = fw.bcastSeqNo
  <2>1. "ECANCEL" \in Statuses
    BY DEF Statuses
  <2>2. Completed(fw, g, p, "ECANCEL")
    BY <1>1, <2>1, Completing
  <2> HIDE DEF g
  <2> QED  BY <2>2 DEF Completed
<1> HIDE DEF g
<1>3. Slots(g)
  <2>1. \A t \in Tokens : g.slot[t].elem # NULL =>
          \E i \in 1..Len(g.staged) : g.staged[i] = g.slot[t].elem
    <3> TAKE t \in Tokens
    <3> HAVE g.slot[t].elem # NULL
    <3>1. PICK i \in 1..Len(fw.staged) : fw.staged[i] = fw.slot[t].elem
      BY <1>2 DEF Whole, Slots
    <3> QED  BY <1>2, <3>1
  <2> QED  BY <1>2, <2>1 DEF Whole, Slots
<1>4. Matched(fr, g) /\ Placed(g, free)
  BY <1>2 DEF Whole, Matched, Placed
<1>5. Sending(fr, sq, g, low)
  BY <1>2 DEF Whole, Sending
<1>6. Counted(fr, g, cont, bytes)
  <2>1. /\ bytes \in [Packets -> Nat] /\ DOMAIN cont = Frames
        /\ \A t \in Tokens : CountOf(fr.token[t], g.slot[t], cont, bytes)
    BY <1>2 DEF Whole, Counted
  <2>2. \A q \in Packets :
          /\ \A t \in Tokens : fr.token[t].packet # q
          /\ \A i \in 1..Len(g.completed) : g.completed[i].packet # q
          => bytes[q] = 0
    <3>1. 1..n \subseteq 1..Len(g.completed)
      BY <1>1, <1>2
    <3>2. \A i \in 1..n : g.completed[i] = fw.completed[i]
      BY <1>2
    <3> TAKE q \in Packets
    <3> HAVE /\ \A t \in Tokens : fr.token[t].packet # q
             /\ \A i \in 1..Len(g.completed) : g.completed[i].packet # q
    <3>3. \A i \in 1..Len(fw.completed) : fw.completed[i].packet # q
      BY <3>1, <3>2
    <3> QED  BY <3>3 DEF Whole, Counted
  <2>3. \A i \in 1..Len(g.completed) : g.completed[i].status = "SUCCESS" =>
          bytes[g.completed[i].packet] = PacketLength[g.completed[i].packet]
    <3> TAKE i \in 1..Len(g.completed)
    <3>1. i \in 1..n \/ i = n + 1
      BY <1>1, <1>2
    <3> QED  BY <1>2, <3>1 DEF Whole, Counted
  <2> QED  BY <2>1, <2>2, <2>3 DEF Counted
<1>7. Numbered(g, low, cont, last)
  <2>1. g.slot = fw.slot /\ g.bcastSeqNo = fw.bcastSeqNo
    BY <1>2, Zenon
  <2> QED  BY <2>1 DEF Whole, Numbered
<1> QED  BY <1>2, <1>3, <1>4, <1>5, <1>6, <1>7 DEF Whole, g

(* What processStagedPacketsTask goes for.                                 *)
LEMMA NextIsNotHeldBack ==
  ASSUME NEW fw \in FwSet, NextStaged(fw) # NULL
  PROVE  LET e == NextStaged(fw) IN
         /\ e \in Elems /\ \E i \in 1..Len(fw.staged) : fw.staged[i] = e
         /\ \A t \in Tokens : fw.slot[t].elem # NULL =>
              /\ fw.slot[t].elem.packet # e.packet
              /\ fw.slot[t].elem.addr # e.addr
<1> DEFINE S == {i \in 1..Len(fw.staged) : ~HeldBack(fw, fw.staged[i])}
           e == NextStaged(fw)
<1>1. S # {} /\ e = fw.staged[Min(S)]
  BY DEF NextStaged
<1>2. S \in SUBSET Nat
  BY FwFields
<1> HIDE DEF e
<1>3. Min(S) \in S
  BY <1>1, <1>2, LeastOf
<1>4. Min(S) \in 1..Len(fw.staged) /\ ~HeldBack(fw, e)
  BY <1>1, <1>3
<1>5. e \in Elems
  BY <1>1, <1>4, FwFields
<1> QED  BY <1>1, <1>4, <1>5 DEF HeldBack, Busy, e

(* A frame f for it is the spare one or, when there is none, of the        *)
(* allocator.                                                              *)
MayTake(fw, free, f) ==
  \/ f = fw.freeFrame
  \/ fw.freeFrame = NULL /\ f \in free

LEMMA StartingIsWhole ==
  ASSUME NEW fr, NEW sq, NEW fw, NEW free, NEW low, NEW cont, NEW bytes,
         NEW last, Whole(fr, sq, fw, free, low, cont, bytes, last),
         NEW e \in Elems, \E i \in 1..Len(fw.staged) : fw.staged[i] = e,
         \A t \in Tokens : fw.slot[t].elem # NULL =>
              /\ fw.slot[t].elem.packet # e.packet
              /\ fw.slot[t].elem.addr # e.addr,
         NEW f \in Frames, MayTake(fw, free, f),
         NEW t \in Tokens, fr.token[t].packet = NULL
  PROVE  /\ Whole(startFragmenting(fr, t, e.packet), sq,
                  fragmentingStarted(fw, t, e, f), free \ {f}, low, cont,
                  bytes, last)
         /\ fr.posted => startFragmenting(fr, t, e.packet).posted
<1> DEFINE h == startFragmenting(fr, t, e.packet)
           g == fragmentingStarted(fw, t, e, f)
<1>1. /\ fr \in FrSet /\ fw \in FwSet /\ Jobs(fr) /\ e.packet \in Packets
      /\ e # NULL /\ f # NULL /\ f \in FrameOrNone /\ e.packet # NULL
  BY NoneIsNothing DEF Whole, Jobs, Lists, Elems, FrameOrNone
<1>2. /\ Handled(fr, h, t) /\ At(h.token[t], e.packet, 0, NULL, NULL)
      /\ ~IsStopped(h.token[t])
  BY <1>1, Starting
<1>3. /\ Moved(fw, g, t) /\ g.freeFrame = NULL
      /\ SlotAt(g.slot[t], e, f, NULL)
  BY <1>1, FragmentingStarted
<1> HIDE DEF g, h
<1>4. /\ Jobs(h) /\ \A u \in Tokens \ {t} : h.token[u] = fr.token[u]
      /\ h.token[t].packet = e.packet /\ h.token[t].offset = 0
      /\ h.token[t].ready = NULL /\ h.token[t].sent = NULL
  BY <1>2 DEF Handled, At
<1>5. /\ g \in FwSet /\ g.staged = fw.staged /\ g.completed = fw.completed
      /\ g.ring = fw.ring /\ g.txBit = fw.txBit /\ g.bcastSeqNo = fw.bcastSeqNo
      /\ \A u \in Tokens \ {t} : g.slot[u] = fw.slot[u]
      /\ g.slot[t].elem = e /\ g.slot[t].free = f /\ g.slot[t].used = NULL
      /\ FrameOf(g.slot[t]) = f
  BY <1>1, <1>3 DEF Moved, SlotAt, FrameOf
<1>6. /\ fw.slot[t].elem = NULL /\ FrameOf(fw.slot[t]) = NULL
      /\ fr.token[t].sent = NULL
  BY DEF Whole, Matched, Match, FrameOf
<1>7. Lists(g)
  BY <1>5, SameLists DEF Whole
<1>8. Slots(g)
  <2>1. \A u \in Tokens : g.slot[u].elem # NULL =>
          \E i \in 1..Len(g.staged) : g.staged[i] = g.slot[u].elem
    BY <1>5 DEF Whole, Slots
  <2>2. \A u, v \in Tokens \ {t} :
          u # v /\ g.slot[u].elem # NULL /\ g.slot[v].elem # NULL =>
            /\ g.slot[u].elem.addr # g.slot[v].elem.addr
            /\ g.slot[u].elem.packet # g.slot[v].elem.packet
    BY <1>5 DEF Whole, Slots
  <2> QED  BY <1>5, <2>1, <2>2 DEF Slots
<1>9. Matched(h, g)
  BY <1>1, <1>4, <1>5 DEF Whole, Matched, Match
<1>10. Placed(g, free \ {f})
  <2>1. /\ \A u \in Tokens \ {t} : FrameOf(g.slot[u]) = FrameOf(fw.slot[u])
        /\ NULL \notin free
    BY <1>5, NoneIsNothing DEF Whole, Placed
  <2>2. \A u \in Tokens : FrameOf(fw.slot[u]) # f
    BY <1>1 DEF Whole, Placed, MayTake
  <2>3. \A u \in Tokens : FrameOf(g.slot[u]) # NULL =>
          /\ FrameOf(g.slot[u]) \notin free \ {f}
          /\ FrameOf(g.slot[u]) # g.freeFrame
          /\ \A v \in Tokens : FrameOf(g.slot[v]) = FrameOf(g.slot[u]) => u = v
    BY <1>3, <1>5, <2>1, <2>2 DEF Whole, Placed
  <2>4. \A x \in Frames : \/ x \in free \ {f} \/ x = g.freeFrame
                          \/ \E u \in Tokens : FrameOf(g.slot[u]) = x
    <3> TAKE x \in Frames
    <3>1. x # NULL
      BY NoneIsNothing
    <3>2. CASE x = f
      BY <1>5, <3>2
    <3>3. CASE x # f /\ x \in free
      BY <3>3
    <3>4. CASE x # f /\ x = fw.freeFrame
      BY <3>1, <3>4 DEF MayTake
    <3>5. CASE \E u \in Tokens : FrameOf(fw.slot[u]) = x
      BY <1>6, <2>1, <3>1, <3>5
    <3> QED  BY <3>2, <3>3, <3>4, <3>5 DEF Whole, Placed
  <2> QED  BY <1>3, <2>1, <2>3, <2>4 DEF Whole, Placed
<1>11. Sending(h, sq, g, low)
  <2>1. \A u \in Tokens : h.token[u].sent = fr.token[u].sent
    BY <1>4, <1>6
  <2>2. sq.sending => fw.ring[1] \in Tokens
    BY FwFields DEF Whole, Lists, Sending
  <2> QED  BY <1>5, <2>1, <2>2 DEF Whole, Sending
<1>12. Counted(h, g, cont, bytes)
  <2>1. \A u \in Tokens \ {t} : CountOf(h.token[u], g.slot[u], cont, bytes)
    BY <1>4, <1>5 DEF Whole, Counted
  <2>2. bytes[e.packet] = 0
    <3>1. \A u \in Tokens : fr.token[u].packet # e.packet
      BY <1>1, Together
    <3>2. \A i \in 1..Len(fw.completed) : fw.completed[i].packet # e.packet
      BY DEF Whole, Lists
    <3> QED  BY <1>1, <3>1, <3>2 DEF Whole, Counted
  <2>3. CountOf(h.token[t], g.slot[t], cont, bytes)
    BY <1>4, <1>5, <2>2 DEF CountOf
  <2>4. \A q \in Packets : (\A u \in Tokens : h.token[u].packet # q) =>
          \A u \in Tokens : fr.token[u].packet # q
    BY <1>4, NoneIsNothing
  <2>5. /\ bytes \in [Packets -> Nat] /\ DOMAIN cont = Frames
        /\ \A u \in Tokens : CountOf(h.token[u], g.slot[u], cont, bytes)
    BY <2>1, <2>3 DEF Whole, Counted
  <2> QED  BY <1>5, <2>4, <2>5 DEF Whole, Counted
<1>13. Numbered(g, low, cont, last)
  BY <1>5 DEF Whole, Numbered
<1> QED
  BY <1>2, <1>4, <1>7, <1>8, <1>9, <1>10, <1>11, <1>12, <1>13
     DEF Whole, Handled, g, h

(* There is no token for it, or no frame: what there is is kept.           *)
LEMMA KeepingIsWhole ==
  ASSUME NEW fr, NEW sq, NEW fw, NEW free, NEW low, NEW cont, NEW bytes,
         NEW last, Whole(fr, sq, fw, free, low, cont, bytes, last),
         NEW f \in FrameOrNone, MayTake(fw, free, f)
  PROVE  Whole(fr, sq, [fw EXCEPT !.freeFrame = f], free \ {f}, low, cont,
               bytes, last)
<1> DEFINE g == [fw EXCEPT !.freeFrame = f]
<1>1. fw \in FwSet
  BY DEF Whole, Lists
<1>2. /\ g \in FwSet /\ g.staged = fw.staged /\ g.completed = fw.completed
      /\ g.ring = fw.ring /\ g.txBit = fw.txBit /\ g.bcastSeqNo = fw.bcastSeqNo
      /\ g.slot = fw.slot /\ g.freeFrame = f
  BY <1>1 DEF FwSet
<1> HIDE DEF g
<1>3. Lists(g)
  BY <1>2, SameLists DEF Whole
<1>4. Slots(g) /\ Matched(fr, g)
  BY <1>2 DEF Whole, Slots, Matched
<1>5. Placed(g, free \ {f})
  <2>1. f # NULL => \A u \in Tokens : FrameOf(fw.slot[u]) # f
    BY DEF Whole, Placed, MayTake
  <2>2. \A x \in Frames : \/ x \in free \ {f} \/ x = f
                          \/ \E u \in Tokens : FrameOf(g.slot[u]) = x
    <3> TAKE x \in Frames
    <3>1. x # NULL
      BY NoneIsNothing
    <3> QED  BY <1>2, <3>1 DEF Whole, Placed, MayTake
  <2>3. \A u \in Tokens : FrameOf(g.slot[u]) # NULL =>
          /\ FrameOf(g.slot[u]) \notin free \ {f}
          /\ FrameOf(g.slot[u]) # g.freeFrame
          /\ \A v \in Tokens : FrameOf(g.slot[v]) = FrameOf(g.slot[u]) => u = v
    BY <1>2, <2>1 DEF Whole, Placed
  <2> QED  BY <1>2, <2>2, <2>3 DEF Whole, Placed
<1>6. Sending(fr, sq, g, low)
  BY <1>2 DEF Whole, Sending
<1>7. Counted(fr, g, cont, bytes)
  BY <1>2 DEF Whole, Counted
<1>8. Numbered(g, low, cont, last)
  BY <1>2 DEF Whole, Numbered
<1> QED  BY <1>3, <1>4, <1>5, <1>6, <1>7, <1>8 DEF Whole, g

(* The frame below is of a token that has sent it.                         *)
LEMMA BelowIsSent ==
  ASSUME NEW fr, NEW sq, NEW fw, NEW free, NEW low, NEW cont, NEW bytes,
         NEW last, Whole(fr, sq, fw, free, low, cont, bytes, last)
  PROVE  /\ sq.queue \in Seq(Frames) /\ NULL \notin Frames
         /\ \A i \in 1..Len(sq.queue) : sq.queue[i] \in Frames
         /\ sq.queue # <<>> => 1 \in 1..Len(sq.queue) /\ sq.queue[1] \in Frames
         /\ sq.sending => /\ fw.ring[1] \in Tokens /\ sq.queue # <<>>
                          /\ fw.ring \in Seq(Tokens) /\ Len(fw.ring) = 1
                          /\ fw.ring # <<>>
                          /\ fr.token[fw.ring[1]].sent = sq.queue[1]
                          /\ fw.slot[fw.ring[1]].used = sq.queue[1]
         /\ low # NULL => sq.sending /\ low = fw.slot[fw.ring[1]].used
<1>1. /\ sq.queue \in Seq(Frames) /\ NULL \notin Frames
      /\ \A i \in 1..Len(sq.queue) : sq.queue[i] \in Frames
      /\ sq.queue # <<>> => 1 \in 1..Len(sq.queue) /\ sq.queue[1] \in Frames
  <2>1. sq.queue \in Seq(Frames)
    BY DEF Whole, Sending, SqSet
  <2> QED  BY <2>1, NoneIsNothing
<1>2. fw.ring \in Seq(Tokens) /\ Len(fw.ring) = IF sq.sending THEN 1 ELSE 0
  BY FwFields DEF Whole, Lists, Sending
<1>3. sq.sending => /\ sq.queue # <<>>
                    /\ fr.token[fw.ring[1]].sent = sq.queue[1]
  BY DEF Whole, Sending
<1>4. sq.sending => fw.ring[1] \in Tokens /\ fw.ring # <<>>
  BY <1>2
<1>5. sq.sending => fw.slot[fw.ring[1]].used = sq.queue[1]
  BY <1>1, <1>3, <1>4, Together
<1>6. low # NULL => sq.sending /\ low = sq.queue[1]
  BY DEF Whole, Sending
<1> QED  BY <1>1, <1>2, <1>3, <1>4, <1>5, <1>6

(* The end of the fragmentation of a packet.  fw is the forwarder when the *)
(* frame has been released, old before.                                    *)
LEMMA FinishingIsWhole ==
  ASSUME NEW fr, NEW sq, NEW old, NEW free, NEW low, NEW cont, NEW bytes,
         NEW last, Whole(fr, sq, old, free, low, cont, bytes, last),
         NEW t \in Tokens, fr.token[t].packet # NULL,
         "PROCESSED" \notin fr.token[t].flags, fr.token[t].sent = NULL,
         NEW fw, Moved(old, fw, t), fw.freeFrame = old.freeFrame,
         SlotAt(fw.slot[t], old.slot[t].elem, FrameOf(old.slot[t]), NULL),
         NEW status \in Statuses,
         status = "SUCCESS" =>
           bytes[fr.token[t].packet] = PacketLength[fr.token[t].packet],
         NEW left, DOMAIN left = Frames,
         \A f \in Frames : f # FrameOf(old.slot[t]) => left[f] = cont[f]
  PROVE  Whole(finishFragmenting(fr, t), sq, fragmentingFinished(fw, t, status),
               free \cup Freed(fw, t), low, left, bytes, last)
<1> DEFINE h == finishFragmenting(fr, t)
           k == SlotFreed(fw, t)
           g == fragmentingFinished(fw, t, status)
           p == fr.token[t].packet
           F == FrameOf(old.slot[t])
           n == Len(old.completed)
           pool2 == free \cup Freed(fw, t)
<1>1. /\ fr \in FrSet /\ old \in FwSet /\ Jobs(fr) /\ Lists(old)
      /\ fw \in FwSet /\ n \in Nat
  BY FwFields DEF Whole, Jobs, Lists, Moved
<1>2. /\ p \in Packets /\ F \in Frames /\ F # NULL /\ p # NULL
      /\ old.slot[t].elem.packet = p
  BY Together, NoneIsNothing
<1>3. Handled(fr, h, t) /\ h.token[t] = NoToken
  BY <1>1, Finishing
<1> HIDE DEF h
<1>4. /\ Jobs(h) /\ \A u \in Tokens \ {t} : h.token[u] = fr.token[u]
      /\ h.token[t].packet = NULL
      /\ h.token[t].ready = NULL /\ h.token[t].sent = NULL
  BY <1>3 DEF Handled, NoToken
<1>5. /\ Moved(fw, k, t) /\ SlotAt(k.slot[t], NULL, NULL, NULL)
      /\ k.freeFrame = IF fw.freeFrame = NULL THEN fw.slot[t].free
                       ELSE fw.freeFrame
  BY <1>1, SlotIsFreed
<1> HIDE DEF k
<1>6. /\ k \in FwSet /\ k.staged = old.staged /\ k.completed = old.completed
      /\ k.ring = old.ring /\ k.txBit = old.txBit
      /\ k.bcastSeqNo = old.bcastSeqNo
      /\ \A u \in Tokens \ {t} : k.slot[u] = old.slot[u]
      /\ k.slot[t].elem = NULL /\ k.slot[t].free = NULL /\ k.slot[t].used = NULL
      /\ k.freeFrame = IF old.freeFrame = NULL THEN F ELSE old.freeFrame
      /\ fw.slot[t].elem.packet = p /\ fw.slot[t].free = F
  BY <1>2, <1>5 DEF Moved, SlotAt
<1>7. Lists(k)
  BY <1>1, <1>6, SameLists
<1>8. Places(k.staged, p) # {}
  <2>1. PICK i \in 1..Len(old.staged) : old.staged[i] = old.slot[t].elem
    <3>1. old.slot[t].elem # NULL
      BY Together
    <3> QED  BY <3>1 DEF Whole, Slots
  <2> QED  BY <1>2, <1>6, <2>1 DEF Places
<1>9. g = markCompleted(k, p, status)
  BY <1>6, FinishedIsCompleted DEF k
<1> HIDE DEF g, p
<1>10. /\ Lists(g)
       /\ \A i \in 1..Len(k.staged) : k.staged[i].packet # p =>
            \E j \in 1..Len(g.staged) : g.staged[j] = k.staged[i]
       /\ Len(g.completed) = n + 1
       /\ \A i \in 1..n : g.completed[i] = k.completed[i]
       /\ g.completed[n + 1].packet = p /\ g.completed[n + 1].status = status
       /\ g.freeFrame = k.freeFrame
       /\ g.slot = k.slot /\ g.ring = k.ring /\ g.txBit = k.txBit
       /\ g.bcastSeqNo = k.bcastSeqNo
  <2> DEFINE m == Len(k.completed)
             c == markCompleted(k, p, status)
  <2>1. /\ Lists(c)
        /\ \A i \in 1..Len(k.staged) : k.staged[i].packet # p =>
             \E j \in 1..Len(c.staged) : c.staged[j] = k.staged[i]
        /\ Len(c.completed) = m + 1
        /\ \A i \in 1..m : c.completed[i] = k.completed[i]
        /\ c.completed[m + 1].packet = p /\ c.completed[m + 1].status = status
        /\ c.freeFrame = k.freeFrame
        /\ c.slot = k.slot /\ c.ring = k.ring /\ c.txBit = k.txBit
        /\ c.bcastSeqNo = k.bcastSeqNo
    <3>1. /\ Lists(k) /\ p \in Packets /\ status \in Statuses
          /\ Places(k.staged, p) # {}
      BY <1>2, <1>7, <1>8
    <3>2. Completed(k, c, p, status)
      BY <3>1, Completing
    <3> HIDE DEF c
    <3> QED  BY <3>2 DEF Completed
  <2>2. m = n /\ c = g
    BY <1>6, <1>9
  <2> HIDE DEF m, c
  <2> QED  BY <2>1, <2>2
<1> HIDE DEF n
<1>11. /\ \A u \in Tokens \ {t} : g.slot[u] = old.slot[u]
       /\ g.slot[t].elem = NULL /\ g.slot[t].free = NULL
       /\ g.slot[t].used = NULL /\ FrameOf(g.slot[t]) = NULL
       /\ g.freeFrame = IF old.freeFrame = NULL THEN F ELSE old.freeFrame
  BY <1>6, <1>10 DEF FrameOf
<1>12. pool2 = IF old.freeFrame = NULL THEN free ELSE free \cup {F}
  BY <1>2, <1>6 DEF Freed
<1> HIDE DEF pool2, F
<1>13. \A u \in Tokens \ {t} : /\ old.slot[u].used # F
                               /\ FrameOf(old.slot[u]) # F
  <2>1. \A u \in Tokens : FrameOf(old.slot[u]) = F => u = t
    BY <1>2 DEF Whole, Placed, F
  <2> QED  BY <1>2, <2>1, Together
<1>14. Slots(g)
  <2>1. \A u \in Tokens : g.slot[u].elem # NULL =>
          \E i \in 1..Len(g.staged) : g.staged[i] = g.slot[u].elem
    <3> TAKE u \in Tokens
    <3> HAVE g.slot[u].elem # NULL
    <3>1. u # t /\ g.slot[u] = old.slot[u]
      BY <1>11
    <3>2. PICK i \in 1..Len(old.staged) : old.staged[i] = old.slot[u].elem
      BY <3>1 DEF Whole, Slots
    <3>3. old.staged[i].packet # p
      <4>1. old.slot[t].elem # NULL /\ old.slot[u].elem # NULL
        BY <3>1, Together
      <4>2. old.slot[u].elem.packet # old.slot[t].elem.packet
        BY <3>1, <4>1 DEF Whole, Slots
      <4> QED  BY <1>2, <3>2, <4>2
    <3> QED  BY <1>6, <1>10, <3>1, <3>2, <3>3
  <2>2. \A u \in Tokens : g.slot[u].elem # NULL =>
                            u # t /\ g.slot[u] = old.slot[u]
    BY <1>11
  <2>3. ASSUME NEW u \in Tokens, NEW v \in Tokens, u # v,
               g.slot[u].elem # NULL, g.slot[v].elem # NULL
        PROVE  /\ g.slot[u].elem.addr # g.slot[v].elem.addr
               /\ g.slot[u].elem.packet # g.slot[v].elem.packet
    <3>1. g.slot[u] = old.slot[u] /\ g.slot[v] = old.slot[v]
      BY <2>2, <2>3
    <3> QED  BY <2>3, <3>1 DEF Whole, Slots
  <2> QED  BY <2>1, <2>3 DEF Slots
<1>15. Matched(h, g)
  BY <1>4, <1>11 DEF Whole, Matched, Match
<1>16. Placed(g, pool2)
  <2>1. \A u \in Tokens \ {t} : FrameOf(g.slot[u]) = FrameOf(old.slot[u])
    BY <1>11
  <2>2. /\ pool2 \subseteq Frames /\ g.freeFrame \notin pool2
        /\ F \notin free /\ F # old.freeFrame
    BY <1>2, <1>11, <1>12, NoneIsNothing DEF Whole, Placed, F
  <2>3. \A u \in Tokens : FrameOf(g.slot[u]) # NULL =>
          /\ FrameOf(g.slot[u]) \notin pool2
          /\ FrameOf(g.slot[u]) # g.freeFrame
          /\ \A v \in Tokens : FrameOf(g.slot[v]) = FrameOf(g.slot[u]) => u = v
    BY <1>11, <1>12, <1>13, <2>1 DEF Whole, Placed
  <2>4. \A x \in Frames : \/ x \in pool2 \/ x = g.freeFrame
                          \/ \E u \in Tokens : FrameOf(g.slot[u]) = x
    <3> TAKE x \in Frames
    <3>1. x # NULL
      BY NoneIsNothing
    <3>2. CASE x = F
      BY <1>11, <1>12, <3>2
    <3>3. CASE x \in free
      BY <1>12, <3>3
    <3>4. CASE x = old.freeFrame
      BY <1>11, <3>1, <3>4
    <3>5. CASE x # F /\ \E u \in Tokens : FrameOf(old.slot[u]) = x
      BY <2>1, <3>5 DEF F
    <3> QED  BY <3>2, <3>3, <3>4, <3>5 DEF Whole, Placed
  <2> QED  BY <2>2, <2>3, <2>4 DEF Placed
<1>17. Sending(h, sq, g, low)
  <2>1. \A u \in Tokens : h.token[u].sent = fr.token[u].sent
    BY <1>4
  <2>2. sq.sending => old.ring[1] \in Tokens
    BY BelowIsSent
  <2>3. g.ring = old.ring /\ g.txBit = old.txBit
    BY <1>6, <1>10
  <2> QED  BY <2>1, <2>2, <2>3 DEF Whole, Sending
<1>18. \A u \in Tokens \ {t} : old.slot[u].used # NULL =>
         left[old.slot[u].used] = cont[old.slot[u].used]
  BY <1>13, Together DEF F
<1>19. Counted(h, g, left, bytes)
  <2>1. \A u \in Tokens : CountOf(h.token[u], g.slot[u], left, bytes)
    <3> TAKE u \in Tokens
    <3>1. CASE u = t
      BY <1>4, <1>11, <3>1 DEF CountOf
    <3>2. CASE u # t
      <4>1. CountOf(fr.token[u], old.slot[u], cont, bytes)
        BY DEF Whole, Counted
      <4>2. h.token[u] = fr.token[u] /\ g.slot[u] = old.slot[u]
        BY <1>4, <1>11, <3>2
      <4>3. old.slot[u].used # NULL =>
              left[old.slot[u].used] = cont[old.slot[u].used]
        BY <1>18, <3>2
      <4> QED  BY <4>1, <4>2, <4>3, SameFragment
    <3> QED  BY <3>1, <3>2
  <2>2. \A q \in Packets :
          /\ \A u \in Tokens : h.token[u].packet # q
          /\ \A i \in 1..Len(g.completed) : g.completed[i].packet # q
          => bytes[q] = 0
    <3> SUFFICES ASSUME NEW q \in Packets,
                        \A u \in Tokens : h.token[u].packet # q,
                        \A i \in 1..Len(g.completed) : g.completed[i].packet # q
                 PROVE  bytes[q] = 0
      OBVIOUS
    <3>1. /\ n + 1 \in 1..Len(g.completed)
          /\ \A i \in 1..n : i \in 1..Len(g.completed)
      BY <1>1, <1>10 DEF n
    <3>2. \A u \in Tokens : fr.token[u].packet # q
      BY <1>4, <1>10, <3>1 DEF p
    <3>3. \A i \in 1..n : old.completed[i].packet # q
      BY <1>6, <1>10, <3>1
    <3> QED  BY <3>2, <3>3 DEF Whole, Counted, n
  <2>3. \A i \in 1..Len(g.completed) : g.completed[i].status = "SUCCESS" =>
          bytes[g.completed[i].packet] = PacketLength[g.completed[i].packet]
    <3> TAKE i \in 1..Len(g.completed)
    <3>1. i \in 1..n \/ i = n + 1
      BY <1>1, <1>10 DEF n
    <3>2. CASE i \in 1..n
      <4>1. g.completed[i] = old.completed[i] /\ i \in 1..Len(old.completed)
        BY <1>6, <1>10, <3>2 DEF n
      <4> QED  BY <4>1 DEF Whole, Counted
    <3>3. CASE i = n + 1
      BY <1>10, <3>3 DEF p
    <3> QED  BY <3>1, <3>2, <3>3
  <2> QED  BY <2>1, <2>2, <2>3 DEF Whole, Counted
<1>20. Numbered(g, low, left, last)
  <2>1. low # NULL => left[low] = cont[low]
    <3>1. low # NULL => /\ old.ring[1] \in Tokens \ {t}
                        /\ low = old.slot[old.ring[1]].used
      BY BelowIsSent
    <3> QED  BY <1>18, <3>1
  <2>2. \A u \in Tokens : g.slot[u].used # NULL =>
          IF g.slot[u].elem.addr = Broadcast
            THEN /\ left[g.slot[u].used].bc0 = g.bcastSeqNo
                 /\ g.slot[u].retx = 0
            ELSE left[g.slot[u].used].bc0 = NULL
    <3> TAKE u \in Tokens
    <3> HAVE g.slot[u].used # NULL
    <3>1. u # t /\ g.slot[u] = old.slot[u]
      BY <1>11
    <3>2. left[old.slot[u].used] = cont[old.slot[u].used]
      BY <1>18, <3>1
    <3>3. g.bcastSeqNo = old.bcastSeqNo
      BY <1>6, <1>10
    <3> QED  BY <3>1, <3>2, <3>3 DEF Whole, Numbered
  <2> QED  BY <1>6, <1>10, <2>1, <2>2 DEF Whole, Numbered
<1> QED
  BY <1>4, <1>10, <1>14, <1>15, <1>16, <1>17, <1>19, <1>20
     DEF Whole, h, g, pool2

(* A frame is given to a token and gets its next fragment.                 *)
LEMMA ObtainingIsWhole ==
  ASSUME NEW fr, NEW sq, NEW fw, NEW free, NEW low, NEW cont, NEW bytes,
         NEW last, Whole(fr, sq, fw, free, low, cont, bytes, last),
         NEW t \in Tokens, fr.token[t].packet # NULL,
         HasNext(fr.token[t]), fr.token[t].ready = NULL,
         NEW f, f = fw.slot[t].free, f # NULL, NEW packed \in BOOLEAN
  PROVE  LET tk == fr.token[t] IN
         Whole(reserveAndObtain(fr, t, f, packed), sq, frameGiven(fw, t), free,
               low,
               [cont EXCEPT ![f] =
                  [packet |-> tk.packet, offset |-> tk.offset,
                   size |-> IF packed THEN PackedSize(tk) ELSE 0,
                   bc0 |-> IF IsBroadcast(fw, t) THEN fw.bcastSeqNo ELSE NULL]],
               bytes, last)
<1> DEFINE tk == fr.token[t]
           s == fw.slot[t]
           h == reserveAndObtain(fr, t, f, packed)
           hk == h.token[t]
           g == frameGiven(fw, t)
           c == [packet |-> tk.packet, offset |-> tk.offset,
                 size |-> IF packed THEN PackedSize(tk) ELSE 0,
                 bc0 |-> IF IsBroadcast(fw, t) THEN fw.bcastSeqNo ELSE NULL]
           new == [cont EXCEPT ![f] = c]
           good == packed /\ PackedSize(tk) # 0
<1>1. /\ fr \in FrSet /\ fw \in FwSet /\ Jobs(fr) /\ DOMAIN cont = Frames
      /\ tk \in TokenRecords /\ s.free \in FrameOrNone
      /\ tk.offset \in Nat /\ tk.packet \in Packets
  BY SlotFields, TokenFields, Together DEF Whole, Jobs, Lists, Counted
<1>2. /\ f \in Frames /\ f \in FrameOrNone /\ s.used = NULL /\ s.elem # NULL
      /\ s.elem.packet = tk.packet /\ tk.sent = NULL /\ FrameOf(s) = f
  BY <1>1 DEF Whole, Matched, Match, FrameOrNone, FrameOf
<1>3. /\ Handled(fr, h, t)
      /\ ~good => At(hk, tk.packet, tk.offset, f, tk.sent) /\ IsStopped(hk)
      /\ good => /\ At(hk, tk.packet, tk.offset + PackedSize(tk), f, tk.sent)
                 /\ IsStopped(hk) <=> IsStopped(tk)
  BY <1>1, <1>2, Obtaining
<1>4. /\ Moved(fw, g, t) /\ g.freeFrame = fw.freeFrame
      /\ SlotAt(g.slot[t], s.elem, NULL, s.free)
      /\ s.elem.addr = Broadcast => g.slot[t].retx = 0
  BY <1>1, FrameGiven
<1>5. c \in Fragments
  <2>1. PackedSize(tk) \in Nat
    BY <1>1, SizeOfPacked
  <2>2. fw.bcastSeqNo \in 0..(SeqNos - 1)
    BY <1>1, FwFields
  <2> QED  BY <1>1, <2>1, <2>2 DEF Fragments
<1>6. /\ DOMAIN new = Frames /\ new[f] = c
      /\ \A x \in Frames : x # f => new[x] = cont[x]
  BY <1>1, <1>2
<1>7. /\ c.packet = tk.packet /\ c.offset = tk.offset
      /\ c.size = IF packed THEN PackedSize(tk) ELSE 0
      /\ c.bc0 = IF s.elem.addr = Broadcast THEN fw.bcastSeqNo ELSE NULL
  BY DEF IsBroadcast
<1> HIDE DEF g, h, c, new, good
<1>8. /\ Jobs(h) /\ \A u \in Tokens \ {t} : h.token[u] = fr.token[u]
      /\ hk.packet = tk.packet /\ hk.ready = f /\ hk.sent = NULL
      /\ good => hk.offset = tk.offset + PackedSize(tk)
  BY <1>2, <1>3 DEF Handled, At
<1>9. /\ g \in FwSet /\ g.staged = fw.staged /\ g.completed = fw.completed
      /\ g.ring = fw.ring /\ g.txBit = fw.txBit /\ g.bcastSeqNo = fw.bcastSeqNo
      /\ \A u \in Tokens \ {t} : g.slot[u] = fw.slot[u]
      /\ g.slot[t].elem = s.elem /\ g.slot[t].free = NULL /\ g.slot[t].used = f
      /\ FrameOf(g.slot[t]) = f
  BY <1>2, <1>4 DEF Moved, SlotAt, FrameOf
<1>10. Lists(g)
  BY <1>9, SameLists DEF Whole
<1>11. Slots(g)
  <2>1. \A u \in Tokens : g.slot[u].elem = fw.slot[u].elem
    BY <1>9
  <2> QED  BY <1>9, <2>1, SameElems DEF Whole
<1>12. Matched(h, g)
  <2>1. Match(hk, g.slot[t])
    BY <1>2, <1>8, <1>9 DEF Match
  <2>2. \A u \in Tokens \ {t} : Match(h.token[u], g.slot[u])
    BY <1>8, <1>9 DEF Whole, Matched
  <2> QED  BY <2>1, <2>2 DEF Matched
<1>13. Placed(g, free)
  <2>1. \A u \in Tokens : FrameOf(g.slot[u]) = FrameOf(fw.slot[u])
    BY <1>2, <1>9
  <2> QED  BY <1>4, <2>1 DEF Whole, Placed
<1>14. Sending(h, sq, g, low)
  <2>1. \A u \in Tokens : h.token[u].sent = fr.token[u].sent
    BY <1>2, <1>8
  <2>2. sq.sending => fw.ring[1] \in Tokens
    BY BelowIsSent
  <2> QED  BY <1>9, <2>1, <2>2 DEF Whole, Sending
<1>15. \A u \in Tokens \ {t} : fw.slot[u].used # NULL =>
         new[fw.slot[u].used] = cont[fw.slot[u].used]
  <2>1. \A u \in Tokens \ {t} : FrameOf(fw.slot[u]) # f
    BY <1>2 DEF Whole, Placed
  <2> QED  BY <1>6, <2>1, Together
<1>16. Counted(h, g, new, bytes)
  <2>1. \A u \in Tokens : CountOf(h.token[u], g.slot[u], new, bytes)
    <3> TAKE u \in Tokens
    <3>1. CASE u = t
      <4>1. CountOf(tk, s, cont, bytes)
        BY DEF Whole, Counted
      <4>2. CASE good
        <5>1. c.size = PackedSize(tk)
          BY <1>7, <4>2 DEF good
        <5>2. ~IsStopped(hk) => bytes[tk.packet] = tk.offset
          BY <1>2, <1>3, <4>1, <4>2 DEF CountOf
        <5> QED
          BY <1>2, <1>5, <1>6, <1>7, <1>8, <1>9, <3>1, <4>2, <5>1, <5>2
             DEF CountOf
      <4>3. CASE ~good
        BY <1>3, <1>5, <1>6, <1>7, <1>8, <1>9, <3>1, <4>3 DEF CountOf
      <4> QED  BY <4>2, <4>3
    <3>2. CASE u # t
      <4>1. CountOf(fr.token[u], fw.slot[u], cont, bytes)
        BY DEF Whole, Counted
      <4>2. h.token[u] = fr.token[u] /\ g.slot[u] = fw.slot[u]
        BY <1>8, <1>9, <3>2
      <4>3. fw.slot[u].used # NULL =>
              new[fw.slot[u].used] = cont[fw.slot[u].used]
        BY <1>15, <3>2
      <4> QED  BY <4>1, <4>2, <4>3, SameFragment
    <3> QED  BY <3>1, <3>2
  <2>2. \A u \in Tokens : h.token[u].packet = fr.token[u].packet
    BY <1>8
  <2> QED  BY <1>6, <1>9, <2>1, <2>2 DEF Whole, Counted
<1>17. Numbered(g, low, new, last)
  <2>1. low # NULL => new[low] = cont[low]
    <3>1. low # NULL => /\ fw.ring[1] \in Tokens \ {t}
                        /\ low = fw.slot[fw.ring[1]].used
      BY <1>2, BelowIsSent
    <3> QED  BY <1>15, <3>1
  <2>2. \A u \in Tokens : g.slot[u].used # NULL =>
          IF g.slot[u].elem.addr = Broadcast
            THEN /\ new[g.slot[u].used].bc0 = g.bcastSeqNo
                 /\ g.slot[u].retx = 0
            ELSE new[g.slot[u].used].bc0 = NULL
    <3> TAKE u \in Tokens
    <3>1. CASE u = t
      BY <1>4, <1>6, <1>7, <1>9, <3>1
    <3>2. CASE u # t
      BY <1>9, <1>15, <3>2 DEF Whole, Numbered
    <3> QED  BY <3>1, <3>2
  <2> QED  BY <1>9, <2>1, <2>2 DEF Whole, Numbered
<1> QED
  BY <1>8, <1>10, <1>11, <1>12, <1>13, <1>14, <1>16, <1>17
     DEF Whole, g, h, c, new

(* The frame that is ready goes into the send queue.                       *)
LEMMA SendingOffIsWhole ==
  ASSUME NEW fr, NEW sq, NEW fw, NEW free, NEW low, NEW cont, NEW bytes,
         NEW last, Whole(fr, sq, fw, free, low, cont, bytes, last),
         NEW t \in Tokens, fr.token[t].packet # NULL,
         fr.token[t].ready # NULL, fr.token[t].sent = NULL
  PROVE  Whole(sendFrame(fr, t, SendQueueTakes(sq)),
               startSending(sq, fr.token[t].ready), fw, free, low, cont, bytes,
               last)
<1> DEFINE tk == fr.token[t]
           f == tk.ready
           h == sendFrame(fr, t, SendQueueTakes(sq))
           hk == h.token[t]
           q == startSending(sq, f)
           n == Len(sq.queue)
<1>1. /\ Jobs(fr) /\ SendQueueTakes(sq) \in BOOLEAN /\ sq \in SqSet
      /\ sq.queue \in Seq(Frames) /\ n \in Nat
  BY DEF Whole, Sending, SqSet, SendQueueTakes
<1>2. /\ Handled(fr, h, t)
      /\ SendQueueTakes(sq) => /\ At(hk, tk.packet, tk.offset, NULL, f)
                               /\ IsStopped(hk) <=> IsStopped(tk)
      /\ ~SendQueueTakes(sq) => SamePlace(hk, tk) /\ IsStopped(hk)
  BY <1>1, SendingOff
<1> HIDE DEF h
<1>3. Jobs(h) /\ \A u \in Tokens \ {t} : h.token[u] = fr.token[u]
  BY <1>2 DEF Handled
<1>4. CASE ~SendQueueTakes(sq)
  <2>1. q = sq
    BY <1>4 DEF startSending
  <2>2. \A u \in Tokens : /\ SamePlace(h.token[u], fr.token[u])
                          /\ IsStopped(fr.token[u]) => IsStopped(h.token[u])
    BY <1>2, <1>3, <1>4 DEF SamePlace
  <2> QED  BY <1>3, <2>1, <2>2, StoppedIsWhole DEF h
<1>5. CASE SendQueueTakes(sq)
  <2>1. /\ hk.packet = tk.packet /\ hk.offset = tk.offset /\ hk.ready = NULL
        /\ hk.sent = f /\ (IsStopped(hk) <=> IsStopped(tk))
    BY <1>2, <1>5 DEF At
  <2>2. f \in Frames /\ fw.slot[t].used = f /\ f # NULL
    BY Together
  <2>3. /\ q \in SqSet /\ q.queue = Append(sq.queue, f)
        /\ q.sending = sq.sending
    <3>1. Append(sq.queue, f) \in Seq(Frames)
      BY <1>1, <2>2
    <3>2. q = [sq EXCEPT !.queue = Append(sq.queue, f), !.posted = TRUE]
      BY <1>5 DEF startSending
    <3> HIDE DEF q, f
    <3> QED  BY <1>1, <3>1, <3>2 DEF SqSet
  <2> HIDE DEF q
  <2>4. /\ Len(q.queue) = n + 1 /\ q.queue[n + 1] = f
        /\ \A i \in 1..n : q.queue[i] = sq.queue[i] /\ i \in 1..Len(q.queue)
    BY <1>1, <2>2, <2>3
  <2>5. \A i \in 1..n : sq.queue[i] # f
    <3> SUFFICES ASSUME NEW i \in 1..n, sq.queue[i] = f PROVE FALSE
      OBVIOUS
    <3>1. PICK u \in Tokens : fr.token[u].sent = f
      BY DEF Whole, Sending
    <3>2. fw.slot[u].used = f
      BY <2>2, <3>1, Together
    <3>3. u = t
      BY <2>2, <3>2, Together
    <3> QED  BY <2>2, <3>1, <3>3
  <2>6. Matched(h, fw)
    BY <1>3, <2>1 DEF Whole, Matched, Match
  <2>7. Sending(h, q, fw, low)
    <3>1. Len(q.queue) <= Cardinality(Tokens)
      <4>1. n < Cardinality(Tokens) /\ Cardinality(Tokens) \in Nat
        BY <1>5, NoneIsNothing DEF SendQueueTakes
      <4>2. Len(q.queue) = n + 1
        BY <2>4
      <4>3. \A i, j \in Nat : i < j => i + 1 <= j
        OBVIOUS
      <4> QED  BY <1>1, <4>1, <4>2, <4>3
    <3>2. \A i, j \in 1..n : sq.queue[i] = sq.queue[j] => i = j
      BY DEF Whole, Sending
    <3>3. \A i \in 1..Len(q.queue) : i \in 1..n \/ i = n + 1
      BY <1>1, <2>4
    <3>4. \A i, j \in 1..Len(q.queue) : q.queue[i] = q.queue[j] => i = j
      <4> TAKE i, j \in 1..Len(q.queue)
      <4> HAVE q.queue[i] = q.queue[j]
      <4>1. CASE i \in 1..n /\ j \in 1..n
        BY <2>4, <3>2, <4>1
      <4>2. CASE i \in 1..n /\ j = n + 1
        BY <2>4, <2>5, <4>2
      <4>3. CASE i = n + 1 /\ j \in 1..n
        BY <2>4, <2>5, <4>3
      <4> QED  BY <3>3, <4>1, <4>2, <4>3
    <3>5. n + 1 \in 1..Len(q.queue)
      BY <1>1, <2>4
    <3>6. \A u \in Tokens : h.token[u].sent # NULL =>
            \E i \in 1..Len(q.queue) : q.queue[i] = h.token[u].sent
      <4> TAKE u \in Tokens
      <4>1. CASE u = t
        BY <2>1, <2>4, <3>5, <4>1
      <4>2. CASE u # t
        BY <1>3, <2>4, <4>2 DEF Whole, Sending
      <4> QED  BY <4>1, <4>2
    <3>7. \A i \in 1..Len(q.queue) :
            \E u \in Tokens : h.token[u].sent = q.queue[i]
      <4> TAKE i \in 1..Len(q.queue)
      <4>1. CASE i \in 1..n
        <5>1. PICK u \in Tokens : fr.token[u].sent = sq.queue[i]
          BY <4>1 DEF Whole, Sending
        <5>2. u # t
          BY <4>1, <5>1, BelowIsSent
        <5> QED  BY <1>3, <2>4, <4>1, <5>1, <5>2
      <4>2. CASE i = n + 1
        BY <2>1, <2>4, <4>2
      <4> QED  BY <3>3, <4>1, <4>2
    <3>8. sq.sending => /\ q.queue # <<>> /\ q.queue[1] = sq.queue[1]
                        /\ h.token[fw.ring[1]].sent = q.queue[1]
      <4> HAVE sq.sending
      <4>1. /\ fw.ring[1] \in Tokens /\ 1 \in 1..n /\ sq.queue[1] \in Frames
            /\ fr.token[fw.ring[1]].sent = sq.queue[1] /\ NULL \notin Frames
        BY BelowIsSent
      <4>2. fw.ring[1] # t
        BY <4>1
      <4>3. q.queue # <<>>
        BY <2>3, <2>4, <3>5
      <4> QED  BY <1>3, <2>4, <4>1, <4>2, <4>3
    <3>9. /\ low # NULL => sq.sending /\ low = sq.queue[1]
          /\ Len(fw.ring) = IF sq.sending THEN 1 ELSE 0
          /\ fw.txBit <=> low # NULL
          /\ low \in FrameOrNone
      BY DEF Whole, Sending
    <3> QED
      BY <2>3, <3>1, <3>4, <3>6, <3>7, <3>8, <3>9 DEF Sending
  <2>8. Counted(h, fw, cont, bytes)
    <3>1. \A u \in Tokens : CountOf(h.token[u], fw.slot[u], cont, bytes)
      <4> TAKE u \in Tokens
      <4>1. CountOf(fr.token[u], fw.slot[u], cont, bytes)
        BY DEF Whole, Counted
      <4> QED  BY <1>3, <2>1, <4>1 DEF CountOf
    <3>2. \A u \in Tokens : h.token[u].packet = fr.token[u].packet
      BY <1>3, <2>1
    <3> QED  BY <3>1, <3>2 DEF Whole, Counted
  <2> QED  BY <1>3, <2>6, <2>7, <2>8 DEF Whole, h, q
<1> QED  BY <1>4, <1>5

(* processQueueTask: the frame at the head of the send queue goes into the *)
(* ring of the forwarder, or nothing is to be done.                        *)
LEMMA PassingOnIsWhole ==
  ASSUME NEW fr, NEW sq, NEW fw, NEW free, NEW low, NEW cont, NEW bytes,
         NEW last, Whole(fr, sq, fw, free, low, cont, bytes, last)
  PROVE  /\ MayPassOn(sq) =>
              Whole(fr, passedOn(sq), frameEnqueued(fw, Head(sq.queue)), free,
                    low, cont, bytes, last)
         /\ Whole(fr, [sq EXCEPT !.posted = FALSE], fw, free, low, cont, bytes,
                  last)
<1>1. sq \in SqSet /\ sq.queue \in Seq(Frames) /\ fw \in FwSet
  BY DEF Whole, Sending, SqSet, Lists
<1>2. Whole(fr, [sq EXCEPT !.posted = FALSE], fw, free, low, cont, bytes, last)
  <2> DEFINE q == [sq EXCEPT !.posted = FALSE]
  <2>1. q \in SqSet /\ q.queue = sq.queue /\ q.sending = sq.sending
    BY <1>1 DEF SqSet
  <2> HIDE DEF q
  <2>2. Sending(fr, q, fw, low)
    BY <2>1 DEF Whole, Sending
  <2> QED  BY <2>2 DEF Whole, q
<1>3. ASSUME MayPassOn(sq)
      PROVE  Whole(fr, passedOn(sq), frameEnqueued(fw, Head(sq.queue)), free,
                   low, cont, bytes, last)
  <2> DEFINE q == passedOn(sq)
             f == Head(sq.queue)
             g == frameEnqueued(fw, f)
  <2>1. /\ f = sq.queue[1] /\ f \in Frames /\ 1 \in 1..Len(sq.queue)
        /\ f # NULL /\ sq.queue # <<>> /\ ~sq.sending
    BY <1>1, <1>3, BelowIsSent DEF MayPassOn
  <2> HIDE DEF f
  <2>2. PICK t \in Tokens : fr.token[t].sent = f
    BY <2>1 DEF Whole, Sending
  <2>3. fw.slot[t].used = f /\ fw.slot[t].elem # NULL
    BY <2>1, <2>2, Together
  <2>4. OwnerOf(fw, f) = t
    <3>1. t \in Busy(fw) /\ fw.slot[t].used = f
      BY <2>3 DEF Busy
    <3>2. OwnerOf(fw, f) \in Busy(fw) /\ fw.slot[OwnerOf(fw, f)].used = f
      BY <3>1 DEF OwnerOf
    <3>3. OwnerOf(fw, f) \in Tokens
      BY <3>2 DEF Busy
    <3> QED  BY <2>1, <2>3, <3>2, <3>3, Together
  <2>5. /\ g \in FwSet /\ g.staged = fw.staged /\ g.completed = fw.completed
        /\ g.freeFrame = fw.freeFrame /\ g.slot = fw.slot
        /\ g.txBit = fw.txBit /\ g.bcastSeqNo = fw.bcastSeqNo
        /\ g.ring = Append(fw.ring, t)
    BY <1>1, <2>4, FrameEnqueued
  <2>6. /\ q \in SqSet /\ q.queue = sq.queue /\ q.sending = TRUE
    BY <1>1 DEF passedOn, SqSet
  <2> HIDE DEF g, q
  <2>7. Len(g.ring) = 1 /\ g.ring[1] = t
    <3>1. fw.ring \in Seq(Tokens) /\ Len(fw.ring) = 0
      BY <1>1, <2>1, FwFields DEF Whole, Sending
    <3> QED  BY <2>5, <3>1
  <2>8. low = NULL
    BY <2>1 DEF Whole, Sending
  <2>9. Lists(g)
    BY <2>5, SameLists DEF Whole
  <2>10. Slots(g) /\ Matched(fr, g) /\ Placed(g, free)
    BY <2>5 DEF Whole, Slots, Matched, Placed
  <2>11. Sending(fr, q, g, low)
    BY <2>1, <2>2, <2>5, <2>6, <2>7, <2>8 DEF Whole, Sending
  <2>12. Counted(fr, g, cont, bytes) /\ Numbered(g, low, cont, last)
    BY <2>5 DEF Whole, Counted, Numbered
  <2> QED
    BY <2>9, <2>10, <2>11, <2>12 DEF Whole, g, q, f
<1> QED  BY <1>2, <1>3

(* The radio stack takes the frame at the head of the ring.                *)
Follows(number, last) == number = (last + 1) % SeqNos

LEMMA PassingDownIsWhole ==
  ASSUME NEW fr, NEW sq, NEW fw, NEW free, NEW low, NEW cont, NEW bytes,
         NEW last, Whole(fr, sq, fw, free, low, cont, bytes, last),
         ~fw.txBit, fw.ring # <<>>,
         NEW f, f = FrameAtHead(fw)
  PROVE  /\ f \in Frames /\ low = NULL /\ sq.sending
         /\ cont[f].bc0 # NULL => Follows(cont[f].bc0, last)
         /\ Whole(fr, sq, [fw EXCEPT !.txBit = TRUE], free, f, cont, bytes,
                  IF cont[f].bc0 = NULL THEN last ELSE cont[f].bc0)
<1> DEFINE g == [fw EXCEPT !.txBit = TRUE]
           t == fw.ring[1]
           l == IF cont[f].bc0 = NULL THEN last ELSE cont[f].bc0
<1>1. fw \in FwSet /\ fw.ring \in Seq(Tokens)
  BY FwFields DEF Whole, Lists
<1>2. sq.sending /\ low = NULL
  <2>1. Len(fw.ring) # 0
    BY <1>1, EmptySeq
  <2> QED  BY <2>1 DEF Whole, Sending
<1>3. /\ t \in Tokens /\ f = fw.slot[t].used /\ f = sq.queue[1]
      /\ f \in Frames /\ f # NULL /\ f \in FrameOrNone
  BY <1>2, BelowIsSent DEF FrameAtHead, FrameOrNone
<1>4. /\ g \in FwSet /\ g.staged = fw.staged /\ g.completed = fw.completed
      /\ g.freeFrame = fw.freeFrame /\ g.slot = fw.slot
      /\ g.txBit = TRUE /\ g.bcastSeqNo = fw.bcastSeqNo /\ g.ring = fw.ring
  BY <1>1 DEF FwSet
<1> HIDE DEF g
<1>5. fw.bcastSeqNo = (last + 1) % SeqNos
  BY <1>2 DEF Whole, Numbered
<1>6. cont[f].bc0 # NULL => cont[f].bc0 = fw.bcastSeqNo
  BY <1>3 DEF Whole, Numbered
<1>7. Lists(g)
  BY <1>4, SameLists DEF Whole
<1>8. Slots(g) /\ Matched(fr, g) /\ Placed(g, free)
  BY <1>4 DEF Whole, Slots, Matched, Placed
<1>9. Sending(fr, sq, g, f)
  BY <1>2, <1>3, <1>4 DEF Whole, Sending
<1>10. Counted(fr, g, cont, bytes)
  BY <1>4 DEF Whole, Counted
<1>11. Numbered(g, f, cont, l)
  <2>1. fw.bcastSeqNo \in 0..(SeqNos - 1) /\ last \in 0..(SeqNos - 1)
    BY <1>1, FwFields DEF Whole, Numbered
  <2> QED  BY <1>3, <1>4, <1>5, <1>6, <2>1 DEF Whole, Numbered
<1> QED
  BY <1>2, <1>3, <1>5, <1>6, <1>7, <1>8, <1>9, <1>10, <1>11
     DEF Whole, Follows, g

(* A frame that was sent, or was not, is to be sent again.                 *)
LEMMA RetryingIsWhole ==
  ASSUME NEW fr, NEW sq, NEW fw, NEW free, NEW low, NEW cont, NEW bytes,
         NEW last, Whole(fr, sq, fw, free, low, cont, bytes, last),
         sq.sending, fw.slot[fw.ring[1]].retx > 0,
         NEW g, Attempted(fw, g, fw.ring[1]), g.txBit = FALSE,
         g.ring = fw.ring,
         g.bcastSeqNo = IF low # NULL /\ IsBroadcast(fw, fw.ring[1])
                          THEN (fw.bcastSeqNo + 1) % SeqNos ELSE fw.bcastSeqNo
  PROVE  Whole(fr, sq, g, free, NULL, cont, bytes, last)
<1> DEFINE t == fw.ring[1]
<1>1. /\ t \in Tokens /\ fw.slot[t].used # NULL
      /\ low # NULL => low = fw.slot[t].used
  BY BelowIsSent
<1>2. ~IsBroadcast(fw, t) /\ cont[fw.slot[t].used].bc0 = NULL
  BY <1>1 DEF Whole, Numbered, IsBroadcast
<1>3. /\ g \in FwSet /\ g.staged = fw.staged /\ g.completed = fw.completed
      /\ g.freeFrame = fw.freeFrame
      /\ \A u \in Tokens \ {t} : g.slot[u] = fw.slot[u]
      /\ g.slot[t].elem = fw.slot[t].elem /\ g.slot[t].free = fw.slot[t].free
      /\ g.slot[t].used = fw.slot[t].used
      /\ g.bcastSeqNo = fw.bcastSeqNo
  BY <1>2 DEF Attempted, SlotAt
<1> HIDE DEF t
<1>4. /\ \A u \in Tokens : /\ g.slot[u].elem = fw.slot[u].elem
                           /\ g.slot[u].free = fw.slot[u].free
                           /\ g.slot[u].used = fw.slot[u].used
      /\ \A u \in Tokens : FrameOf(g.slot[u]) = FrameOf(fw.slot[u])
  BY <1>1, <1>3 DEF FrameOf
<1>5. Lists(g)
  BY <1>3, SameLists DEF Whole
<1>6. Slots(g)
  <2>1. Slots(fw) /\ g.staged = fw.staged
    BY <1>3 DEF Whole
  <2> QED  BY <1>4, <2>1, SameElems
<1>7. Matched(fr, g)
  BY <1>4 DEF Whole, Matched, Match
<1>8. Placed(g, free)
  BY <1>3, <1>4 DEF Whole, Placed
<1>9. Sending(fr, sq, g, NULL)
  BY <1>3 DEF Whole, Sending, FrameOrNone
<1>10. Counted(fr, g, cont, bytes)
  <2>1. \A u \in Tokens : CountOf(fr.token[u], g.slot[u], cont, bytes)
    <3> TAKE u \in Tokens
    <3>1. CountOf(fr.token[u], fw.slot[u], cont, bytes)
      BY DEF Whole, Counted
    <3> QED  BY <1>4, <3>1, SameFragment
  <2> QED  BY <1>3, <2>1 DEF Whole, Counted
<1>11. Numbered(g, NULL, cont, last)
  <2>1. \A u \in Tokens : g.slot[u].used # NULL =>
          IF g.slot[u].elem.addr = Broadcast
            THEN /\ cont[g.slot[u].used].bc0 = g.bcastSeqNo
                 /\ g.slot[u].retx = 0
            ELSE cont[g.slot[u].used].bc0 = NULL
    <3> TAKE u \in Tokens
    <3>1. CASE u = t
      BY <1>1, <1>2, <1>3, <3>1 DEF Whole, Numbered, IsBroadcast
    <3>2. CASE u # t
      <4>1. g.slot[u] = fw.slot[u] /\ g.bcastSeqNo = fw.bcastSeqNo
        BY <1>3, <3>2
      <4> QED  BY <4>1 DEF Whole, Numbered
    <3> QED  BY <3>1, <3>2
  <2> QED  BY <1>1, <1>2, <1>3, <2>1 DEF Whole, Numbered
<1> QED
  BY <1>5, <1>6, <1>7, <1>8, <1>9, <1>10, <1>11 DEF Whole

(* A frame that was sent, or was not, is not sent again: the send queue,   *)
(* the fragmenter and the forwarder give it back to its slot.  mid is the  *)
(* forwarder when the ring has let go of it.                               *)
LEMMA ReleasingIsWhole ==
  ASSUME NEW fr, NEW sq, NEW fw, NEW free, NEW low, NEW cont, NEW bytes,
         NEW last, Whole(fr, sq, fw, free, low, cont, bytes, last),
         sq.sending, NEW f, f = FrameAtHead(fw), NEW status,
         NEW mid, Attempted(fw, mid, fw.ring[1]), mid.txBit = FALSE,
         mid.ring = <<>>,
         mid.bcastSeqNo = IF low # NULL /\ IsBroadcast(fw, fw.ring[1])
                          THEN (fw.bcastSeqNo + 1) % SeqNos ELSE fw.bcastSeqNo,
         NEW sent,
         sent = IF status = "SUCCESS" /\ bytes[cont[f].packet] = cont[f].offset
                  THEN [bytes EXCEPT ![cont[f].packet] = @ + cont[f].size]
                  ELSE bytes
  PROVE  /\ Whole(fragmentSent(fr, f, status), sendingFinished(sq),
                  frameReleased(mid, fw.ring[1], f), free, NULL,
                  [cont EXCEPT ![f] = NULL], sent, last)
         /\ fr.posted => fragmentSent(fr, f, status).posted
<1> DEFINE t == fw.ring[1]
           tk == fr.token[t]
           s == fw.slot[t]
           p == tk.packet
           h == fragmentSent(fr, f, status)
           hk == h.token[t]
           q == sendingFinished(sq)
           n == Len(sq.queue)
           g == frameReleased(mid, t, f)
           left == [cont EXCEPT ![f] = NULL]
           c == cont[f]
<1>1. /\ t \in Tokens /\ f = s.used /\ f = sq.queue[1] /\ f = tk.sent
      /\ f \in Frames /\ f # NULL /\ 1 \in 1..n /\ sq.queue \in Seq(Frames)
      /\ n \in Nat /\ sq.queue # <<>>
      /\ (low # NULL => low = f)
  <2>1. /\ t \in Tokens /\ sq.queue # <<>> /\ tk.sent = sq.queue[1]
        /\ fw.ring \in Seq(Tokens) /\ fw.ring # <<>> /\ s.used = sq.queue[1]
        /\ 1 \in 1..Len(sq.queue) /\ sq.queue[1] \in Frames
        /\ sq.queue \in Seq(Frames) /\ NULL \notin Frames
        /\ (low # NULL => low = s.used)
    BY BelowIsSent
  <2>2. t = Head(fw.ring)
    <3>1. fw.ring \in Seq(Tokens) /\ fw.ring # <<>> /\ t = fw.ring[1]
      BY <2>1, Zenon
    <3> HIDE DEF t, s, tk
    <3> QED  BY <3>1, HeadIsFirst
  <2> HIDE DEF t
  <2>3. f = s.used
    BY <2>2 DEF FrameAtHead
  <2> HIDE DEF s, tk
  <2>4. Len(sq.queue) \in Nat
    BY <2>1
  <2> QED  BY <2>1, <2>3, <2>4
<1> HIDE DEF t
<1>2. /\ Jobs(fr) /\ sq \in SqSet /\ p # NULL /\ p \in Packets
      /\ s.elem # NULL /\ s.elem.packet = p /\ s.free = NULL
      /\ FrameOf(s) = f /\ tk.ready = NULL
  <2>1. Jobs(fr) /\ sq \in SqSet
    BY DEF Whole, Sending
  <2>2. s.used # NULL
    BY <1>1
  <2>3. p # NULL /\ s.elem # NULL /\ s.free = NULL /\ FrameOf(s) = s.used
    <3>1. \A u \in Tokens : fw.slot[u].used # NULL =>
            /\ fw.slot[u].free = NULL /\ FrameOf(fw.slot[u]) = fw.slot[u].used
            /\ fw.slot[u].elem # NULL /\ fr.token[u].packet # NULL
      BY Together
    <3> QED  BY <1>1, <2>2, <3>1
  <2>4. p \in Packets /\ s.elem.packet = p
    <3>1. \A u \in Tokens : fr.token[u].packet # NULL =>
            /\ fr.token[u].packet \in Packets
            /\ fw.slot[u].elem.packet = fr.token[u].packet
      BY Together
    <3> QED  BY <1>1, <2>3, <3>1
  <2>5. tk.ready = NULL
    <3>1. \A u \in Tokens : fr.token[u].sent # NULL => fr.token[u].ready = NULL
      BY Together
    <3> QED  BY <1>1, <3>1
  <2> QED  BY <1>1, <2>1, <2>3, <2>4, <2>5
<1>3. /\ DOMAIN cont = Frames /\ bytes \in [Packets -> Nat]
      /\ c \in Fragments /\ c.packet = p
      /\ c.offset \in Nat /\ c.size \in Nat
  BY <1>1, <1>2 DEF Whole, Counted, CountOf, Fragments
<1>4. SentBy(fr, f) = t
  <2>1. SentBy(fr, f) \in Tokens /\ fr.token[SentBy(fr, f)].sent = f
    BY <1>1 DEF SentBy
  <2>2. /\ \A u \in Tokens : fr.token[u].sent # NULL =>
             fw.slot[u].used = fr.token[u].sent
        /\ \A u, v \in Tokens : /\ fw.slot[u].used # NULL
                                /\ fw.slot[u].used = fw.slot[v].used
                                => u = v
    BY Together
  <2>3. fw.slot[SentBy(fr, f)].used = f /\ fw.slot[t].used = f
    BY <1>1, <2>1, <2>2
  <2> QED  BY <1>1, <2>1, <2>2, <2>3
<1>5. /\ Handled(fr, h, t) /\ At(hk, p, tk.offset, tk.ready, NULL)
      /\ status = "SUCCESS" => (IsStopped(hk) <=> IsStopped(tk))
      /\ status # "SUCCESS" => IsStopped(hk)
  BY <1>1, <1>2, <1>4, Returning
<1>6. /\ mid \in FwSet /\ mid.staged = fw.staged
      /\ mid.completed = fw.completed /\ mid.freeFrame = fw.freeFrame
      /\ \A u \in Tokens \ {t} : mid.slot[u] = fw.slot[u]
      /\ mid.slot[t].elem = s.elem /\ mid.slot[t].free = NULL
  BY <1>2 DEF Attempted, SlotAt, t
<1>7. /\ Moved(mid, g, t) /\ g.freeFrame = mid.freeFrame
      /\ SlotAt(g.slot[t], s.elem, f, NULL)
  BY <1>1, <1>6, FrameReleased
<1>8. /\ q \in SqSet /\ q.queue = Tail(sq.queue) /\ q.sending = FALSE
  <2>1. Tail(sq.queue) \in Seq(Frames)
    BY <1>1
  <2> QED  BY <1>2, <2>1 DEF sendingFinished, SqSet
<1>9. /\ DOMAIN left = Frames
      /\ \A x \in Frames : x # f => left[x] = cont[x]
  BY <1>3
<1> HIDE DEF g, h, q, left, n, c, p, tk, s
<1>10. /\ Jobs(h) /\ \A u \in Tokens \ {t} : h.token[u] = fr.token[u]
       /\ hk.packet = p /\ hk.offset = tk.offset /\ hk.ready = NULL
       /\ hk.sent = NULL
  BY <1>2, <1>5 DEF Handled, At
<1>11. /\ g \in FwSet /\ g.staged = fw.staged /\ g.completed = fw.completed
       /\ g.freeFrame = fw.freeFrame
       /\ g.txBit = FALSE /\ g.ring = <<>> /\ g.bcastSeqNo = mid.bcastSeqNo
       /\ \A u \in Tokens \ {t} : g.slot[u] = fw.slot[u]
       /\ g.slot[t].elem = s.elem /\ g.slot[t].free = f
       /\ g.slot[t].used = NULL /\ FrameOf(g.slot[t]) = f
  BY <1>1, <1>6, <1>7 DEF Moved, SlotAt, FrameOf
<1>12. Lists(g)
  BY <1>11, SameLists DEF Whole
<1>13. Slots(g)
  <2>1. \A u \in Tokens : g.slot[u].elem = fw.slot[u].elem
    BY <1>11 DEF s
  <2> QED  BY <1>11, <2>1, SameElems DEF Whole
<1>14. Matched(h, g)
  <2>1. Match(hk, g.slot[t])
    BY <1>1, <1>2, <1>10, <1>11 DEF Match
  <2>2. \A u \in Tokens \ {t} : Match(h.token[u], g.slot[u])
    BY <1>10, <1>11 DEF Whole, Matched
  <2> QED  BY <2>1, <2>2 DEF Matched
<1>15. Placed(g, free)
  <2>1. \A u \in Tokens : FrameOf(g.slot[u]) = FrameOf(fw.slot[u])
    BY <1>2, <1>11 DEF s
  <2> QED  BY <1>11, <2>1 DEF Whole, Placed
<1>16. \A u \in Tokens \ {t} : /\ fw.slot[u].used # f
                               /\ fr.token[u].sent # f
  <2>1. \A u \in Tokens \ {t} : fw.slot[u].used # f
    <3> TAKE u \in Tokens \ {t}
    <3>1. fw.slot[t].used = f
      BY <1>1 DEF s
    <3>2. \A v, w \in Tokens :
            fw.slot[v].used # NULL /\ fw.slot[v].used = fw.slot[w].used => v = w
      BY Together
    <3>3. fw.slot[t].used = fw.slot[u].used => t = u
      BY <1>1, <3>1, <3>2
    <3> QED  BY <3>1, <3>3
  <2>2. \A u \in Tokens : fr.token[u].sent # NULL =>
          fw.slot[u].used = fr.token[u].sent
    BY Together
  <2> QED  BY <1>1, <2>1, <2>2
<1>17. Sending(h, q, g, NULL)
  <2>1. /\ Len(q.queue) = n - 1 /\ n >= 1
        /\ \A i \in 1..Len(q.queue) : /\ q.queue[i] = sq.queue[i + 1]
                                      /\ i + 1 \in 1..n /\ i \in Nat
    BY <1>1, <1>8 DEF n
  <2>2. \A i, j \in 1..n : sq.queue[i] = sq.queue[j] => i = j
    BY DEF Whole, Sending, n
  <2>3. Len(q.queue) <= Cardinality(Tokens)
    <3>1. n <= Cardinality(Tokens) /\ Cardinality(Tokens) \in Nat
      BY NoneIsNothing DEF Whole, Sending, n
    <3>2. \A i, j \in Nat : i <= j => i - 1 <= j
      OBVIOUS
    <3> QED  BY <1>1, <2>1, <3>1, <3>2
  <2>4. \A i, j \in 1..Len(q.queue) : q.queue[i] = q.queue[j] => i = j
    <3> TAKE i, j \in 1..Len(q.queue)
    <3> HAVE q.queue[i] = q.queue[j]
    <3>1. i + 1 = j + 1
      BY <2>1, <2>2
    <3> QED  BY <2>1, <3>1
  <2>5. \A u \in Tokens : h.token[u].sent # NULL =>
          \E i \in 1..Len(q.queue) : q.queue[i] = h.token[u].sent
    <3> TAKE u \in Tokens
    <3> HAVE h.token[u].sent # NULL
    <3>1. u # t /\ h.token[u].sent = fr.token[u].sent
      BY <1>10
    <3>2. PICK k \in 1..n : sq.queue[k] = fr.token[u].sent
      BY <3>1 DEF Whole, Sending, n
    <3>3. k # 1
      BY <1>1, <1>16, <3>1, <3>2
    <3>4. k - 1 \in 1..Len(q.queue) /\ (k - 1) + 1 = k
      BY <1>1, <2>1, <3>2, <3>3
    <3> QED  BY <2>1, <3>1, <3>2, <3>4
  <2>6. \A i \in 1..Len(q.queue) :
          \E u \in Tokens : h.token[u].sent = q.queue[i]
    <3> TAKE i \in 1..Len(q.queue)
    <3>1. PICK u \in Tokens : fr.token[u].sent = sq.queue[i + 1]
      BY <2>1 DEF Whole, Sending, n
    <3>2. i + 1 # 1
      BY <1>1, <2>1
    <3>3. u # t
      <4>1. tk.sent = sq.queue[1] /\ 1 \in 1..n /\ i + 1 \in 1..n
        BY <1>1, <2>1
      <4>2. sq.queue[1] # sq.queue[i + 1]
        BY <2>2, <3>2, <4>1
      <4> QED  BY <3>1, <4>1, <4>2 DEF tk
    <3> QED  BY <1>10, <2>1, <3>1, <3>3
  <2>7. Len(g.ring) = 0
    BY <1>11
  <2> QED
    <3>1. /\ q \in SqSet /\ q.sending = FALSE /\ g.txBit = FALSE
          /\ NULL \in FrameOrNone
      BY <1>8, <1>11 DEF FrameOrNone
    <3> QED  BY <2>3, <2>4, <2>5, <2>6, <2>7, <3>1 DEF Sending
<1>18. \A u \in Tokens \ {t} : fw.slot[u].used # NULL =>
         left[fw.slot[u].used] = cont[fw.slot[u].used]
  BY <1>9, <1>16, Together
<1>19. /\ sent \in [Packets -> Nat]
       /\ \A x \in Packets : x # p => sent[x] = bytes[x]
       /\ status = "SUCCESS" /\ bytes[p] = c.offset =>
            sent[p] = bytes[p] + c.size
  <2>1. bytes[p] + c.size \in Nat
    BY <1>2, <1>3
  <2> QED  BY <1>2, <1>3, <2>1 DEF c
<1>20. Counted(h, g, left, sent)
  <2>1. \A u \in Tokens : CountOf(h.token[u], g.slot[u], left, sent)
    <3> TAKE u \in Tokens
    <3>1. CASE u = t
      <4>1. CountOf(tk, s, cont, bytes)
        BY <1>1 DEF Whole, Counted, tk, s
      <4>2. ~IsStopped(hk) => /\ status = "SUCCESS" /\ bytes[p] = c.offset
                              /\ c.offset + c.size = tk.offset
        BY <1>1, <1>2, <1>5, <4>1 DEF CountOf, p, c
      <4>3. ~IsStopped(hk) => sent[p] = tk.offset
        BY <1>19, <4>2
      <4> QED  BY <1>10, <1>11, <3>1, <4>3 DEF CountOf
    <3>2. CASE u # t
      <4>1. CountOf(fr.token[u], fw.slot[u], cont, bytes)
        BY DEF Whole, Counted
      <4>2. fr.token[u].packet # NULL =>
              fr.token[u].packet \in Packets \ {p}
        BY <1>1, <3>2, Together DEF p, tk
      <4>3. h.token[u] = fr.token[u] /\ g.slot[u] = fw.slot[u]
        BY <1>10, <1>11, <3>2
      <4>4. /\ fw.slot[u].used # NULL =>
                 left[fw.slot[u].used] = cont[fw.slot[u].used]
            /\ fr.token[u].packet # NULL =>
                 sent[fr.token[u].packet] = bytes[fr.token[u].packet]
        BY <1>18, <1>19, <3>2, <4>2
      <4> QED  BY <4>1, <4>3, <4>4 DEF CountOf
    <3> QED  BY <3>1, <3>2
  <2>2. \A u \in Tokens : h.token[u].packet = fr.token[u].packet
    BY <1>10 DEF p, tk
  <2>3. \A x \in Packets :
          /\ \A u \in Tokens : h.token[u].packet # x
          /\ \A i \in 1..Len(g.completed) : g.completed[i].packet # x
          => sent[x] = 0
    <3> TAKE x \in Packets
    <3> HAVE /\ \A u \in Tokens : h.token[u].packet # x
             /\ \A i \in 1..Len(g.completed) : g.completed[i].packet # x
    <3>1. \A u \in Tokens : fr.token[u].packet # x
      BY <2>2
    <3>2. bytes[x] = 0
      BY <1>11, <3>1 DEF Whole, Counted
    <3>3. x # p
      BY <1>1, <3>1 DEF p, tk
    <3> QED  BY <1>19, <3>2, <3>3
  <2>4. \A i \in 1..Len(g.completed) : g.completed[i].status = "SUCCESS" =>
          sent[g.completed[i].packet] = PacketLength[g.completed[i].packet]
    <3> TAKE i \in 1..Len(g.completed)
    <3>1. /\ fw.completed[i].packet # p /\ fw.completed[i].packet \in Packets
          /\ i \in 1..Len(fw.completed)
      <4>1. i \in 1..Len(fw.completed) /\ fw.completed[i] \in Elems
        BY <1>11, FwFields
      <4>2. fr.token[t].packet = p /\ p # NULL
        BY <1>2 DEF p, tk
      <4>3. fw.completed[i].packet # fr.token[t].packet
        BY <1>1, <4>1, <4>2, Together
      <4> QED  BY <4>1, <4>2, <4>3 DEF Elems
    <3> QED  BY <1>11, <1>19, <3>1 DEF Whole, Counted
  <2> QED  BY <1>9, <1>19, <2>1, <2>3, <2>4 DEF Counted
<1>21. Numbered(g, NULL, left, last)
  <2>1. IF s.elem.addr = Broadcast THEN c.bc0 = fw.bcastSeqNo
        ELSE c.bc0 = NULL
    BY <1>1 DEF Whole, Numbered, s, c
  <2>2. fw.bcastSeqNo # NULL /\ last \in 0..(SeqNos - 1)
    BY FwFields, NoneIsNothing DEF Whole, Lists, Numbered
  <2>3. IsBroadcast(fw, t) <=> s.elem.addr = Broadcast
    BY DEF IsBroadcast, s
  <2>4. g.bcastSeqNo = (last + 1) % SeqNos
    BY <1>1, <1>11, <2>1, <2>2, <2>3 DEF Whole, Numbered, t, c
  <2>5. \A u \in Tokens : g.slot[u].used # NULL =>
          IF g.slot[u].elem.addr = Broadcast
            THEN /\ left[g.slot[u].used].bc0 = g.bcastSeqNo
                 /\ g.slot[u].retx = 0
            ELSE left[g.slot[u].used].bc0 = NULL
    <3> TAKE u \in Tokens
    <3> HAVE g.slot[u].used # NULL
    <3>1. u # t /\ g.slot[u] = fw.slot[u] /\ fw.slot[u].used # NULL
      BY <1>11
    <3>2. left[fw.slot[u].used] = cont[fw.slot[u].used]
      BY <1>18, <3>1
    <3>3. CASE fw.slot[u].elem.addr = Broadcast
      <4>1. fw.slot[u].elem # NULL
        BY <3>1, Together
      <4>2. fw.slot[u].elem.addr # s.elem.addr
        BY <1>1, <1>2, <3>1, <4>1 DEF Whole, Slots, s
      <4>3. g.bcastSeqNo = fw.bcastSeqNo
        BY <1>11, <2>3, <3>3, <4>2 DEF t
      <4> QED  BY <3>1, <3>2, <3>3, <4>3 DEF Whole, Numbered
    <3>4. CASE fw.slot[u].elem.addr # Broadcast
      BY <3>1, <3>2, <3>4 DEF Whole, Numbered
    <3> QED  BY <3>3, <3>4
  <2> QED  BY <2>2, <2>4, <2>5 DEF Numbered
<1> QED
  BY <1>5, <1>10, <1>12, <1>13, <1>14, <1>15, <1>17, <1>20, <1>21
     DEF Whole, Handled, g, h, q, left, t

-----------------------------------------------------------------------------
(* The actions.                                                            *)

Intact == Whole(fragmenter, sendQueue, forwarder, pool, below, content,
                sentBytes, lastBc0)
(* An action that is not the task of the fragmenter leaves it posted.      *)
StaysPosted == fragmenter.posted => fragmenter.posted'

LEMMA InitIsIntact ==
  ASSUME Init
  PROVE  IInv
<1>1. /\ taskQueue = <<>> /\ fragmenter = FragmenterStart
      /\ sendQueue = SendQueueStart /\ forwarder = ForwarderStart(1, 0)
      /\ pool = Frames \ {1} /\ below = NULL
      /\ content = [f \in Frames |-> NULL]
      /\ sentBytes = [p \in Packets |-> 0] /\ lastBc0 = SeqNos - 1
  BY DEF Init
<1>2. NULL \in FrameOrNone /\ 1 \in FrameOrNone /\ NULL # 1 /\ 1 \in Frames
  BY ForwardingConstants, NoneIsNothing DEF FrameOrNone
<1>3. /\ fragmenter = [token |-> [t \in Tokens |-> NoToken], jobs |-> <<>>,
                       posted |-> FALSE]
      /\ NoToken \in TokenRecords /\ NoToken.packet = NULL
      /\ NoToken.ready = NULL /\ NoToken.sent = NULL /\ NoToken.flags = {}
  BY <1>1, <1>2 DEF FragmenterStart, NoToken, TokenRecords
<1> HIDE DEF NoToken
<1>4. Jobs(fragmenter)
  <2>1. /\ fragmenter \in FrSet /\ fragmenter.jobs = <<>>
        /\ fragmenter.posted = FALSE
        /\ \A t \in Tokens : fragmenter.token[t] = NoToken
    BY <1>3 DEF FrSet
  <2>2. 1..Len(fragmenter.jobs) = {}
    BY <2>1
  <2> QED  BY <1>3, <2>1, <2>2 DEF Jobs
<1>5. /\ FreeSlot \in SlotRecords /\ FreeSlot.elem = NULL
      /\ FreeSlot.free = NULL /\ FreeSlot.used = NULL
      /\ FrameOf(FreeSlot) = NULL
  <2>1. 0 \in 0..MaxRetransmissions
    BY NoneIsNothing
  <2> QED  BY <1>2, <2>1 DEF FreeSlot, SlotRecords, FrameOf
<1>6. /\ forwarder \in FwSet /\ forwarder.staged = <<>>
      /\ forwarder.completed = <<>> /\ forwarder.freeFrame = 1
      /\ forwarder.ring = <<>> /\ forwarder.txBit = FALSE
      /\ forwarder.bcastSeqNo = 0
      /\ \A t \in Tokens : forwarder.slot[t] = FreeSlot
  <2>1. 0 \in 0..(SeqNos - 1)
    BY NoneIsNothing
  <2> HIDE DEF FreeSlot
  <2> QED  BY <1>1, <1>2, <1>5, <2>1 DEF ForwarderStart, FwSet
<1>7. 1..Len(forwarder.staged) = {} /\ 1..Len(forwarder.completed) = {}
      /\ Len(forwarder.staged) + Len(forwarder.completed) <= MaxStaged
  BY <1>6, NoneIsNothing
<1>8. Lists(forwarder)
  BY <1>6, <1>7 DEF Lists
<1>9. Slots(forwarder)
  BY <1>5, <1>6 DEF Slots
<1>10. Matched(fragmenter, forwarder)
  BY <1>3, <1>5, <1>6 DEF Matched, Match
<1>11. Placed(forwarder, pool)
  BY <1>1, <1>2, <1>5, <1>6 DEF Placed
<1>12. Sending(fragmenter, sendQueue, forwarder, below)
  <2>1. /\ sendQueue \in SqSet /\ sendQueue.queue = <<>>
        /\ sendQueue.sending = FALSE
    BY <1>1 DEF SendQueueStart, SqSet
  <2>2. 1..Len(sendQueue.queue) = {} /\ Len(sendQueue.queue) = 0
        /\ 0 <= Cardinality(Tokens) /\ Len(forwarder.ring) = 0
    BY <1>6, <2>1, NoneIsNothing
  <2>3. \A t \in Tokens : fragmenter.token[t].sent = NULL
    BY <1>3
  <2> QED  BY <1>1, <1>2, <1>6, <2>1, <2>2, <2>3 DEF Sending
<1>13. Counted(fragmenter, forwarder, content, sentBytes)
  <2>1. \A t \in Tokens : fragmenter.token[t] = NoToken
    BY <1>3
  <2>2. \A t \in Tokens : CountOf(fragmenter.token[t], forwarder.slot[t],
                                  content, sentBytes)
    BY <1>3, <1>5, <1>6, <2>1 DEF CountOf
  <2> QED  BY <1>1, <1>7, <2>2 DEF Counted
<1>14. Numbered(forwarder, below, content, lastBc0)
  <2>1. SeqNos - 1 \in 0..(SeqNos - 1) /\ 0 = ((SeqNos - 1) + 1) % SeqNos
    BY NoneIsNothing
  <2> QED  BY <1>1, <1>5, <1>6, <2>1 DEF Numbered
<1>15. Tasked(taskQueue, fragmenter.posted)
  BY <1>1 DEF Tasked
<1> QED
  BY <1>4, <1>8, <1>9, <1>10, <1>11, <1>12, <1>13, <1>14, <1>15
     DEF IInv, Whole

LEMMA StartKeeps ==
  ASSUME Intact, NEW p \in Packets, NEW a \in Routes[p],
         startForwardingIpv6Packet(p, a)
  PROVE  Intact' /\ StaysPosted
<1>1. /\ Places(forwarder.staged, p) = {} /\ Places(forwarder.completed, p) = {}
      /\ MayEnqueue(forwarder)
      /\ forwarder' = startForwarding(forwarder, p, a)
      /\ UNCHANGED <<fragmenter, sendQueue, pool, below, content, sentBytes,
                     lastBc0>>
  BY DEF startForwardingIpv6Packet
<1>2. Whole(fragmenter, sendQueue, startForwarding(forwarder, p, a), pool,
            below, content, sentBytes, lastBc0)
  BY <1>1, StagingIsWhole DEF Intact
<1> QED  BY <1>1, <1>2 DEF Intact, StaysPosted

LEMMA CompletedTaskKeeps ==
  ASSUME Intact, processCompletedPacketsTask
  PROVE  Intact' /\ StaysPosted
<1>1. forwarder \in FwSet /\ forwarder.completed \in Seq(Elems)
  BY FwFields DEF Intact, Whole, Lists
<1>2. UNCHANGED <<fragmenter, sendQueue, pool, below, content, lastBc0>>
  BY DEF processCompletedPacketsTask
<1>3. CASE /\ forwarder' = [forwarder EXCEPT !.tasks = @ \ {"completed"}]
           /\ UNCHANGED sentBytes
  <2>1. forwarder.tasks \ {"completed"} \in SUBSET ForwarderTasks
    BY <1>1, FwFields
  <2>2. Alike(forwarder, forwarder')
    BY <1>1, <1>3, <2>1, TasksAreAlike
  <2>3. Whole(fragmenter, sendQueue, forwarder', pool, below, content,
              sentBytes, lastBc0)
    BY <2>2, AlikeIsWhole DEF Intact
  <2> QED  BY <1>2, <1>3, <2>3 DEF Intact, StaysPosted
<1> DEFINE e == Head(forwarder.completed)
           g == RemovedFirst(forwarder)
           bytes == [sentBytes EXCEPT ![e.packet] = 0]
<1>4. ASSUME forwarder.completed # <<>>
      PROVE  /\ e.packet \in Packets
             /\ Places(g.staged, e.packet) = {}
             /\ Places(g.completed, e.packet) = {}
             /\ MayEnqueue(forwarder) => MayEnqueue(g)
             /\ Whole(fragmenter, sendQueue, g, pool, below, content, bytes,
                      lastBc0)
  BY <1>4, ReportingIsWhole DEF Intact
<1>5. CASE /\ forwarder.completed # <<>> /\ sentBytes' = bytes
           /\ forwarder' = g
  BY <1>2, <1>4, <1>5 DEF Intact, StaysPosted
<1>6. ASSUME forwarder.completed # <<>>, sentBytes' = bytes,
             MayEnqueue(forwarder), NEW a \in Routes[e.packet],
             forwarder' = RemovedFirst(startForwarding(forwarder, e.packet, a))
      PROVE  Intact' /\ StaysPosted
  <2>1. forwarder' = startForwarding(g, e.packet, a)
    <3>1. [startForwarding(forwarder, e.packet, a) EXCEPT !.completed = Tail(@)]
            = startForwarding(g, e.packet, a)
      BY <1>1 DEF startForwarding, Posted, RemovedFirst, FwSet
    <3> QED  BY <1>6, <3>1 DEF RemovedFirst
  <2>2. Whole(fragmenter, sendQueue, startForwarding(g, e.packet, a), pool,
              below, content, bytes, lastBc0)
    BY <1>4, <1>6, StagingIsWhole
  <2> QED  BY <1>2, <1>6, <2>1, <2>2 DEF Intact, StaysPosted
<1> QED
  BY <1>3, <1>5, <1>6 DEF processCompletedPacketsTask

LEMMA StopKeeps ==
  ASSUME Intact, NEW p \in Packets, stopForwardingIpv6Packet(p)
  PROVE  Intact' /\ StaysPosted
<1>1. UNCHANGED <<sendQueue, pool, below, content, sentBytes, lastBc0>>
  BY DEF stopForwardingIpv6Packet
<1>2. ASSUME NEW t \in Busy(forwarder),
             fragmenter' = stopFragmenting(fragmenter, t), UNCHANGED forwarder
      PROVE  Intact' /\ StaysPosted
  <2>1. t \in Tokens /\ Jobs(fragmenter) /\ fragmenter.token[t].packet # NULL
    BY DEF Busy, Intact, Whole, Matched, Match
  <2> DEFINE h == stopFragmenting(fragmenter, t)
  <2>2. /\ Handled(fragmenter, h, t)
        /\ SamePlace(h.token[t], fragmenter.token[t]) /\ IsStopped(h.token[t])
    BY <2>1, Stopping
  <2> HIDE DEF h
  <2>3. \A u \in Tokens :
          /\ SamePlace(h.token[u], fragmenter.token[u])
          /\ IsStopped(fragmenter.token[u]) => IsStopped(h.token[u])
    BY <2>2 DEF Handled, SamePlace
  <2>4. Whole(h, sendQueue, forwarder, pool, below, content, sentBytes, lastBc0)
    BY <2>2, <2>3, StoppedIsWhole DEF Intact, Handled
  <2> QED  BY <1>1, <1>2, <2>2, <2>4 DEF Intact, StaysPosted, Handled, h
<1>3. CASE /\ \A t \in Busy(forwarder) : Slot(t).elem.packet # p
           /\ Places(forwarder.staged, p) # {}
           /\ forwarder' = markCompleted(forwarder, p, "ECANCEL")
           /\ UNCHANGED fragmenter
  <2>1. \A t \in Tokens : forwarder.slot[t].elem # NULL =>
          forwarder.slot[t].elem.packet # p
    BY <1>3 DEF Busy, Slot
  <2>2. Whole(fragmenter, sendQueue, markCompleted(forwarder, p, "ECANCEL"),
              pool, below, content, sentBytes, lastBc0)
    BY <1>3, <2>1, StoppingStagedIsWhole DEF Intact
  <2> QED  BY <1>1, <1>3, <2>2 DEF Intact, StaysPosted
<1> QED  BY <1>2, <1>3 DEF stopForwardingIpv6Packet

LEMMA StagedTaskKeeps ==
  ASSUME Intact, processStagedPacketsTask
  PROVE  Intact' /\ StaysPosted
<1> DEFINE e == NextStaged(forwarder)
           fw == [forwarder EXCEPT !.tasks = @ \ {"staged"}]
<1>1. UNCHANGED <<sendQueue, below, content, lastBc0, sentBytes>>
  BY DEF processStagedPacketsTask
<1>2. forwarder \in FwSet
  BY DEF Intact, Whole, Lists
<1>3. Alike(forwarder, fw)
  <2>1. forwarder.tasks \ {"staged"} \in SUBSET ForwarderTasks
    BY <1>2, FwFields
  <2> QED  BY <1>2, <2>1, TasksAreAlike
<1> HIDE DEF fw
<1>4. Whole(fragmenter, sendQueue, fw, pool, below, content, sentBytes, lastBc0)
  BY <1>3, AlikeIsWhole DEF Intact
<1>5. CASE forwarder' = fw /\ UNCHANGED <<fragmenter, pool>>
  BY <1>1, <1>4, <1>5 DEF Intact, StaysPosted
<1>6. ASSUME e # NULL, NEW f \in FrameForNext, pool' = pool \ {f},
             IF f # NULL /\ FreeTokens(fragmenter) # {}
               THEN LET t == Min(FreeTokens(fragmenter)) IN
                    /\ fragmenter' = startFragmenting(fragmenter, t, e.packet)
                    /\ forwarder' = fragmentingStarted(fw, t, e, f)
               ELSE /\ forwarder' = [fw EXCEPT !.freeFrame = f]
                    /\ UNCHANGED fragmenter
      PROVE  Intact' /\ StaysPosted
  <2>1. pool \subseteq Frames /\ Frames \subseteq Nat
        /\ fw.freeFrame = forwarder.freeFrame /\ fw.freeFrame \in FrameOrNone
    BY <1>2, <1>3, ForwardingConstants, FwFields
       DEF Intact, Whole, Placed, Alike
  <2>2. f \in FrameOrNone /\ MayTake(fw, pool, f)
    <3>1. CASE forwarder.freeFrame # NULL
      BY <1>6, <2>1, <3>1 DEF FrameForNext, MayTake
    <3>2. CASE forwarder.freeFrame = NULL
      <4>1. f = NULL \/ (pool # {} /\ f = Min(pool))
        BY <1>6, <3>2 DEF FrameForNext, Allocated
      <4>2. pool # {} => Min(pool) \in pool
        BY <2>1, LeastOf
      <4> QED  BY <2>1, <3>2, <4>1, <4>2 DEF MayTake, FrameOrNone
    <3> QED  BY <3>1, <3>2
  <2>3. /\ e \in Elems /\ \E i \in 1..Len(fw.staged) : fw.staged[i] = e
        /\ \A t \in Tokens : fw.slot[t].elem # NULL =>
             /\ fw.slot[t].elem.packet # e.packet
             /\ fw.slot[t].elem.addr # e.addr
    BY <1>2, <1>3, <1>6, NextIsNotHeldBack DEF Alike
  <2> HIDE DEF e
  <2>4. CASE f # NULL /\ FreeTokens(fragmenter) # {}
    <3> DEFINE t == Min(FreeTokens(fragmenter))
    <3>1. t \in FreeTokens(fragmenter)
      <4>1. FreeTokens(fragmenter) \in SUBSET Nat
        BY NoneIsNothing DEF FreeTokens
      <4> QED  BY <2>4, <4>1, LeastOf
    <3>2. t \in Tokens /\ fragmenter.token[t].packet = NULL
      BY <3>1 DEF FreeTokens
    <3>3. /\ fragmenter' = startFragmenting(fragmenter, t, e.packet)
          /\ forwarder' = fragmentingStarted(fw, t, e, f)
      BY <1>6, <2>4
    <3> HIDE DEF t
    <3>4. f \in Frames
      BY <2>2, <2>4 DEF FrameOrNone
    <3>5. /\ Whole(startFragmenting(fragmenter, t, e.packet), sendQueue,
                   fragmentingStarted(fw, t, e, f), pool \ {f}, below, content,
                   sentBytes, lastBc0)
          /\ fragmenter.posted =>
               startFragmenting(fragmenter, t, e.packet).posted
      BY <1>4, <2>2, <2>3, <3>2, <3>4, StartingIsWhole
    <3> QED  BY <1>1, <1>6, <3>3, <3>5 DEF Intact, StaysPosted
  <2>5. CASE ~(f # NULL /\ FreeTokens(fragmenter) # {})
    <3>1. Whole(fragmenter, sendQueue, [fw EXCEPT !.freeFrame = f], pool \ {f},
                below, content, sentBytes, lastBc0)
      BY <1>4, <2>2, KeepingIsWhole
    <3> QED  BY <1>1, <1>6, <2>5, <3>1 DEF Intact, StaysPosted
  <2> QED  BY <2>4, <2>5
<1> QED  BY <1>5, <1>6 DEF processStagedPacketsTask, fw

LEMMA QueueTaskKeeps ==
  ASSUME Intact, processQueueTask
  PROVE  Intact' /\ StaysPosted
<1>1. UNCHANGED <<fragmenter, pool, below, content, sentBytes, lastBc0>>
  BY DEF processQueueTask
<1>2. CASE MayPassOn(sendQueue)
  <2>1. /\ sendQueue' = passedOn(sendQueue)
        /\ forwarder' = frameEnqueued(forwarder, Head(sendQueue.queue))
    BY <1>2 DEF processQueueTask
  <2>2. Whole(fragmenter, passedOn(sendQueue),
              frameEnqueued(forwarder, Head(sendQueue.queue)), pool, below,
              content, sentBytes, lastBc0)
    BY <1>2, PassingOnIsWhole DEF Intact
  <2> QED  BY <1>1, <2>1, <2>2 DEF Intact, StaysPosted
<1>3. CASE ~MayPassOn(sendQueue)
  <2>1. /\ sendQueue' = [sendQueue EXCEPT !.posted = FALSE]
        /\ UNCHANGED forwarder
    BY <1>3 DEF processQueueTask
  <2>2. Whole(fragmenter, [sendQueue EXCEPT !.posted = FALSE], forwarder, pool,
              below, content, sentBytes, lastBc0)
    BY PassingOnIsWhole DEF Intact
  <2> QED  BY <1>1, <2>1, <2>2 DEF Intact, StaysPosted
<1> QED  BY <1>2, <1>3

LEMMA TimerKeeps ==
  ASSUME Intact, TxTimerFires
  PROVE  Intact' /\ StaysPosted
<1>1. /\ forwarder' = [Posted(forwarder, "frames") EXCEPT !.timer = FALSE]
      /\ UNCHANGED <<fragmenter, sendQueue, pool, below, content, sentBytes,
                     lastBc0>>
  BY DEF TxTimerFires
<1>2. forwarder \in FwSet
  BY DEF Intact, Whole, Lists
<1>3. Alike(forwarder, forwarder')
  <2>1. forwarder.tasks \cup {"frames"} \in SUBSET ForwarderTasks
    BY <1>2, FwFields DEF ForwarderTasks
  <2>2. forwarder' = [forwarder EXCEPT !.tasks = forwarder.tasks \cup {"frames"},
                                       !.timer = FALSE]
    BY <1>1, <1>2 DEF Posted, FwSet
  <2> QED  BY <1>2, <2>1, <2>2, TasksAreAlike
<1>4. Whole(fragmenter, sendQueue, forwarder', pool, below, content, sentBytes,
            lastBc0)
  BY <1>3, AlikeIsWhole DEF Intact
<1> QED  BY <1>1, <1>4 DEF Intact, StaysPosted

(* The frame at the head of the ring is sent again or released, once the   *)
(* forwarder has become g.  low is below when it was sent, otherwise NULL. *)
LEMMA FinishesKeeps ==
  ASSUME Intact, sendQueue.sending, NEW status,
         NEW g, Finishes(g, status),
         Attempted(forwarder, g, forwarder.ring[1]), g.txBit = FALSE,
         Retries(forwarder, status) =>
           g.ring = forwarder.ring /\ forwarder.slot[forwarder.ring[1]].retx > 0,
         ~Retries(forwarder, status) => g.ring = <<>>,
         g.bcastSeqNo =
           IF below # NULL /\ IsBroadcast(forwarder, forwarder.ring[1])
             THEN (forwarder.bcastSeqNo + 1) % SeqNos ELSE forwarder.bcastSeqNo,
         LET c == content[FrameAtHead(forwarder)] IN
           sentBytes' = IF status = "SUCCESS" /\ sentBytes[c.packet] = c.offset
                          THEN [sentBytes EXCEPT ![c.packet] = @ + c.size]
                          ELSE sentBytes,
         below' = NULL, UNCHANGED <<pool, lastBc0>>
  PROVE  Intact' /\ StaysPosted
<1> DEFINE f == FrameAtHead(forwarder)
           t == forwarder.ring[1]
<1>0. t = Head(forwarder.ring)
  BY BelowIsSent DEF Intact
<1>1. CASE Retries(forwarder, status)
  <2>1. /\ forwarder' = g /\ UNCHANGED <<fragmenter, sendQueue, content>>
        /\ status # "SUCCESS"
    BY <1>1 DEF Finishes, Retries
  <2>2. Whole(fragmenter, sendQueue, g, pool, NULL, content, sentBytes, lastBc0)
    BY <1>1, RetryingIsWhole DEF Intact
  <2> QED  BY <2>1, <2>2 DEF Intact, StaysPosted
<1>2. CASE ~Retries(forwarder, status)
  <2>1. /\ sendQueue' = sendingFinished(sendQueue)
        /\ fragmenter' = fragmentSent(fragmenter, f, status)
        /\ forwarder' = frameReleased(g, t, f)
        /\ content' = [content EXCEPT ![f] = NULL]
    BY <1>0, <1>2 DEF Finishes
  <2>2. sentBytes' =
          IF status = "SUCCESS" /\ sentBytes[content[f].packet] = content[f].offset
            THEN [sentBytes EXCEPT ![content[f].packet] = @ + content[f].size]
            ELSE sentBytes
    OBVIOUS
  <2> HIDE DEF f
  <2>3. f = FrameAtHead(forwarder)
    BY DEF f
  <2>4. /\ Whole(fragmentSent(fragmenter, f, status), sendingFinished(sendQueue),
                 frameReleased(g, t, f), pool, NULL,
                 [content EXCEPT ![f] = NULL], sentBytes', lastBc0)
        /\ fragmenter.posted => fragmentSent(fragmenter, f, status).posted
    BY <1>2, <2>2, <2>3, ReleasingIsWhole DEF Intact
  <2> QED  BY <2>1, <2>4 DEF Intact, StaysPosted
<1> QED  BY <1>1, <1>2

LEMMA RingInUse ==
  ASSUME Intact, forwarder.ring # <<>>
  PROVE  sendQueue.sending /\ Len(forwarder.ring) = 1
<1>1. /\ forwarder.ring \in Seq(Tokens)
      /\ Len(forwarder.ring) = IF sendQueue.sending THEN 1 ELSE 0
  BY FwFields DEF Intact, Whole, Lists, Sending
<1> QED  BY <1>1

LEMMA FramesTaskKeeps ==
  ASSUME Intact, processEnqueuedFramesTask
  PROVE  Intact' /\ StaysPosted
<1> DEFINE fw == [forwarder EXCEPT !.tasks = @ \ {"frames"}]
           f == FrameAtHead(forwarder)
<1>1. UNCHANGED <<pool, sentBytes>> /\ forwarder \in FwSet
  BY DEF processEnqueuedFramesTask, Intact, Whole, Lists
<1>2. Alike(forwarder, fw)
  <2>1. forwarder.tasks \ {"frames"} \in SUBSET ForwarderTasks
    BY <1>1, FwFields
  <2> QED  BY <1>1, <2>1, TasksAreAlike
<1>3. Whole(fragmenter, sendQueue, fw, pool, below, content, sentBytes, lastBc0)
  BY <1>2, AlikeIsWhole DEF Intact
<1>4. f = FrameAtHead(fw)
  BY <1>2 DEF Alike, FrameAtHead
<1>5. ASSUME forwarder' = fw,
             UNCHANGED <<below, lastBc0, fragmenter, sendQueue, content>>
      PROVE  Intact' /\ StaysPosted
  BY <1>1, <1>3, <1>5 DEF Intact, StaysPosted
<1>6. ASSUME ~forwarder.txBit, forwarder.ring # <<>>, below' = f,
             forwarder' = [fw EXCEPT !.txBit = TRUE],
             lastBc0' = IF content[f].bc0 = NULL THEN lastBc0
                        ELSE content[f].bc0,
             UNCHANGED <<fragmenter, sendQueue, content>>
      PROVE  Intact' /\ StaysPosted
  <2>1. ~fw.txBit /\ fw.ring # <<>>
    BY <1>2, <1>6 DEF Alike
  <2> HIDE DEF fw, f
  <2>2. Whole(fragmenter, sendQueue, [fw EXCEPT !.txBit = TRUE], pool, f,
              content, sentBytes,
              IF content[f].bc0 = NULL THEN lastBc0 ELSE content[f].bc0)
    BY <1>3, <1>4, <2>1, PassingDownIsWhole
  <2> QED  BY <1>1, <1>6, <2>2 DEF Intact, StaysPosted
<1>7. ASSUME ~forwarder.txBit, forwarder.ring # <<>>,
             Finishes(frameNotAccepted(fw, "EBUSY"), "EBUSY"),
             UNCHANGED <<below, lastBc0>>
      PROVE  Intact' /\ StaysPosted
  <2> DEFINE g == frameNotAccepted(fw, "EBUSY")
             t == forwarder.ring[1]
  <2>1. sendQueue.sending /\ Len(fw.ring) = 1 /\ fw.ring # <<>> /\ fw \in FwSet
        /\ fw.ring = forwarder.ring /\ fw.slot = forwarder.slot
    BY <1>2, <1>7, RingInUse DEF Alike
  <2>2. below = NULL
    BY <1>7 DEF Intact, Whole, Sending
  <2>3. Retries(fw, "EBUSY") <=> Retries(forwarder, "EBUSY")
    BY <2>1 DEF Retries
  <2> HIDE DEF fw
  <2>4. /\ Attempted(fw, g, t)
        /\ g.txBit = fw.txBit /\ g.bcastSeqNo = fw.bcastSeqNo
        /\ Retries(fw, "EBUSY") => g.ring = fw.ring /\ fw.slot[t].retx > 0
        /\ ~Retries(fw, "EBUSY") => g.ring = <<>>
    BY <2>1, AttemptMade DEF frameNotAccepted
  <2> HIDE DEF g
  <2>5. /\ Attempted(forwarder, g, t) /\ g.txBit = FALSE
        /\ g.bcastSeqNo = forwarder.bcastSeqNo
    BY <1>1, <1>2, <1>7, <2>4, FwFields DEF Attempted, Alike
  <2>6. /\ Retries(forwarder, "EBUSY") =>
             g.ring = forwarder.ring /\ forwarder.slot[t].retx > 0
        /\ ~Retries(forwarder, "EBUSY") => g.ring = <<>>
    BY <2>1, <2>3, <2>4
  <2>7. Finishes(g, "EBUSY")
    BY <1>7 DEF g
  <2>8. LET c == content[FrameAtHead(forwarder)] IN
          sentBytes' = IF "EBUSY" = "SUCCESS" /\ sentBytes[c.packet] = c.offset
                         THEN [sentBytes EXCEPT ![c.packet] = @ + c.size]
                         ELSE sentBytes
    BY <1>1
  <2> HIDE DEF t
  <2>9. g.bcastSeqNo =
          IF below # NULL /\ IsBroadcast(forwarder, forwarder.ring[1])
            THEN (forwarder.bcastSeqNo + 1) % SeqNos ELSE forwarder.bcastSeqNo
    BY <2>2, <2>5
  <2> QED
    BY <1>1, <1>7, <2>1, <2>2, <2>5, <2>6, <2>7, <2>8, <2>9, FinishesKeeps DEF t
<1> QED
  BY <1>5, <1>6, <1>7 DEF processEnqueuedFramesTask

LEMMA RadioKeeps ==
  ASSUME Intact, NEW status, SubFrameSendingFinished(status)
  PROVE  Intact' /\ StaysPosted
<1> DEFINE g == frameSendingFinished(forwarder, status)
           t == forwarder.ring[1]
<1>1. /\ below # NULL /\ below' = NULL /\ Finishes(g, status)
      /\ UNCHANGED <<pool, lastBc0>>
  BY DEF SubFrameSendingFinished
<1>2. /\ sendQueue.sending /\ below = forwarder.slot[t].used
      /\ forwarder.ring # <<>> /\ Len(forwarder.ring) = 1 /\ forwarder \in FwSet
  <2>1. forwarder \in FwSet
    BY DEF Intact, Whole, Lists
  <2> QED  BY <1>1, <2>1, BelowIsSent DEF Intact
<1>3. /\ Attempted(forwarder, g, t) /\ g.txBit = FALSE /\ t = Head(forwarder.ring)
      /\ g.bcastSeqNo = IF IsBroadcast(forwarder, t)
                          THEN (forwarder.bcastSeqNo + 1) % SeqNos
                          ELSE forwarder.bcastSeqNo
      /\ Retries(forwarder, status) =>
           g.ring = forwarder.ring /\ forwarder.slot[t].retx > 0
      /\ ~Retries(forwarder, status) => g.ring = <<>>
  BY <1>2, AttemptEnded
<1>4. below = FrameAtHead(forwarder)
  BY <1>2, <1>3 DEF FrameAtHead
<1>5. LET c == content[FrameAtHead(forwarder)] IN
        sentBytes' = IF status = "SUCCESS" /\ sentBytes[c.packet] = c.offset
                       THEN [sentBytes EXCEPT ![c.packet] = @ + c.size]
                       ELSE sentBytes
  BY <1>4 DEF SubFrameSendingFinished
<1> HIDE DEF g
<1> QED
  BY <1>1, <1>2, <1>3, <1>5, FinishesKeeps

(* The beginning of fragmentationTask.                                     *)
LEMMA FragmentationBegins ==
  ASSUME Intact, fragmenter.jobs # <<>>
  PROVE  LET t == Head(fragmenter.jobs)
             fr == Dequeued(fragmenter)
         IN /\ t \in Tokens /\ fr.token[t] \in TokenRecords
            /\ fr.token[t].packet \in Packets
            /\ "PROCESSED" \notin fr.token[t].flags
            /\ Whole(fr, sendQueue, forwarder, pool, below, content, sentBytes,
                     lastBc0)
<1> DEFINE t == Head(fragmenter.jobs)
           fr == Dequeued(fragmenter)
<1>1. /\ t \in Tokens /\ Jobs(fr)
      /\ fr.token[t].packet # NULL /\ "PROCESSED" \notin fr.token[t].flags
      /\ \A u \in Tokens :
           /\ SamePlace(fr.token[u], fragmenter.token[u])
           /\ IsStopped(fr.token[u]) <=> IsStopped(fragmenter.token[u])
  BY Dequeuing DEF Intact, Whole
<1> HIDE DEF fr, t
<1>2. Whole(fr, sendQueue, forwarder, pool, below, content, sentBytes, lastBc0)
  BY <1>1, StoppedIsWhole DEF Intact
<1>3. fr.token[t] \in TokenRecords /\ fr.token[t].packet \in Packets
  BY <1>1, TokenFields DEF Jobs
<1> QED  BY <1>1, <1>2, <1>3 DEF fr, t

(* fr is the fragmenter when the token t is out of its queue.              *)
Begun(fr, t) ==
  /\ t \in Tokens /\ fr.token[t] \in TokenRecords
  /\ fr.token[t].packet \in Packets /\ fr.token[t].packet # NULL
  /\ "PROCESSED" \notin fr.token[t].flags
  /\ Whole(fr, sendQueue, forwarder, pool, below, content, sentBytes, lastBc0)

LEMMA StoppedKeeps ==
  ASSUME NEW fr, NEW t, Begun(fr, t), fragmentationStopped(fr, t),
         UNCHANGED <<below, lastBc0>>
  PROVE  Intact'
<1> DEFINE tk == fr.token[t]
           s == forwarder.slot[t]
           fw == IF tk.ready # NULL THEN frameReleased(forwarder, t, tk.ready)
                                    ELSE forwarder
           left == [f \in Frames |-> IF f = tk.ready THEN NULL ELSE content[f]]
           status == StatusOf(tk)
<1>1. /\ IsStopped(tk) /\ tk.sent = NULL
      /\ fragmenter' = finishFragmenting(fr, t)
      /\ forwarder' = fragmentingFinished(fw, t, status)
      /\ pool' = pool \cup Freed(fw, t) /\ content' = left
      /\ UNCHANGED <<sendQueue, sentBytes>>
  BY DEF fragmentationStopped
<1>2. /\ forwarder \in FwSet /\ t \in Tokens /\ tk \in TokenRecords
      /\ tk.ready \in FrameOrNone /\ NULL \notin Frames
      /\ Match(tk, s)
  BY NoneIsNothing DEF Begun, Whole, Lists, Matched, TokenRecords
<1>3. status \in Statuses /\ status # "SUCCESS"
  BY <1>1, <1>2 DEF StatusOf, Statuses, IsStopped
<1>4. s.elem # NULL
  BY <1>2 DEF Begun, Match
<1>5. tk.ready # NULL => s.used = tk.ready /\ s.free = NULL
  BY <1>2, <1>4 DEF Match
<1>6. tk.ready = NULL => s.used = NULL /\ FrameOf(s) = s.free
  BY <1>1, <1>2 DEF Match, FrameOf
<1>7. /\ Moved(forwarder, fw, t) /\ fw.freeFrame = forwarder.freeFrame
      /\ SlotAt(fw.slot[t], s.elem, FrameOf(s), NULL)
  <2>1. CASE tk.ready # NULL
    <3>1. tk.ready \in Frames
      BY <1>2, <2>1 DEF FrameOrNone
    <3>2. fw = frameReleased(forwarder, t, tk.ready) /\ FrameOf(s) = tk.ready
          /\ s.free = NULL
      BY <1>5, <2>1 DEF FrameOf
    <3> HIDE DEF fw, tk
    <3>3. /\ Moved(forwarder, frameReleased(forwarder, t, tk.ready), t)
          /\ frameReleased(forwarder, t, tk.ready).freeFrame = forwarder.freeFrame
          /\ SlotAt(frameReleased(forwarder, t, tk.ready).slot[t], s.elem,
                    IF s.free = NULL THEN tk.ready ELSE s.free, NULL)
      BY <1>2, <3>1, FrameReleased
    <3> QED  BY <3>2, <3>3
  <2>2. CASE tk.ready = NULL
    BY <1>2, <1>6, <2>2 DEF Moved, SlotAt
  <2> QED  BY <2>1, <2>2
<1>8. DOMAIN left = Frames /\ \A f \in Frames : f # FrameOf(s) => left[f] = content[f]
  BY <1>2, <1>5 DEF FrameOf
<1> HIDE DEF fw, left, status
<1>9. Whole(finishFragmenting(fr, t), sendQueue,
            fragmentingFinished(fw, t, status), pool \cup Freed(fw, t), below,
            left, sentBytes, lastBc0)
  BY <1>1, <1>3, <1>7, <1>8, FinishingIsWhole DEF Begun
<1> QED  BY <1>1, <1>9 DEF Intact

LEMMA DoneKeeps ==
  ASSUME NEW fr, NEW t, Begun(fr, t), fragmentationDone(fr, t),
         UNCHANGED <<below, lastBc0>>
  PROVE  Intact'
<1> DEFINE tk == fr.token[t]
           s == forwarder.slot[t]
<1>1. /\ ~IsStopped(tk) /\ ~HasNext(tk) /\ tk.ready = NULL /\ tk.sent = NULL
      /\ fragmenter' = finishFragmenting(fr, t)
      /\ forwarder' = fragmentingFinished(forwarder, t, "SUCCESS")
      /\ pool' = pool \cup Freed(forwarder, t)
      /\ UNCHANGED <<sendQueue, content, sentBytes>>
  BY DEF fragmentationDone
<1>2. /\ forwarder \in FwSet /\ t \in Tokens /\ tk \in TokenRecords
      /\ tk.packet \in Packets /\ tk.packet # NULL /\ Match(tk, s)
      /\ tk.offset <= PacketLength[tk.packet]
      /\ CountOf(tk, s, content, sentBytes)
      /\ DOMAIN content = Frames
  BY DEF Begun, Whole, Lists, Matched, Jobs, Counted
<1>3. s.used = NULL /\ FrameOf(s) = s.free
  BY <1>1, <1>2 DEF Match, FrameOf
<1>4. tk.offset = PacketLength[tk.packet]
  <2>1. tk.offset \in Nat /\ PacketLength[tk.packet] \in Nat
    BY <1>2, FragmenterConstants DEF TokenRecords
  <2> QED  BY <1>1, <1>2, <2>1 DEF HasNext
<1>5. sentBytes[tk.packet] = PacketLength[tk.packet]
  BY <1>1, <1>2, <1>3, <1>4 DEF CountOf
<1>6. Moved(forwarder, forwarder, t) /\ SlotAt(s, s.elem, FrameOf(s), NULL)
  BY <1>2, <1>3 DEF Moved, SlotAt
<1>7. Whole(finishFragmenting(fr, t), sendQueue,
            fragmentingFinished(forwarder, t, "SUCCESS"),
            pool \cup Freed(forwarder, t), below, content, sentBytes, lastBc0)
  BY <1>1, <1>2, <1>5, <1>6, FinishingIsWhole DEF Begun, Statuses
<1> QED  BY <1>1, <1>7 DEF Intact

LEMMA ObtainedKeeps ==
  ASSUME NEW fr, NEW t, Begun(fr, t), fragmentObtained(fr, t),
         UNCHANGED <<below, lastBc0>>
  PROVE  Intact'
<1> DEFINE tk == fr.token[t]
           s == forwarder.slot[t]
<1>1. /\ ~IsStopped(tk) /\ HasNext(tk) /\ tk.ready = NULL
      /\ UNCHANGED <<sendQueue, pool, sentBytes>>
  BY DEF fragmentObtained
<1>2. PICK ready \in BOOLEAN, packed \in BOOLEAN :
        LET f == IF ready THEN s.free ELSE NULL IN
        /\ fragmenter' = reserveAndObtain(fr, t, f, packed)
        /\ forwarder' = IF f # NULL THEN frameGiven(forwarder, t) ELSE forwarder
        /\ content' = IF f = NULL THEN content
             ELSE [content EXCEPT ![f] =
                     [packet |-> tk.packet, offset |-> tk.offset,
                      size |-> IF packed THEN PackedSize(tk) ELSE 0,
                      bc0 |-> IF IsBroadcast(forwarder, t)
                                THEN forwarder.bcastSeqNo ELSE NULL]]
  BY DEF fragmentObtained, Slot
<1> DEFINE f == IF ready THEN s.free ELSE NULL
<1>3. /\ forwarder \in FwSet /\ t \in Tokens /\ Jobs(fr) /\ tk.packet # NULL
  BY DEF Begun, Whole, Lists
<1>4. CASE f = NULL
  <2> DEFINE g == reserveAndObtain(fr, t, NULL, packed)
  <2>1. fragmenter' = g /\ forwarder' = forwarder /\ content' = content
    BY <1>2, <1>4
  <2>2. NULL \in FrameOrNone
    BY DEF FrameOrNone
  <2>3. /\ tk.sent = NULL => Handled(fr, g, t)
        /\ tk.sent # NULL => g = fr
        /\ SamePlace(g.token[t], tk)
        /\ IsStopped(tk) => IsStopped(g.token[t])
    BY <1>1, <1>3, <2>2, Obtaining
  <2> HIDE DEF g
  <2>4. /\ Jobs(g)
        /\ \A u \in Tokens : /\ SamePlace(g.token[u], fr.token[u])
                             /\ IsStopped(fr.token[u]) => IsStopped(g.token[u])
    BY <1>3, <2>3 DEF Handled, SamePlace
  <2>5. Whole(g, sendQueue, forwarder, pool, below, content, sentBytes, lastBc0)
    BY <2>4, StoppedIsWhole DEF Begun
  <2> QED  BY <1>1, <2>1, <2>5 DEF Intact
<1>5. CASE f # NULL
  <2> DEFINE cut ==
        [packet |-> tk.packet, offset |-> tk.offset,
         size |-> IF packed THEN PackedSize(tk) ELSE 0,
         bc0 |-> IF IsBroadcast(forwarder, t) THEN forwarder.bcastSeqNo ELSE NULL]
  <2>1. /\ fragmenter' = reserveAndObtain(fr, t, f, packed)
        /\ forwarder' = frameGiven(forwarder, t)
        /\ content' = [content EXCEPT ![f] = cut]
    BY <1>2, <1>5
  <2>2. f = s.free
    BY <1>5
  <2> HIDE DEF f
  <2>3. Whole(reserveAndObtain(fr, t, f, packed), sendQueue,
              frameGiven(forwarder, t), pool, below,
              [content EXCEPT ![f] = cut], sentBytes, lastBc0)
    BY <1>1, <1>2, <1>3, <1>5, <2>2, ObtainingIsWhole DEF Begun
  <2> QED  BY <1>1, <2>1, <2>3 DEF Intact
<1> QED  BY <1>4, <1>5

LEMMA FragmentationTaskKeeps ==
  ASSUME Intact, fragmenter.jobs # <<>>, fragmentationTask
  PROVE  Intact'
<1> DEFINE t == Head(fragmenter.jobs)
           fr == Dequeued(fragmenter)
<1>1. Begun(fr, t)
  BY FragmentationBegins, NoneIsNothing DEF Begun
<1>2. /\ \/ fragmentationStopped(fr, t) \/ fragmentObtained(fr, t)
         \/ fragmentSentOff(fr, t) \/ fragmentAwaited(fr, t)
         \/ fragmentationDone(fr, t)
      /\ UNCHANGED <<below, lastBc0>>
  BY DEF fragmentationTask
<1> HIDE DEF fr, t
<1>3. CASE fragmentSentOff(fr, t)
  <2>1. Whole(sendFrame(fr, t, SendQueueTakes(sendQueue)),
              startSending(sendQueue, fr.token[t].ready), forwarder, pool,
              below, content, sentBytes, lastBc0)
    BY <1>1, <1>3, SendingOffIsWhole DEF Begun, fragmentSentOff
  <2> QED  BY <1>2, <1>3, <2>1 DEF Intact, fragmentSentOff
<1>4. CASE fragmentAwaited(fr, t)
  BY <1>1, <1>2, <1>4 DEF Begun, Intact, fragmentAwaited
<1> QED
  BY <1>1, <1>2, <1>3, <1>4, StoppedKeeps, DoneKeeps, ObtainedKeeps

-----------------------------------------------------------------------------
(* The task queue.                                                         *)

NoFragmentation(queue) == \A i \in 1..Len(queue) : queue[i] # "fragmentation"

LEMMA TaskedAppended ==
  ASSUME NEW queue, NEW posted, Tasked(queue, posted), NEW x \in TaskNames,
         NEW more, more = <<x>> \/ more = <<>>,
         x = "fragmentation" /\ more # <<>> => posted /\ NoFragmentation(queue)
  PROVE  /\ Tasked(queue \o more, posted)
         /\ x # "fragmentation" /\ NoFragmentation(queue) =>
              NoFragmentation(queue \o more)
<1>1. queue \in Seq(TaskNames) /\ Len(queue) \in Nat
  BY DEF Tasked
<1>2. CASE more = <<>>
  <2>1. queue \o more = queue
    BY <1>1, <1>2
  <2> QED  BY <2>1
<1>3. CASE more = <<x>>
  <2> DEFINE q == queue \o <<x>>
             n == Len(queue)
  <2>1. /\ q \in Seq(TaskNames) /\ Len(q) = n + 1 /\ q[n + 1] = x
        /\ \A i \in 1..n : q[i] = queue[i]
    BY <1>1
  <2> HIDE DEF q
  <2>2. \A i \in 1..Len(q) : i \in 1..n \/ i = n + 1
    BY <1>1, <2>1
  <2>3. \A i, j \in 1..Len(q) :
          q[i] = "fragmentation" /\ q[j] = "fragmentation" => i = j
    <3> TAKE i, j \in 1..Len(q)
    <3>1. CASE i \in 1..n /\ j \in 1..n
      BY <2>1, <3>1 DEF Tasked
    <3>2. CASE i = n + 1 /\ j = n + 1
      BY <3>2
    <3>3. CASE i \in 1..n /\ j = n + 1
      BY <1>3, <2>1, <3>3 DEF NoFragmentation
    <3>4. CASE i = n + 1 /\ j \in 1..n
      BY <1>3, <2>1, <3>4 DEF NoFragmentation
    <3> QED  BY <2>2, <3>1, <3>2, <3>3, <3>4
  <2>4. \A i \in 1..Len(q) : q[i] = "fragmentation" => posted
    BY <1>3, <2>1, <2>2 DEF Tasked
  <2>5. Tasked(q, posted)
    BY <2>1, <2>3, <2>4 DEF Tasked
  <2>6. x # "fragmentation" /\ NoFragmentation(queue) => NoFragmentation(q)
    BY <2>1, <2>2 DEF NoFragmentation
  <2> QED  BY <1>3, <2>5, <2>6 DEF q
<1> QED  BY <1>2, <1>3

LEMMA QueuedIsTasked ==
  ASSUME Intact', NEW queue, Tasked(queue, fragmenter.posted'), Queued(queue)
  PROVE  Tasked(taskQueue', fragmenter.posted')
<1> DEFINE a == Posting("sendQueue", queue)
           b == Posting("completed", queue)
           c == Posting("fragmentation", queue)
           d == Posting("staged", queue)
           e == Posting("frames", queue)
<1>1. /\ a = <<"sendQueue">> \/ a = <<>>
      /\ b = <<"completed">> \/ b = <<>>
      /\ c = <<"fragmentation">> \/ c = <<>>
      /\ d = <<"staged">> \/ d = <<>>
      /\ e = <<"frames">> \/ e = <<>>
  BY DEF Posting
<1>2. queue \in Seq(TaskNames)
  BY DEF Tasked
<1>3. c # <<>> => fragmenter.posted' /\ NoFragmentation(queue)
  <2> SUFFICES ASSUME c # <<>>
               PROVE  fragmenter.posted' /\ NoFragmentation(queue)
    OBVIOUS
  <2>1. IsPosted("fragmentation")' /\ \A i \in DOMAIN queue : queue[i] # "fragmentation"
    BY DEF Posting
  <2>2. forwarder'.tasks \in SUBSET {"completed", "staged", "frames"}
    BY DEF Intact, Whole, Lists, FwSet, ForwarderTasks
  <2>3. fragmenter.posted'
    BY <2>1, <2>2 DEF IsPosted
  <2> QED  BY <1>2, <2>1, <2>3 DEF NoFragmentation
<1>4. taskQueue' = queue \o a \o b \o c \o d \o e
  BY DEF Queued
<1> HIDE DEF a, b, c, d, e
<1>5. /\ Tasked(queue \o a, fragmenter.posted')
      /\ NoFragmentation(queue) => NoFragmentation(queue \o a)
  BY <1>1, TaskedAppended DEF TaskNames
<1>6. /\ Tasked((queue \o a) \o b, fragmenter.posted')
      /\ NoFragmentation(queue) => NoFragmentation((queue \o a) \o b)
  BY <1>1, <1>5, TaskedAppended DEF TaskNames
<1>7. Tasked(((queue \o a) \o b) \o c, fragmenter.posted')
  BY <1>1, <1>3, <1>6, TaskedAppended DEF TaskNames
<1>8. Tasked((((queue \o a) \o b) \o c) \o d, fragmenter.posted')
  BY <1>1, <1>7, TaskedAppended DEF TaskNames
<1>9. Tasked(((((queue \o a) \o b) \o c) \o d) \o e, fragmenter.posted')
  BY <1>1, <1>8, TaskedAppended DEF TaskNames
<1> QED  BY <1>4, <1>9

LEMMA TailIsTasked ==
  ASSUME NEW queue, NEW posted, Tasked(queue, posted), queue # <<>>
  PROVE  /\ Tasked(Tail(queue), posted)
         /\ Head(queue) = "fragmentation" =>
              posted /\ NoFragmentation(Tail(queue))
<1>1. /\ queue \in Seq(TaskNames) /\ Len(queue) \in Nat \ {0}
      /\ Tail(queue) \in Seq(TaskNames) /\ Len(Tail(queue)) = Len(queue) - 1
      /\ \A i \in 1..Len(Tail(queue)) : Tail(queue)[i] = queue[i + 1]
      /\ Head(queue) = queue[1]
  BY DEF Tasked
<1>2. 1 \in 1..Len(queue)
      /\ \A i \in 1..Len(Tail(queue)) : i + 1 \in 1..Len(queue) /\ i + 1 # 1
  BY <1>1
<1>3. \A i, j \in 1..Len(Tail(queue)) :
        Tail(queue)[i] = "fragmentation" /\ Tail(queue)[j] = "fragmentation"
          => i = j
  <2> TAKE i, j \in 1..Len(Tail(queue))
  <2> HAVE Tail(queue)[i] = "fragmentation" /\ Tail(queue)[j] = "fragmentation"
  <2>1. i + 1 = j + 1
    BY <1>1, <1>2 DEF Tasked
  <2> QED  BY <1>1, <2>1
<1>4. \A i \in 1..Len(Tail(queue)) : Tail(queue)[i] = "fragmentation" => posted
  BY <1>1, <1>2 DEF Tasked
<1>5. ASSUME Head(queue) = "fragmentation"
      PROVE  posted /\ NoFragmentation(Tail(queue))
  BY <1>1, <1>2, <1>5 DEF Tasked, NoFragmentation
<1> QED  BY <1>1, <1>3, <1>4, <1>5 DEF Tasked

(* A task of the fragmenter in the queue has a token to go for.            *)
LEMMA RunningKeeps ==
  ASSUME IInv, RunNextTask
  PROVE  IInv'
<1>1. Intact /\ Tasked(taskQueue, fragmenter.posted)
  BY DEF IInv, Intact
<1>2. Queued(Tail(taskQueue)) /\ taskQueue # <<>>
  BY DEF RunNextTask, Run
<1>3. /\ Tasked(Tail(taskQueue), fragmenter.posted)
      /\ Head(taskQueue) = "fragmentation" =>
           fragmenter.posted /\ NoFragmentation(Tail(taskQueue))
  BY <1>1, <1>2, TailIsTasked
<1>4. Intact' /\ Tasked(Tail(taskQueue), fragmenter.posted')
  <2>1. CASE /\ Run("fragmentation") /\ fragmentationTask
    <3>1. fragmenter.posted /\ NoFragmentation(Tail(taskQueue))
      BY <1>3, <2>1 DEF Run
    <3>2. fragmenter.jobs # <<>>
      BY <1>1, <3>1 DEF Intact, Whole, Jobs
    <3>3. Intact'
      BY <1>1, <2>1, <3>2, FragmentationTaskKeeps
    <3>4. Tasked(Tail(taskQueue), fragmenter.posted')
      BY <1>3, <3>1 DEF Tasked, NoFragmentation
    <3> QED  BY <3>3, <3>4
  <2>2. CASE Intact' /\ StaysPosted
    BY <1>3, <2>2 DEF StaysPosted, Tasked
  <2> QED
    BY <1>1, <2>1, <2>2, CompletedTaskKeeps, StagedTaskKeeps, QueueTaskKeeps,
       FramesTaskKeeps DEF RunNextTask
<1>5. Tasked(taskQueue', fragmenter.posted')
  BY <1>2, <1>4, QueuedIsTasked
<1> QED  BY <1>4, <1>5 DEF IInv, Intact

LEMMA NextKeeps ==
  ASSUME IInv, [Next]_vars
  PROVE  IInv'
<1>1. Intact /\ Tasked(taskQueue, fragmenter.posted)
  BY DEF IInv, Intact
<1>2. ASSUME Intact', StaysPosted, Post
      PROVE  IInv'
  <2>1. Tasked(taskQueue, fragmenter.posted')
    BY <1>1, <1>2 DEF StaysPosted, Tasked
  <2>2. Tasked(taskQueue', fragmenter.posted')
    BY <1>2, <2>1, QueuedIsTasked DEF Post
  <2> QED  BY <1>2, <2>2 DEF IInv, Intact
<1>3. CASE RunNextTask
  BY <1>3, RunningKeeps
<1>4. CASE /\ \E p \in Packets : \E a \in Routes[p] :
                startForwardingIpv6Packet(p, a)
           /\ Post
  BY <1>1, <1>2, <1>4, StartKeeps
<1>5. CASE (\E p \in Packets : stopForwardingIpv6Packet(p)) /\ Post
  BY <1>1, <1>2, <1>5, StopKeeps
<1>6. CASE TxTimerFires /\ Post
  BY <1>1, <1>2, <1>6, TimerKeeps
<1>7. CASE RadioAnswers /\ Post
  BY <1>1, <1>2, <1>7, RadioKeeps DEF RadioAnswers
<1>8. CASE UNCHANGED vars
  BY <1>1, <1>8 DEF IInv, Intact, vars
<1> QED  BY <1>3, <1>4, <1>5, <1>6, <1>7, <1>8 DEF Next

(* The four parts agree, and each frame has its place, whatever the        *)
(* clients, the radio stack and the allocator do, in every order of tasks. *)
THEOREM Invariant == Spec => []IInv
<1>1. Init => IInv
  BY InitIsIntact
<1>2. IInv /\ [Next]_vars => IInv'
  BY NextKeeps
<1> QED  BY <1>1, <1>2, PTL DEF Spec

-----------------------------------------------------------------------------
(* What the invariant says to a reader of the code.                        *)

LEMMA QueueOfTokensIsBounded ==
  ASSUME NEW fr, Jobs(fr)
  PROVE  Len(fr.jobs) <= Cardinality(Tokens)
<1>1. /\ fr.jobs \in [1..Len(fr.jobs) -> Tokens] /\ Len(fr.jobs) \in Nat
      /\ \A i, j \in 1..Len(fr.jobs) : fr.jobs[i] = fr.jobs[j] => i = j
  BY DEF Jobs, FrSet
<1>2. IsFiniteSet(1..Len(fr.jobs)) /\ Cardinality(1..Len(fr.jobs)) = Len(fr.jobs)
  BY <1>1, CountUpto
<1>3. ~(Cardinality(Tokens) < Cardinality(1..Len(fr.jobs)))
  BY <1>1, <1>2, NoneIsNothing, FS_PigeonHole
<1> QED  BY <1>1, <1>2, <1>3, NoneIsNothing

LEMMA TypesAreRight ==
  ASSUME Intact
  PROVE  TypeOK
<1>1. /\ fragmenter \in FrSet /\ forwarder \in FwSet /\ Jobs(fragmenter)
  BY DEF Intact, Whole, Jobs, Lists
<1>2. ASSUME NEW t \in Tokens
      PROVE  TokenTypeOK(Token(t)) /\ SlotTypeOK(Slot(t))
  <2>1. fragmenter.token[t].packet # NULL =>
          fragmenter.token[t].offset <= PacketLength[fragmenter.token[t].packet]
    BY <1>1 DEF Jobs
  <2>2. TokenTypeOK(Token(t))
    BY <1>1, <2>1, TokenFields DEF TokenTypeOK, Token, FrameOrNone
  <2>3. SlotTypeOK(Slot(t))
    BY <1>1, SlotFields DEF SlotTypeOK, Slot, FrameOrNone
  <2> QED  BY <2>2, <2>3
<1>3. fragmenter.jobs \in Seq(Tokens) /\ Len(fragmenter.jobs) <= Cardinality(Tokens)
  BY <1>1, QueueOfTokensIsBounded DEF FrSet
<1>4. Len(sendQueue.queue) <= Cardinality(Tokens) /\ below \in Frames \cup {NULL}
  BY DEF Intact, Whole, Sending, FrameOrNone
<1>5. /\ Len(forwarder.staged) + Len(forwarder.completed) <= MaxStaged
      /\ forwarder.bcastSeqNo \in 0..(SeqNos - 1)
  BY <1>1, FwFields DEF Intact, Whole, Lists
<1>6. pool \subseteq Frames
  BY DEF Intact, Whole, Placed
<1> QED  BY <1>2, <1>3, <1>4, <1>5, <1>6 DEF TypeOK

LEMMA IntactAgrees ==
  ASSUME Intact
  PROVE  StagesAgree
<1>1. /\ fragmenter \in FrSet /\ forwarder \in FwSet /\ Jobs(fragmenter)
      /\ Slots(forwarder) /\ Matched(fragmenter, forwarder)
      /\ Sending(fragmenter, sendQueue, forwarder, below)
  BY DEF Intact, Whole, Jobs, Lists
<1>2. ASSUME NEW t \in Tokens
      PROVE  /\ (Token(t).packet = NULL) = (Slot(t).elem = NULL)
             /\ Slot(t).elem # NULL =>
                  /\ Slot(t).elem.packet = Token(t).packet
                  /\ Slot(t).elem \in Elements(forwarder.staged)
             /\ Token(t).ready = NULL \/ Token(t).sent = NULL
             /\ {Slot(t).used} = IF Token(t).ready # NULL THEN {Token(t).ready}
                                 ELSE {Token(t).sent}
             /\ ("PROCESSED" \in Token(t).flags) = (t \in Elements(fragmenter.jobs))
             /\ Token(t).sent # NULL =>
                  Token(t).sent \in Elements(sendQueue.queue)
  <2>1. Match(Token(t), Slot(t))
    BY <1>1 DEF Matched, Token, Slot
  <2>2. Slot(t).elem # NULL => Slot(t).elem \in Elements(forwarder.staged)
    BY <1>1 DEF Slots, Slot, Elements
  <2>3. ("PROCESSED" \in Token(t).flags) = (t \in Elements(fragmenter.jobs))
    <3>1. "PROCESSED" \in Token(t).flags => t \in Elements(fragmenter.jobs)
      BY <1>1 DEF Jobs, Token, Elements
    <3>2. t \in Elements(fragmenter.jobs) => "PROCESSED" \in Token(t).flags
      BY <1>1 DEF Jobs, Token, Elements
    <3> QED  BY <3>1, <3>2
  <2>4. Token(t).sent # NULL => Token(t).sent \in Elements(sendQueue.queue)
    BY <1>1 DEF Sending, Token, Elements
  <2> QED  BY <2>1, <2>2, <2>3, <2>4 DEF Match
<1>3. /\ fragmenter.posted = (fragmenter.jobs # <<>>)
      /\ forwarder.txBit = (below # NULL)
  <2>1. fragmenter.posted \in BOOLEAN /\ forwarder.txBit \in BOOLEAN
    BY <1>1, FwFields DEF FrSet
  <2> QED  BY <1>1, <2>1 DEF Jobs, Sending
<1>4. Len(forwarder.ring) = IF sendQueue.sending THEN 1 ELSE 0
  BY <1>1 DEF Sending
<1>5. /\ sendQueue.sending => FrameAtHead(forwarder) = Head(sendQueue.queue)
      /\ below # NULL => sendQueue.sending /\ below = FrameAtHead(forwarder)
  <2>1. /\ sendQueue.queue \in Seq(Frames)
        /\ sendQueue.sending =>
             /\ forwarder.ring \in Seq(Tokens) /\ forwarder.ring # <<>>
             /\ sendQueue.queue # <<>>
             /\ forwarder.slot[forwarder.ring[1]].used = sendQueue.queue[1]
        /\ below # NULL =>
             sendQueue.sending /\ below = forwarder.slot[forwarder.ring[1]].used
    BY BelowIsSent DEF Intact
  <2>2. sendQueue.sending => /\ Head(forwarder.ring) = forwarder.ring[1]
                             /\ Head(sendQueue.queue) = sendQueue.queue[1]
    BY <2>1
  <2> QED  BY <2>1, <2>2 DEF FrameAtHead
<1>6. TypeOK
  BY TypesAreRight
<1> QED  BY <1>2, <1>3, <1>4, <1>5, <1>6 DEF StagesAgree

(* The assertions of the forwarder (426-446, 502, 585-591, 743-749,        *)
(* 835-840, 872-878), which are compiled to nothing, never fail, and the   *)
(* queues of the fragmenter and the send queue never overflow.             *)
THEOREM StagesAlwaysAgree == Spec => []StagesAgree
<1>1. IInv => StagesAgree
  BY IntactAgrees DEF IInv, Intact
<1> QED  BY <1>1, Invariant, PTL

(* No two packets for one link-layer address are fragmented at a time      *)
(* (LoWPANIPv6PacketForwarderMainPrv.nc:78): what holds a packet back is   *)
(* looked at again whenever one is taken up.                               *)
THEOREM OneAtATimePerAddress == Spec => []OneFragmentationPerAddress
<1>1. IInv => OneFragmentationPerAddress
  BY DEF IInv, Whole, Slots, OneFragmentationPerAddress, Busy, Slot
<1> QED  BY <1>1, Invariant, PTL

(* fragmentingIpv6PacketFinished(SUCCESS) is signaled only for a packet of *)
(* which the radio stack has sent every fragment, in order and once.       *)
THEOREM SuccessIsEarned == Spec => []SuccessMeansSent
<1>1. IInv => SuccessMeansSent
  BY DEF IInv, Whole, Counted, SuccessMeansSent, Elements
<1> QED  BY <1>1, Invariant, PTL

(* Broadcast frames go down with consecutive BC0 numbers                   *)
(* (LoWPANIPv6PacketForwarderMainPrv.nc:79-80): the number is taken when a *)
(* frame is requested and counted up only when one was sent, yet no two    *)
(* frames get the same one, whatever is stopped or fails in between.       *)
THEOREM NumbersAreConsecutive == Spec => BroadcastNumbersConsecutive
<1> DEFINE Step == \A f \in Frames :
                     below # f /\ below' = f /\ content[f].bc0 # NULL =>
                       content[f].bc0 = (lastBc0 + 1) % SeqNos
<1>1. ASSUME IInv, [Next]_vars
      PROVE  Step
  <2>1. Intact /\ NULL \notin Frames
    BY <1>1, NoneIsNothing DEF IInv, Intact
  <2> SUFFICES ASSUME NEW f \in Frames, below # f, below' = f,
                      content[f].bc0 # NULL
               PROVE  content[f].bc0 = (lastBc0 + 1) % SeqNos
    OBVIOUS
  <2>2. below' # below /\ below' # NULL
    BY <2>1
  <2>3. processEnqueuedFramesTask
    <3>1. RunNextTask
      BY <1>1, <2>2 DEF Next, vars, startForwardingIpv6Packet,
         stopForwardingIpv6Packet, TxTimerFires, RadioAnswers,
         SubFrameSendingFinished
    <3> QED
      BY <2>2, <3>1 DEF RunNextTask, processCompletedPacketsTask,
         processStagedPacketsTask, fragmentationTask, processQueueTask
  <2>4. ~forwarder.txBit /\ forwarder.ring # <<>> /\ f = FrameAtHead(forwarder)
    BY <2>2, <2>3 DEF processEnqueuedFramesTask
  <2>5. Whole(fragmenter, sendQueue, forwarder, pool, below, content, sentBytes,
              lastBc0)
    BY <2>1 DEF Intact
  <2>6. content[f].bc0 # NULL => Follows(content[f].bc0, lastBc0)
    BY <2>4, <2>5, PassingDownIsWhole
  <2> QED  BY <2>6 DEF Follows
<1>2. Spec => [][Step]_vars
  BY <1>1, Invariant, PTL DEF Spec
<1> QED  BY <1>2 DEF BroadcastNumbersConsecutive

(* The frames of the packets that are being fragmented.                    *)
LEMMA FramesOfSlots ==
  ASSUME Intact
  PROVE  /\ \A t \in Tokens : forwarder.slot[t].elem = NULL => FramesOf(t) = {}
         /\ \A t \in Tokens : forwarder.slot[t].elem # NULL =>
              /\ FramesOf(t) = {FrameOf(forwarder.slot[t])}
              /\ FrameOf(forwarder.slot[t]) \in Frames
<1> SUFFICES ASSUME NEW t \in Tokens
             PROVE  /\ Slot(t).elem = NULL => FramesOf(t) = {}
                    /\ Slot(t).elem # NULL =>
                         /\ FramesOf(t) = {FrameOf(Slot(t))}
                         /\ FrameOf(Slot(t)) \in Frames
  BY DEF Slot
<1>1. /\ Match(fragmenter.token[t], Slot(t)) /\ NULL \notin Frames
      /\ Slot(t).free \in Frames \cup {NULL} /\ Slot(t).used \in Frames \cup {NULL}
  <2>1. forwarder \in FwSet
    BY DEF Intact, Whole, Lists
  <2>2. Matched(fragmenter, forwarder)
    BY DEF Intact, Whole
  <2> QED  BY <2>1, <2>2, NoneIsNothing, SlotFields DEF Matched, Slot, FrameOrNone
<1> QED  BY <1>1 DEF Match, FramesOf, FrameOf

(* The paths of a frame through the slots, the fragmenter, the send queue, *)
(* the ring and the radio stack never lose it or give it back twice        *)
(* (frameForFragmentedPacketRequested, frameForFragmentedPacketReleased,   *)
(* tryToStartForwardingStagedPacket, fragmentingIpv6PacketFinished).       *)
THEOREM FramesAreNotLost == Spec => []NoFrameLost
<1> SUFFICES ASSUME Intact PROVE NoFrameLost
  BY Invariant, PTL DEF IInv, Intact
<1> DEFINE s(t) == forwarder.slot[t]
           busy == Busy(forwarder)
           spare == {forwarder.freeFrame} \ {NULL}
           F == [t \in busy |-> FrameOf(s(t))]
           held == {F[t] : t \in busy}
<1>1. /\ Placed(forwarder, pool) /\ forwarder \in FwSet
      /\ forwarder.freeFrame \in Frames \cup {NULL}
  BY FwFields DEF Intact, Whole, Lists, FrameOrNone
<1>2. /\ NULL \notin Frames /\ IsFiniteSet(Frames) /\ IsFiniteSet(Tokens)
      /\ busy \subseteq Tokens
      /\ \A t \in Tokens : t \in busy <=> s(t).elem # NULL
  BY NoneIsNothing DEF Busy
<1>3. /\ \A t \in Tokens \ busy : FramesOf(t) = {}
      /\ \A t \in busy : FramesOf(t) = {F[t]} /\ F[t] \in Frames
  BY <1>2, FramesOfSlots
<1>4. /\ \A t \in busy : F[t] \notin pool /\ F[t] # forwarder.freeFrame
      /\ \A t, u \in busy : F[t] = F[u] => t = u
      /\ \A f \in Frames : f \in pool \/ f = forwarder.freeFrame \/ f \in held
      /\ pool \subseteq Frames /\ forwarder.freeFrame \notin pool
  <2>1. \A t \in busy : FrameOf(s(t)) # NULL /\ F[t] = FrameOf(s(t))
    BY <1>2, <1>3
  <2>2. \A t \in Tokens : FrameOf(s(t)) # NULL => t \in busy
    <3>1. \A t \in Tokens : s(t).elem = NULL => FrameOf(s(t)) = NULL
      BY DEF Intact, Whole, Matched, Match, FrameOf
    <3> QED  BY <1>2, <3>1
  <2>3. \A f \in Frames : (\E t \in Tokens : FrameOf(s(t)) = f) => f \in held
    BY <1>2, <2>1, <2>2
  <2> HIDE DEF F, held
  <2> QED  BY <1>1, <1>2, <2>1, <2>3 DEF Placed
<1> HIDE DEF busy
<1>5. IsFiniteSet(busy) /\ IsFiniteSet(held) /\ Cardinality(held) = Cardinality(busy)
      /\ held \subseteq Frames
  <2>1. IsFiniteSet(busy)
    BY <1>2, FS_Subset
  <2>2. F \in [busy -> held] /\ \A f \in held : \E t \in busy : F[t] = f
    OBVIOUS
  <2>3. held \subseteq Frames
    BY <1>3
  <2> HIDE DEF F, held
  <2>4. F \in Surjection(busy, held) /\ F \in Injection(busy, held)
    BY <1>4, <2>2 DEF Surjection, Injection, IsInjective
  <2> QED  BY <2>1, <2>3, <2>4, FS_Surjection
<1>6. ASSUME NEW t \in Tokens
      PROVE  Cardinality(FramesOf(t)) = IF Slot(t).elem = NULL THEN 0 ELSE 1
  <2>1. CASE s(t).elem = NULL
    <3>1. FramesOf(t) = {}
      BY <1>2, <1>3, <2>1
    <3> QED  BY <2>1, <3>1, FS_EmptySet DEF Slot
  <2>2. CASE s(t).elem # NULL
    <3>1. FramesOf(t) = {F[t]}
      BY <1>2, <1>3, <2>2
    <3> HIDE DEF F
    <3> QED  BY <2>2, <3>1, FS_Singleton DEF Slot
  <2> QED  BY <2>1, <2>2
<1>7. Cardinality(pool) + Cardinality(busy) + Cardinality(spare)
        = Cardinality(Frames)
  <2>1. /\ Frames = (pool \cup held) \cup spare
        /\ pool \cap held = {} /\ (pool \cup held) \cap spare = {}
    <3> HIDE DEF F
    <3>1. Frames \subseteq (pool \cup held) \cup spare
      BY <1>2, <1>4
    <3>2. spare \subseteq Frames
      BY <1>1
    <3>3. pool \cap held = {} /\ (pool \cup held) \cap spare = {}
      BY <1>4
    <3> HIDE DEF held, spare
    <3> QED  BY <1>4, <1>5, <3>1, <3>2, <3>3
  <2>2. IsFiniteSet(pool) /\ IsFiniteSet(held) /\ IsFiniteSet(spare)
    BY <1>2, <1>4, <1>5, <2>1, FS_Subset
  <2> HIDE DEF held, spare
  <2>3. /\ IsFiniteSet(pool \cup held)
        /\ Cardinality(pool \cup held)
             = Cardinality(pool) + Cardinality(held) - Cardinality({})
    BY <2>1, <2>2, FS_Union
  <2>4. Cardinality(Frames) = Cardinality(pool \cup held) + Cardinality(spare)
                                - Cardinality({})
    BY <2>1, <2>2, <2>3, FS_Union
  <2>5. /\ Cardinality({}) = 0 /\ Cardinality(pool) \in Nat
        /\ Cardinality(held) \in Nat /\ Cardinality(spare) \in Nat
    BY <2>2, FS_EmptySet, FS_CardinalityType
  <2> QED  BY <1>5, <2>3, <2>4, <2>5
<1>8. ASSUME NEW f \in Frames
      PROVE  Cardinality({t \in Tokens : f \in FramesOf(t)})
               + (IF f \in pool THEN 1 ELSE 0)
               + (IF f = forwarder.freeFrame THEN 1 ELSE 0) = 1
  <2> DEFINE T == {t \in Tokens : f \in FramesOf(t)}
  <2>1. \A t \in T : t \in busy /\ F[t] = f
    BY <1>3
  <2>2. CASE f \in held
    <3>1. PICK t \in busy : F[t] = f
      BY <2>2
    <3>2. t \in T
      BY <1>2, <1>3, <3>1
    <3> HIDE DEF F
    <3>3. T = {t}
      BY <1>4, <2>1, <3>1, <3>2
    <3>4. f \notin pool /\ f # forwarder.freeFrame
      BY <1>4, <3>1
    <3>5. Cardinality(T) = 1
      BY <3>3, FS_Singleton
    <3> QED  BY <3>4, <3>5
  <2>3. CASE f \notin held
    <3>1. T = {}
      BY <2>1, <2>3
    <3>2. Cardinality(T) = 0
      BY <3>1, FS_EmptySet
    <3> HIDE DEF F, held
    <3>3. f \in pool <=> f # forwarder.freeFrame
      BY <1>4, <2>3
    <3> QED  BY <3>2, <3>3
  <2> QED  BY <2>2, <2>3
<1> QED  BY <1>6, <1>7, <1>8 DEF NoFrameLost, busy
=============================================================================
