--------------------------- MODULE Arbiters_proofs --------------------------
(***************************************************************************)
(* Proofs about the arbiters, for every set of clients: whoever has the    *)
(* resource owns it, nobody in line is forgotten, the device is on when it *)
(* is owned, and each arbiter is a first-come-first-served resource.       *)
(***************************************************************************)
EXTENDS Arbiters, SequenceTheorems, FiniteSetTheorems, TLAPS

-----------------------------------------------------------------------------
(* What enqueue and dequeue do to the clients that wait, for every set of  *)
(* clients: the lemmas of TaskQueue under the names of the resource queue. *)
LOCAL QP == INSTANCE TaskQueue_proofs
  WITH Tasks <- Clients, NO_TASK <- NO_ENTRY, m_head <- qHead, m_tail <- qTail,
       m_next <- resQ, posted <- waiting, outcome <- answer

RQInv == RQTypeOK /\ RQWellFormed
Waiters == {waiting[i] : i \in 1..Len(waiting)}

-----------------------------------------------------------------------------
(* The queue of clients is the task queue with other names.                *)
LEMMA SameQueue ==
  /\ RQInv <=> QP!TQInv
  /\ RQInv' <=> QP!TQInv'
  /\ \A c : enqueue(c) <=> QP!pushTask(c)
  /\ \A c : isEnqueued(c) <=> QP!isWaiting(c)
  /\ dequeue <=> QP!popTask
  /\ RQInit <=> QP!TQInit
<1>1. (RQInv <=> QP!TQInv) /\ (RQInv' <=> QP!TQInv')
  BY DEF RQInv, RQTypeOK, RQWellFormed, QP!TQInv, Q!TQTypeOK, QP!TQTypeOK,
         Q!WellFormedList, QP!WellFormedList, Q!NoTaskTwice, QP!NoTaskTwice,
         Q!EndsMatch, QP!EndsMatch, Q!LinksMatch, QP!LinksMatch
<1>2. \A c : isEnqueued(c) <=> QP!isWaiting(c)
  BY DEF isEnqueued, Q!isWaiting, QP!isWaiting
<1>3. \A c : enqueue(c) <=> QP!pushTask(c)
  BY DEF enqueue, Q!pushTask, QP!pushTask, Q!Link, QP!Link, Q!isWaiting,
         QP!isWaiting, Q!queueVars, QP!queueVars
<1>4. dequeue <=> QP!popTask
  BY DEF dequeue, Q!popTask, QP!popTask, Q!Unlink, QP!Unlink, Q!queueVars,
         QP!queueVars
<1>5. RQInit <=> QP!TQInit
  BY DEF RQInit, Q!TQInit, QP!TQInit
<1> QED  BY <1>1, <1>2, <1>3, <1>4, <1>5

LEMMA RQInitInv == RQInit => RQInv /\ waiting = << >>
<1>1. QP!TQInit => QP!TQInv
  BY NoEntryIsNoClient, QP!InitInv
<1> QED  BY <1>1, SameQueue DEF RQInit, Q!TQInit

(* isEmpty, which looks at the head only, answers whether nobody waits.    *)
LEMMA EmptyQueue ==
  ASSUME RQInv
  PROVE  /\ waiting \in Seq(Clients) /\ Waiters \subseteq Clients
         /\ isEmpty <=> waiting = << >>
         /\ waiting = << >> <=> Waiters = {}
<1>1. waiting \in Seq(Clients)
  BY DEF RQInv, RQTypeOK, Q!TQTypeOK
<1>2. waiting # << >> => 1 \in 1..Len(waiting)
  BY <1>1
<1>3. Waiters \subseteq Clients /\ (waiting = << >> <=> Waiters = {})
  BY <1>1, <1>2 DEF Waiters
<1>4. isEmpty <=> waiting = << >>
  BY <1>1, <1>2, NoEntryIsNoClient
     DEF isEmpty, RQInv, RQWellFormed, Q!WellFormedList, Q!EndsMatch
<1> QED  BY <1>1, <1>3, <1>4

(* isEnqueued, which looks at the links and the tail, answers whether the  *)
(* client waits; enqueue takes a client in once, at the end, or refuses it.*)
LEMMA EnqueueEffect ==
  ASSUME RQInv, NEW c \in Clients, enqueue(c)
  PROVE  /\ RQInv'
         /\ \/ /\ c \notin Waiters /\ answer' = "SUCCESS"
               /\ waiting' = Append(waiting, c)
               /\ Waiters' = Waiters \cup {c}
            \/ /\ c \in Waiters /\ answer' = "EBUSY"
               /\ waiting' = waiting /\ Waiters' = Waiters
<1>1. RQInv'
  BY NoEntryIsNoClient, SameQueue, QP!PushKeepsInv
<1>2. isEnqueued(c) <=> c \in Waiters
  BY NoEntryIsNoClient, SameQueue, QP!WaitingLemma
     DEF QP!WaitingIsExact, Waiters
<1>3. waiting \in Seq(Clients)
  BY EmptyQueue
<1>4. CASE isEnqueued(c)
  BY <1>1, <1>2, <1>4
     DEF enqueue, Q!pushTask, isEnqueued, Q!queueVars, Waiters
<1>5. CASE ~isEnqueued(c)
  <2>1. waiting' = Append(waiting, c) /\ answer' = "SUCCESS"
    BY <1>5 DEF enqueue, Q!pushTask, isEnqueued
  <2>2. /\ Len(waiting') = Len(waiting) + 1
        /\ waiting'[Len(waiting) + 1] = c
        /\ \A i \in 1..Len(waiting) : waiting'[i] = waiting[i]
    BY <1>3, <2>1
  <2>3. Waiters' = Waiters \cup {c}
    BY <1>3, <2>2 DEF Waiters
  <2> QED  BY <1>1, <1>2, <1>5, <2>1, <2>3
<1> QED  BY <1>4, <1>5

(* dequeue takes out the client that has waited longest.                   *)
LEMMA DequeueEffect ==
  ASSUME RQInv, dequeue, waiting # << >>
  PROVE  /\ RQInv'
         /\ answer' \in Clients
         /\ answer' = Head(waiting) /\ waiting' = Tail(waiting)
         /\ waiting = <<answer'>> \o waiting'
         /\ Waiters = {answer'} \cup Waiters' /\ answer' \notin Waiters'
<1>1. RQInv' /\ answer' = Head(waiting) /\ waiting' = Tail(waiting)
  BY NoEntryIsNoClient, SameQueue, QP!PopKeepsInv
<1>2. waiting \in Seq(Clients) /\ Len(waiting) \in Nat /\ Len(waiting) >= 1
  BY EmptyQueue
<1>3. /\ Len(waiting') = Len(waiting) - 1 /\ answer' = waiting[1]
      /\ \A i \in 1..(Len(waiting) - 1) : waiting'[i] = waiting[i + 1]
  BY <1>1, <1>2, HeadTailProperties
<1>4. answer' \in Clients
  BY <1>2, <1>3
<1>5. waiting = <<answer'>> \o waiting'
  BY <1>1, <1>2
<1>6. Waiters = {answer'} \cup Waiters'
  <2>1. \A i \in 2..Len(waiting) : i - 1 \in 1..(Len(waiting) - 1)
                                  /\ waiting[i] = waiting'[i - 1]
    BY <1>2, <1>3
  <2>2. \A i \in 1..(Len(waiting) - 1) : i + 1 \in 1..Len(waiting)
    BY <1>2
  <2> QED  BY <1>2, <1>3, <2>1, <2>2 DEF Waiters
<1>7. answer' \notin Waiters'
  <2>1. \A i \in 1..(Len(waiting) - 1) : waiting[i + 1] # waiting[1]
    BY <1>2 DEF RQInv, RQWellFormed, Q!WellFormedList, Q!NoTaskTwice
  <2> QED  BY <1>2, <1>3, <2>1 DEF Waiters
<1> QED  BY <1>1, <1>4, <1>5, <1>6, <1>7

-----------------------------------------------------------------------------
(* The phases through which a resource goes, by what the arbiter, the task *)
(* queue, the device and the two contexts do in each.                      *)
NotSimple == wiring \in {"managed", "direct"}
AllFree == \A x \in Contexts : at[x] = "free"
Only(x, label) == at[x] = label /\ \A y \in Contexts \ {x} : at[y] = "free"
Released == at["isr"] = "free" /\ at["main"] \in {"free", "released"}

On == PowerManaged => powered
OffOrStopping ==
  \/ tasks = << >> /\ (PowerManaged => ~powered)
  \/ PowerManaged /\ tasks = <<"stopTask">> /\ powered

Controlled ==
  /\ NotSimple /\ state = "CONTROLLED" /\ resId = default_owner_id
  /\ AllFree /\ OffOrStopping
Requested ==
  /\ NotSimple /\ state = "GRANTING" /\ resId = default_owner_id
  /\ OffOrStopping /\ \E x \in Contexts : Only(x, "requested")
Starting ==
  /\ PowerManaged /\ state = "GRANTING" /\ resId = default_owner_id /\ AllFree
  /\ \/ tasks = <<"startTask">> /\ ~powered
     \/ tasks = <<"stopTask", "startTask">> /\ powered
Started ==
  /\ PowerManaged /\ state = "GRANTING" /\ resId = default_owner_id
  /\ Only("main", "started") /\ tasks = << >> /\ powered
GrantPosted ==
  /\ state = "GRANTING" /\ tasks = <<"grantedTask">> /\ On
  /\ \/ NotSimple /\ resId \in {default_owner_id, NO_RES} /\ AllFree
     \/ wiring = "simple" /\ resId = NO_RES /\ Released
TakenAtOnce ==
  /\ state = "IMM_GRANTING" /\ resId = default_owner_id
  /\ \/ /\ PowerManaged /\ OffOrStopping
        /\ Only("isr", "immediate") \/ Only("isr", "check")
     \/ /\ wiring = "direct" /\ tasks = << >>
        /\ \E x \in Contexts : Only(x, "immediate")
Checking ==
  /\ wiring = "direct" /\ state = "BUSY" /\ resId = reqResId /\ tasks = << >>
  /\ \E x \in Contexts : Only(x, "check")
Configuring ==
  /\ state = "BUSY" /\ resId = reqResId /\ tasks = << >> /\ On
  /\ Only("main", "configure")
Owned ==
  /\ state = "BUSY" /\ resId \in Clients /\ tasks = << >> /\ On /\ AllFree
  /\ NotSimple => reqResId = resId
NobodyOwns ==
  wiring = "simple" /\ state = "IDLE" /\ resId = NO_RES /\ tasks = << >> /\ Released

Phase ==
  \/ Controlled \/ Requested \/ Starting \/ Started \/ GrantPosted
  \/ TakenAtOnce \/ Checking \/ Configuring \/ Owned \/ NobodyOwns

(* Who stands in line, who was told that it has the resource, and for whom *)
(* the device is configured.                                               *)
BeingGranted == state = "GRANTING" \/ at["main"] = "configure"
One(b) == IF b THEN 1 ELSE 0
LineInv ==
  /\ \A c \in Clients :
       asked[c] = One(BeingGranted /\ c = reqResId) + One(c \in Waiters)
  /\ state \in {"CONTROLLED", "IDLE"} => waiting = << >>
  /\ PowerManaged /\ state = "IMM_GRANTING" => waiting = << >>
OwnerInv ==
  /\ holds = IF Owned THEN {resId} ELSE {}
  /\ at["main"] # "released" => config = IF Owned THEN resId ELSE NO_RES
  /\ \A x \in Contexts : at[x] \in {"immediate", "check"} => caller[x] = reqResId

ArbitersInv == TypeOK /\ RQInv /\ Phase /\ LineInv /\ OwnerInv

-----------------------------------------------------------------------------
(* The task queues that occur, and what posting and taking make of them.   *)
LEMMA TaskQueues ==
  /\ \A t : Posted(<< >>, t) = <<t>> /\ Head(<<t>>) = t /\ Tail(<<t>>) = << >>
  /\ \A t : <<t>> # << >>
  /\ \A t, u : <<t>> = <<u>> => t = u
  /\ Posted(<<"stopTask">>, "startTask") = <<"stopTask", "startTask">>
  /\ Head(<<"stopTask", "startTask">>) = "stopTask"
  /\ Tail(<<"stopTask", "startTask">>) = <<"startTask">>
  /\ <<"stopTask", "startTask">> # << >>
  /\ \A t : <<"stopTask", "startTask">> # <<t>>
  /\ {<< >>, <<"stopTask">>, <<"startTask">>, <<"grantedTask">>,
      <<"stopTask", "startTask">>} \subseteq Seq(ArbiterTasks)
<1>1. \A t : Head(<<t>>) = t /\ Tail(<<t>>) = << >> /\ <<t>> # << >>
  OBVIOUS
<1>2. \A t : Posted(<< >>, t) = <<t>>
  BY DEF Posted
<1>3. \A t, u : <<t>> = <<u>> => t = u
  OBVIOUS
<1>4. Posted(<<"stopTask">>, "startTask") = <<"stopTask", "startTask">>
  <2>1. Append(<<"stopTask">>, "startTask") = <<"stopTask", "startTask">>
    <3> DEFINE s == Append(<<"stopTask">>, "startTask")
               u == <<"stopTask", "startTask">>
    <3>1. s \in Seq(ArbiterTasks) /\ u \in Seq(ArbiterTasks)
      BY DEF ArbiterTasks
    <3>2. Len(s) = 2 /\ s[1] = "stopTask" /\ s[2] = "startTask"
      OBVIOUS
    <3>3. Len(u) = 2 /\ u[1] = "stopTask" /\ u[2] = "startTask"
      OBVIOUS
    <3> HIDE DEF s, u
    <3>4. \A i \in 1..Len(s) : s[i] = u[i]
      BY <3>2, <3>3
    <3>5. s = u
      BY <3>1, <3>2, <3>3, <3>4, SeqEqual
    <3> QED  BY <3>5 DEF s, u
  <2>2. ~\E i \in 1..Len(<<"stopTask">>) : <<"stopTask">>[i] = "startTask"
    OBVIOUS
  <2> QED  BY <2>1, <2>2 DEF Posted
<1>5. /\ Head(<<"stopTask", "startTask">>) = "stopTask"
      /\ Tail(<<"stopTask", "startTask">>) = <<"startTask">>
      /\ <<"stopTask", "startTask">> # << >>
  OBVIOUS
<1>6. \A t : <<"stopTask", "startTask">> # <<t>>
  OBVIOUS
<1>7. /\ << >> \in Seq(ArbiterTasks) /\ <<"stopTask">> \in Seq(ArbiterTasks)
      /\ <<"startTask">> \in Seq(ArbiterTasks)
      /\ <<"grantedTask">> \in Seq(ArbiterTasks)
      /\ <<"stopTask", "startTask">> \in Seq(ArbiterTasks)
  BY DEF ArbiterTasks
<1> QED  BY <1>1, <1>2, <1>3, <1>4, <1>5, <1>6, <1>7

LEMMA InitArbiters == Init => ArbitersInv
<1> SUFFICES ASSUME Init PROVE ArbitersInv
  OBVIOUS
<1>1. RQInv /\ waiting = << >>
  BY RQInitInv DEF Init, CommonInit
<1>2. Waiters = {}
  BY <1>1, EmptyQueue
<1>3. TypeOK
  <2>1. RQTypeOK /\ wiring \in Wirings
    BY <1>1 DEF Init, RQInv
  <2>2. state \in {"CONTROLLED", "IDLE"} /\ resId \in {default_owner_id, NO_RES}
    BY DEF Init, ArbiterInit, SimpleInit
  <2>3. tasks \in Seq(ArbiterTasks)
    BY DEF Init, CommonInit
  <2>4. /\ reqResId \in Clients /\ powered \in BOOLEAN /\ config = NO_RES
        /\ asked = [c \in Clients |-> 0] /\ holds = {}
    BY DEF Init, CommonInit
  <2>5. /\ at \in [Contexts -> {"free"}]
        /\ caller \in [Contexts -> Clients \cup {NO_RES}]
    BY DEF Init, CommonInit
  <2> QED  BY <2>1, <2>2, <2>3, <2>4, <2>5 DEF TypeOK
<1>4. Controlled \/ NobodyOwns
  BY DEF Init, CommonInit, ArbiterInit, SimpleInit, Controlled, NobodyOwns,
         NotSimple, AllFree, Released, OffOrStopping, Contexts
<1>5. ~Owned /\ ~BeingGranted
  BY <1>4 DEF Owned, BeingGranted, Controlled, NobodyOwns, AllFree, Released,
              Contexts
<1>6. LineInv /\ OwnerInv
  BY <1>1, <1>2, <1>5
     DEF LineInv, One, OwnerInv, Init, CommonInit, Contexts
<1> QED  BY <1>1, <1>3, <1>4, <1>6 DEF ArbitersInv, Phase

-----------------------------------------------------------------------------
(* What follows from the phase.                                            *)
LEMMA PhaseFacts ==
  ASSUME ArbitersInv
  PROVE  /\ wiring = "managed" \/ wiring = "direct" \/ wiring = "simple"
         /\ NotSimple <=> wiring # "simple"
         /\ Contexts = {"main", "isr"}
         /\ Requested => BeingGranted /\ ~Owned
         /\ Starting => BeingGranted /\ ~Owned
         /\ Started => BeingGranted /\ ~Owned
         /\ GrantPosted => BeingGranted /\ ~Owned
         /\ Configuring => BeingGranted /\ ~Owned
         /\ Controlled => ~BeingGranted /\ ~Owned
         /\ NobodyOwns => ~BeingGranted /\ ~Owned
         /\ TakenAtOnce => ~BeingGranted /\ ~Owned
         /\ Checking => ~BeingGranted /\ ~Owned
         /\ Owned => ~BeingGranted
<1> USE DEF BeingGranted, Owned, Only, AllFree, Released
<1>1. wiring = "managed" \/ wiring = "direct" \/ wiring = "simple"
  BY ArbiterConstants DEF ArbitersInv, TypeOK
<1>2. Contexts = {"main", "isr"}
  BY DEF Contexts
<1>3. (Requested => BeingGranted /\ ~Owned) /\ (Starting => BeingGranted /\ ~Owned)
  BY DEF Requested, Starting
<1>4. (Started => BeingGranted /\ ~Owned) /\ (GrantPosted => BeingGranted /\ ~Owned)
  BY DEF Started, GrantPosted
<1>5. Configuring => BeingGranted /\ ~Owned
  BY <1>2 DEF Configuring
<1>6. Controlled => ~BeingGranted /\ ~Owned
  BY <1>2 DEF Controlled
<1>7. NobodyOwns => ~BeingGranted /\ ~Owned
  BY <1>2 DEF NobodyOwns
<1>8. TakenAtOnce => ~BeingGranted /\ ~Owned
  BY <1>2 DEF TakenAtOnce
<1>9. Checking => ~BeingGranted /\ ~Owned
  BY <1>2 DEF Checking
<1>10. Owned => ~BeingGranted
  BY <1>2
<1> QED  BY <1>1, <1>2, <1>3, <1>4, <1>5, <1>6, <1>7, <1>8, <1>9, <1>10 DEF NotSimple

(* A step of the queue or of the clients leaves the phase alone.           *)
LEMMA SamePhase ==
  ASSUME Phase, UNCHANGED <<wiring, state, resId, reqResId, tasks, powered, at>>
  PROVE  /\ Phase' /\ (Owned' <=> Owned) /\ (BeingGranted' <=> BeingGranted)
         /\ (PowerManaged' <=> PowerManaged)
BY DEF Phase, Controlled, Requested, Starting, Started, GrantPosted,
       TakenAtOnce, Checking, Configuring, Owned, NobodyOwns, NotSimple,
       AllFree, Only, Released, On, OffOrStopping, PowerManaged, BeingGranted

LEMMA StutterArbiters ==
  ASSUME ArbitersInv, UNCHANGED vars
  PROVE  ArbitersInv'
<1>1. /\ UNCHANGED <<wiring, state, resId, reqResId, tasks, powered, at>>
      /\ UNCHANGED <<config, caller, asked, holds>> /\ UNCHANGED rqVars
  BY DEF vars, ownVars
<1>2. Phase' /\ (Owned' <=> Owned) /\ (BeingGranted' <=> BeingGranted)
      /\ (PowerManaged' <=> PowerManaged)
  BY <1>1, SamePhase DEF ArbitersInv
<1>3. RQInv' /\ Waiters' = Waiters /\ waiting' = waiting
  BY <1>1 DEF ArbitersInv, RQInv, RQTypeOK, RQWellFormed, rqVars, Waiters,
              Q!TQTypeOK, Q!WellFormedList, Q!NoTaskTwice, Q!EndsMatch, Q!LinksMatch
<1>4. TypeOK'
  BY <1>1, <1>3 DEF ArbitersInv, TypeOK, RQInv
<1>5. LineInv' /\ OwnerInv'
  BY <1>1, <1>2, <1>3
     DEF ArbitersInv, LineInv, One, OwnerInv
<1> QED  BY <1>2, <1>3, <1>4, <1>5 DEF ArbitersInv

LEMMA SameQueueKept ==
  ASSUME RQInv, UNCHANGED rqVars
  PROVE  RQInv' /\ Waiters' = Waiters /\ waiting' = waiting
BY DEF RQInv, RQTypeOK, RQWellFormed, rqVars, Waiters, Q!TQTypeOK,
       Q!WellFormedList, Q!NoTaskTwice, Q!EndsMatch, Q!LinksMatch

(* Nobody has more than two grants coming.                                 *)
LEMMA AskedIsSmall ==
  /\ LineInv /\ asked \in [Clients -> Int] => asked \in [Clients -> 0..2]
  /\ LineInv' /\ asked' \in [Clients -> Int] => asked' \in [Clients -> 0..2]
<1>1. \A b : One(b) \in 0..1
  BY DEF One
<1>2. \A m, n \in 0..1 : m + n \in 0..2
  OBVIOUS
<1> QED  BY <1>1, <1>2 DEF LineInv

(* A client is put in line: what enqueue decides is right for every        *)
(* client that may call request.                                           *)
LEMMA EnqueueInLine ==
  ASSUME ArbitersInv, NEW c \in Clients, enqueue(c),
         state \notin {"CONTROLLED", "IDLE"},
         PowerManaged => state # "IMM_GRANTING",
         IF answer' = "SUCCESS" THEN PutInLine(c) ELSE UNCHANGED asked,
         UNCHANGED <<wiring, state, resId, reqResId, tasks, powered, at>>,
         UNCHANGED <<config, caller, holds>>
  PROVE  ArbitersInv'
<1>1. Phase' /\ (Owned' <=> Owned) /\ (BeingGranted' <=> BeingGranted)
      /\ (PowerManaged' <=> PowerManaged)
  BY SamePhase DEF ArbitersInv
<1>2. /\ RQInv'
      /\ \/ c \notin Waiters /\ answer' = "SUCCESS" /\ Waiters' = Waiters \cup {c}
         \/ c \in Waiters /\ answer' = "EBUSY" /\ Waiters' = Waiters
  BY EnqueueEffect DEF ArbitersInv
<1>3. asked' \in [Clients -> Int]
  BY <1>2 DEF PutInLine, ArbitersInv, TypeOK
<1>4. LineInv'
  <2>1. /\ asked \in [Clients -> 0..2]
        /\ \A d \in Clients :
             asked[d] = One(BeingGranted /\ d = reqResId) + One(d \in Waiters)
    BY DEF ArbitersInv, TypeOK, LineInv
  <2>2. CASE c \notin Waiters /\ answer' = "SUCCESS" /\ Waiters' = Waiters \cup {c}
    <3>1. asked' = [asked EXCEPT ![c] = @ + 1]
      BY <2>2 DEF PutInLine
    <3>2. \A d \in Clients : asked'[d] = asked[d] + One(d = c)
      BY <2>1, <3>1 DEF One
    <3> QED  BY <1>1, <2>1, <2>2, <3>2 DEF LineInv, ArbitersInv, One
  <2>3. CASE c \in Waiters /\ answer' = "EBUSY" /\ Waiters' = Waiters
    <3>1. UNCHANGED asked
      BY <2>3
    <3> QED  BY <1>1, <2>1, <2>3, <3>1 DEF LineInv, One, ArbitersInv
  <2> QED  BY <1>2, <2>2, <2>3
<1>5. TypeOK'
  BY <1>2, <1>3, <1>4, AskedIsSmall DEF ArbitersInv, TypeOK, RQInv
<1>6. OwnerInv'
  BY <1>1 DEF ArbitersInv, OwnerInv
<1> QED  BY <1>1, <1>2, <1>4, <1>5, <1>6 DEF ArbitersInv

-----------------------------------------------------------------------------
(* The actions of the arbiter with a default owner.                        *)
LEMMA RequestKeeps ==
  ASSUME ArbitersInv, NotSimple, wiring' = wiring,
         NEW x \in Contexts, NEW c \in Clients, Request(c, x)
  PROVE  ArbitersInv'
<1> USE DEF Request, Calls, CanStep
<1>1. CASE state = "CONTROLLED"
  <2>1. Controlled /\ waiting = << >> /\ Waiters = {} /\ ~Owned /\ ~BeingGranted
    BY <1>1, PhaseFacts, EmptyQueue
       DEF ArbitersInv, Phase, LineInv, Requested, Starting, Started,
           GrantPosted, TakenAtOnce, Checking, Configuring, Owned, NobodyOwns
  <2>2. /\ state' = "GRANTING" /\ reqResId' = c
        /\ at' = [at EXCEPT ![x] = "requested"]
        /\ caller' = [caller EXCEPT ![x] = c]
        /\ asked' = [asked EXCEPT ![c] = @ + 1]
        /\ UNCHANGED <<resId, tasks, powered, config, holds>>
        /\ RQInv' /\ Waiters' = Waiters /\ waiting' = waiting
    BY <1>1, SameQueueKept DEF Enters, PutInLine, ArbitersInv
  <2>3. \A d \in Clients : asked'[d] = One(d = c)
    <3>1. asked \in [Clients -> 0..2] /\ \A d \in Clients : asked[d] = 0
      BY <2>1 DEF ArbitersInv, TypeOK, LineInv, One
    <3> QED  BY <2>2, <3>1 DEF One
  <2>4. TypeOK'
    <3>1. asked' \in [Clients -> 0..2]
      BY <2>2, <2>3 DEF ArbitersInv, TypeOK, One
    <3> QED  BY <2>2, <3>1 DEF ArbitersInv, TypeOK, RQInv
  <2>5. Requested'
    BY <2>1, <2>2
       DEF Controlled, Requested, NotSimple, OffOrStopping, PowerManaged,
           Only, AllFree, ArbitersInv, TypeOK
  <2>6. BeingGranted' /\ ~Owned'
    BY <2>2 DEF BeingGranted, Owned
  <2>7. LineInv'
    BY <2>1, <2>2, <2>3, <2>6 DEF ArbitersInv, LineInv, One
  <2>8. OwnerInv'
    BY <2>1, <2>2, <2>6, PhaseFacts
       DEF ArbitersInv, OwnerInv, Controlled, AllFree, TypeOK
  <2> QED  BY <2>2, <2>5, <2>7, <2>8, <2>4 DEF ArbitersInv, Phase
<1>2. CASE state # "CONTROLLED" /\ reqResId = c
  BY <1>2, StutterArbiters DEF vars, ownVars
<1>3. CASE state # "CONTROLLED" /\ reqResId # c
  <2>1. PowerManaged => state # "IMM_GRANTING"
    BY PhaseFacts
       DEF ArbitersInv, Phase, PowerManaged, Controlled, Requested, Starting,
           Started, GrantPosted, TakenAtOnce, Checking, Configuring, Owned,
           NobodyOwns, Only
  <2>2. state # "IDLE"
    BY DEF ArbitersInv, Phase, NotSimple, Controlled, Requested, Starting,
           Started, GrantPosted, TakenAtOnce, Checking, Configuring, Owned,
           NobodyOwns
  <2> QED  BY <1>3, <2>1, <2>2, EnqueueInLine
<1> QED  BY <1>1, <1>2, <1>3

LEMMA SignalRequestedKeeps ==
  ASSUME ArbitersInv, NotSimple, wiring' = wiring,
         NEW x \in Contexts, SignalRequested(x)
  PROVE  ArbitersInv'
<1>1. Requested /\ Only(x, "requested") /\ BeingGranted /\ ~Owned
  BY PhaseFacts
     DEF SignalRequested, Returns, Moves, ArbitersInv, Phase, Controlled, Requested,
         Starting, Started, GrantPosted, TakenAtOnce, Checking, Configuring,
         Owned, NobodyOwns, Only, AllFree, Released
<1>2. /\ at' = [at EXCEPT ![x] = "free"]
      /\ caller' = [caller EXCEPT ![x] = NO_RES]
      /\ UNCHANGED <<reqResId, powered, config, asked, holds>>
      /\ RQInv' /\ Waiters' = Waiters /\ waiting' = waiting
  BY SameQueueKept DEF SignalRequested, Returns, Moves, ArbitersInv
<1>3. /\ state' = "GRANTING" /\ resId' = default_owner_id
      /\ tasks' = Posted(tasks, IF PowerManaged THEN "startTask" ELSE "grantedTask")
  BY <1>1 DEF SignalRequested, DefaultOwnerReleases, Requested
<1>4. AllFree'
  BY <1>1, <1>2 DEF AllFree, Only, ArbitersInv, TypeOK
<1>5. Starting' \/ GrantPosted'
  <2>1. CASE PowerManaged
    <3>1. OffOrStopping
      BY <1>1 DEF Requested
    <3>2. CASE tasks = << >> /\ ~powered
      BY <1>2, <1>3, <1>4, <2>1, <3>2, TaskQueues DEF Starting, PowerManaged
    <3>3. CASE tasks = <<"stopTask">> /\ powered
      BY <1>2, <1>3, <1>4, <2>1, <3>3, TaskQueues DEF Starting, PowerManaged
    <3> QED  BY <2>1, <3>1, <3>2, <3>3 DEF OffOrStopping
  <2>2. CASE ~PowerManaged
    <3>1. tasks' = <<"grantedTask">>
      BY <1>1, <1>3, <2>2, TaskQueues DEF Requested, OffOrStopping
    <3> QED  BY <1>3, <1>4, <2>2, <3>1 DEF GrantPosted, On, PowerManaged, NotSimple
  <2> QED  BY <2>1, <2>2
<1>6. BeingGranted' /\ ~Owned'
  BY <1>3 DEF BeingGranted, Owned
<1>7. TypeOK'
  <2>1. tasks' \in Seq(ArbiterTasks)
    BY <1>5, TaskQueues DEF Starting, GrantPosted
  <2> QED  BY <1>2, <1>3, <2>1 DEF ArbitersInv, TypeOK, RQInv
<1>8. LineInv' /\ OwnerInv'
  BY <1>1, <1>2, <1>3, <1>4, <1>6, PhaseFacts
     DEF ArbitersInv, LineInv, OwnerInv, Only, AllFree, TypeOK, PowerManaged
<1> QED  BY <1>2, <1>5, <1>7, <1>8 DEF ArbitersInv, Phase

LEMMA ImmediateRequestKeeps ==
  ASSUME ArbitersInv, NotSimple, wiring' = wiring,
         NEW x \in Contexts, NEW c \in Clients, ImmediateRequest(c, x)
  PROVE  ArbitersInv'
<1>1. CASE state # "CONTROLLED"
  BY <1>1, StutterArbiters DEF ImmediateRequest, vars, ownVars
<1>2. CASE state = "CONTROLLED"
  <2>1. Controlled /\ waiting = << >> /\ Waiters = {} /\ ~Owned /\ ~BeingGranted
    BY <1>2, PhaseFacts, EmptyQueue
       DEF ArbitersInv, Phase, LineInv, Requested, Starting, Started,
           GrantPosted, TakenAtOnce, Checking, Configuring, Owned, NobodyOwns
  <2>2. /\ state' = "IMM_GRANTING" /\ reqResId' = c
        /\ at' = [at EXCEPT ![x] = "immediate"]
        /\ caller' = [caller EXCEPT ![x] = c]
        /\ UNCHANGED <<resId, tasks, powered, config, asked, holds>>
        /\ RQInv' /\ Waiters' = Waiters /\ waiting' = waiting
    BY <1>2, SameQueueKept DEF ImmediateRequest, Enters, ArbitersInv
  <2>3. TypeOK'
    BY <2>2 DEF ArbitersInv, TypeOK, RQInv
  <2>4. PowerManaged => x = "isr"
    BY PhaseFacts, ImmediateIsUninterrupted
       DEF ImmediateRequest, MayTakeAtOnce, PowerManaged, ArbitersInv, TypeOK
  <2>5. Only(x, "immediate")'
    BY <2>1, <2>2 DEF Controlled, Only, AllFree, ArbitersInv, TypeOK
  <2>6. TakenAtOnce'
    BY <2>1, <2>2, <2>4, <2>5
       DEF Controlled, TakenAtOnce, NotSimple, OffOrStopping, PowerManaged
  <2>7. ~BeingGranted' /\ ~Owned'
    BY <2>2, <2>5, PhaseFacts DEF BeingGranted, Owned, Only
  <2>8. LineInv' /\ OwnerInv'
    BY <2>1, <2>2, <2>5, <2>7, PhaseFacts
       DEF ArbitersInv, LineInv, OwnerInv, Controlled, AllFree, Only, TypeOK
  <2> QED  BY <2>2, <2>3, <2>6, <2>8 DEF ArbitersInv, Phase
<1> QED  BY <1>1, <1>2

LEMMA SignalImmediateRequestedKeeps ==
  ASSUME ArbitersInv, NotSimple, wiring' = wiring,
         NEW x \in Contexts, SignalImmediateRequested(x)
  PROVE  ArbitersInv'
<1>1. TakenAtOnce /\ Only(x, "immediate") /\ ~BeingGranted /\ ~Owned
  BY PhaseFacts
     DEF SignalImmediateRequested, Moves, ArbitersInv, Phase, Controlled,
         Requested, Starting, Started, GrantPosted, TakenAtOnce, Checking,
         Configuring, Owned, NobodyOwns, Only, AllFree, Released
<1>2. /\ at' = [at EXCEPT ![x] = "check"]
      /\ UNCHANGED <<reqResId, powered, config, caller, asked, holds>>
      /\ RQInv' /\ Waiters' = Waiters /\ waiting' = waiting
  BY SameQueueKept DEF SignalImmediateRequested, Moves, ArbitersInv
<1>3. Only(x, "check")'
  BY <1>1, <1>2 DEF Only, ArbitersInv, TypeOK
<1>4. \/ /\ PowerManaged /\ x = "isr" /\ UNCHANGED <<state, resId, tasks>>
         /\ TakenAtOnce'
      \/ /\ wiring = "direct" /\ state' = "BUSY" /\ resId' = reqResId
         /\ UNCHANGED tasks /\ Checking'
  <2>1. CASE PowerManaged
    <3>1. UNCHANGED <<state, resId, tasks>>
      BY <2>1 DEF SignalImmediateRequested
    <3>2. x = "isr"
      BY <1>1, <2>1, PhaseFacts DEF TakenAtOnce, Only, PowerManaged
    <3> QED  BY <1>1, <1>2, <1>3, <2>1, <3>1, <3>2
             DEF TakenAtOnce, PowerManaged, OffOrStopping
  <2>2. CASE ~PowerManaged
    <3>1. wiring = "direct" /\ state = "IMM_GRANTING" /\ tasks = << >>
      BY <1>1, <2>2 DEF TakenAtOnce
    <3>2. state' = "BUSY" /\ resId' = reqResId /\ UNCHANGED tasks
      BY <1>1, <2>2, <3>1
         DEF SignalImmediateRequested, DefaultOwnerReleases, TakenAtOnce
    <3> QED  BY <1>2, <1>3, <3>1, <3>2 DEF Checking
  <2> QED  BY <2>1, <2>2
<1>5. ~BeingGranted' /\ ~Owned'
  BY <1>1, <1>3, <1>4, PhaseFacts DEF BeingGranted, Owned, Only, AllFree, TakenAtOnce
<1>6. TypeOK'
  <2>1. tasks' \in Seq(ArbiterTasks) /\ resId' \in Clients \cup {default_owner_id, NO_RES}
        /\ state' \in {"IMM_GRANTING", "BUSY"}
    BY <1>1, <1>4 DEF ArbitersInv, TypeOK, TakenAtOnce
  <2> QED  BY <1>2, <2>1 DEF ArbitersInv, TypeOK, RQInv
<1>7. LineInv' /\ OwnerInv'
  BY <1>1, <1>2, <1>3, <1>4, <1>5, PhaseFacts
     DEF ArbitersInv, LineInv, OwnerInv, Only, TypeOK, PowerManaged, TakenAtOnce
<1> QED  BY <1>2, <1>4, <1>6, <1>7 DEF ArbitersInv, Phase

LEMMA CheckImmediateKeeps ==
  ASSUME ArbitersInv, NotSimple, wiring' = wiring,
         NEW x \in Contexts, CheckImmediate(x)
  PROVE  ArbitersInv'
<1>1. /\ TakenAtOnce \/ Checking
      /\ Only(x, "check") /\ ~BeingGranted /\ ~Owned /\ caller[x] = reqResId
  BY PhaseFacts
     DEF CheckImmediate, Returns, Moves, ArbitersInv, Phase, Controlled, OwnerInv,
         Requested, Starting, Started, GrantPosted, TakenAtOnce, Checking,
         Configuring, Owned, NobodyOwns, Only, AllFree, Released
<1>2. /\ at' = [at EXCEPT ![x] = "free"]
      /\ caller' = [caller EXCEPT ![x] = NO_RES]
      /\ UNCHANGED <<resId, reqResId, tasks, powered, asked>>
      /\ RQInv' /\ Waiters' = Waiters /\ waiting' = waiting
  BY SameQueueKept DEF CheckImmediate, Returns, Moves, ArbitersInv
<1>3. AllFree' /\ ~BeingGranted'
  BY <1>1, <1>2, PhaseFacts
     DEF CheckImmediate, AllFree, Only, ArbitersInv, TypeOK, BeingGranted
<1>4. CASE Checking
  <2>1. /\ UNCHANGED state /\ state = "BUSY" /\ resId = reqResId
        /\ config' = resId /\ holds' = holds \cup {resId}
        /\ wiring = "direct" /\ tasks = << >>
    BY <1>1, <1>4 DEF CheckImmediate, Checking
  <2>2. resId \in Clients /\ holds = {}
    BY <1>1, <2>1 DEF ArbitersInv, TypeOK, OwnerInv
  <2>3. Owned'
    BY <1>2, <1>3, <2>1, <2>2 DEF Owned, On, PowerManaged, NotSimple
  <2>4. TypeOK'
    BY <1>2, <2>1, <2>2 DEF ArbitersInv, TypeOK, RQInv
  <2>5. LineInv' /\ OwnerInv'
    BY <1>1, <1>2, <1>3, <2>1, <2>2, <2>3, PhaseFacts
       DEF ArbitersInv, LineInv, OwnerInv, AllFree, PowerManaged
  <2> QED  BY <1>2, <2>3, <2>4, <2>5 DEF ArbitersInv, Phase
<1>5. CASE TakenAtOnce
  <2>1. /\ resId = default_owner_id /\ PowerManaged /\ OffOrStopping
        /\ waiting = << >>
    BY <1>1, <1>5, PhaseFacts
       DEF TakenAtOnce, Only, ArbitersInv, LineInv
  <2>2. state' = "CONTROLLED" /\ UNCHANGED <<config, holds>>
    BY <1>1, <2>1, ArbiterConstants DEF CheckImmediate, ArbitersInv, TypeOK
  <2>3. Controlled' /\ ~Owned'
    BY <1>2, <1>3, <2>1, <2>2
       DEF Controlled, NotSimple, OffOrStopping, PowerManaged, Owned
  <2>4. TypeOK'
    BY <1>2, <2>2 DEF ArbitersInv, TypeOK, RQInv
  <2>5. LineInv' /\ OwnerInv'
    BY <1>1, <1>2, <1>3, <2>1, <2>2, <2>3, PhaseFacts
       DEF ArbitersInv, LineInv, OwnerInv, AllFree, Only
  <2> QED  BY <1>2, <2>3, <2>4, <2>5 DEF ArbitersInv, Phase
<1> QED  BY <1>1, <1>4, <1>5

LEMMA ReleaseKeeps ==
  ASSUME ArbitersInv, NotSimple, wiring' = wiring,
         NEW x \in Contexts, NEW c \in Clients, Release(c, x)
  PROVE  ArbitersInv'
<1>1. CASE ~(state = "BUSY" /\ resId = c)
  BY <1>1, StutterArbiters DEF Release, vars, ownVars
<1>2. CASE state = "BUSY" /\ resId = c
  <2>1. Owned /\ ~BeingGranted /\ tasks = << >> /\ On /\ AllFree
    <3>1. Checking \/ Configuring \/ Owned
      BY <1>2
         DEF ArbitersInv, Phase, Controlled, Requested, Starting, Started,
             GrantPosted, TakenAtOnce, NobodyOwns
    <3>2. ~Configuring
      BY <1>2, PhaseFacts
         DEF Release, MayRelease, ArbitersInv, LineInv, One, OwnerInv, Configuring
    <3>3. ~Checking
      BY <1>2 DEF Release, Calls, ArbitersInv, OwnerInv, Checking, Only
    <3> QED  BY <3>1, <3>2, <3>3, PhaseFacts DEF Owned
  <2>2. /\ config' = NO_RES /\ holds' = {}
        /\ UNCHANGED <<powered, at, caller, asked>>
    BY <1>2, <2>1 DEF Release, ArbitersInv, OwnerInv
  <2>3. AllFree'
    BY <2>1, <2>2 DEF AllFree
  <2>4. CASE ~isEmpty /\ ReleaseToNext
    <3>1. /\ RQInv' /\ answer' \in Clients
          /\ Waiters = {answer'} \cup Waiters' /\ answer' \notin Waiters'
      BY <2>4, DequeueEffect, EmptyQueue DEF ReleaseToNext, ArbitersInv
    <3>2. /\ reqResId' = answer' /\ resId' = NO_RES /\ state' = "GRANTING"
          /\ tasks' = <<"grantedTask">>
      BY <2>1, <2>4, TaskQueues DEF ReleaseToNext
    <3>3. GrantPosted' /\ BeingGranted' /\ ~Owned'
      BY <2>1, <2>2, <2>3, <3>2
         DEF GrantPosted, On, PowerManaged, NotSimple, BeingGranted, Owned
    <3>4. TypeOK'
      BY <2>2, <3>1, <3>2, TaskQueues DEF ArbitersInv, TypeOK, RQInv
    <3>5. LineInv'
      BY <2>1, <2>2, <3>1, <3>2, <3>3 DEF ArbitersInv, LineInv, One
    <3>6. OwnerInv'
      BY <2>2, <2>3, <3>3 DEF OwnerInv, AllFree
    <3> QED  BY <3>1, <3>3, <3>4, <3>5, <3>6 DEF ArbitersInv, Phase
  <2>5. CASE isEmpty /\ ReleaseToDefaultOwner
    <3>1. /\ RQInv' /\ waiting' = << >> /\ Waiters' = {}
          /\ \A d \in Clients : asked[d] = 0
      BY <2>1, <2>5, SameQueueKept, EmptyQueue
         DEF ReleaseToDefaultOwner, ArbitersInv, LineInv, One
    <3>2. /\ UNCHANGED reqResId /\ resId' = default_owner_id
          /\ state' = "CONTROLLED"
          /\ tasks' = IF PowerManaged THEN <<"stopTask">> ELSE << >>
      BY <2>1, <2>5, TaskQueues DEF ReleaseToDefaultOwner, DefaultOwnerGranted
    <3>3. Controlled' /\ ~BeingGranted' /\ ~Owned'
      BY <2>1, <2>2, <2>3, <3>2, PhaseFacts
         DEF Controlled, On, PowerManaged, NotSimple, BeingGranted, Owned,
             OffOrStopping, AllFree
    <3>4. TypeOK'
      BY <2>2, <3>1, <3>2, TaskQueues DEF ArbitersInv, TypeOK, RQInv
    <3>5. LineInv'
      BY <2>2, <3>1, <3>3 DEF LineInv, One
    <3>6. OwnerInv'
      BY <2>2, <2>3, <3>3 DEF OwnerInv, AllFree
    <3> QED  BY <3>1, <3>3, <3>4, <3>5, <3>6 DEF ArbitersInv, Phase
  <2> QED  BY <1>2, <2>4, <2>5 DEF Release
<1> QED  BY <1>1, <1>2

LEMMA GrantedTaskKeeps ==
  ASSUME ArbitersInv, wiring' = wiring, GrantedTask \/ SimpleGrantedTask
  PROVE  ArbitersInv'
<1>1. /\ GrantPosted /\ AllFree /\ BeingGranted /\ ~Owned /\ On
      /\ tasks = <<"grantedTask">>
  <2>1. /\ tasks # << >> /\ Head(tasks) = "grantedTask"
        /\ at["main"] = "free" /\ at["isr"] = "free"
    BY DEF GrantedTask, SimpleGrantedTask, RunsTask, CanStep
  <2>2. tasks # <<"startTask">> /\ tasks # <<"stopTask", "startTask">>
        /\ tasks # <<"stopTask">>
    BY <2>1, TaskQueues
  <2>3. GrantPosted
    BY <2>1, <2>2
       DEF ArbitersInv, Phase, Controlled, Requested, Starting, Started,
           OffOrStopping, TakenAtOnce, Checking, Configuring, Owned, NobodyOwns
  <2> QED  BY <2>1, <2>3, PhaseFacts DEF GrantPosted, AllFree
<1>2. /\ tasks' = << >> /\ resId' = reqResId /\ state' = "BUSY"
      /\ at' = [at EXCEPT !["main"] = "configure"]
      /\ UNCHANGED <<reqResId, powered, config, caller, asked, holds>>
      /\ RQInv' /\ Waiters' = Waiters /\ waiting' = waiting
  BY <1>1, SameQueueKept, TaskQueues
     DEF GrantedTask, SimpleGrantedTask, ArbitersInv
<1>3. Only("main", "configure")'
  BY <1>1, <1>2, PhaseFacts DEF AllFree, Only, ArbitersInv, TypeOK
<1>4. Configuring' /\ BeingGranted' /\ ~Owned'
  BY <1>1, <1>2, <1>3, PhaseFacts
     DEF Configuring, On, PowerManaged, BeingGranted, Owned, AllFree, Only
<1>5. TypeOK'
  BY <1>2, TaskQueues DEF ArbitersInv, TypeOK, RQInv
<1>6. LineInv' /\ OwnerInv'
  BY <1>1, <1>2, <1>3, <1>4, PhaseFacts
     DEF ArbitersInv, LineInv, OwnerInv, Only, AllFree
<1> QED  BY <1>2, <1>4, <1>5, <1>6 DEF ArbitersInv, Phase

LEMMA SignalGrantedKeeps ==
  ASSUME ArbitersInv, wiring' = wiring, SignalGranted \/ SimpleSignalGranted
  PROVE  ArbitersInv'
<1>1. /\ Configuring /\ BeingGranted /\ ~Owned /\ state = "BUSY"
      /\ Only("main", "configure") /\ On /\ tasks = << >> /\ resId = reqResId
      /\ holds = {}
  BY PhaseFacts
     DEF SignalGranted, SimpleSignalGranted, Moves, ArbitersInv, OwnerInv,
         Phase, Controlled, Requested, Starting, Started, GrantPosted,
         TakenAtOnce, Checking, Configuring, Owned, NobodyOwns, Only,
         AllFree, Released
<1>2. /\ at' = [at EXCEPT !["main"] = "free"]
      /\ config' = resId /\ holds' = {resId}
      /\ asked' = [asked EXCEPT ![resId] = @ - 1]
      /\ UNCHANGED <<state, resId, reqResId, tasks, powered, caller>>
      /\ RQInv' /\ Waiters' = Waiters /\ waiting' = waiting
  BY <1>1, SameQueueKept
     DEF SignalGranted, SimpleSignalGranted, Moves, ArbitersInv
<1>3. AllFree' /\ resId \in Clients
  BY <1>1, <1>2, PhaseFacts DEF AllFree, Only, ArbitersInv, TypeOK
<1>4. Owned' /\ ~BeingGranted'
  BY <1>1, <1>2, <1>3, PhaseFacts
     DEF Owned, On, PowerManaged, BeingGranted, AllFree
<1>5. asked' \in [Clients -> Int]
  <2>1. asked \in [Clients -> Int] /\ asked[resId] - 1 \in Int
    BY <1>3 DEF ArbitersInv, TypeOK
  <2> QED  BY <1>2, <2>1
<1>6. LineInv'
  <2>1. \A d \in Clients : /\ asked[d] = One(d = reqResId) + One(d \in Waiters)
                           /\ asked'[d] = asked[d] - One(d = reqResId)
    BY <1>1, <1>2 DEF ArbitersInv, TypeOK, LineInv, One
  <2>2. \A d \in Clients : asked'[d] = One(d \in Waiters)
    BY <2>1 DEF One
  <2> QED  BY <1>1, <1>2, <1>4, <2>2 DEF ArbitersInv, LineInv, One
<1>7. TypeOK'
  BY <1>1, <1>2, <1>3, <1>5, <1>6, AskedIsSmall DEF ArbitersInv, TypeOK, RQInv
<1>8. OwnerInv'
  BY <1>1, <1>2, <1>3, <1>4, PhaseFacts DEF ArbitersInv, OwnerInv, AllFree
<1> QED  BY <1>2, <1>4, <1>6, <1>7, <1>8 DEF ArbitersInv, Phase

LEMMA StartTaskKeeps ==
  ASSUME ArbitersInv, NotSimple, wiring' = wiring, StartTask
  PROVE  ArbitersInv'
<1>1. /\ tasks # << >> /\ Head(tasks) = "startTask"
      /\ at["main"] = "free" /\ at["isr"] = "free"
  BY DEF StartTask, RunsTask, CanStep
<1>2. /\ tasks # <<"stopTask">> /\ tasks # <<"grantedTask">>
      /\ tasks # <<"stopTask", "startTask">>
  BY <1>1, TaskQueues
<1>3. Starting /\ tasks = <<"startTask">> /\ BeingGranted /\ ~Owned
  BY <1>1, <1>2, PhaseFacts
     DEF ArbitersInv, Phase, Controlled, Requested, Starting, Started,
         GrantPosted, OffOrStopping, TakenAtOnce, Checking, Configuring,
         Owned, NobodyOwns
<1>4. /\ tasks' = << >> /\ powered' = TRUE
      /\ at' = [at EXCEPT !["main"] = "started"]
      /\ UNCHANGED <<state, resId, reqResId, config, caller, asked, holds>>
      /\ RQInv' /\ Waiters' = Waiters /\ waiting' = waiting
  BY <1>3, SameQueueKept, TaskQueues DEF StartTask, ArbitersInv
<1>5. Only("main", "started")'
  BY <1>1, <1>4, PhaseFacts DEF Only, ArbitersInv, TypeOK
<1>6. Started' /\ BeingGranted' /\ ~Owned'
  BY <1>3, <1>4, <1>5
     DEF Starting, Started, PowerManaged, BeingGranted, Owned
<1>7. TypeOK'
  BY <1>4, TaskQueues DEF ArbitersInv, TypeOK, RQInv
<1>8. LineInv' /\ OwnerInv'
  BY <1>1, <1>3, <1>4, <1>5, <1>6, PhaseFacts
     DEF ArbitersInv, LineInv, OwnerInv, Only, Starting
<1> QED  BY <1>4, <1>6, <1>7, <1>8 DEF ArbitersInv, Phase

LEMMA StartTaskReleasesKeeps ==
  ASSUME ArbitersInv, NotSimple, wiring' = wiring, StartTaskReleases
  PROVE  ArbitersInv'
<1>1. Started /\ Only("main", "started") /\ BeingGranted /\ ~Owned
  BY PhaseFacts
     DEF StartTaskReleases, Moves, ArbitersInv, Phase, Controlled, Requested,
         Starting, Started, GrantPosted, TakenAtOnce, Checking, Configuring,
         Owned, NobodyOwns, Only, AllFree, Released
<1>2. /\ tasks' = <<"grantedTask">> /\ at' = [at EXCEPT !["main"] = "free"]
      /\ UNCHANGED <<state, resId, reqResId, powered, config, caller, asked, holds>>
      /\ RQInv' /\ Waiters' = Waiters /\ waiting' = waiting
  BY <1>1, SameQueueKept, TaskQueues
     DEF StartTaskReleases, Moves, DefaultOwnerReleases, Started, ArbitersInv
<1>3. AllFree'
  BY <1>1, <1>2, PhaseFacts DEF AllFree, Only, ArbitersInv, TypeOK
<1>4. GrantPosted' /\ BeingGranted' /\ ~Owned'
  BY <1>1, <1>2, <1>3
     DEF GrantPosted, Started, On, NotSimple, BeingGranted, Owned
<1>5. TypeOK'
  BY <1>2, TaskQueues DEF ArbitersInv, TypeOK, RQInv
<1>6. LineInv' /\ OwnerInv'
  BY <1>1, <1>2, <1>3, <1>4, PhaseFacts
     DEF ArbitersInv, LineInv, OwnerInv, AllFree, Only, Started
<1> QED  BY <1>2, <1>4, <1>5, <1>6 DEF ArbitersInv, Phase

LEMMA StopTaskKeeps ==
  ASSUME ArbitersInv, NotSimple, wiring' = wiring, StopTask
  PROVE  ArbitersInv'
<1>1. /\ tasks # << >> /\ Head(tasks) = "stopTask"
      /\ at["main"] = "free" /\ at["isr"] = "free"
  BY DEF StopTask, RunsTask, CanStep
<1>2. tasks # <<"startTask">> /\ tasks # <<"grantedTask">>
  BY <1>1, TaskQueues
<1>3. /\ PowerManaged /\ AllFree /\ ~Owned
      /\ \/ Controlled /\ tasks = <<"stopTask">>
         \/ Starting /\ tasks = <<"stopTask", "startTask">>
  BY <1>1, <1>2, PhaseFacts
     DEF ArbitersInv, Phase, Controlled, Requested, Starting, Started, Only,
         GrantPosted, OffOrStopping, TakenAtOnce, Checking, Configuring,
         Owned, NobodyOwns, AllFree
<1>4. /\ powered' = FALSE
      /\ tasks' = IF Controlled THEN << >> ELSE <<"startTask">>
      /\ UNCHANGED <<state, resId, reqResId, config, at, caller, asked, holds>>
      /\ RQInv' /\ Waiters' = Waiters /\ waiting' = waiting
  BY <1>3, SameQueueKept, TaskQueues DEF StopTask, ArbitersInv, Controlled, Starting
<1>5. /\ Controlled' \/ Starting'
      /\ AllFree' /\ ~Owned'
      /\ BeingGranted' <=> BeingGranted
  BY <1>3, <1>4
     DEF Controlled, Starting, AllFree, OffOrStopping, PowerManaged, NotSimple,
         Owned, BeingGranted
<1>6. TypeOK'
  BY <1>4, TaskQueues DEF ArbitersInv, TypeOK, RQInv
<1>7. ~Owned'
  BY <1>5 DEF Controlled, Owned
<1>8. LineInv' /\ OwnerInv'
  BY <1>3, <1>4, <1>5, <1>7
     DEF ArbitersInv, LineInv, OwnerInv, PowerManaged
<1> QED  BY <1>4, <1>5, <1>6, <1>8 DEF ArbitersInv, Phase

-----------------------------------------------------------------------------
(* The actions of the arbiter without a default owner.                     *)
LEMMA SimplePhases ==
  ASSUME ArbitersInv, wiring = "simple"
  PROVE  /\ GrantPosted \/ Configuring \/ Owned \/ NobodyOwns
         /\ ~PowerManaged /\ ~NotSimple
         /\ state = "IDLE" <=> NobodyOwns
         /\ state = "IDLE" => /\ waiting = << >> /\ Waiters = {}
                              /\ \A c \in Clients : asked[c] = 0
BY PhaseFacts, EmptyQueue
   DEF ArbitersInv, Phase, LineInv, One, NotSimple, PowerManaged, Controlled,
       Requested, Starting, Started, GrantPosted, TakenAtOnce, Checking,
       Configuring, Owned, NobodyOwns

LEMMA SimpleRequestKeeps ==
  ASSUME ArbitersInv, wiring = "simple", wiring' = wiring,
         NEW x \in Contexts, NEW c \in Clients, SimpleRequest(c, x)
  PROVE  ArbitersInv'
<1>1. CASE state = "IDLE"
  <2>1. /\ NobodyOwns /\ ~Owned /\ ~BeingGranted
        /\ waiting = << >> /\ Waiters = {}
        /\ \A d \in Clients : asked[d] = 0
    BY <1>1, SimplePhases, PhaseFacts
  <2>2. /\ state' = "GRANTING" /\ reqResId' = c /\ tasks' = <<"grantedTask">>
        /\ asked' = [d \in Clients |-> One(d = c)]
        /\ UNCHANGED <<resId, powered, config, at, caller, holds>>
        /\ RQInv' /\ Waiters' = Waiters /\ waiting' = waiting
    BY <1>1, <2>1, SameQueueKept, TaskQueues
       DEF SimpleRequest, PutInLine, One, NobodyOwns, ArbitersInv, TypeOK
  <2>3. GrantPosted' /\ BeingGranted' /\ ~Owned'
    BY <2>1, <2>2
       DEF NobodyOwns, GrantPosted, Released, On, PowerManaged, BeingGranted, Owned
  <2>4. TypeOK'
    BY <2>2, TaskQueues DEF ArbitersInv, TypeOK, RQInv, One
  <2>5. LineInv' /\ OwnerInv'
    BY <2>1, <2>2, <2>3, PhaseFacts
       DEF ArbitersInv, LineInv, One, OwnerInv, NobodyOwns, Released
  <2> QED  BY <2>2, <2>3, <2>4, <2>5 DEF ArbitersInv, Phase
<1>2. CASE state # "IDLE"
  <2>1. state # "CONTROLLED" /\ ~PowerManaged
    BY SimplePhases
       DEF GrantPosted, Configuring, Owned, NobodyOwns, ArbitersInv
  <2> QED  BY <1>2, <2>1, EnqueueInLine DEF SimpleRequest
<1> QED  BY <1>1, <1>2

LEMMA SimpleImmediateRequestKeeps ==
  ASSUME ArbitersInv, wiring = "simple", wiring' = wiring,
         NEW x \in Contexts, NEW c \in Clients, SimpleImmediateRequest(c, x)
  PROVE  ArbitersInv'
<1>1. CASE state # "IDLE"
  BY <1>1, StutterArbiters DEF SimpleImmediateRequest, vars, ownVars
<1>2. CASE state = "IDLE"
  <2>1. /\ NobodyOwns /\ ~Owned /\ ~BeingGranted
        /\ waiting = << >> /\ Waiters = {}
        /\ \A d \in Clients : asked[d] = 0
    BY <1>2, SimplePhases, PhaseFacts
  <2>2. x = "main"
    BY PhaseFacts, ImmediateIsUninterrupted
       DEF SimpleImmediateRequest, MayTakeAtOnce, ArbitersInv, TypeOK
  <2>3. AllFree
    BY <2>1, <2>2, PhaseFacts
       DEF SimpleImmediateRequest, Calls, AllFree, NobodyOwns, Released
  <2>4. /\ state' = "BUSY" /\ resId' = c /\ config' = c /\ holds' = {c}
        /\ UNCHANGED <<reqResId, tasks, powered, at, caller, asked>>
        /\ RQInv' /\ Waiters' = Waiters /\ waiting' = waiting
    BY <1>2, <2>1, SameQueueKept
       DEF SimpleImmediateRequest, ArbitersInv, OwnerInv
  <2>5. Owned' /\ AllFree' /\ ~BeingGranted'
    BY <2>1, <2>3, <2>4, PhaseFacts
       DEF Owned, NobodyOwns, AllFree, On, PowerManaged, NotSimple, BeingGranted
  <2>6. TypeOK'
    BY <2>4 DEF ArbitersInv, TypeOK, RQInv
  <2>7. LineInv' /\ OwnerInv'
    BY <2>1, <2>4, <2>5, PhaseFacts
       DEF ArbitersInv, LineInv, OwnerInv, AllFree
  <2> QED  BY <2>4, <2>5, <2>6, <2>7 DEF ArbitersInv, Phase
<1> QED  BY <1>1, <1>2

LEMMA SimpleReleaseKeeps ==
  ASSUME ArbitersInv, wiring = "simple", wiring' = wiring,
         NEW x \in Contexts, NEW c \in Clients, SimpleRelease(c, x)
  PROVE  ArbitersInv'
<1>1. CASE ~(state = "BUSY" /\ resId = c)
  BY <1>1, StutterArbiters DEF SimpleRelease, vars, ownVars
<1>2. CASE state = "BUSY" /\ resId = c
  <2>1. Owned /\ ~BeingGranted /\ tasks = << >> /\ AllFree /\ holds = {c}
    <3>1. ~Configuring
      BY <1>2, PhaseFacts
         DEF SimpleRelease, MayRelease, ArbitersInv, LineInv, One, OwnerInv,
             Configuring
    <3> QED  BY <1>2, <3>1, SimplePhases, PhaseFacts
             DEF GrantPosted, NobodyOwns, Owned, ArbitersInv, OwnerInv
  <2>2. /\ GiveUp /\ holds' = {} /\ resId' = NO_RES
        /\ UNCHANGED <<powered, asked>>
    BY <1>2, <2>1 DEF SimpleRelease, GiveUp
  <2>3. \/ /\ at' = [at EXCEPT !["main"] = "released"]
           /\ caller' = [caller EXCEPT !["main"] = c]
           /\ UNCHANGED config
        \/ config' = NO_RES /\ UNCHANGED <<at, caller>>
    BY <1>2 DEF SimpleRelease, Enters
  <2>4. /\ Released' /\ at'["main"] # "configure"
        /\ at'["main"] # "released" => config' = NO_RES
        /\ \A y \in Contexts : at'[y] \notin {"immediate", "check"}
        /\ config' \in Clients \cup {NO_RES}
        /\ at' \in [Contexts -> {"free", "requested", "immediate", "check",
                                 "started", "configure", "released"}]
        /\ caller' \in [Contexts -> Clients \cup {NO_RES}]
    BY <2>1, <2>3, PhaseFacts DEF Released, AllFree, ArbitersInv, TypeOK
  <2>5. CASE ~isEmpty
    <3>1. /\ RQInv' /\ answer' \in Clients
          /\ Waiters = {answer'} \cup Waiters' /\ answer' \notin Waiters'
      BY <2>2, <2>5, DequeueEffect, EmptyQueue DEF GiveUp, ArbitersInv
    <3>2. reqResId' = answer' /\ state' = "GRANTING" /\ tasks' = <<"grantedTask">>
      BY <2>1, <2>2, <2>5, TaskQueues DEF GiveUp
    <3>3. GrantPosted' /\ BeingGranted' /\ ~Owned'
      BY <2>2, <2>4, <3>2 DEF GrantPosted, On, PowerManaged, BeingGranted, Owned
    <3>4. TypeOK'
      BY <2>2, <2>4, <3>1, <3>2, TaskQueues DEF ArbitersInv, TypeOK, RQInv
    <3>5. LineInv'
      BY <2>1, <2>2, <3>1, <3>2, <3>3 DEF ArbitersInv, LineInv, One
    <3>6. OwnerInv'
      BY <2>2, <2>4, <3>3 DEF OwnerInv
    <3> QED  BY <3>1, <3>3, <3>4, <3>5, <3>6 DEF ArbitersInv, Phase
  <2>6. CASE isEmpty
    <3>1. /\ state' = "IDLE" /\ UNCHANGED <<reqResId, tasks>>
          /\ RQInv' /\ waiting' = << >> /\ Waiters' = {}
          /\ \A d \in Clients : asked[d] = 0
      BY <2>1, <2>2, <2>6, SameQueueKept, EmptyQueue
         DEF GiveUp, ArbitersInv, LineInv, One
    <3>2. NobodyOwns' /\ ~BeingGranted' /\ ~Owned'
      BY <2>1, <2>2, <2>4, <3>1 DEF NobodyOwns, BeingGranted, Owned
    <3>3. TypeOK'
      BY <2>2, <2>4, <3>1 DEF ArbitersInv, TypeOK, RQInv
    <3>4. LineInv' /\ OwnerInv'
      BY <2>2, <2>4, <3>1, <3>2 DEF LineInv, One, OwnerInv
    <3> QED  BY <3>1, <3>2, <3>3, <3>4 DEF ArbitersInv, Phase
  <2> QED  BY <2>5, <2>6
<1> QED  BY <1>1, <1>2

LEMMA UnconfigureKeeps ==
  ASSUME ArbitersInv, wiring = "simple", wiring' = wiring, Unconfigure
  PROVE  ArbitersInv'
<1>1. (GrantPosted \/ NobodyOwns) /\ Released /\ ~Owned
  BY SimplePhases, PhaseFacts
     DEF Unconfigure, Returns, Moves, GrantPosted, NobodyOwns, Configuring, Owned, Only, AllFree
<1>2. /\ at' = [at EXCEPT !["main"] = "free"] /\ config' = NO_RES
      /\ caller' = [caller EXCEPT !["main"] = NO_RES]
      /\ UNCHANGED <<state, resId, reqResId, tasks, powered, asked, holds>>
      /\ RQInv' /\ Waiters' = Waiters /\ waiting' = waiting
  BY SameQueueKept DEF Unconfigure, Returns, Moves, ArbitersInv
<1>3. AllFree' /\ Released'
  BY <1>1, <1>2, PhaseFacts DEF AllFree, Released, ArbitersInv, TypeOK
<1>4. (GrantPosted' \/ NobodyOwns') /\ ~Owned' /\ (BeingGranted' <=> BeingGranted)
  BY <1>1, <1>2, <1>3, PhaseFacts
     DEF GrantPosted, NobodyOwns, Owned, On, PowerManaged, NotSimple,
         BeingGranted, AllFree
<1>5. TypeOK'
  BY <1>2 DEF ArbitersInv, TypeOK, RQInv
<1>6. LineInv' /\ OwnerInv'
  BY <1>1, <1>2, <1>3, <1>4, PhaseFacts
     DEF ArbitersInv, LineInv, OwnerInv, AllFree, PowerManaged
<1> QED  BY <1>2, <1>4, <1>5, <1>6 DEF ArbitersInv, Phase

-----------------------------------------------------------------------------
LEMMA NextKeeps == ArbitersInv /\ [Next]_vars => ArbitersInv'
<1> SUFFICES ASSUME ArbitersInv, [Next]_vars PROVE ArbitersInv'
  OBVIOUS
<1>1. NotSimple <=> wiring # "simple"
  BY PhaseFacts
<1>2. CASE UNCHANGED vars
  BY <1>2, StutterArbiters
<1>3. CASE Next /\ wiring # "simple"
  <2>1. ArbiterNext /\ wiring' = wiring /\ NotSimple
    BY <1>1, <1>3 DEF Next
  <2>2. CASE ArbiterTask
    BY <2>1, <2>2, GrantedTaskKeeps, SignalGrantedKeeps, StartTaskKeeps,
       StartTaskReleasesKeeps, StopTaskKeeps DEF ArbiterTask
  <2>3. CASE \E x \in Contexts : Continue(x)
    BY <2>1, <2>3, SignalRequestedKeeps, SignalImmediateRequestedKeeps,
       CheckImmediateKeeps DEF Continue
  <2>4. CASE \E x \in Contexts, c \in Clients :
               Request(c, x) \/ ImmediateRequest(c, x) \/ Release(c, x)
    BY <2>1, <2>4, RequestKeeps, ImmediateRequestKeeps, ReleaseKeeps
  <2> QED  BY <2>1, <2>2, <2>3, <2>4 DEF ArbiterNext
<1>4. CASE Next /\ wiring = "simple"
  <2>1. SimpleNext /\ wiring' = wiring
    BY <1>4 DEF Next
  <2>2. CASE SimpleTask
    BY <2>1, <2>2, GrantedTaskKeeps, SignalGrantedKeeps DEF SimpleTask
  <2>3. CASE Unconfigure
    BY <1>4, <2>1, <2>3, UnconfigureKeeps
  <2>4. CASE \E x \in Contexts, c \in Clients :
               \/ SimpleRequest(c, x) \/ SimpleImmediateRequest(c, x)
               \/ SimpleRelease(c, x)
    BY <1>4, <2>1, <2>4, SimpleRequestKeeps, SimpleImmediateRequestKeeps,
       SimpleReleaseKeeps
  <2> QED  BY <2>1, <2>2, <2>3, <2>4 DEF SimpleNext
<1> QED  BY <1>2, <1>3, <1>4

LEMMA ArbitersInvHolds == Spec => []ArbitersInv
BY InitArbiters, NextKeeps, PTL DEF Spec

-----------------------------------------------------------------------------
(* The variables of the arbiters keep their types, for every set of        *)
(* clients: resId, reqResId and the queue hold ids of clients or marks.    *)
THEOREM ArbiterTypes == Spec => []TypeOK
<1>1. ArbitersInv => TypeOK
  BY DEF ArbitersInv
<1> QED  BY <1>1, ArbitersInvHolds, PTL

(* Whoever was told that it has the resource is the registered owner, with *)
(* the device on and configured for it, until it releases: no order of     *)
(* requests, releases, tasks and interrupts takes it away, and no two      *)
(* clients have it at once.                                                *)
THEOREM OwnersHaveTheDevice == Spec => []OwnerHasDevice
<1>1. ArbitersInv => OwnerHasDevice
  <2> SUFFICES ASSUME ArbitersInv, NEW c \in holds
               PROVE  /\ state = "BUSY" /\ resId = c /\ config = c
                      /\ PowerManaged => powered
    BY DEF OwnerHasDevice
  <2>1. Owned /\ resId = c
    BY DEF ArbitersInv, OwnerInv
  <2>2. config = c
    BY <2>1, PhaseFacts DEF ArbitersInv, OwnerInv, Owned, AllFree
  <2> QED  BY <2>1, <2>2 DEF Owned, On
<1> QED  BY <1>1, ArbitersInvHolds, PTL

(* A client has at most one place in the queue, and one at its head while  *)
(* it is being granted the resource.                                       *)
LEMMA LineHoldsTheAsked == ASSUME ArbitersInv PROVE LineIsAsked
<1> SUFFICES ASSUME NEW c \in Clients PROVE Cardinality(Places(c)) = asked[c]
  BY DEF LineIsAsked
<1>1. waiting \in Seq(Clients) /\ Len(waiting) \in Nat
  BY EmptyQueue DEF ArbitersInv
<1>2. asked[c] = One(BeingGranted /\ c = reqResId) + One(c \in Waiters)
  BY DEF ArbitersInv, LineInv
<1>3. CASE ~BeingGranted
  <2>1. Places(c) = {i \in 1..Len(waiting) : waiting[i] = c}
    BY <1>3 DEF BeingGranted, Line, Places
  <2>2. CASE c \notin Waiters
    <3>1. Places(c) = {}
      BY <2>1, <2>2 DEF Waiters
    <3> QED  BY <1>2, <1>3, <2>2, <3>1, FS_EmptySet DEF One
  <2>3. CASE c \in Waiters
    <3>1. PICK j \in 1..Len(waiting) : waiting[j] = c
      BY <2>3 DEF Waiters
    <3>2. Places(c) = {j}
      BY <1>1, <2>1, <3>1 DEF ArbitersInv, RQInv, RQWellFormed, Q!WellFormedList, Q!NoTaskTwice
    <3>3. Cardinality({j}) = 1
      BY FS_Singleton
    <3> QED  BY <1>2, <1>3, <2>3, <3>2, <3>3 DEF One
  <2> QED  BY <2>2, <2>3
<1>4. CASE BeingGranted
  <2>1. Line = <<reqResId>> \o waiting
    BY <1>4 DEF BeingGranted, Line
  <2>2. /\ Len(Line) = Len(waiting) + 1 /\ Line[1] = reqResId
        /\ \A i \in 2..Len(Line) : Line[i] = waiting[i - 1] /\ i - 1 \in 1..Len(waiting)
    BY <1>1, <2>1
  <2> DEFINE Head1 == IF c = reqResId THEN {1} ELSE {}
             Behind == {i \in 2..Len(Line) : Line[i] = c}
  <2>3. Places(c) = Head1 \cup Behind /\ 1 \notin Behind
    BY <1>1, <2>2 DEF Places
  <2>4. IsFiniteSet(Behind) /\ Cardinality(Behind) = One(c \in Waiters)
    <3>1. CASE c \notin Waiters
      <4>1. Behind = {}
        BY <2>2, <3>1 DEF Waiters
      <4> QED  BY <3>1, <4>1, FS_EmptySet DEF One
    <3>2. CASE c \in Waiters
      <4>1. PICK j \in 1..Len(waiting) : waiting[j] = c
        BY <3>2 DEF Waiters
      <4>2. \A i \in 1..Len(waiting) : waiting[i] = c => i = j
        BY <4>1 DEF ArbitersInv, RQInv, RQWellFormed, Q!WellFormedList, Q!NoTaskTwice
      <4>3. Behind = {j + 1}
        BY <1>1, <2>2, <4>1, <4>2
      <4> QED  BY <3>2, <4>3, FS_Singleton DEF One
    <3> QED  BY <3>1, <3>2
  <2> HIDE DEF Behind
  <2>5. CASE c = reqResId
    <3>1. Places(c) = Behind \cup {1}
      BY <2>3, <2>5
    <3>2. Cardinality(Places(c)) = Cardinality(Behind) + 1
      BY <2>3, <2>4, <3>1, FS_AddElement
    <3> QED  BY <1>2, <1>4, <2>4, <2>5, <3>2 DEF One
  <2>6. CASE c # reqResId
    BY <1>2, <1>4, <2>3, <2>4, <2>6 DEF One
  <2> QED  BY <2>5, <2>6
<1> QED  BY <1>3, <1>4

LEMMA TasksInQueue ==
  /\ \A t : tasks = <<t>> => \A u : InTasks(u) <=> u = t
  /\ tasks = << >> => \A u : ~InTasks(u)
  /\ tasks = <<"stopTask", "startTask">> =>
       \A u : InTasks(u) <=> u \in {"stopTask", "startTask"}
<1>1. ASSUME NEW t, tasks = <<t>>, NEW u PROVE InTasks(u) <=> u = t
  BY <1>1 DEF InTasks
<1>2. ASSUME tasks = << >>, NEW u PROVE ~InTasks(u)
  BY <1>2 DEF InTasks
<1>3. ASSUME tasks = <<"stopTask", "startTask">>, NEW u
      PROVE  InTasks(u) <=> u \in {"stopTask", "startTask"}
  <2>1. Len(tasks) = 2 /\ tasks[1] = "stopTask" /\ tasks[2] = "startTask"
    BY <1>3
  <2> QED  BY <2>1 DEF InTasks
<1> QED  BY <1>1, <1>2, <1>3

(* Every client stands in line, in the queue or being granted the          *)
(* resource, as often as it has grants coming, whenever and from wherever  *)
(* clients request and release; while somebody stands in line there is an  *)
(* owner, or a posted task or a step under way that grants.  So neither    *)
(* request nor release loses a client.                                     *)
THEOREM LineIsAlwaysServed == Spec => []LineIsServed
<1>1. ArbitersInv => LineIsServed
  <2> SUFFICES ASSUME ArbitersInv PROVE GrantIsComing
    BY LineHoldsTheAsked DEF LineIsServed
  <2>1. state \in {"CONTROLLED", "IDLE"} => \A c \in Clients : asked[c] = 0
    <3>1. state \in {"CONTROLLED", "IDLE"} => ~BeingGranted
      BY PhaseFacts
         DEF ArbitersInv, Phase, Controlled, Requested, Starting, Started,
             GrantPosted, TakenAtOnce, Checking, Configuring, Owned, NobodyOwns
    <3>2. waiting = << >> => Waiters = {}
      BY EmptyQueue DEF ArbitersInv
    <3>3. ASSUME NEW c \in Clients, ~BeingGranted, Waiters = {} PROVE asked[c] = 0
      BY <3>3 DEF ArbitersInv, LineInv, One
    <3>4. state \in {"CONTROLLED", "IDLE"} => waiting = << >>
      BY DEF ArbitersInv, LineInv
    <3> QED  BY <3>1, <3>2, <3>3, <3>4
  <2>2. ASSUME state = "GRANTING" PROVE GrantUnderWay
    <3>1. Requested \/ Starting \/ Started \/ GrantPosted
      BY <2>2
         DEF ArbitersInv, Phase, Controlled, TakenAtOnce, Checking,
             Configuring, Owned, NobodyOwns
    <3> QED  BY <3>1, TasksInQueue
             DEF Requested, Starting, Started, GrantPosted, GrantUnderWay, Only
  <2> QED  BY <2>1, <2>2 DEF GrantIsComing
<1> QED  BY <1>1, ArbitersInvHolds, PTL

(* Under the power manager the device is on exactly while it is owned, or  *)
(* a task or a step is about to give it away or to switch it off:          *)
(* startTask and stopTask of different clients' calls do not cross.        *)
THEOREM PowerFollowsTheOwner == Spec => []PowerFollowsOwner
<1>1. ArbitersInv => PowerFollowsOwner
  <2> SUFFICES ASSUME ArbitersInv, PowerManaged
               PROVE  powered <=> \/ state = "BUSY" \/ InTasks("grantedTask")
                                  \/ at["main"] = "started" \/ InTasks("stopTask")
    BY DEF PowerFollowsOwner
  <2>1. powered \in BOOLEAN
    BY DEF ArbitersInv, TypeOK
  <2>2. ~Checking /\ ~NobodyOwns
    BY DEF Checking, NobodyOwns, PowerManaged
  <2>3. CASE Controlled \/ Requested \/ TakenAtOnce
    <3>1. OffOrStopping /\ state # "BUSY" /\ at["main"] # "started"
      BY <2>3, PhaseFacts
         DEF Controlled, Requested, TakenAtOnce, PowerManaged, AllFree, Only
    <3> QED  BY <3>1, TasksInQueue DEF OffOrStopping
  <2>4. CASE Starting
    <3>1. state # "BUSY" /\ at["main"] # "started"
      BY <2>4, PhaseFacts DEF Starting, AllFree
    <3> QED  BY <2>4, <3>1, TasksInQueue DEF Starting
  <2>5. CASE Started
    BY <2>5 DEF Started, Only
  <2>6. CASE GrantPosted
    BY <2>6, TasksInQueue DEF GrantPosted, On
  <2>7. CASE Configuring \/ Owned
    BY <2>7 DEF Configuring, Owned, On
  <2> QED  BY <2>2, <2>3, <2>4, <2>5, <2>6, <2>7 DEF ArbitersInv, Phase
<1> QED  BY <1>1, ArbitersInvHolds, PTL

-----------------------------------------------------------------------------
(* The refinement: what each step is in FcfsResource.  A request that the  *)
(* queue takes adds the client to the end of the line.                     *)
LEMMA EnqueueIsAsk ==
  ASSUME ArbitersInv, NEW c \in Clients, enqueue(c),
         UNCHANGED <<state, resId, reqResId, at>>
  PROVE  Fcfs!Ask(c) \/ UNCHANGED Fcfs!resourceVars
<1>1. \/ c \notin Waiters /\ waiting' = Append(waiting, c)
      \/ waiting' = waiting
  BY EnqueueEffect DEF ArbitersInv
<1>2. Owner' = Owner
  BY DEF Owner
<1>3. CASE waiting' = waiting
  BY <1>2, <1>3 DEF Fcfs!resourceVars, Line
<1>4. CASE c \notin Waiters /\ waiting' = Append(waiting, c)
  <2>1. waiting \in Seq(Clients) /\ Waiters \subseteq Clients /\ reqResId \in Clients
    BY EmptyQueue DEF ArbitersInv, TypeOK
  <2>2. \A i \in 1..Len(waiting) : waiting[i] # c
    BY <1>4 DEF Waiters
  <2>3. \A i \in 1..Len(Line) : Line[i] = c => i = 1 /\ Owner = NO_RES
    <3>1. CASE BeingGranted
      <4>1. Line = <<reqResId>> \o waiting /\ Owner = NO_RES
        <5>1. state # "IMM_GRANTING"
          BY <3>1, PhaseFacts
             DEF ArbitersInv, Phase, BeingGranted, Controlled, Requested,
                 Starting, Started, GrantPosted, TakenAtOnce, Checking,
                 Configuring, Owned, NobodyOwns
        <5> QED  BY <3>1, <5>1 DEF BeingGranted, Line, Owner
      <4>2. /\ Len(Line) = Len(waiting) + 1
            /\ \A i \in 2..Len(Line) : i - 1 \in 1..Len(waiting) /\ Line[i] = waiting[i - 1]
        BY <2>1, <4>1
      <4> QED  BY <2>1, <2>2, <4>1, <4>2
    <3>2. CASE ~BeingGranted
      BY <2>2, <3>2 DEF BeingGranted, Line
    <3> QED  BY <3>1, <3>2
  <2>4. Line' = Append(Line, c)
    <3>1. <<reqResId>> \o Append(waiting, c) = Append(<<reqResId>> \o waiting, c)
      BY <2>1
    <3> QED  BY <1>4, <3>1 DEF Line
  <2> QED  BY <1>2, <2>3, <2>4 DEF Fcfs!Ask
<1> QED  BY <1>1, <1>3, <1>4

(* Only a step that changes what Line and Owner look at needs a look.      *)
LEMMA RequestIsAsk ==
  ASSUME ArbitersInv, ArbitersInv', NotSimple, wiring' = wiring,
         NEW x \in Contexts, NEW c \in Clients, Request(c, x)
  PROVE  Fcfs!Ask(c) \/ UNCHANGED Fcfs!resourceVars
<1>1. CASE state = "CONTROLLED"
  <2>1. /\ AllFree /\ waiting = << >> /\ waiting' = waiting
        /\ state' = "GRANTING" /\ reqResId' = c
    BY <1>1
       DEF Request, rqVars, ArbitersInv, Phase, LineInv, Controlled, Requested,
           Starting, Started, GrantPosted, TakenAtOnce, Checking, Configuring,
           Owned, NobodyOwns
  <2>2. Line = << >> /\ Owner = NO_RES
    BY <1>1, <2>1 DEF Line, Owner, AllFree, Contexts
  <2>3. Line' = Append(Line, c) /\ Owner' = NO_RES
    BY <2>1, <2>2 DEF Line, Owner
  <2> QED  BY <2>2, <2>3 DEF Fcfs!Ask
<1>2. CASE state # "CONTROLLED" /\ reqResId = c
  BY <1>2 DEF Request, rqVars, Fcfs!resourceVars, Line, Owner
<1>3. CASE state # "CONTROLLED" /\ reqResId # c
  BY <1>3, EnqueueIsAsk DEF Request
<1> QED  BY <1>1, <1>2, <1>3

LEMMA ImmediateRequestIsTake ==
  ASSUME ArbitersInv, NotSimple,
         NEW x \in Contexts, NEW c \in Clients, ImmediateRequest(c, x)
  PROVE  Fcfs!TakeAtOnce(c) \/ UNCHANGED Fcfs!resourceVars
<1>1. CASE state # "CONTROLLED"
  BY <1>1 DEF ImmediateRequest, rqVars, Fcfs!resourceVars, Line, Owner
<1>2. CASE state = "CONTROLLED"
  <2>1. /\ AllFree /\ waiting = << >> /\ waiting' = waiting
        /\ state' = "IMM_GRANTING" /\ reqResId' = c
        /\ at' = [at EXCEPT ![x] = "immediate"]
    BY <1>2
       DEF ImmediateRequest, Enters, rqVars, ArbitersInv, Phase, LineInv,
           Controlled, Requested, Starting, Started, GrantPosted, TakenAtOnce,
           Checking, Configuring, Owned, NobodyOwns
  <2>2. Line = << >> /\ Owner = NO_RES
    BY <1>2, <2>1 DEF Line, Owner, AllFree, Contexts
  <2>3. at'["main"] # "configure"
    BY <2>1 DEF AllFree, Contexts, ArbitersInv, TypeOK
  <2>4. Line' = Line /\ Owner' = c
    BY <2>1, <2>2, <2>3 DEF Line, Owner
  <2> QED  BY <2>2, <2>4 DEF Fcfs!TakeAtOnce
<1> QED  BY <1>1, <1>2

LEMMA ReleaseIsGiveBack ==
  ASSUME ArbitersInv, NEW x \in Contexts, NEW c \in Clients,
         \/ NotSimple /\ Release(c, x)
         \/ wiring = "simple" /\ SimpleRelease(c, x)
  PROVE  Fcfs!GiveBack \/ UNCHANGED Fcfs!resourceVars
<1>1. CASE ~(state = "BUSY" /\ resId = c)
  BY <1>1 DEF Release, SimpleRelease, rqVars, ownVars, Fcfs!resourceVars, Line, Owner
<1>2. CASE state = "BUSY" /\ resId = c
  <2>1. Owned
    <3>1. Checking \/ Configuring \/ Owned
      BY <1>2
         DEF ArbitersInv, Phase, Controlled, Requested, Starting, Started,
             GrantPosted, TakenAtOnce, NobodyOwns
    <3>2. ~Configuring
      BY <1>2, PhaseFacts
         DEF Release, SimpleRelease, MayRelease, ArbitersInv, LineInv, One,
             OwnerInv, Configuring
    <3>3. ~Checking
      BY <1>2, PhaseFacts DEF Release, Calls, ArbitersInv, OwnerInv, Checking, Only
    <3> QED  BY <3>1, <3>2, <3>3
  <2>2. AllFree /\ Line = waiting /\ Owner = c /\ c # NO_RES
    BY <1>2, <2>1, ArbiterConstants DEF Owned, AllFree, Contexts, Line, Owner
  <2>3. at'["main"] # "configure"
    BY <1>2, <2>2
       DEF Release, SimpleRelease, Enters, AllFree, Contexts, ArbitersInv, TypeOK
  <2>4. CASE ~isEmpty
    <3>1. dequeue /\ reqResId' = answer' /\ state' = "GRANTING"
      BY <1>2, <2>4 DEF Release, ReleaseToNext, SimpleRelease, GiveUp
    <3>2. waiting = <<answer'>> \o waiting'
      BY <2>4, <3>1, DequeueEffect, EmptyQueue DEF ArbitersInv
    <3>3. Line' = waiting /\ Owner' = NO_RES
      BY <3>1, <3>2 DEF Line, Owner
    <3> QED  BY <2>2, <3>3 DEF Fcfs!GiveBack
  <2>5. CASE isEmpty
    <3>1. waiting' = waiting /\ state' \in {"CONTROLLED", "IDLE"}
      BY <1>2, <2>5
         DEF Release, ReleaseToDefaultOwner, SimpleRelease, GiveUp, rqVars
    <3>2. Line' = waiting /\ Owner' = NO_RES
      BY <2>3, <3>1 DEF Line, Owner
    <3> QED  BY <2>2, <3>2 DEF Fcfs!GiveBack
  <2> QED  BY <2>4, <2>5
<1> QED  BY <1>1, <1>2

LEMMA ContinueIsHidden ==
  ASSUME ArbitersInv, NotSimple, NEW x \in Contexts, Continue(x)
  PROVE  Fcfs!GiveBack \/ UNCHANGED Fcfs!resourceVars
<1>1. CASE SignalRequested(x)
  <2>1. Requested /\ Only(x, "requested")
    BY <1>1, PhaseFacts
       DEF SignalRequested, Returns, Moves, ArbitersInv, Phase, Controlled, Requested,
           Starting, Started, GrantPosted, TakenAtOnce, Checking, Configuring,
           Owned, NobodyOwns, Only, AllFree, Released
  <2>2. /\ state = "GRANTING" /\ state' = "GRANTING"
        /\ reqResId' = reqResId /\ waiting' = waiting
    BY <1>1, <2>1 DEF SignalRequested, DefaultOwnerReleases, Requested, rqVars
  <2> QED  BY <2>2 DEF Fcfs!resourceVars, Line, Owner
<1>2. CASE SignalImmediateRequested(x)
  <2>1. TakenAtOnce /\ Only(x, "immediate")
    BY <1>2, PhaseFacts
       DEF SignalImmediateRequested, Moves, ArbitersInv, Phase, Controlled,
           Requested, Starting, Started, GrantPosted, TakenAtOnce, Checking,
           Configuring, Owned, NobodyOwns, Only, AllFree, Released
  <2>2. at["main"] # "configure" /\ at'["main"] # "configure"
    BY <1>2, <2>1
       DEF SignalImmediateRequested, Moves, Only, Contexts, ArbitersInv, TypeOK
  <2>3. /\ state = "IMM_GRANTING" /\ waiting' = waiting /\ reqResId' = reqResId
        /\ \/ state' = state
           \/ state' = "BUSY" /\ resId' = reqResId
    BY <1>2, <2>1
       DEF SignalImmediateRequested, DefaultOwnerReleases, TakenAtOnce, rqVars
  <2> QED  BY <2>2, <2>3 DEF Fcfs!resourceVars, Line, Owner
<1>3. CASE CheckImmediate(x)
  <2>1. /\ TakenAtOnce \/ Checking
        /\ Only(x, "check") /\ caller[x] = reqResId
    BY <1>3, PhaseFacts
       DEF CheckImmediate, Returns, Moves, ArbitersInv, Phase, Controlled, OwnerInv,
           Requested, Starting, Started, GrantPosted, TakenAtOnce, Checking,
           Configuring, Owned, NobodyOwns, Only, AllFree, Released
  <2>2. at["main"] # "configure" /\ at'["main"] # "configure"
    BY <1>3, <2>1 DEF CheckImmediate, Returns, Moves, Only, Contexts, ArbitersInv, TypeOK
  <2>3. waiting' = waiting /\ UNCHANGED <<resId, reqResId>>
    BY <1>3 DEF CheckImmediate, rqVars
  <2>4. CASE Checking
    <3>1. state = "BUSY" /\ state' = state
      BY <1>3, <2>1, <2>4 DEF CheckImmediate, Checking
    <3> QED  BY <2>2, <2>3, <3>1 DEF Fcfs!resourceVars, Line, Owner
  <2>5. CASE TakenAtOnce
    <3>1. reqResId \in Clients /\ NO_RES \notin Clients /\ default_owner_id \notin Clients
      BY ArbiterConstants DEF ArbitersInv, TypeOK
    <3>2. state = "IMM_GRANTING" /\ state' = "CONTROLLED"
      BY <1>3, <2>1, <2>5, <3>1 DEF CheckImmediate, TakenAtOnce
    <3> QED  BY <2>2, <2>3, <3>1, <3>2 DEF Fcfs!GiveBack, Line, Owner
  <2> QED  BY <2>1, <2>4, <2>5
<1> QED  BY <1>1, <1>2, <1>3 DEF Continue

LEMMA TaskIsGrant ==
  ASSUME ArbitersInv,
         \/ NotSimple /\ ArbiterTask
         \/ wiring = "simple" /\ (SimpleTask \/ Unconfigure)
  PROVE  Fcfs!Grant \/ UNCHANGED Fcfs!resourceVars
<1>1. CASE GrantedTask \/ SimpleGrantedTask
  <2>1. /\ tasks # << >> /\ Head(tasks) = "grantedTask" /\ at["main"] = "free"
    BY <1>1 DEF GrantedTask, SimpleGrantedTask, RunsTask
  <2>2. /\ tasks # <<"startTask">> /\ tasks # <<"stopTask", "startTask">>
        /\ tasks # <<"stopTask">>
    BY <2>1, TaskQueues
  <2>3. CanStep("main")
    BY <1>1 DEF GrantedTask, SimpleGrantedTask, RunsTask
  <2>4. state = "GRANTING"
    BY <2>1, <2>2, <2>3
       DEF ArbitersInv, Phase, Controlled, Requested, Starting, Started,
           GrantPosted, OffOrStopping, TakenAtOnce, Checking, Configuring,
           Owned, NobodyOwns
  <2>5. /\ state' = "BUSY" /\ reqResId' = reqResId /\ waiting' = waiting
        /\ at'["main"] = "configure"
    BY <1>1 DEF GrantedTask, SimpleGrantedTask, rqVars, ArbitersInv, TypeOK, Contexts
  <2> QED  BY <2>4, <2>5 DEF Fcfs!resourceVars, Line, Owner
<1>2. CASE SignalGranted \/ SimpleSignalGranted
  <2>1. Configuring
    BY <1>2, PhaseFacts
       DEF SignalGranted, SimpleSignalGranted, Moves, ArbitersInv, Phase,
           Controlled, Requested, Starting, Started, GrantPosted, TakenAtOnce,
           Checking, Configuring, Owned, NobodyOwns, Only, AllFree, Released
  <2>2. /\ state = "BUSY" /\ at["main"] = "configure" /\ resId = reqResId
        /\ at'["main"] = "free"
        /\ UNCHANGED <<state, resId, reqResId>> /\ waiting' = waiting
        /\ waiting \in Seq(Clients) /\ reqResId \in Clients
    BY <1>2, <2>1, EmptyQueue
       DEF SignalGranted, SimpleSignalGranted, Moves, rqVars, ArbitersInv,
           TypeOK, Configuring, Only, Contexts
  <2>3. /\ Line = <<reqResId>> \o waiting /\ Owner = NO_RES
        /\ Line' = waiting /\ Owner' = reqResId
    BY <2>2 DEF Line, Owner
  <2>4. Line # << >> /\ Head(Line) = reqResId /\ Tail(Line) = waiting
    BY <2>2, <2>3
  <2> QED  BY <2>3, <2>4 DEF Fcfs!Grant
<1>3. CASE StartTask \/ StartTaskReleases \/ StopTask \/ Unconfigure
  <2>1. /\ UNCHANGED <<reqResId>> /\ waiting' = waiting
        /\ at["main"] # "configure" /\ at'["main"] # "configure"
    BY <1>3 DEF StartTask, StartTaskReleases, StopTask, Unconfigure, RunsTask,
                Returns, Moves, rqVars, ArbitersInv, TypeOK, Contexts
  <2>2. UNCHANGED <<state, resId>>
    <3>1. CASE StartTaskReleases
      <4>1. Started
        BY <3>1, PhaseFacts
           DEF StartTaskReleases, Moves, ArbitersInv, Phase, Controlled,
               Requested, Starting, Started, GrantPosted, TakenAtOnce, Checking,
               Configuring, Owned, NobodyOwns, Only, AllFree, Released
      <4> QED  BY <3>1, <4>1 DEF StartTaskReleases, DefaultOwnerReleases, Started
    <3> QED  BY <1>3, <3>1 DEF StartTask, StopTask, Unconfigure
  <2> QED  BY <2>1, <2>2 DEF Fcfs!resourceVars, Line, Owner
<1> QED  BY <1>1, <1>2, <1>3 DEF ArbiterTask, SimpleTask

LEMMA SimpleRequestIsAsk ==
  ASSUME ArbitersInv, wiring = "simple",
         NEW x \in Contexts, NEW c \in Clients, SimpleRequest(c, x)
  PROVE  Fcfs!Ask(c) \/ UNCHANGED Fcfs!resourceVars
<1>1. CASE state = "IDLE"
  <2>1. /\ NobodyOwns /\ waiting = << >> /\ waiting' = waiting
        /\ state' = "GRANTING" /\ reqResId' = c
    BY <1>1, SimplePhases DEF SimpleRequest, rqVars
  <2>2. Line = << >> /\ Owner = NO_RES
    BY <1>1, <2>1 DEF Line, Owner, NobodyOwns, Released
  <2>3. Line' = Append(Line, c) /\ Owner' = NO_RES
    BY <2>1, <2>2 DEF Line, Owner
  <2> QED  BY <2>2, <2>3 DEF Fcfs!Ask
<1>2. CASE state # "IDLE"
  BY <1>2, EnqueueIsAsk DEF SimpleRequest
<1> QED  BY <1>1, <1>2

LEMMA SimpleImmediateRequestIsTake ==
  ASSUME ArbitersInv, wiring = "simple",
         NEW x \in Contexts, NEW c \in Clients, SimpleImmediateRequest(c, x)
  PROVE  Fcfs!TakeAtOnce(c) \/ UNCHANGED Fcfs!resourceVars
<1>1. CASE state # "IDLE"
  BY <1>1 DEF SimpleImmediateRequest, rqVars, Fcfs!resourceVars, Line, Owner
<1>2. CASE state = "IDLE"
  <2>1. /\ NobodyOwns /\ waiting = << >> /\ waiting' = waiting
        /\ state' = "BUSY" /\ resId' = c /\ at' = at
    BY <1>2, SimplePhases DEF SimpleImmediateRequest, rqVars
  <2>2. /\ Line = << >> /\ Owner = NO_RES
        /\ Line' = Line /\ Owner' = c
    BY <1>2, <2>1 DEF Line, Owner, NobodyOwns, Released
  <2> QED  BY <2>2 DEF Fcfs!TakeAtOnce
<1> QED  BY <1>1, <1>2

(* Every arbiter keeps to the order and the ownership of FcfsResource, for *)
(* every set of clients: requests are granted one at a time, in the order  *)
(* in which they were put in line, and only when the owner has released;   *)
(* who takes the resource at once overtakes nobody.                        *)
THEOREM ArbitersAreFcfs == Spec => ImplementsFcfs
<1>1. Init => Fcfs!ResourceInit
  BY DEF Init, CommonInit, ArbiterInit, SimpleInit, RQInit, Q!TQInit, Contexts,
         Fcfs!ResourceInit, Line, Owner
<1>2. ASSUME ArbitersInv, ArbitersInv', [Next]_vars
      PROVE  [Fcfs!ResourceNext]_(Fcfs!resourceVars)
  <2>1. CASE UNCHANGED vars
    BY <2>1 DEF vars, ownVars, rqVars, Fcfs!resourceVars, Line, Owner
  <2>2. CASE Next /\ wiring # "simple"
    <3>1. ArbiterNext /\ wiring' = wiring /\ NotSimple
      BY <1>2, <2>2, PhaseFacts DEF Next
    <3> QED  BY <1>2, <3>1, TaskIsGrant, ContinueIsHidden, RequestIsAsk,
                ImmediateRequestIsTake, ReleaseIsGiveBack
             DEF ArbiterNext, Fcfs!ResourceNext
  <2>3. CASE Next /\ wiring = "simple"
    <3>1. SimpleNext
      BY <2>3 DEF Next
    <3> QED  BY <1>2, <2>3, <3>1, TaskIsGrant, SimpleRequestIsAsk,
                SimpleImmediateRequestIsTake, ReleaseIsGiveBack
             DEF SimpleNext, Fcfs!ResourceNext
  <2> QED  BY <1>2, <2>1, <2>2, <2>3
<1> QED  BY <1>1, <1>2, ArbitersInvHolds, PTL DEF Spec, ImplementsFcfs, Fcfs!ResourceSpec
=============================================================================
