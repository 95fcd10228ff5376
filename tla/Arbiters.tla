------------------------------ MODULE Arbiters ------------------------------
(***************************************************************************)
(* A shared resource under any of the program's arbiters, and what clients *)
(* are promised of each.                                                   *)
(***************************************************************************)
EXTENDS Arbiter, SimpleArbiter

Init ==
  /\ CommonInit
  /\ wiring \in Wirings
  /\ ArbiterInit \/ SimpleInit

Next ==
  /\ \/ wiring # "simple" /\ ArbiterNext
     \/ wiring = "simple" /\ SimpleNext
  /\ UNCHANGED wiring

(* The CPU and the task scheduler go on (PostedTaskRuns of Kernel), and    *)
(* owners release in the end.  Strong fairness, because interrupts preempt *)
(* main, though not for ever.                                              *)
GoesOn ==
  /\ \/ wiring # "simple" /\ (ArbiterTask \/ Continue("main"))
     \/ wiring = "simple" /\ (SimpleTask \/ Unconfigure)
  /\ UNCHANGED wiring
HandlerGoesOn == wiring # "simple" /\ Continue("isr") /\ UNCHANGED wiring
GivesBack(c) ==
  /\ c \in holds
  /\ \E x \in Contexts : \/ wiring # "simple" /\ Release(c, x)
                         \/ wiring = "simple" /\ SimpleRelease(c, x)
  /\ UNCHANGED wiring

Spec == Init /\ [][Next]_vars
FairSpec ==
  /\ Spec
  /\ SF_vars(GoesOn) /\ WF_vars(HandlerGoesOn)
  /\ \A c \in Clients : SF_vars(GivesBack(c))

-----------------------------------------------------------------------------
TypeOK ==
  /\ RQTypeOK
  /\ wiring \in Wirings
  /\ state \in {"CONTROLLED", "IDLE", "GRANTING", "IMM_GRANTING", "BUSY"}
  /\ resId \in Clients \cup {default_owner_id, NO_RES}
  /\ reqResId \in Clients
  /\ tasks \in Seq(ArbiterTasks)
  /\ powered \in BOOLEAN
  /\ config \in Clients \cup {NO_RES}
  /\ at \in [Contexts -> {"free", "requested", "immediate", "check",
                          "started", "configure", "released"}]
  /\ caller \in [Contexts -> Clients \cup {NO_RES}]
  /\ asked \in [Clients -> 0..2] /\ holds \subseteq Clients

(* Whoever was told that it has the resource is its registered owner, and  *)
(* the device is on and configured for it until it releases: request,      *)
(* release, startTask, stopTask and grantedTask of several clients do not  *)
(* take it away in whatever order they run.  So there is one owner at most.*)
OwnerHasDevice ==
  \A c \in holds : /\ state = "BUSY" /\ resId = c
                   /\ config = c
                   /\ PowerManaged => powered

(* Each client stands in line - in the queue, or about to be told that it  *)
(* has the resource - as often as it has grants coming: no request that    *)
(* was put in line is forgotten or granted twice, also when a client asks  *)
(* again while it waits, is being granted the resource, or owns it.        *)
Line == IF state = "GRANTING" \/ at["main"] = "configure"
        THEN <<reqResId>> \o waiting ELSE waiting
Places(c) == {i \in 1..Len(Line) : Line[i] = c}
LineIsAsked == \A c \in Clients : Cardinality(Places(c)) = asked[c]

(* While clients wait, something is bound to serve them: an owner that     *)
(* will release, or a grant that one posted task or one step carries on.   *)
(* A resource that is free again has nobody waiting for it.                *)
InTasks(t) == \E i \in 1..Len(tasks) : tasks[i] = t
GrantUnderWay ==
  \/ \E x \in Contexts : at[x] = "requested"
  \/ at["main"] = "started"
  \/ InTasks("startTask") \/ InTasks("grantedTask")

GrantIsComing ==
  /\ state \in {"CONTROLLED", "IDLE"} => \A c \in Clients : asked[c] = 0
  /\ state = "GRANTING" => GrantUnderWay

(* request() and release(), from tasks and handlers and in every order,    *)
(* immediateRequest() as ImmediateIsUninterrupted has it, and the tasks    *)
(* they post, keep the line as the clients asked for it, and served.       *)
LineIsServed == LineIsAsked /\ GrantIsComing

(* The device is on exactly while it is owned or about to be: startTask    *)
(* and stopTask, posted by releases and requests of different clients,     *)
(* never leave it on without an owner, or off with one.                    *)
PowerFollowsOwner ==
  PowerManaged => (powered <=> \/ state = "BUSY" \/ InTasks("grantedTask")
                               \/ at["main"] = "started" \/ InTasks("stopTask"))

(* Order and ownership: the arbiters implement a resource that is granted  *)
(* first come, first served, to one owner at a time.  The client that is   *)
(* being granted the resource stands at the head of the line.  What a      *)
(* request is answered is not part of it.                                  *)
Owner == IF state = "IMM_GRANTING" THEN reqResId
         ELSE IF state = "BUSY" /\ at["main"] # "configure" THEN resId
         ELSE NO_RES
Fcfs == INSTANCE FcfsResource WITH line <- Line, owner <- Owner, NOBODY <- NO_RES
ImplementsFcfs == Fcfs!ResourceSpec

(* Every request put in line is granted, by each arbiter: queues, tasks    *)
(* and the default owner's start and stop never leave a client waiting     *)
(* while owners release in the end.                                        *)
EveryRequestGranted == \A c \in Clients : asked[c] > 0 ~> c \in holds
=============================================================================
