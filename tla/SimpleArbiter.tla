---------------------------- MODULE SimpleArbiter ---------------------------
(***************************************************************************)
(* The arbiter without a default owner, lib/power/arbiter/                 *)
(* SimpleArbiterPrv.nc.  The I2C bus, the AES engine and the ADC are       *)
(* shared so.                                                              *)
(***************************************************************************)
EXTENDS ArbiterState

SimpleInit == wiring = "simple" /\ state = "IDLE" /\ resId = NO_RES

(* Resource.request: one atomic section.  Only the queue is asked whether  *)
(* the client has requested: the one being granted, or owning, the         *)
(* resource gets a place in line once more.                                *)
SimpleRequest_Slip(c, x) ==     \* grantedTask is not posted
  /\ Calls(c, x)
  /\ \/ /\ state = "IDLE"
        /\ state' = "GRANTING" /\ reqResId' = c
        /\ PutInLine(c)
        /\ UNCHANGED <<rqVars, tasks>>
     \/ /\ state # "IDLE"
        /\ enqueue(c)
        /\ IF answer' = "SUCCESS" THEN PutInLine(c) ELSE UNCHANGED asked
        /\ UNCHANGED <<state, reqResId, tasks>>
  /\ UNCHANGED <<resId, powered, config, at, caller, holds>>

SimpleRequest(c, x) ==
  /\ Calls(c, x)
  /\ \/ /\ state = "IDLE"
        /\ state' = "GRANTING" /\ reqResId' = c
        /\ tasks' = Posted(tasks, "grantedTask")
        /\ PutInLine(c)
        /\ UNCHANGED rqVars
     \/ /\ state # "IDLE"
        /\ enqueue(c)
        /\ IF answer' = "SUCCESS" THEN PutInLine(c) ELSE UNCHANGED asked
        /\ UNCHANGED <<state, reqResId, tasks>>
  /\ UNCHANGED <<resId, powered, config, at, caller, holds>>

(* Resource.immediateRequest: one atomic section, configure() included.    *)
SimpleImmediateRequest(c, x) ==
  /\ Calls(c, x) /\ MayTakeAtOnce(c, x)
  /\ \/ /\ state = "IDLE"
        /\ state' = "BUSY" /\ resId' = c /\ config' = c
        /\ holds' = holds \cup {c}
     \/ state # "IDLE" /\ UNCHANGED <<state, resId, config, holds>>
  /\ UNCHANGED <<rqVars, reqResId, tasks, powered, at, caller, asked>>

(* Resource.release: the atomic section, and then unconfigure().  A        *)
(* handler does both before main goes on; in main, Unconfigure comes later.*)
GiveUp_Slip ==            \* a next client is taken without asking for one
  /\ resId' = NO_RES
  /\ dequeue
  /\ reqResId' = answer' /\ state' = "GRANTING"
  /\ tasks' = Posted(tasks, "grantedTask")

GiveUp ==
  /\ resId' = NO_RES
  /\ \/ /\ ~isEmpty /\ dequeue
        /\ reqResId' = answer' /\ state' = "GRANTING"
        /\ tasks' = Posted(tasks, "grantedTask")
     \/ /\ isEmpty /\ state' = "IDLE"
        /\ UNCHANGED <<rqVars, reqResId, tasks>>

SimpleRelease(c, x) ==
  /\ Calls(c, x) /\ MayRelease(c)
  /\ \/ /\ state = "BUSY" /\ resId = c
        /\ GiveUp
        /\ holds' = holds \ {c}
        /\ \/ x = "main" /\ Enters(c, x, "released") /\ UNCHANGED config
           \/ x = "isr" /\ config' = NO_RES /\ UNCHANGED <<at, caller>>
     \/ ~(state = "BUSY" /\ resId = c) /\ UNCHANGED <<rqVars, ownVars>>
  /\ UNCHANGED <<powered, asked>>

Unconfigure ==
  /\ Returns("main", "released")
  /\ config' = NO_RES
  /\ UNCHANGED <<rqVars, state, resId, reqResId, tasks, powered, asked, holds>>

(* The task: the atomic section, then configure() and the event granted.   *)
SimpleGrantedTask ==
  /\ RunsTask("grantedTask")
  /\ tasks' = Tail(tasks)
  /\ resId' = reqResId /\ state' = "BUSY"
  /\ at' = [at EXCEPT !["main"] = "configure"]
  /\ UNCHANGED <<rqVars, reqResId, powered, config, caller, asked, holds>>

SimpleSignalGranted ==
  /\ Moves("main", "configure", "free")
  /\ config' = resId
  /\ asked' = [asked EXCEPT ![resId] = @ - 1] /\ holds' = holds \cup {resId}
  /\ UNCHANGED <<rqVars, state, resId, reqResId, tasks, powered, caller>>

-----------------------------------------------------------------------------
SimpleTask == SimpleGrantedTask \/ SimpleSignalGranted

SimpleNext ==
  \/ SimpleTask \/ Unconfigure
  \/ \E x \in Contexts, c \in Clients :
       \/ SimpleRequest(c, x) \/ SimpleImmediateRequest(c, x)
       \/ SimpleRelease(c, x)
=============================================================================
