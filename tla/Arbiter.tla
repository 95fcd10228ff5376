------------------------------- MODULE Arbiter ------------------------------
(***************************************************************************)
(* The arbiter with a default owner (lib/power/arbiter/ArbiterPrv.nc), and *)
(* the default owner that switches the device on before it lets go and off *)
(* when it gets the resource back (lib/power/PowerManagerPub.nc).  The SPI *)
(* buses are wired so.                                                     *)
(***************************************************************************)
EXTENDS ArbiterState

PowerManaged == wiring = "managed"

ArbiterInit ==
  /\ wiring \in {"managed", "direct"}
  /\ state = "CONTROLLED" /\ resId = default_owner_id

-----------------------------------------------------------------------------
(* Resource.request: the atomic section.  It answers SUCCESS to the client *)
(* that it serves already, which is not put in line once more: the grant   *)
(* that this client has, or has coming, is all it gets.                    *)
Request_Slip(c, x) ==     \* the queue is bypassed whenever nobody is served
  /\ Calls(c, x)
  /\ \/ /\ state \in {"CONTROLLED", "GRANTING"}
        /\ state' = "GRANTING" /\ reqResId' = c
        /\ Enters(c, x, "requested")
        /\ PutInLine(c)
        /\ UNCHANGED rqVars
     \/ /\ state \in {"IMM_GRANTING", "BUSY"}
        /\ enqueue(c)
        /\ IF answer' = "SUCCESS" THEN PutInLine(c) ELSE UNCHANGED asked
        /\ UNCHANGED <<state, reqResId, at, caller>>
  /\ UNCHANGED <<resId, tasks, powered, config, holds>>

Request(c, x) ==
  /\ Calls(c, x)
  /\ \/ /\ state = "CONTROLLED"
        /\ state' = "GRANTING" /\ reqResId' = c
        /\ Enters(c, x, "requested")
        /\ PutInLine(c)
        /\ UNCHANGED rqVars
     \/ /\ state # "CONTROLLED" /\ reqResId = c
        /\ UNCHANGED <<rqVars, state, reqResId, at, caller, asked>>
     \/ /\ state # "CONTROLLED" /\ reqResId # c
        /\ enqueue(c)
        /\ IF answer' = "SUCCESS" THEN PutInLine(c) ELSE UNCHANGED asked
        /\ UNCHANGED <<state, reqResId, at, caller>>
  /\ UNCHANGED <<resId, tasks, powered, config, holds>>

(* ResourceDefaultOwner.release, called by startTask or by the default     *)
(* handlers.                                                               *)
DefaultOwnerReleases ==
  \/ /\ resId = default_owner_id /\ state = "GRANTING"
     /\ tasks' = Posted(tasks, "grantedTask")
     /\ UNCHANGED <<state, resId>>
  \/ /\ resId = default_owner_id /\ state = "IMM_GRANTING"
     /\ resId' = reqResId /\ state' = "BUSY"
     /\ UNCHANGED tasks
  \/ /\ resId # default_owner_id \/ state \notin {"GRANTING", "IMM_GRANTING"}
     /\ UNCHANGED <<state, resId, tasks>>

(* The event ResourceDefaultOwner.requested, after the atomic section.     *)
SignalRequested(x) ==
  /\ Returns(x, "requested")
  /\ \/ /\ PowerManaged
        /\ tasks' = Posted(tasks, "startTask")
        /\ UNCHANGED <<state, resId>>
     \/ ~PowerManaged /\ DefaultOwnerReleases
  /\ UNCHANGED <<rqVars, reqResId, powered, config, asked, holds>>

-----------------------------------------------------------------------------
(* Resource.immediateRequest: the atomic section, the event, the check.    *)
ImmediateRequest_Slip(c, x) ==     \* the state is not looked at
  /\ Calls(c, x) /\ MayTakeAtOnce(c, x)
  /\ state' = "IMM_GRANTING" /\ reqResId' = c
  /\ Enters(c, x, "immediate")
  /\ UNCHANGED <<rqVars, resId, tasks, powered, config, asked, holds>>

ImmediateRequest(c, x) ==
  /\ Calls(c, x) /\ MayTakeAtOnce(c, x)
  /\ \/ /\ state = "CONTROLLED"
        /\ state' = "IMM_GRANTING" /\ reqResId' = c
        /\ Enters(c, x, "immediate")
     \/ /\ state # "CONTROLLED"
        /\ UNCHANGED <<state, reqResId, at, caller>>
  /\ UNCHANGED <<rqVars, resId, tasks, powered, config, asked, holds>>

SignalImmediateRequested(x) ==
  /\ Moves(x, "immediate", "check")
  /\ \/ PowerManaged /\ UNCHANGED <<state, resId, tasks>>
     \/ ~PowerManaged /\ DefaultOwnerReleases
  /\ UNCHANGED <<rqVars, reqResId, powered, config, caller, asked, holds>>

CheckImmediate(x) ==
  /\ Returns(x, "check")
  /\ \/ /\ resId = caller[x]
        /\ config' = resId
        /\ holds' = holds \cup {resId}
        /\ UNCHANGED state
     \/ /\ resId # caller[x]
        /\ state' = "CONTROLLED"
        /\ UNCHANGED <<config, holds>>
  /\ UNCHANGED <<rqVars, resId, reqResId, tasks, powered, asked>>

-----------------------------------------------------------------------------
(* The event ResourceDefaultOwner.granted.                                 *)
DefaultOwnerGranted_Slip == UNCHANGED tasks      \* the device stays on

DefaultOwnerGranted ==
  tasks' = IF PowerManaged THEN Posted(tasks, "stopTask") ELSE tasks

(* Resource.release, one atomic section.                                   *)
ReleaseToDefaultOwner ==
  /\ resId' = default_owner_id /\ state' = "CONTROLLED"
  /\ DefaultOwnerGranted
  /\ UNCHANGED <<rqVars, reqResId>>

ReleaseToNext ==
  /\ dequeue
  /\ reqResId' = answer' /\ resId' = NO_RES /\ state' = "GRANTING"
  /\ tasks' = Posted(tasks, "grantedTask")

Release(c, x) ==
  /\ Calls(c, x) /\ MayRelease(c)
  /\ \/ /\ state = "BUSY" /\ resId = c
        /\ \/ ~isEmpty /\ ReleaseToNext
           \/ isEmpty /\ ReleaseToDefaultOwner
        /\ config' = NO_RES /\ holds' = holds \ {c}
     \/ ~(state = "BUSY" /\ resId = c) /\ UNCHANGED <<rqVars, ownVars>>
  /\ UNCHANGED <<powered, at, caller, asked>>

-----------------------------------------------------------------------------
(* The tasks.                                                              *)
GrantedTask ==
  /\ RunsTask("grantedTask")
  /\ tasks' = Tail(tasks)
  /\ resId' = reqResId /\ state' = "BUSY"
  /\ at' = [at EXCEPT !["main"] = "configure"]
  /\ UNCHANGED <<rqVars, reqResId, powered, config, caller, asked, holds>>

SignalGranted ==
  /\ Moves("main", "configure", "free")
  /\ config' = resId
  /\ asked' = [asked EXCEPT ![resId] = @ - 1] /\ holds' = holds \cup {resId}
  /\ UNCHANGED <<rqVars, state, resId, reqResId, tasks, powered, caller>>

StartTask_Slip ==         \* the default owner lets go without switching on
  /\ RunsTask("startTask")
  /\ tasks' = Tail(tasks)
  /\ at' = [at EXCEPT !["main"] = "started"]
  /\ UNCHANGED <<rqVars, state, resId, reqResId, powered, config, caller, asked, holds>>

StartTask ==
  /\ RunsTask("startTask")
  /\ tasks' = Tail(tasks)
  /\ powered' = TRUE
  /\ at' = [at EXCEPT !["main"] = "started"]
  /\ UNCHANGED <<rqVars, state, resId, reqResId, config, caller, asked, holds>>

StartTaskReleases ==
  /\ Moves("main", "started", "free")
  /\ DefaultOwnerReleases
  /\ UNCHANGED <<rqVars, reqResId, powered, config, caller, asked, holds>>

StopTask ==
  /\ RunsTask("stopTask")
  /\ tasks' = Tail(tasks)
  /\ powered' = FALSE
  /\ UNCHANGED <<rqVars, state, resId, reqResId, config, at, caller, asked, holds>>

-----------------------------------------------------------------------------
Continue(x) == SignalRequested(x) \/ SignalImmediateRequested(x) \/ CheckImmediate(x)

ArbiterTask ==
  \/ GrantedTask \/ SignalGranted \/ StartTask \/ StartTaskReleases \/ StopTask

ArbiterNext ==
  \/ ArbiterTask
  \/ \E x \in Contexts :
       \/ Continue(x)
       \/ \E c \in Clients : Request(c, x) \/ ImmediateRequest(c, x) \/ Release(c, x)
=============================================================================
