---------------------------- MODULE ArbiterState ----------------------------
(***************************************************************************)
(* What the two arbiters of lib/power/arbiter have in common: the          *)
(* variables of a shared resource, the queue of waiting clients, the tasks *)
(* and the contexts in which commands run.                                 *)
(*                                                                         *)
(* The commands are async: clients call them from tasks and from interrupt *)
(* handlers.  A command is split where its atomic section ends; between    *)
(* two of its steps in the context "main" an interrupt handler may run     *)
(* whole commands, never the reverse.  Tasks run in "main", one at a time. *)
(***************************************************************************)
EXTENDS ResourceQueue, FiniteSets

CONSTANTS
  default_owner_id, NO_RES,
  Wirings,          \* the arbiters in use: "managed", ArbiterPrv under
                    \* PowerManagerPub; "direct", ArbiterPrv with its own
                    \* default handlers; "simple", SimpleArbiterPrv
  ImmediateFrom     \* of each, the contexts that call immediateRequest()

Contexts == {"main", "isr"}
ArbiterTasks == {"startTask", "stopTask", "grantedTask"}

ASSUME ArbiterConstants ==
  /\ {default_owner_id, NO_RES, NO_ENTRY} \cap Clients = {}
  /\ default_owner_id # NO_RES
  /\ Wirings \subseteq {"managed", "direct", "simple"}
  /\ \A w \in Wirings : ImmediateFrom[w] \subseteq Contexts

(* Only TwoResourcesArbiterPub calls immediateRequest(), in a command that *)
(* nobody calls.  So the contexts that call it are a choice of the model:  *)
(* where nothing interrupts it or its undoing of the configuration.  From  *)
(* the other contexts it breaks the properties of Arbiters.  request() and *)
(* release() are under no such assumption.                                 *)
ASSUME ImmediateIsUninterrupted ==
  /\ "simple" \in Wirings => "isr" \notin ImmediateFrom["simple"]
  /\ "managed" \in Wirings => "main" \notin ImmediateFrom["managed"]

VARIABLES
  wiring,     \* the arbiter that this resource has; it never changes
  state, resId, reqResId,
  tasks,      \* the task queue, as far as these components use it
  powered,    \* OnOffSwitch: the device is on
  config,     \* the client the device is configured for, or NO_RES
  at,         \* at[x]: where context x stands inside a command or task
  caller,     \* caller[x]: the client whose command x is inside, or NO_RES
  asked,      \* history: how many grants each client has coming
  holds       \* history: clients told that they have the resource

ownVars == <<state, resId, reqResId, tasks, powered, config, at, caller,
             asked, holds>>
vars == <<wiring, rqVars, ownVars>>

-----------------------------------------------------------------------------
(* reqResId is a zero-initialised static, and 0 is the id of a client.     *)
CommonInit ==
  /\ RQInit
  /\ reqResId \in Clients
  /\ tasks = << >> /\ powered = FALSE /\ config = NO_RES
  /\ at = [x \in Contexts |-> "free"]
  /\ caller = [x \in Contexts |-> NO_RES]
  /\ asked = [c \in Clients |-> 0] /\ holds = {}

(* The task queue takes a task once (TaskFifo).                            *)
Posted(ts, t) == IF \E i \in 1..Len(ts) : ts[i] = t THEN ts ELSE Append(ts, t)

(* Context x may take a step: handlers run to their end before main does.  *)
CanStep(x) == x = "main" => at["isr"] = "free"
Moves(x, from, to) == CanStep(x) /\ at[x] = from /\ at' = [at EXCEPT ![x] = to]

(* Task t is taken from the head of the task queue.                        *)
RunsTask(t) ==
  /\ CanStep("main") /\ at["main"] = "free"
  /\ tasks # << >> /\ Head(tasks) = t

(* Client c starts a command in context x; it is in no other command.      *)
Calls(c, x) ==
  /\ CanStep(x) /\ at[x] = "free"
  /\ \A y \in Contexts : caller[y] # c
Enters(c, x, label) ==
  at' = [at EXCEPT ![x] = label] /\ caller' = [caller EXCEPT ![x] = c]
Returns(x, from) ==
  Moves(x, from, "free") /\ caller' = [caller EXCEPT ![x] = NO_RES]

(* A request put in line makes one grant more to come for its client.      *)
PutInLine(c) == asked' = [asked EXCEPT ![c] = @ + 1]

MayTakeAtOnce(c, x) ==
  asked[c] = 0 /\ c \notin holds /\ x \in ImmediateFrom[wiring]
(* The note in Resource.nc, to which clients keep: no release() between a  *)
(* request and its grant.                                                  *)
MayRelease(c) == asked[c] = 0 \/ c \in holds
=============================================================================
