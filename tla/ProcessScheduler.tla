-------------------------- MODULE ProcessScheduler --------------------------
(***************************************************************************)
(* The non-preemptive process scheduler of                                 *)
(* lib/sys/processes/GenericProcessSchedulerPub.nc: the list of processes  *)
(* ready to run, sorted by priority (a lower number is more important),    *)
(* and the list of sleeping ones.  A tail queue of Lists.h is a sequence.  *)
(* Each command is one atomic section, hence one step; the operators below *)
(* are those sections, composed into actions by the modules that use them. *)
(***************************************************************************)
EXTENDS Naturals, SequencesExt

CONSTANTS Procs      \* the process_t objects of the program

VARIABLES run_list,  \* psched_run_list
          sleep_list,\* psched_sleep_list
          state,     \* state[p]: READY or SLEEPING
          prio,      \* prio[p]
          current    \* psched_current_process

psVars == <<run_list, sleep_list, state, prio, current>>

PSTypeOK ==
  /\ run_list \in Seq(Procs) /\ sleep_list \in Seq(Procs)
  /\ state \in [Procs -> {"READY", "SLEEPING"}]
  /\ prio \in [Procs -> 0..255]
  /\ current \in Procs

-----------------------------------------------------------------------------
In(p, list) == \E i \in 1..Len(list) : list[i] = p

(* WHIP6_LIST_TAILQ_REMOVE                                                 *)
Unlinked(list, p) ==
  RemoveAt(list, CHOOSE i \in 1..Len(list) : list[i] = p)

(* addProcess walks the run list to the first entry that is strictly less  *)
(* important than p, and inserts p before it, or at the tail: p comes last *)
(* among the processes of its own priority.                                *)
AddPosition_Slip(list, p, pr) ==          \* a new process is always last
  Len(list) + 1

AddPosition(list, p, pr) ==
  LET lessImportant == {i \in 1..Len(list) : pr[p] < pr[list[i]]}
  IN  IF lessImportant = {} THEN Len(list) + 1
      ELSE CHOOSE i \in lessImportant : \A j \in lessImportant : i <= j

Added(list, p, pr) == InsertAt(list, AddPosition(list, p, pr), p)

suspend(p) ==
  \/ /\ state[p] # "SLEEPING"
     /\ run_list' = Unlinked(run_list, p)
     /\ sleep_list' = Append(sleep_list, p)
     /\ state' = [state EXCEPT ![p] = "SLEEPING"]
     /\ UNCHANGED <<prio, current>>
  \/ /\ state[p] = "SLEEPING"
     /\ UNCHANGED psVars

(* resume marks the process READY first, because addProcess ignores a      *)
(* process that is not.                                                    *)
resume(p) ==
  \/ /\ state[p] # "READY"
     /\ state' = [state EXCEPT ![p] = "READY"]
     /\ sleep_list' = Unlinked(sleep_list, p)
     /\ run_list' = Added(run_list, p, prio)
     /\ UNCHANGED <<prio, current>>
  \/ /\ state[p] = "READY"
     /\ UNCHANGED psVars

(* A READY process is moved to the place its new priority deserves.        *)
setPriority(p, new) ==
  /\ prio' = [prio EXCEPT ![p] = new]
  /\ run_list' = IF state[p] = "READY"
                 THEN Added(Unlinked(run_list, p), p, prio')
                 ELSE run_list
  /\ UNCHANGED <<sleep_list, state, current>>

(* schedule() and isContextSwitchPending() compare the head of the run     *)
(* list with the running process.                                          *)
SwitchPending == Head(run_list) # current

(* The handler hal_context_switch() triggers (PendSVISR in hal_process.c): *)
(* the head of the run list becomes the running process.                   *)
SwitchContext ==
  /\ current' = Head(run_list)
  /\ UNCHANGED <<run_list, sleep_list, state, prio>>

-----------------------------------------------------------------------------
(* The run list is sorted by priority, the policy ProcessScheduler.nc      *)
(* states, and the state of a process tells which of the two lists it is   *)
(* on: suspend and resume unlink it from the list its state names, so an   *)
(* error here would corrupt the other list's links.                        *)
RunListSorted ==
  \A i, j \in 1..Len(run_list) :
     i < j => prio[run_list[i]] <= prio[run_list[j]]

ListsMatchState ==
  /\ \A p \in Procs : In(p, run_list) <=> state[p] = "READY"
  /\ \A p \in Procs : In(p, sleep_list) <=> state[p] = "SLEEPING"
  /\ \A i, j \in 1..Len(run_list) : run_list[i] = run_list[j] => i = j
  /\ \A i, j \in 1..Len(sleep_list) : sleep_list[i] = sleep_list[j] => i = j
=============================================================================
