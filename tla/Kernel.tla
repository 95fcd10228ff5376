------------------------------- MODULE Kernel -------------------------------
(***************************************************************************)
(* The two schedulers together: the task queue runs inside the "main"      *)
(* process (MainPub.nc, MainProcessPrv.nc), the CPU sleeps inside the      *)
(* "idle" process (IdleProcessPrv.nc), and interrupt handlers post tasks   *)
(* and wake main up.  Other processes (BaseProcessPub.nc) are the set      *)
(* Workers: they post tasks, yield, and suspend themselves.                *)
(*                                                                         *)
(* The atomic sections of the code are the steps.  Between two of them an  *)
(* interrupt handler may run, unless the running process keeps interrupts  *)
(* masked.  A context switch happens only in the PendSV handler, which     *)
(* schedule() triggers.  Interrupt handlers do not nest: no code assigns   *)
(* interrupt priorities, so all have the reset value.                      *)
(***************************************************************************)
EXTENDS TaskQueue, ProcessScheduler

CONSTANTS main, idle, Workers,
          WorkerPrios    \* the priorities workers are given

ASSUME ProcessesAreDistinct ==
  /\ main # idle /\ main \notin Workers /\ idle \notin Workers
  /\ Procs = Workers \cup {main, idle}
  /\ IsFiniteSet(Workers)

PROCESS_PRIO_DEFAULT == 128
PROCESS_PRIO_IDLE == 255

(* GenericProcess.h: only the idle process has priority 255.               *)
ASSUME WorkerPriosAreUserPrios ==
  WorkerPrios \subseteq 0 .. (PROCESS_PRIO_IDLE - 1)

VARIABLES
  pc,        \* pc[p]: where the code of process p stands
  hooking,   \* hooking[p]: p has queued a task and not yet run TaskPostedHook
  running,   \* m_currentTaskNr while main runs a task, else NO_TASK
  irq,       \* a device interrupt is pending
  isr,       \* "none", or where the active interrupt handler stands
  pendsv     \* the context switch exception is pending

kVars == <<pc, hooking, running, irq, isr, pendsv>>
vars == <<tqVars, psVars, kVars>>

MainLabels == {"sysinit", "drain", "drainTask", "booted", "loop", "task"}
IdleLabels == {"switch", "check", "wfi"}
WorkerLabels == {"work", "yield"}

TypeOK ==
  /\ TQTypeOK /\ PSTypeOK
  /\ pc \in [Procs -> MainLabels \cup IdleLabels \cup WorkerLabels]
  /\ pc[main] \in MainLabels /\ pc[idle] \in IdleLabels
  /\ \A w \in Workers : pc[w] \in WorkerLabels
  /\ hooking \in [Procs -> BOOLEAN]
  /\ running \in Tasks \cup {NO_TASK}
  /\ irq \in BOOLEAN /\ isr \in {"none", "body", "hook"} /\ pendsv \in BOOLEAN

-----------------------------------------------------------------------------
(* main() runs with interrupts disabled until the initial tasks have run,  *)
(* and the idle process sleeps inside an atomic section.                   *)
Masked ==
  \/ current = main /\ pc[main] \in {"sysinit", "drain", "drainTask"}
  \/ current = idle /\ pc[idle] = "wfi"

(* The running process p takes its next step: no handler is active, and    *)
(* none is pending that could preempt it.                                  *)
Runs(p) == /\ current = p
           /\ isr = "none"
           /\ Masked \/ (~pendsv /\ ~irq)

Goto(p, label) == pc' = [pc EXCEPT ![p] = label]

(* schedule(), evaluated on the run list as the section leaves it.         *)
Schedule == pendsv' = (pendsv \/ Head(run_list') # current)

-----------------------------------------------------------------------------
(* Init is the moment after the processes were added (MainProcessPrv and   *)
(* BaseProcessPub Init.init): main is current, the rest wait to be started *)
(* by a first switch.  The remaining initialisers are still running.       *)
Init ==
  /\ TQInit
  /\ prio \in {f \in [Procs -> WorkerPrios
                               \cup {PROCESS_PRIO_DEFAULT, PROCESS_PRIO_IDLE}] :
                 /\ f[main] = PROCESS_PRIO_DEFAULT
                 /\ f[idle] = PROCESS_PRIO_IDLE
                 /\ \A w \in Workers : f[w] \in WorkerPrios}
  /\ run_list \in [1..Cardinality(Procs) -> Procs]
  /\ \A p \in Procs : In(p, run_list)
  /\ \A i, j \in 1..Len(run_list) : run_list[i] = run_list[j] => i = j
  /\ RunListSorted
  /\ sleep_list = << >>
  /\ state = [p \in Procs |-> "READY"]
  /\ current = main
  /\ pc = [p \in Procs |-> IF p = main THEN "sysinit"
                           ELSE IF p = idle THEN "switch" ELSE "work"]
  /\ hooking = [p \in Procs |-> FALSE]
  /\ running = NO_TASK
  /\ irq = FALSE /\ isr = "none" /\ pendsv = FALSE

-----------------------------------------------------------------------------
(* postTask from process code: the push, and, if it succeeded, outside the *)
(* atomic section, the hook of MainProcessPrv that resumes main.           *)
MayPost(p) ==
  \/ p = main /\ pc[main] \in {"sysinit", "drainTask", "booted", "task"}
  \/ p \in Workers /\ pc[p] = "work"

ThreadPost_Slip(p, t) ==      \* the hook is never called
  /\ Runs(p) /\ MayPost(p) /\ ~hooking[p]
  /\ pushTask(t)
  /\ UNCHANGED <<psVars, pc, running, irq, isr, pendsv, hooking>>

ThreadPost(p, t) ==
  /\ Runs(p) /\ MayPost(p) /\ ~hooking[p]
  /\ pushTask(t)
  /\ hooking' = [hooking EXCEPT ![p] = (outcome' = "SUCCESS")]
  /\ UNCHANGED <<psVars, pc, running, irq, isr, pendsv>>

ThreadHook(p) ==
  /\ Runs(p) /\ hooking[p]
  /\ resume(main)
  /\ hooking' = [hooking EXCEPT ![p] = FALSE]
  /\ UNCHANGED <<tqVars, pc, running, irq, isr, pendsv>>

-----------------------------------------------------------------------------
(* MainPub.main(): initialisers, the tasks they posted, Boot.booted.       *)
InitialisersDone ==
  /\ Runs(main) /\ ~hooking[main] /\ pc[main] = "sysinit"
  /\ Goto(main, "drain")
  /\ UNCHANGED <<tqVars, psVars, hooking, running, irq, isr, pendsv>>

RunNextTask ==
  /\ Runs(main) /\ pc[main] = "drain"
  /\ popTask
  /\ running' = outcome'
  /\ Goto(main, IF outcome' = NO_TASK THEN "booted" ELSE "drainTask")
  /\ UNCHANGED <<psVars, hooking, irq, isr, pendsv>>

BootedDone ==
  /\ Runs(main) /\ ~hooking[main] /\ pc[main] = "booted"
  /\ Goto(main, "loop")
  /\ UNCHANGED <<tqVars, psVars, hooking, running, irq, isr, pendsv>>

TaskDone ==
  /\ Runs(main) /\ ~hooking[main] /\ pc[main] \in {"drainTask", "task"}
  /\ running' = NO_TASK
  /\ Goto(main, IF pc[main] = "task" THEN "loop" ELSE "drain")
  /\ UNCHANGED <<tqVars, psVars, hooking, irq, isr, pendsv>>

(* One round of taskLoop.  With no task to run, McuSleep.sleep() suspends  *)
(* main and calls schedule() in the same atomic section.                   *)
TaskLoop_Slip ==         \* main suspends itself and does not switch
  /\ Runs(main) /\ pc[main] = "loop"
  /\ popTask
  /\ running' = outcome'
  /\ \/ outcome' # NO_TASK /\ Goto(main, "task") /\ UNCHANGED <<psVars, pendsv>>
     \/ outcome' = NO_TASK /\ suspend(main) /\ UNCHANGED <<pc, pendsv>>
  /\ UNCHANGED <<hooking, irq, isr>>

TaskLoop ==
  /\ Runs(main) /\ pc[main] = "loop"
  /\ popTask
  /\ running' = outcome'
  /\ \/ outcome' # NO_TASK /\ Goto(main, "task") /\ UNCHANGED <<psVars, pendsv>>
     \/ outcome' = NO_TASK /\ suspend(main) /\ Schedule /\ UNCHANGED pc
  /\ UNCHANGED <<hooking, irq, isr>>

-----------------------------------------------------------------------------
(* IdleProcessPrv: schedule(), then look again under the atomic section    *)
(* that is only left by going to sleep or round the loop.                  *)
IdleSchedule ==
  /\ Runs(idle) /\ pc[idle] = "switch"
  /\ Goto(idle, "check")
  /\ UNCHANGED <<tqVars, psVars, hooking, running, irq, isr>>
  /\ Schedule

IdleCheck_Slip ==        \* isContextSwitchPending() is not consulted
  /\ Runs(idle) /\ pc[idle] = "check"
  /\ Goto(idle, "wfi")
  /\ UNCHANGED <<tqVars, psVars, hooking, running, irq, isr, pendsv>>

IdleCheck ==
  /\ Runs(idle) /\ pc[idle] = "check"
  /\ Goto(idle, IF SwitchPending THEN "switch" ELSE "wfi")
  /\ UNCHANGED <<tqVars, psVars, hooking, running, irq, isr, pendsv>>

(* IdleSleep.sleep(): a pending interrupt ends the wait although it is     *)
(* masked; its handler runs when the atomic section ends.  With sleeping   *)
(* disabled (sleepEnabled) the call returns at once.                       *)
IdleWakes ==
  /\ Runs(idle) /\ pc[idle] = "wfi"
  /\ Goto(idle, "switch")
  /\ UNCHANGED <<tqVars, psVars, hooking, running, irq, isr, pendsv>>

-----------------------------------------------------------------------------
(* A worker yields, or suspends itself and then yields.                    *)
WorkerYield(w) ==
  /\ Runs(w) /\ ~hooking[w]
  /\ Goto(w, "work")
  /\ UNCHANGED <<tqVars, psVars, hooking, running, irq, isr>>
  /\ Schedule

WorkerSuspend(w) ==
  /\ Runs(w) /\ ~hooking[w] /\ pc[w] = "work"
  /\ suspend(w)
  /\ Goto(w, "yield")
  /\ UNCHANGED <<tqVars, hooking, running, irq, isr, pendsv>>

(* A task or a worker changes the priority of any worker, asleep or not.   *)
ThreadSetPriority(p, w, new) ==
  /\ Runs(p) /\ MayPost(p) /\ ~hooking[p]
  /\ setPriority(w, new)
  /\ UNCHANGED <<tqVars, kVars>>

-----------------------------------------------------------------------------
(* Exceptions.  A device raises an interrupt at any time; its handler may  *)
(* post tasks and resume workers.                                          *)
InterruptArrives ==
  /\ ~irq
  /\ irq' = TRUE
  /\ UNCHANGED <<tqVars, psVars, pc, hooking, running, isr, pendsv>>

IsrEnter ==
  /\ irq /\ isr = "none" /\ ~Masked
  /\ isr' = "body"
  /\ irq' = FALSE
  /\ UNCHANGED <<tqVars, psVars, pc, hooking, running, pendsv>>

IsrPost_Slip(t) ==       \* the hook is never called
  /\ isr = "body"
  /\ pushTask(t)
  /\ UNCHANGED <<psVars, kVars>>

IsrPost(t) ==
  /\ isr = "body"
  /\ pushTask(t)
  /\ isr' = IF outcome' = "SUCCESS" THEN "hook" ELSE "body"
  /\ UNCHANGED <<psVars, pc, hooking, running, irq, pendsv>>

IsrHook ==
  /\ isr = "hook"
  /\ resume(main)
  /\ isr' = "body"
  /\ UNCHANGED <<tqVars, pc, hooking, running, irq, pendsv>>

IsrResume(w) ==
  /\ isr = "body"
  /\ resume(w)
  /\ UNCHANGED <<tqVars, kVars>>

IsrExit ==
  /\ isr = "body"
  /\ isr' = "none"
  /\ UNCHANGED <<tqVars, psVars, pc, hooking, running, irq, pendsv>>

(* PendSVISR: the only place where the running process changes.            *)
PendSV ==
  /\ pendsv /\ isr = "none" /\ ~Masked
  /\ SwitchContext
  /\ pendsv' = FALSE
  /\ UNCHANGED <<tqVars, pc, hooking, running, irq, isr>>

-----------------------------------------------------------------------------
ThreadStep ==
  \/ \E p \in Procs : ThreadHook(p) \/ \E t \in Tasks : ThreadPost(p, t)
  \/ InitialisersDone \/ RunNextTask \/ BootedDone \/ TaskDone \/ TaskLoop
  \/ IdleSchedule \/ IdleCheck \/ IdleWakes
  \/ \E w \in Workers : \/ WorkerYield(w) \/ WorkerSuspend(w)
                        \/ \E p \in Procs, new \in WorkerPrios :
                             ThreadSetPriority(p, w, new)

ExceptionStep ==
  \/ InterruptArrives \/ IsrEnter \/ IsrHook \/ IsrExit \/ PendSV
  \/ \E t \in Tasks : IsrPost(t)
  \/ \E w \in Workers : IsrResume(w)

Next == ThreadStep \/ ExceptionStep

(* Code finishes: handlers, initialisers, tasks and a worker's turn end.   *)
(* Strong fairness, because each of these steps can be preempted, though   *)
(* not for ever: interrupts do not use up the CPU.  No fairness is assumed *)
(* of the arrival of interrupts or of anybody posting.                     *)
NoInterruptStorm == []<>(isr = "none" /\ ~irq)

Fairness ==
  /\ NoInterruptStorm
  /\ WF_vars(IsrEnter) /\ WF_vars(IsrHook) /\ WF_vars(IsrExit)
  /\ SF_vars(PendSV)
  /\ SF_vars(InitialisersDone) /\ SF_vars(RunNextTask) /\ SF_vars(BootedDone)
  /\ SF_vars(TaskDone) /\ SF_vars(TaskLoop)
  /\ SF_vars(IdleSchedule) /\ SF_vars(IdleCheck)
  /\ \A p \in Procs : SF_vars(ThreadHook(p))
  /\ \A w \in Workers : SF_vars(WorkerYield(w))

Spec == Init /\ [][Next]_vars
FairSpec == Spec /\ Fairness

-----------------------------------------------------------------------------
(* Both lists of the process scheduler are what suspend, resume and        *)
(* setPriority take them for, whatever handler runs between two of them.   *)
ListsConsistent == RunListSorted /\ ListsMatchState

(* No wake-up is lost: once the post of a task is complete, main is on the *)
(* run list as long as any task waits, however posts, the round of         *)
(* taskLoop that finds the queue empty, and interrupts interleave.         *)
PostIncomplete == isr = "hook" \/ \E p \in Procs : hooking[p]

NoLostWakeup ==
  (\E t \in Tasks : isWaiting(t)) /\ ~PostIncomplete => state[main] = "READY"

(* The CPU waits for an interrupt only if nothing at all is left to do: no *)
(* task waits, no post is half done, and only idle is on the run list.     *)
SleepsOnlyWhenIdle ==
  current = idle /\ pc[idle] = "wfi" =>
    /\ \A t \in Tasks : ~isWaiting(t)
    /\ ~PostIncomplete
    /\ run_list = <<idle>>

(* A process that was suspended executes nothing more before the switch    *)
(* away from it, and there is always a process to switch to: schedule()    *)
(* takes the head of the run list without looking whether there is one.    *)
SuspendedDoesNotRun ==
  /\ state[current] = "SLEEPING" => pendsv \/ pc[current] = "yield"
  /\ run_list # << >>

(* Every posted task is eventually run, if workers stay less important     *)
(* than main: a worker of its priority or above that never sleeps starves  *)
(* it, because processes switch only when the head of the run list does.   *)
WorkersGiveWay == \A w \in Workers : prio[main] < prio[w]
PostedTaskRuns ==
  []WorkersGiveWay => \A t \in Tasks : isWaiting(t) ~> running = t
=============================================================================
