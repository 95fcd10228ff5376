------------------------------ MODULE TaskFifo ------------------------------
(***************************************************************************)
(* What the interface api/sys/scheduler/TaskBasic.nc promises about tasks: *)
(* a posted task waits in one FIFO queue, a task that is already waiting   *)
(* is not queued again, and the scheduler runs the oldest waiting task.    *)
(* Nothing is said of how the queue is stored.                             *)
(***************************************************************************)
EXTENDS Naturals, Sequences

CONSTANTS Tasks,     \* the tasks of the program
          NO_TASK    \* "no task was run"

VARIABLES fifo,      \* the waiting tasks, oldest first
          outcome    \* the result of the last call: of a post SUCCESS or
                     \* EBUSY, of a run the task that was run, or NO_TASK

fifoVars == <<fifo, outcome>>

Waiting(t) == \E i \in 1..Len(fifo) : fifo[i] = t

FifoInit == fifo = << >> /\ outcome = NO_TASK

FifoPost(t) ==
  \/ /\ ~Waiting(t)
     /\ fifo' = Append(fifo, t)
     /\ outcome' = "SUCCESS"
  \/ /\ Waiting(t)
     /\ outcome' = "EBUSY"
     /\ UNCHANGED fifo

FifoRun ==
  \/ /\ fifo # << >>
     /\ outcome' = Head(fifo)
     /\ fifo' = Tail(fifo)
  \/ /\ fifo = << >>
     /\ outcome' = NO_TASK
     /\ UNCHANGED fifo

FifoNext == FifoRun \/ \E t \in Tasks : FifoPost(t)

FifoSpec == FifoInit /\ [][FifoNext]_fifoVars
=============================================================================
