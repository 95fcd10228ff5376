----------------------------- MODULE TaskQueue ------------------------------
(***************************************************************************)
(* The task queue of lib/sys/scheduler/SchedulerBasicPrv.nc: a singly      *)
(* linked list threaded through the array m_next, in which NO_TASK is both *)
(* the list terminator and the mark of a task that is not in the list, so  *)
(* that membership of the last element shows only in m_tail.               *)
(*                                                                         *)
(* Every command of the code works inside one atomic section, so each is   *)
(* one step.  Operators whose name ends in _Slip are erroneous variants of *)
(* the definition that follows them; the properties must reject them.      *)
(***************************************************************************)
EXTENDS Naturals, Sequences

CONSTANTS Tasks,     \* the task identifiers handed out by uniqueCount()
          NO_TASK    \* 255, which no task has

(* The tasks are numbered from 0; the 8-bit identifier 255 is reserved.    *)
ASSUME NoTaskIsNoTask == NO_TASK \notin Tasks

VARIABLES m_head, m_tail, m_next,
          posted,    \* history: the successfully posted tasks that have not
                     \* been handed to the scheduler yet, oldest first
          outcome    \* history: result of the last command

queueVars == <<m_head, m_tail, m_next>>
tqVars == <<m_head, m_tail, m_next, posted, outcome>>

-----------------------------------------------------------------------------
isWaiting(id) == m_next[id] # NO_TASK \/ m_tail = id

(* pushTask links the task behind m_tail; FALSE is returned, and nothing   *)
(* changed, if the task is waiting already.                                *)
Link_Slip(id) ==     \* m_tail is set only when the list was empty
  /\ m_tail' = IF m_head = NO_TASK THEN id ELSE m_tail
  /\ \/ m_head = NO_TASK /\ m_head' = id /\ UNCHANGED m_next
     \/ /\ m_head # NO_TASK
        /\ m_next' = [m_next EXCEPT ![m_tail] = id]
        /\ UNCHANGED m_head

Link(id) ==
  /\ m_tail' = id
  /\ \/ m_head = NO_TASK /\ m_head' = id /\ UNCHANGED m_next
     \/ /\ m_head # NO_TASK
        /\ m_next' = [m_next EXCEPT ![m_tail] = id]
        /\ UNCHANGED m_head

pushTask(id) ==
  \/ /\ ~isWaiting(id)
     /\ Link(id)
     /\ posted' = Append(posted, id)
     /\ outcome' = "SUCCESS"
  \/ /\ isWaiting(id)
     /\ outcome' = "EBUSY"
     /\ UNCHANGED <<queueVars, posted>>

(* popTask unlinks the head.  If it was the only task the tail is reset.   *)
Unlink ==
  /\ m_head' = m_next[m_head]
  /\ m_tail' = IF m_next[m_head] = NO_TASK THEN NO_TASK ELSE m_tail
  /\ m_next' = [m_next EXCEPT ![m_head] = NO_TASK]

popTask_Slip ==      \* the head is not checked: m_next is read out of bounds
  /\ m_head' = IF m_head = NO_TASK THEN "anything" ELSE m_next[m_head]
  /\ outcome' = m_head
  /\ posted' = IF posted = << >> THEN << >> ELSE Tail(posted)
  /\ UNCHANGED <<m_tail, m_next>>

popTask ==
  \/ /\ m_head # NO_TASK
     /\ Unlink
     /\ posted' = Tail(posted)
     /\ outcome' = m_head
  \/ /\ m_head = NO_TASK
     /\ outcome' = NO_TASK
     /\ UNCHANGED <<queueVars, posted>>

-----------------------------------------------------------------------------
(* Scheduler.init() empties the array and both ends.                       *)
TQInit ==
  /\ m_head = NO_TASK
  /\ m_tail = NO_TASK
  /\ m_next = [t \in Tasks |-> NO_TASK]
  /\ posted = << >>
  /\ outcome = NO_TASK

TQNext == popTask \/ \E id \in Tasks : pushTask(id)

TQSpec == TQInit /\ [][TQNext]_tqVars

-----------------------------------------------------------------------------
(* Types: the indices name tasks of the program or are NO_TASK, so that no *)
(* access to m_next is out of bounds.                                      *)
TQTypeOK ==
  /\ m_head \in Tasks \cup {NO_TASK}
  /\ m_tail \in Tasks \cup {NO_TASK}
  /\ m_next \in [Tasks -> Tasks \cup {NO_TASK}]
  /\ posted \in Seq(Tasks)
  /\ outcome \in Tasks \cup {NO_TASK, "SUCCESS", "EBUSY"}

(* The list is well formed: from m_head the links visit exactly the posted *)
(* tasks, in the order they were posted, each once; m_tail is the last of  *)
(* them; only the tasks before the last have a link.  popTask and pushTask *)
(* rely on all of it: a stale m_tail or a link left behind in m_next would *)
(* make a task look posted for ever, or drop the tasks behind it.          *)
NoTaskTwice ==
  \A i, j \in 1..Len(posted) : posted[i] = posted[j] => i = j

EndsMatch ==
  /\ posted = << >> => m_head = NO_TASK /\ m_tail = NO_TASK
  /\ posted # << >> => m_head = posted[1] /\ m_tail = posted[Len(posted)]

LinksMatch ==
  /\ \A i \in 1..(Len(posted) - 1) : m_next[posted[i]] = posted[i + 1]
  /\ \A t \in Tasks : (\A i \in 1..(Len(posted) - 1) : posted[i] # t)
                        => m_next[t] = NO_TASK

WellFormedList == NoTaskTwice /\ EndsMatch /\ LinksMatch

(* isWaiting(), which sees only m_next and m_tail, answers exactly whether *)
(* the task is in the list, so that a post is refused if and only if an    *)
(* earlier post of the same task has not been run.                         *)
WaitingIsExact ==
  \A t \in Tasks : isWaiting(t) <=> \E i \in 1..Len(posted) : posted[i] = t

(* The linked list implements the FIFO queue that TaskBasic.nc promises.   *)
Fifo == INSTANCE TaskFifo WITH fifo <- posted
ImplementsFifo == Fifo!FifoSpec
=============================================================================
