---------------------------- MODULE ResourceQueue ---------------------------
(***************************************************************************)
(* lib/power/arbiter/FcfsResourceQueuePub.nc: the clients that wait for a  *)
(* resource.  The component is, statement for statement, the linked list   *)
(* of the task scheduler with other names (qHead for m_head, resQ for      *)
(* m_next, NO_ENTRY for NO_TASK), so it is that module with those names,   *)
(* and what is proved of one holds of the other.                           *)
(***************************************************************************)
EXTENDS Naturals, Sequences

CONSTANTS Clients,    \* the ids handed out by uniqueCount(resourceName)
          NO_ENTRY    \* 255

ASSUME NoEntryIsNoClient == NO_ENTRY \notin Clients

VARIABLES qHead, qTail, resQ,
          waiting,    \* history: the clients in the queue, first come first
          answer      \* history: what the last enqueue or dequeue returned

rqVars == <<qHead, qTail, resQ, waiting, answer>>

Q == INSTANCE TaskQueue
  WITH Tasks <- Clients, NO_TASK <- NO_ENTRY, m_head <- qHead, m_tail <- qTail,
       m_next <- resQ, posted <- waiting, outcome <- answer

isEmpty == qHead = NO_ENTRY
isEnqueued(id) == Q!isWaiting(id)

enqueue(id) == Q!pushTask(id)

dequeue == Q!popTask

RQInit == Q!TQInit
RQTypeOK == Q!TQTypeOK

(* The list visits the waiting clients in the order in which they came,    *)
(* each of them once, and the marks in resQ agree with it.                 *)
RQWellFormed == Q!WellFormedList
=============================================================================
