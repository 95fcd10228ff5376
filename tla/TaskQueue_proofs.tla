-------------------------- MODULE TaskQueue_proofs --------------------------
(***************************************************************************)
(* Proofs about TaskQueue, for every set of tasks: the linked list stays   *)
(* well formed, isWaiting() is exact, and the list implements the FIFO     *)
(* queue of TaskFifo.                                                      *)
(***************************************************************************)
EXTENDS TaskQueue, SequenceTheorems, TLAPS

TQInv == TQTypeOK /\ WellFormedList

-----------------------------------------------------------------------------
(* The sequence of waiting tasks in a well-formed list: its ends and links *)
(* tell which tasks are waiting.                                           *)
LEMMA WaitingLemma ==
  ASSUME TQInv
  PROVE  WaitingIsExact
PROOF
<1>. USE NoTaskIsNoTask DEF TQInv, TQTypeOK, WellFormedList
<1>1. SUFFICES ASSUME NEW t \in Tasks
               PROVE  isWaiting(t) <=> \E i \in 1..Len(posted) : posted[i] = t
  BY DEF WaitingIsExact
<1>2. \A i \in 1..Len(posted) : posted[i] \in Tasks
  OBVIOUS
<1>3. ASSUME NEW i \in 1..Len(posted), posted[i] = t
      PROVE  isWaiting(t)
  <2>1. CASE i = Len(posted)
    BY <1>3, <2>1 DEF EndsMatch, isWaiting
  <2>2. CASE i # Len(posted)
    <3>1. i \in 1..(Len(posted) - 1) /\ i + 1 \in 1..Len(posted)
      BY <2>2
    <3>2. m_next[t] = posted[i + 1]
      BY <1>3, <3>1 DEF LinksMatch
    <3>. QED  BY <3>1, <3>2, <1>2 DEF isWaiting
  <2>. QED  BY <2>1, <2>2
<1>4. ASSUME isWaiting(t)
      PROVE  \E i \in 1..Len(posted) : posted[i] = t
  <2>1. CASE m_next[t] # NO_TASK
    <3>1. PICK i \in 1..(Len(posted) - 1) : posted[i] = t
      BY <2>1 DEF LinksMatch
    <3>. QED  BY <3>1
  <2>2. CASE m_tail = t
    <3>1. posted # << >>
      BY <2>2 DEF EndsMatch
    <3>2. Len(posted) \in 1..Len(posted) /\ posted[Len(posted)] = t
      BY <2>2, <3>1 DEF EndsMatch
    <3>. QED  BY <3>2
  <2>. QED  BY <1>4, <2>1, <2>2 DEF isWaiting
<1>. QED  BY <1>3, <1>4

-----------------------------------------------------------------------------
(* pushTask keeps the list well formed.                                    *)
LEMMA PushKeepsInv ==
  ASSUME TQInv, NEW id \in Tasks, pushTask(id)
  PROVE  TQInv'
PROOF
<1>. USE NoTaskIsNoTask DEF TQInv, TQTypeOK, WellFormedList
<1>1. CASE isWaiting(id)
  BY <1>1 DEF pushTask, queueVars, NoTaskTwice, EndsMatch, LinksMatch
<1>2. CASE ~isWaiting(id)
  <2>. DEFINE n == Len(posted)
  <2>1. /\ Link(id) /\ posted' = Append(posted, id) /\ outcome' = "SUCCESS"
    BY <1>2 DEF pushTask
  <2>2. /\ n \in Nat /\ Len(posted') = n + 1 /\ posted' \in Seq(Tasks)
        /\ posted'[n + 1] = id
        /\ \A i \in 1..n : posted'[i] = posted[i] /\ posted[i] \in Tasks
        /\ posted' # << >>
    BY <2>1
  <2>3. \A i \in 1..n : posted[i] # id
    BY <1>2, WaitingLemma DEF WaitingIsExact
  <2>4. m_head = NO_TASK <=> posted = << >>
    BY <2>2 DEF EndsMatch
  <2>5. CASE m_head = NO_TASK
    <3>1. posted = << >> /\ n = 0
      BY <2>4, <2>5
    <3>2. m_head' = id /\ m_tail' = id /\ m_next' = m_next
      BY <2>1, <2>5 DEF Link
    <3>3. TQTypeOK'
      BY <2>1, <2>2, <3>2
    <3>4. NoTaskTwice' /\ EndsMatch'
      BY <2>2, <3>1, <3>2 DEF NoTaskTwice, EndsMatch
    <3>5. LinksMatch'
      BY <2>2, <3>1, <3>2 DEF LinksMatch
    <3>. QED  BY <3>3, <3>4, <3>5
  <2>6. CASE m_head # NO_TASK
    <3>1. posted # << >> /\ n >= 1 /\ m_tail = posted[n] /\ m_tail \in Tasks
      BY <2>2, <2>4, <2>6 DEF EndsMatch
    <3>2. m_head' = m_head /\ m_tail' = id
          /\ m_next' = [m_next EXCEPT ![m_tail] = id]
      BY <2>1, <2>6 DEF Link
    <3>3. TQTypeOK'
      BY <2>1, <2>2, <3>2
    <3>4. NoTaskTwice'
      BY <2>2, <2>3 DEF NoTaskTwice
    <3>5. EndsMatch'
      BY <2>2, <3>1, <3>2 DEF EndsMatch
    <3>6. \A i \in 1..n : m_next'[posted'[i]] = posted'[i + 1]
      <4>1. SUFFICES ASSUME NEW i \in 1..n
                     PROVE  m_next'[posted'[i]] = posted'[i + 1]
        OBVIOUS
      <4>2. CASE i = n
        BY <2>2, <3>1, <3>2, <4>2
      <4>3. CASE i # n
        <5>1. i \in 1..(n - 1) /\ i + 1 \in 1..n
          BY <2>2, <4>3
        <5>2. posted[i] # m_tail
          BY <2>2, <3>1, <4>3 DEF NoTaskTwice
        <5>. QED  BY <2>2, <3>2, <5>1, <5>2 DEF LinksMatch
      <4>. QED  BY <4>2, <4>3
    <3>7. ASSUME NEW t \in Tasks, \A i \in 1..n : posted'[i] # t
          PROVE  m_next'[t] = NO_TASK
      <4>1. t # m_tail /\ \A i \in 1..(n - 1) : posted[i] # t
        BY <2>2, <3>1, <3>7
      <4>. QED  BY <3>2, <4>1 DEF LinksMatch
    <3>8. LinksMatch'
      BY <2>2, <3>6, <3>7 DEF LinksMatch
    <3>. QED  BY <3>3, <3>4, <3>5, <3>8
  <2>. QED  BY <2>5, <2>6
<1>. QED  BY <1>1, <1>2

(* popTask keeps the list well formed and returns the oldest waiting task. *)
LEMMA PopKeepsInv ==
  ASSUME TQInv, popTask
  PROVE  /\ TQInv'
         /\ posted = << >> => outcome' = NO_TASK /\ posted' = << >>
         /\ posted # << >> => outcome' = Head(posted) /\ posted' = Tail(posted)
PROOF
<1>. USE NoTaskIsNoTask DEF TQInv, TQTypeOK, WellFormedList
<1>1. m_head = NO_TASK <=> posted = << >>
  BY DEF EndsMatch
<1>2. CASE m_head = NO_TASK
  BY <1>1, <1>2 DEF popTask, queueVars, NoTaskTwice, EndsMatch, LinksMatch
<1>3. CASE m_head # NO_TASK
  <2>. DEFINE n == Len(posted)
  <2>1. posted # << >> /\ n \in Nat /\ n >= 1 /\ m_head = posted[1]
        /\ m_tail = posted[n] /\ m_head \in Tasks
    BY <1>1, <1>3 DEF EndsMatch
  <2>2. /\ Unlink /\ posted' = Tail(posted) /\ outcome' = m_head
    BY <1>3 DEF popTask
  <2>3. /\ Len(posted') = n - 1 /\ posted' \in Seq(Tasks)
        /\ \A i \in 1..(n - 1) : posted'[i] = posted[i + 1]
        /\ Head(posted) = posted[1]
        /\ n = 1 => posted' = << >>
        /\ n > 1 => posted' # << >>
    <3>1. posted \in Seq(Tasks) /\ posted # << >> /\ posted' = Tail(posted)
      BY <2>1, <2>2
    <3>2. /\ Len(posted') = n - 1 /\ posted' \in Seq(Tasks)
          /\ \A i \in 1..(n - 1) : posted'[i] = posted[i + 1]
          /\ Head(posted) = posted[1]
      BY <2>1, <3>1, HeadTailProperties
    <3>. QED  BY <2>1, <3>2, EmptySeq
  <2>4. \A i \in 1..n : posted[i] \in Tasks
    OBVIOUS
  <2>5. n > 1 => m_next[m_head] = posted[2]
    BY <2>1 DEF LinksMatch
  <2>6. n = 1 => m_next[m_head] = NO_TASK
    BY <2>1 DEF LinksMatch
  <2>7. /\ m_head' = m_next[m_head]
        /\ m_tail' = IF m_next[m_head] = NO_TASK THEN NO_TASK ELSE m_tail
        /\ m_next' = [m_next EXCEPT ![m_head] = NO_TASK]
    BY <2>2 DEF Unlink
  <2>8. TQTypeOK'
    BY <2>1, <2>2, <2>3, <2>7
  <2>9. NoTaskTwice'
    BY <2>1, <2>3 DEF NoTaskTwice
  <2>10. EndsMatch'
    BY <2>1, <2>3, <2>4, <2>5, <2>6, <2>7 DEF EndsMatch
  <2>11. \A i \in 1..(n - 2) : m_next'[posted'[i]] = posted'[i + 1]
    <3>1. SUFFICES ASSUME NEW i \in 1..(n - 2)
                   PROVE  m_next'[posted'[i]] = posted'[i + 1]
      OBVIOUS
    <3>2. i + 1 \in 1..(n - 1) /\ i \in 1..(n - 1) /\ i + 1 \in 1..n /\ 1 \in 1..n
      BY <2>1
    <3>3. posted[i + 1] # m_head
      BY <2>1, <3>2 DEF NoTaskTwice
    <3>4. m_next[posted[i + 1]] = posted[i + 2]
      BY <3>2 DEF LinksMatch
    <3>. QED  BY <2>1, <2>3, <2>4, <2>7, <3>2, <3>3, <3>4
  <2>12. ASSUME NEW t \in Tasks, \A i \in 1..(n - 2) : posted'[i] # t
         PROVE  m_next'[t] = NO_TASK
    <3>1. CASE t = m_head
      BY <2>1, <2>7, <3>1
    <3>2. CASE t # m_head
      <4>1. ASSUME NEW i \in 1..(n - 1) PROVE posted[i] # t
        <5>1. CASE i = 1
          BY <2>1, <3>2, <5>1
        <5>2. CASE i # 1
          <6>1. i - 1 \in 1..(n - 2) /\ i - 1 \in 1..(n - 1) /\ (i - 1) + 1 = i
            BY <2>1, <5>2
          <6>2. posted'[i - 1] = posted[i]
            BY <2>3, <6>1
          <6>. QED  BY <2>12, <6>1, <6>2
        <5>. QED  BY <5>1, <5>2
      <4>. QED  BY <2>7, <3>2, <4>1 DEF LinksMatch
    <3>. QED  BY <3>1, <3>2
  <2>13. LinksMatch'
    <3>1. Len(posted') - 1 = n - 2
      BY <2>1, <2>3
    <3>. QED  BY <2>11, <2>12, <3>1 DEF LinksMatch
  <2>. QED  BY <2>1, <2>2, <2>3, <2>8, <2>9, <2>10, <2>13
<1>. QED  BY <1>2, <1>3

-----------------------------------------------------------------------------
LEMMA InitInv == TQInit => TQInv
BY NoTaskIsNoTask DEF TQInit, TQInv, TQTypeOK, WellFormedList, NoTaskTwice,
                      EndsMatch, LinksMatch

LEMMA NextKeepsInv == TQInv /\ [TQNext]_tqVars => TQInv'
PROOF
<1>. SUFFICES ASSUME TQInv, [TQNext]_tqVars
              PROVE  TQInv'
  OBVIOUS
<1>1. CASE popTask
  BY <1>1, PopKeepsInv
<1>2. ASSUME NEW id \in Tasks, pushTask(id)
      PROVE  TQInv'
  BY <1>2, PushKeepsInv
<1>3. CASE UNCHANGED tqVars
  BY <1>3 DEF TQInv, TQTypeOK, WellFormedList, NoTaskTwice, EndsMatch,
              LinksMatch, tqVars
<1>. QED  BY <1>1, <1>2, <1>3 DEF TQNext

(* The links of the task queue always spell out, without repetition, the   *)
(* posted tasks in the order of their posts (popTask, pushTask).           *)
THEOREM QueueWellFormed == TQSpec => [](TQTypeOK /\ WellFormedList)
<1>. QED  BY InitInv, NextKeepsInv, PTL DEF TQSpec, TQInv

(* isWaiting() answers exactly whether the task waits, so a post is never  *)
(* refused wrongly and a task never queued twice.                          *)
THEOREM WaitingExact == TQSpec => []WaitingIsExact
<1>1. TQInv => WaitingIsExact
  BY WaitingLemma
<1>. QED  BY <1>1, InitInv, NextKeepsInv, PTL DEF TQSpec

(* The linked list implements the FIFO queue of the TaskBasic interface.   *)
THEOREM QueueIsFifo == TQSpec => ImplementsFifo
PROOF
<1>1. TQInit => Fifo!FifoInit
  BY DEF TQInit, Fifo!FifoInit
<1>2. ASSUME TQInv, [TQNext]_tqVars
      PROVE  [Fifo!FifoNext]_(Fifo!fifoVars)
  <2>1. CASE popTask
    BY <1>2, <2>1, PopKeepsInv DEF popTask, Fifo!FifoNext, Fifo!FifoRun
  <2>2. ASSUME NEW id \in Tasks, pushTask(id)
        PROVE  Fifo!FifoPost(id)
    <3>1. isWaiting(id) <=> Fifo!Waiting(id)
      BY <1>2, WaitingLemma DEF WaitingIsExact, Fifo!Waiting
    <3>. QED  BY <2>2, <3>1 DEF pushTask, Fifo!FifoPost
  <2>3. CASE UNCHANGED tqVars
    BY <2>3 DEF tqVars, Fifo!fifoVars
  <2>. QED  BY <1>2, <2>1, <2>2, <2>3 DEF TQNext, Fifo!FifoNext
<1>. QED  BY <1>1, <1>2, InitInv, NextKeepsInv, PTL
          DEF TQSpec, ImplementsFifo, Fifo!FifoSpec
=============================================================================
