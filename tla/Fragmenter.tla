----------------------------- MODULE Fragmenter -----------------------------
(***************************************************************************)
(* The fragmenter of IPv6 packets (lib/lowpan/LoWPANFragmenterMainPrv.nc   *)
(* over uc6LoWPANFragmentation.c) and the send queue below it              *)
(* (LoWPANFragmenterSendQueueAdapterPrv.nc), as operations on records: a   *)
(* handler of one calls handlers of the other and of the forwarder, so     *)
(* their effects are composed where the calls are, in Forwarding.          *)
(***************************************************************************)
EXTENDS Integers, Sequences, FiniteSetsExt

CONSTANTS
  Tokens,           \* 0..FRAG_PACKET_POOL_SIZE-1; a token is its index + 1
  Packets,
  PacketLength,     \* the bytes of a packet, with its header
  FrameRoom,        \* the bytes of a frame that headers leave
  NULL

ASSUME FragmenterConstants ==
  /\ IsFiniteSet(Tokens) /\ Tokens # {} /\ Tokens = 0..(Cardinality(Tokens) - 1)
  /\ NULL \notin Packets /\ PacketLength \in [Packets -> Nat \ {0}]
  /\ FrameRoom \in Nat

-----------------------------------------------------------------------------
(* fr.token[t] is what the arrays m_tokenPtrs, m_tokenReadyFrames,         *)
(* m_tokenSentFrames and m_tokenFlags and the state under m_tokenPtrs hold *)
(* for t; fr.jobs is JobQueue; fr.posted: fragmentationTask is posted.     *)

NoToken == [packet |-> NULL, offset |-> 0, ready |-> NULL, sent |-> NULL,
            flags |-> {}]

FragmenterStart == [token |-> [t \in Tokens |-> NoToken],
                    jobs |-> <<>>, posted |-> FALSE]

FreeTokens(fr) == {t \in Tokens : fr.token[t].packet = NULL}

postIfNecessary(fr, t) ==
  IF "PROCESSED" \in fr.token[t].flags THEN fr
  ELSE [fr EXCEPT !.token[t].flags = @ \cup {"PROCESSED"},
                  !.jobs = Append(@, t), !.posted = TRUE]

Failed(fr, t) == [fr EXCEPT !.token[t].flags = @ \cup {"FAILED"}]

(* startFragmentingIpv6Packet, when there is a free token.  No packet here *)
(* is too long, or shorter than its header says, which it refuses as well. *)
startFragmenting(fr, t, p) ==
  postIfNecessary([fr EXCEPT !.token[t] = [NoToken EXCEPT !.packet = p]], t)

MayStop(fr, t) == "CANCELED" \notin fr.token[t].flags
stopFragmenting(fr, t) ==
  postIfNecessary([fr EXCEPT !.token[t].flags = @ \cup {"CANCELED"}], t)

(* The beginning of fragmentationTask, for t at the head of the queue.     *)
Dequeued(fr) ==
  LET t == Head(fr.jobs)
      rest == Tail(fr.jobs)
  IN [fr EXCEPT !.jobs = rest, !.posted = rest # <<>>,
                !.token[t].flags = @ \ {"PROCESSED"}]

IsStopped(tk) == tk.flags \cap {"CANCELED", "FAILED"} # {}
HasNext(tk) == tk.offset < PacketLength[tk.packet]

(* PackFirstFragment and PackSubsequentFragment: all that is left, or as   *)
(* much as the frame can hold in units of 8 bytes.  0 is an error.         *)
PackedSize(tk) ==
  LET left == PacketLength[tk.packet] - tk.offset
  IN IF left < FrameRoom THEN left ELSE FrameRoom - (FrameRoom % 8)

(* attemptToReserveFrame, and obtainNextFragment if there is a frame;      *)
(* packed: the headers fit into the frame.                                 *)
reserveAndObtain(fr, t, frame, packed) ==
  LET tk == fr.token[t]
      got == [fr EXCEPT !.token[t].ready = frame]
  IN IF frame = NULL
       THEN IF tk.sent = NULL THEN postIfNecessary(Failed(fr, t), t) ELSE fr
       ELSE IF ~packed \/ PackedSize(tk) = 0
              THEN postIfNecessary(Failed(got, t), t)
              ELSE postIfNecessary(
                     [got EXCEPT !.token[t].offset = @ + PackedSize(tk)], t)

(* sendFrameWithFragment, after the send queue has taken the frame or not. *)
sendFrame(fr, t, taken) ==
  postIfNecessary(
    IF taken THEN [fr EXCEPT !.token[t].sent = fr.token[t].ready,
                             !.token[t].ready = NULL]
             ELSE Failed(fr, t), t)

finishFragmenting(fr, t) == [fr EXCEPT !.token[t] = NoToken]
Statuses == {"SUCCESS", "ECANCEL", "FAIL"}
StatusOf(tk) == IF "CANCELED" \in tk.flags THEN "ECANCEL"
                ELSE IF "FAILED" \in tk.flags THEN "FAIL" ELSE "SUCCESS"

(* frameSendingFinished, for the token whose frame it is.                  *)
SentBy(fr, frame) == CHOOSE t \in Tokens : fr.token[t].sent = frame
fragmentSent_Slip(fr, frame, status) ==   \* the status is not looked at
  LET t == SentBy(fr, frame)
  IN postIfNecessary([fr EXCEPT !.token[t].sent = NULL], t)

fragmentSent(fr, frame, status) ==
  LET t == SentBy(fr, frame)
      done == [fr EXCEPT !.token[t].sent = NULL]
  IN postIfNecessary(IF status = "SUCCESS" THEN done ELSE Failed(done, t), t)

-----------------------------------------------------------------------------
(* sq.queue is FrameQueue, sq.sending is IsSendingBit, sq.posted:          *)
(* processQueueTask is posted.  stopSendingFrame always answers EBUSY.     *)

SendQueueStart == [queue |-> <<>>, sending |-> FALSE, posted |-> FALSE]

SendQueueTakes(sq) == Len(sq.queue) < Cardinality(Tokens)
startSending(sq, frame) ==
  IF SendQueueTakes(sq)
    THEN [sq EXCEPT !.queue = Append(@, frame), !.posted = TRUE]
    ELSE sq

(* processQueueTask has something to pass on, and it was accepted.         *)
MayPassOn(sq) == sq.queue # <<>> /\ ~sq.sending
passedOn(sq) == [sq EXCEPT !.sending = TRUE, !.posted = FALSE]

(* SubIeee154FrameSender.frameSendingFinished, for the frame at the head.  *)
sendingFinished_Slip(sq) ==              \* the queue is not looked at again
  [sq EXCEPT !.queue = Tail(@), !.sending = FALSE]

sendingFinished(sq) ==
  [sq EXCEPT !.queue = Tail(@), !.sending = FALSE, !.posted = TRUE]
=============================================================================
