----------------------------- MODULE Reassembly -----------------------------
(***************************************************************************)
(* The bookkeeping of one 6LoWPAN datagram under reassembly, as pure       *)
(* operators (microc/src/6lowpan/uc6LoWPANDefragmentation.c).              *)
(*                                                                         *)
(* A fragment specification is the interval of the datagram that has been  *)
(* received: [offset, size], in units of 8 bytes.  The specifications of a *)
(* datagram are a list whose first element, firstFragSpec, is part of the  *)
(* datagram's state and always has the offset 0; every other element comes *)
(* from a pool, of which only the number of free elements matters.         *)
(***************************************************************************)
EXTENDS Integers, Sequences, FiniteSets

Spec0 == [offset |-> 0, size |-> 0]           \* a firstFragSpec so far empty

End(s) == s.offset + s.size
Covers(s) == s.offset .. (End(s) - 1)
Coverage(list) == UNION {Covers(list[i]) : i \in 1..Len(list)}

(* The least interval that contains both.                                  *)
Hull(s, t) ==
  LET from == IF t.offset < s.offset THEN t.offset ELSE s.offset
      to == IF End(s) < End(t) THEN End(t) ELSE End(s)
  IN [offset |-> from, size |-> to - from]

(* ConcatenateNewFragSpecWithExistingOne(s, t): it can say "merged", and   *)
(* then s becomes the hull of both, "overlap" or "disjoint".               *)
Merged_Slip(s, t, identical) ==     \* different content is not noticed
  Hull(s, t).size = s.size + t.size \/ Hull(s, t) = s
Merged(s, t, identical) ==
  \/ Hull(s, t).size = s.size + t.size
  \/ Hull(s, t) = s /\ Hull(s, t).size < s.size + t.size /\ identical
Overlap(s, t, identical) ==
  Hull(s, t).size < s.size + t.size /\ ~Merged(s, t, identical)

-----------------------------------------------------------------------------
(* The outcome of a merge: the new list, the number of free elements, and  *)
(* whether the datagram can go on (a failure makes the caller destroy it). *)
Result(list, free, ok) == [specs |-> list, free |-> free, ok |-> ok]

Upto(list, k) == SubSeq(list, 1, k)
After(list, k) == SubSeq(list, k + 1, Len(list))

(* DestroyFragSpecsOfPacket gives back all elements but the first.         *)
FreedWith_Slip(list, free) == free + Len(list)      \* firstFragSpec as well
FreedWith(list, free) == free + Len(list) - 1

(* TryToConcatenateFragSpecWithNextOnList for the k-th element, which the  *)
(* new fragment has just been merged into.                                 *)
JoinNext_TailSlip(list, k, free, identical) ==  \* what follows is forgotten
  IF k < Len(list) /\ Merged(list[k], list[k + 1], identical)
    THEN Result(Upto(list, k - 1) \o <<Hull(list[k], list[k + 1])>>,
                free + Len(list) - k, TRUE)
    ELSE Result(list, free, TRUE)

JoinNext(list, k, free, identical) ==
  IF k = Len(list) THEN Result(list, free, TRUE)
  ELSE IF Merged(list[k], list[k + 1], identical)
    THEN Result(Upto(list, k - 1) \o <<Hull(list[k], list[k + 1])>>
                  \o After(list, k + 1), free + 1, TRUE)
  ELSE IF Overlap(list[k], list[k + 1], identical)
    THEN Result(Upto(list, k), free + Len(list) - k, TRUE)
  ELSE Result(list, free, TRUE)

(* FindWhereNewFragSpecShouldBeInserted: how many elements at the front of *)
(* the list start before the new fragment.                                 *)
InsertAfter(list, new) ==
  CHOOSE k \in 0..Len(list) :
    /\ \A i \in 1..k : list[i].offset < new.offset
    /\ k < Len(list) => new.offset <= list[k + 1].offset

(* The new fragment is merged into the k-th element, or takes a free       *)
(* element of its own behind it.                                           *)
Extend_Slip(list, k, new, free, identical) ==   \* the next one is not tried
  Result([list EXCEPT ![k] = Hull(@, new)], free, TRUE)
Extend(list, k, new, free, identical) ==
  JoinNext([list EXCEPT ![k] = Hull(@, new)], k, free, identical)
OwnElement(front, new, back, free) ==
  IF free = 0 THEN Result(front \o back, free, FALSE)
              ELSE Result(front \o <<new>> \o back, free - 1, TRUE)

(* MergeNewFragSpecIntoPacket(list, new)                                   *)
MergeFirst(list, new, free, identical) ==
  IF Merged(list[1], new, identical)
    THEN Extend(list, 1, new, free, identical)
    ELSE Result(<<new>>, FreedWith(list, free), TRUE)

MergeLater_Slip(list, new, free, identical) ==  \* the gap before is not seen
  LET k == InsertAfter(list, new)
  IN IF ~Overlap(list[k], new, identical)
       THEN Extend(list, k, new, free, identical)
       ELSE OwnElement(<<Spec0>>, new, << >>, FreedWith(list, free))

MergeLater(list, new, free, identical) ==
  LET k == InsertAfter(list, new)
  IN IF k = 0 THEN Result(list, free, FALSE)
     ELSE IF Merged(list[k], new, identical)
       THEN Extend(list, k, new, free, identical)
     ELSE IF Overlap(list[k], new, identical)
       THEN OwnElement(<<Spec0>>, new, << >>, FreedWith(list, free))
     ELSE IF k = Len(list) THEN OwnElement(list, new, << >>, free)
     ELSE IF Merged(list[k + 1], new, identical)
       THEN Result([list EXCEPT ![k + 1] = Hull(@, new)], free, TRUE)
     ELSE IF Overlap(list[k + 1], new, identical)
       THEN OwnElement(Upto(list, k), new, << >>, free + Len(list) - k)
     ELSE OwnElement(Upto(list, k), new, After(list, k), free)

MergeNewFragSpec(list, new, free, identical) ==
  IF new.offset = 0 THEN MergeFirst(list, new, free, identical)
                    ELSE MergeLater(list, new, free, identical)
=============================================================================
