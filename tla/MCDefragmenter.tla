---------------------------- MODULE MCDefragmenter --------------------------
(* Defragmenter on small sets of frames.  A unit is 8 bytes.               *)
EXTENDS Defragmenter, TLC

Fragment(k, total, offset, size, value, ok) ==
  [kind |-> "fragment", key |-> k, total |-> total, offset |-> offset,
   size |-> size, value |-> value, ok |-> ok]
Bad == [kind |-> "bad"]
Unusable == [kind |-> "unusable"]
Entire == [kind |-> "entire"]

(* Everything that can go wrong with a frame, around one short datagram:   *)
(* another size under the same key, and a fragment with a bad payload.     *)
AllKinds ==
  {Bad, Unusable, Entire,
   Fragment("k1", 2, 0, 1, 0, TRUE), Fragment("k1", 2, 1, 1, 0, TRUE),
   Fragment("k1", 3, 1, 1, 0, TRUE),
   Fragment("k2", 2, 0, 1, 0, FALSE)}

(* One datagram of four fragments of one or two units that come in any     *)
(* order, and any fragments of a datagram of four units, with either       *)
(* content.                                                                *)
AnyFragments ==
  {Fragment("k1", 6, 0, 1, 0, TRUE), Fragment("k1", 6, 1, 2, 0, TRUE),
   Fragment("k1", 6, 3, 1, 0, TRUE), Fragment("k1", 6, 4, 2, 0, TRUE)}
    \cup {c \in {Fragment("k2", 4, o, z, v, TRUE) : o \in 0..3, z \in 1..3,
                                                   v \in {0, 1}} :
            c.offset + c.size <= 4}

(* The same content sent once in single units and once with a larger piece.*)
Refragmented ==
  {Fragment("k1", 5, o, 1, 0, TRUE) : o \in 0..4}
    \cup {Fragment("k1", 5, 1, 3, 0, TRUE)}

FrameSymmetry == Permutations(Frames)
=============================================================================
