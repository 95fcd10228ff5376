------------------------ MODULE Defragmenter_proofs -------------------------
(***************************************************************************)
(* Proofs about the defragmenter, for every set of frames, datagrams and   *)
(* fragments, whatever their sizes and contents: what merging a fragment   *)
(* does to the specifications of a datagram, and which stages, buffers,    *)
(* packets and specifications there are at the same time.                  *)
(***************************************************************************)
EXTENDS Defragmenter, FiniteSetTheorems, SequenceTheorems,
        WellFoundedInduction, TLAPS

FragSpecs == [offset : Nat, size : Nat]

(* What every list of specifications of a datagram is.                     *)
SpecList(list) ==
  /\ list \in Seq(FragSpecs) /\ Len(list) >= 1
  /\ list[1].offset = 0

-----------------------------------------------------------------------------
(* Intervals.                                                              *)
LEMMA LeastNatural ==
  ASSUME NEW T \in SUBSET Nat, T # {}
  PROVE  \E n \in T : \A m \in T : n <= m
<1>1. PICK n \in T : \A m \in T : ~(<<m, n>> \in OpToRel(<, Nat))
  BY NatLessThanWellFounded, WFMin
<1>2. \A m \in T : ~(m < n)
  BY <1>1 DEF OpToRel
<1> QED  BY <1>2

(* Two intervals are merged only if no unit between them is missing.       *)
LEMMA HullOfMerged ==
  ASSUME NEW s \in FragSpecs, NEW t \in FragSpecs
  PROVE  /\ Hull(s, t) \in FragSpecs
         /\ s.offset = 0 => Hull(s, t).offset = 0
         /\ \A identical :
              Merged(s, t, identical) =>
                Covers(Hull(s, t)) \subseteq Covers(s) \cup Covers(t)
<1> DEFINE h == Hull(s, t)
<1>1. /\ s.offset \in Nat /\ s.size \in Nat
      /\ t.offset \in Nat /\ t.size \in Nat
  BY DEF FragSpecs
<1>2. /\ h.offset = IF t.offset < s.offset THEN t.offset ELSE s.offset
      /\ h.size = (IF End(s) < End(t) THEN End(t) ELSE End(s)) - h.offset
      /\ h = [offset |-> h.offset, size |-> h.size]
  BY DEF Hull
<1>3. h.offset \in Nat /\ h.size \in Nat
  BY <1>1, <1>2 DEF End
<1>4. h \in FragSpecs
  BY <1>2, <1>3 DEF FragSpecs
<1>5. ASSUME NEW identical, Merged(s, t, identical)
      PROVE  Covers(h) \subseteq Covers(s) \cup Covers(t)
  <2>1. CASE h = s
    BY <2>1
  <2>2. CASE h.size = s.size + t.size
    <3> SUFFICES ASSUME NEW u \in Covers(h) PROVE u \in Covers(s) \cup Covers(t)
      OBVIOUS
    <3>1. u \in h.offset .. (h.offset + h.size - 1)
      BY <1>3 DEF Covers, End
    <3>2. \/ u \in s.offset .. (s.offset + s.size - 1)
          \/ u \in t.offset .. (t.offset + t.size - 1)
      BY <1>1, <1>2, <2>2, <3>1 DEF End
    <3> QED  BY <1>1, <3>2 DEF Covers, End
  <2> QED  BY <1>5, <2>1, <2>2 DEF Merged
<1>6. s.offset = 0 => h.offset = 0
  BY <1>1, <1>2
<1> QED  BY <1>4, <1>5, <1>6

(* The place of a new fragment exists, and is behind firstFragSpec if it   *)
(* does not start the datagram.                                            *)
LEMMA InsertionPoint ==
  ASSUME NEW list, SpecList(list), NEW new \in FragSpecs, new.offset # 0
  PROVE  LET k == InsertAfter(list, new)
         IN  /\ k \in 1..Len(list) /\ list[k].offset < new.offset
             /\ k # Len(list) => new.offset <= list[k + 1].offset
<1> DEFINE Later == {i \in 1..Len(list) : new.offset <= list[i].offset}
           Fits(k) == /\ \A i \in 1..k : list[i].offset < new.offset
                      /\ k < Len(list) => new.offset <= list[k + 1].offset
<1>1. /\ Len(list) \in Nat /\ \A i \in 1..Len(list) : list[i].offset \in Nat
      /\ new.offset \in Nat
  <2>1. \A i \in 1..Len(list) : list[i] \in FragSpecs
    BY DEF SpecList
  <2> QED  BY <2>1 DEF SpecList, FragSpecs
<1>2. \E k \in 0..Len(list) : Fits(k)
  <2>1. CASE Later = {}
    <3>1. Fits(Len(list))
      BY <1>1, <2>1
    <3> QED  BY <1>1, <3>1
  <2>2. CASE Later # {}
    <3>1. Later \in SUBSET Nat
      BY <1>1
    <3>2. PICK n \in Later : \A m \in Later : n <= m
      BY <2>2, <3>1, LeastNatural
    <3>3. n - 1 \in 0..Len(list) /\ n - 1 + 1 = n
      BY <1>1, <3>2
    <3>4. \A i \in 1..(n - 1) : i \in 1..Len(list) /\ i \notin Later
      BY <1>1, <3>2
    <3>5. Fits(n - 1)
      BY <1>1, <3>2, <3>3, <3>4
    <3> QED  BY <3>3, <3>5
  <2> QED  BY <2>1, <2>2
<1>3. /\ InsertAfter(list, new) \in 0..Len(list)
      /\ Fits(InsertAfter(list, new))
  BY <1>2 DEF InsertAfter
<1>4. InsertAfter(list, new) # 0
  BY <1>1, <1>3 DEF SpecList
<1> HIDE DEF Later
<1>5. ASSUME NEW k \in 0..Len(list), k # 0, Fits(k)
      PROVE  /\ k \in 1..Len(list) /\ list[k].offset < new.offset
             /\ k # Len(list) => new.offset <= list[k + 1].offset
  BY <1>1, <1>5
<1> HIDE DEF Fits
<1> QED  BY <1>3, <1>4, <1>5

-----------------------------------------------------------------------------
(* Lists of specifications: what their pieces cover.                       *)
LEMMA CoverageOf ==
  ASSUME NEW list
  PROVE  /\ \A i \in 1..Len(list) : Covers(list[i]) \subseteq Coverage(list)
         /\ \A X : (\A i \in 1..Len(list) : Covers(list[i]) \subseteq X) =>
                     Coverage(list) \subseteq X
<1>1. \A i \in 1..Len(list) : Covers(list[i]) \subseteq Coverage(list)
  BY DEF Coverage
<1>2. ASSUME NEW X, \A i \in 1..Len(list) : Covers(list[i]) \subseteq X,
             NEW u \in Coverage(list)
      PROVE  u \in X
  <2>1. PICK i \in 1..Len(list) : u \in Covers(list[i])
    BY <1>2 DEF Coverage
  <2> QED  BY <1>2, <2>1
<1> QED  BY <1>1, <1>2

LEMMA CoverageOfConcat ==
  ASSUME NEW s \in Seq(FragSpecs), NEW t \in Seq(FragSpecs)
  PROVE  Coverage(s \o t) \subseteq Coverage(s) \cup Coverage(t)
<1>1. /\ Len(s) \in Nat /\ Len(t) \in Nat
      /\ Len(s \o t) = Len(s) + Len(t)
      /\ \A i \in 1..(Len(s) + Len(t)) :
           (s \o t)[i] = IF i <= Len(s) THEN s[i] ELSE t[i - Len(s)]
  BY ConcatProperties
<1>2. ASSUME NEW i \in 1..Len(s \o t)
      PROVE  Covers((s \o t)[i]) \subseteq Coverage(s) \cup Coverage(t)
  <2>1. CASE i <= Len(s)
    <3>1. i \in 1..Len(s) /\ (s \o t)[i] = s[i]
      BY <1>1, <2>1
    <3> QED  BY <3>1, CoverageOf
  <2>2. CASE ~(i <= Len(s))
    <3>1. i - Len(s) \in 1..Len(t) /\ (s \o t)[i] = t[i - Len(s)]
      BY <1>1, <2>2
    <3> QED  BY <3>1, CoverageOf
  <2> QED  BY <2>1, <2>2
<1> QED  BY <1>2, CoverageOf

LEMMA CoverageOfOne ==
  ASSUME NEW s \in FragSpecs
  PROVE  /\ <<s>> \in Seq(FragSpecs) /\ Len(<<s>>) = 1 /\ <<s>>[1] = s
         /\ Coverage(<<s>>) = Covers(s)
<1>1. <<s>> \in Seq(FragSpecs) /\ Len(<<s>>) = 1 /\ <<s>>[1] = s
  OBVIOUS
<1>2. 1..1 = {1}
  OBVIOUS
<1> QED  BY <1>1, <1>2 DEF Coverage

LEMMA Pieces ==
  ASSUME NEW list, SpecList(list), NEW k \in 0..Len(list)
  PROVE  /\ Upto(list, k) \in Seq(FragSpecs) /\ Len(Upto(list, k)) = k
         /\ k >= 1 => Upto(list, k)[1].offset = 0
         /\ After(list, k) \in Seq(FragSpecs)
         /\ Len(After(list, k)) = Len(list) - k
         /\ Coverage(Upto(list, k)) \subseteq Coverage(list)
         /\ Coverage(After(list, k)) \subseteq Coverage(list)
<1>1. Len(list) \in Nat /\ \A i \in 1..Len(list) : list[i] \in FragSpecs
  BY DEF SpecList
<1>2. /\ Upto(list, k) \in Seq(FragSpecs) /\ Len(Upto(list, k)) = k
      /\ \A i \in 1..k : Upto(list, k)[i] = list[i]
  <2>1. \A i \in 1..k : list[i] \in FragSpecs
    BY <1>1
  <2> QED  BY <1>1, <2>1, SubSeqProperties DEF Upto
<1>3. /\ After(list, k) \in Seq(FragSpecs) /\ Len(After(list, k)) = Len(list) - k
      /\ \A i \in 1..(Len(list) - k) : After(list, k)[i] = list[k + i]
  <2>1. \A i \in (k + 1)..Len(list) : list[i] \in FragSpecs
    BY <1>1
  <2>2. /\ SubSeq(list, k + 1, Len(list)) \in Seq(FragSpecs)
        /\ Len(SubSeq(list, k + 1, Len(list))) =
             IF k + 1 <= Len(list) THEN Len(list) - (k + 1) + 1 ELSE 0
        /\ \A i \in 1..(Len(list) - (k + 1) + 1) :
             SubSeq(list, k + 1, Len(list))[i] = list[k + 1 + i - 1]
    BY <1>1, <2>1, SubSeqProperties
  <2> QED  BY <1>1, <2>2 DEF After
<1>4. Coverage(Upto(list, k)) \subseteq Coverage(list)
  <2>1. \A i \in 1..k : i \in 1..Len(list)
    BY <1>1
  <2>2. \A i \in 1..Len(Upto(list, k)) : Covers(Upto(list, k)[i]) \subseteq Coverage(list)
    BY <1>2, <2>1, CoverageOf
  <2> QED  BY <2>2, CoverageOf
<1>5. Coverage(After(list, k)) \subseteq Coverage(list)
  <2>1. \A i \in 1..(Len(list) - k) : k + i \in 1..Len(list)
    BY <1>1
  <2>2. \A i \in 1..Len(After(list, k)) : Covers(After(list, k)[i]) \subseteq Coverage(list)
    BY <1>3, <2>1, CoverageOf
  <2> QED  BY <2>2, CoverageOf
<1>6. k >= 1 => Upto(list, k)[1].offset = 0
  BY <1>2 DEF SpecList
<1> QED  BY <1>2, <1>3, <1>4, <1>5, <1>6

-----------------------------------------------------------------------------
(* What is asked of a merge of a fragment that covers more into list: a    *)
(* list again, which covers nothing but what list and the fragment do, and *)
(* no specification lost or given back twice.                              *)
GoodMerge(m, list, free, more) ==
  /\ SpecList(m.specs) /\ m.free \in Nat /\ m.ok \in BOOLEAN
  /\ Coverage(m.specs) \subseteq Coverage(list) \cup more
  /\ m.free + Len(m.specs) = free + Len(list)

LEMMA GoodResult ==
  ASSUME NEW l, SpecList(l), NEW n \in Nat, NEW b \in BOOLEAN,
         NEW list, NEW free, NEW more,
         Coverage(l) \subseteq Coverage(list) \cup more,
         n + Len(l) = free + Len(list)
  PROVE  GoodMerge(Result(l, n, b), list, free, more)
<1> DEFINE r == Result(l, n, b)
<1>1. r.specs = l /\ r.free = n /\ r.ok = b
  BY DEF Result
<1> HIDE DEF r
<1>2. GoodMerge(r, list, free, more)
  BY <1>1 DEF GoodMerge
<1> QED  BY <1>2 DEF r

LEMMA ExceptIsList ==
  ASSUME NEW list, SpecList(list), NEW k \in 1..Len(list), NEW new \in FragSpecs,
         NEW identical, Merged(list[k], new, identical)
  PROVE  LET l == [list EXCEPT ![k] = Hull(@, new)]
         IN  /\ SpecList(l) /\ Len(l) = Len(list)
             /\ Coverage(l) \subseteq Coverage(list) \cup Covers(new)
<1> DEFINE h == Hull(list[k], new)
           l == [list EXCEPT ![k] = h]
<1>1. Len(list) \in Nat /\ \A i \in 1..Len(list) : list[i] \in FragSpecs
  BY DEF SpecList
<1>2. /\ h \in FragSpecs /\ (list[k].offset = 0 => h.offset = 0)
      /\ Covers(h) \subseteq Covers(list[k]) \cup Covers(new)
  BY <1>1, HullOfMerged
<1> HIDE DEF h
<1>3. /\ l \in Seq(FragSpecs) /\ Len(l) = Len(list)
      /\ \A i \in 1..Len(list) : l[i] = IF i = k THEN h ELSE list[i]
  BY <1>2, ExceptSeq DEF SpecList
<1>4. Covers(h) \subseteq Coverage(list) \cup Covers(new)
  BY <1>2, CoverageOf
<1>5. \A i \in 1..Len(l) : Covers(l[i]) \subseteq Coverage(list) \cup Covers(new)
  BY <1>3, <1>4, CoverageOf
<1>6. SpecList(l)
  BY <1>1, <1>2, <1>3 DEF SpecList
<1>7. Coverage(l) \subseteq Coverage(list) \cup Covers(new)
  BY <1>5, CoverageOf
<1> QED  BY <1>3, <1>6, <1>7 DEF h

LEMMA JoinNextIsGood ==
  ASSUME NEW list, SpecList(list), NEW k \in 1..Len(list), NEW free \in Nat,
         NEW identical
  PROVE  GoodMerge(JoinNext(list, k, free, identical), list, free, {})
<1> DEFINE m == JoinNext(list, k, free, identical)
<1>1. Len(list) \in Nat /\ \A i \in 1..Len(list) : list[i] \in FragSpecs
  BY DEF SpecList
<1>2. GoodMerge(Result(list, free, TRUE), list, free, {})
  BY <1>1, GoodResult
<1>3. GoodMerge(Result(Upto(list, k), free + Len(list) - k, TRUE), list, free, {})
  <2>1. /\ SpecList(Upto(list, k)) /\ Len(Upto(list, k)) = k
        /\ Coverage(Upto(list, k)) \subseteq Coverage(list)
    BY <1>1, Pieces DEF SpecList
  <2>2. free + Len(list) - k \in Nat /\ free + Len(list) - k + k = free + Len(list)
    BY <1>1
  <2> QED  BY <2>1, <2>2, GoodResult
<1>4. ASSUME k # Len(list), Merged(list[k], list[k + 1], identical)
      PROVE  GoodMerge(Result(Upto(list, k - 1) \o <<Hull(list[k], list[k + 1])>>
                                \o After(list, k + 1), free + 1, TRUE),
                       list, free, {})
  <2> DEFINE h == Hull(list[k], list[k + 1])
             a == Upto(list, k - 1)
             b == After(list, k + 1)
  <2>1. k + 1 \in 1..Len(list) /\ k - 1 \in 0..Len(list) /\ k + 1 \in 0..Len(list)
    BY <1>1, <1>4
  <2>2. /\ h \in FragSpecs /\ (list[k].offset = 0 => h.offset = 0)
        /\ Covers(h) \subseteq Covers(list[k]) \cup Covers(list[k + 1])
    BY <1>1, <1>4, <2>1, HullOfMerged
  <2>3. Covers(h) \subseteq Coverage(list)
    BY <2>1, <2>2, CoverageOf
  <2>4. /\ a \in Seq(FragSpecs) /\ Len(a) = k - 1
        /\ k - 1 >= 1 => a[1].offset = 0
        /\ Coverage(a) \subseteq Coverage(list)
    BY <2>1, Pieces
  <2>5. /\ b \in Seq(FragSpecs) /\ Len(b) = Len(list) - (k + 1)
        /\ Coverage(b) \subseteq Coverage(list)
    BY <2>1, Pieces
  <2> HIDE DEF h, a, b
  <2>6. /\ a \o <<h>> \in Seq(FragSpecs) /\ Len(a \o <<h>>) = k
        /\ Coverage(a \o <<h>>) \subseteq Coverage(list)
        /\ (a \o <<h>>)[1].offset = 0
    <3>1. /\ a \o <<h>> \in Seq(FragSpecs) /\ Len(a \o <<h>>) = k
          /\ \A i \in 1..k : (a \o <<h>>)[i] = IF i <= k - 1 THEN a[i]
                                               ELSE <<h>>[i - (k - 1)]
      BY <2>2, <2>4, CoverageOfOne, ConcatProperties
    <3>2. Coverage(a \o <<h>>) \subseteq Coverage(list)
      <4>1. <<h>> \in Seq(FragSpecs) /\ Coverage(<<h>>) = Covers(h)
        BY <2>2, CoverageOfOne
      <4>2. Coverage(a \o <<h>>) \subseteq Coverage(a) \cup Coverage(<<h>>)
        BY <2>4, <4>1, CoverageOfConcat
      <4> QED  BY <2>3, <2>4, <4>1, <4>2
    <3>3. (a \o <<h>>)[1].offset = 0
      <4>1. CASE k = 1
        <5>1. (a \o <<h>>)[1] = h
          BY <3>1, <4>1
        <5> QED  BY <2>2, <4>1, <5>1 DEF SpecList
      <4>2. CASE k # 1
        <5>1. (a \o <<h>>)[1] = a[1] /\ k - 1 >= 1
          BY <3>1, <4>2
        <5> QED  BY <2>4, <5>1
      <4> QED  BY <4>1, <4>2
    <3> QED  BY <3>1, <3>2, <3>3
  <2>7. /\ a \o <<h>> \o b \in Seq(FragSpecs)
        /\ Len(a \o <<h>> \o b) = Len(list) - 1
        /\ Coverage(a \o <<h>> \o b) \subseteq Coverage(list)
        /\ (a \o <<h>> \o b)[1].offset = 0
    <3>1. /\ (a \o <<h>>) \o b \in Seq(FragSpecs)
          /\ Len((a \o <<h>>) \o b) = k + (Len(list) - (k + 1))
          /\ \A i \in 1..(k + (Len(list) - (k + 1))) :
               ((a \o <<h>>) \o b)[i] = IF i <= k THEN (a \o <<h>>)[i] ELSE b[i - k]
      <4>1. /\ (a \o <<h>>) \o b \in Seq(FragSpecs)
            /\ Len((a \o <<h>>) \o b) = Len(a \o <<h>>) + Len(b)
            /\ \A i \in 1..(Len(a \o <<h>>) + Len(b)) :
                 ((a \o <<h>>) \o b)[i] = IF i <= Len(a \o <<h>>)
                   THEN (a \o <<h>>)[i] ELSE b[i - Len(a \o <<h>>)]
        <5>1. ASSUME NEW x \in Seq(FragSpecs), NEW y \in Seq(FragSpecs)
              PROVE  /\ x \o y \in Seq(FragSpecs) /\ Len(x \o y) = Len(x) + Len(y)
                     /\ \A i \in 1..(Len(x) + Len(y)) :
                          (x \o y)[i] = IF i <= Len(x) THEN x[i] ELSE y[i - Len(x)]
          BY <5>1, ConcatProperties
        <5> DEFINE x == a \o <<h>>
        <5>2. x \in Seq(FragSpecs) /\ b \in Seq(FragSpecs)
          BY <2>5, <2>6
        <5> HIDE DEF x
        <5>3. /\ x \o b \in Seq(FragSpecs) /\ Len(x \o b) = Len(x) + Len(b)
              /\ \A i \in 1..(Len(x) + Len(b)) :
                   (x \o b)[i] = IF i <= Len(x) THEN x[i] ELSE b[i - Len(x)]
          BY <5>1, <5>2
        <5> QED  BY <5>3 DEF x
      <4>2. Len(a \o <<h>>) = k /\ Len(b) = Len(list) - (k + 1)
        BY <2>5, <2>6
      <4> QED  BY <4>1, <4>2
    <3>2. Coverage((a \o <<h>>) \o b) \subseteq Coverage(list)
      BY <2>5, <2>6, CoverageOfConcat
    <3>3. ((a \o <<h>>) \o b)[1] = (a \o <<h>>)[1]
      BY <1>1, <2>1, <3>1
    <3> QED  BY <1>1, <2>6, <3>1, <3>2, <3>3
  <2>8. SpecList(a \o <<h>> \o b)
    BY <1>1, <2>1, <2>7 DEF SpecList
  <2>9. GoodMerge(Result(a \o <<h>> \o b, free + 1, TRUE), list, free, {})
    <3> DEFINE l == a \o <<h>> \o b
    <3>1. SpecList(l) /\ Coverage(l) \subseteq Coverage(list) \cup {}
      BY <2>7, <2>8
    <3>2. free + 1 \in Nat /\ (free + 1) + Len(l) = free + Len(list)
      BY <1>1, <2>7
    <3> HIDE DEF l
    <3>3. GoodMerge(Result(l, free + 1, TRUE), list, free, {})
      BY <3>1, <3>2, GoodResult
    <3> QED  BY <3>3 DEF l
  <2> QED  BY <2>9 DEF a, b, h
<1> QED  BY <1>2, <1>3, <1>4 DEF JoinNext

(* A merge into a list that has taken the fragment in is one into list.    *)
LEMMA MergeOfMerge ==
  ASSUME NEW m, NEW l, NEW list, NEW free, NEW more,
         GoodMerge(m, l, free, {}), Len(l) = Len(list),
         Coverage(l) \subseteq Coverage(list) \cup more
  PROVE  GoodMerge(m, list, free, more)
BY DEF GoodMerge

LEMMA ExtendIsGood ==
  ASSUME NEW list, SpecList(list), NEW k \in 1..Len(list), NEW new \in FragSpecs,
         NEW free \in Nat, NEW identical, Merged(list[k], new, identical)
  PROVE  GoodMerge(Extend(list, k, new, free, identical), list, free, Covers(new))
<1> DEFINE l == [list EXCEPT ![k] = Hull(@, new)]
<1>1. /\ SpecList(l) /\ Len(l) = Len(list)
      /\ Coverage(l) \subseteq Coverage(list) \cup Covers(new)
  BY ExceptIsList
<1>2. Extend(list, k, new, free, identical) = JoinNext(l, k, free, identical)
  BY DEF Extend
<1> HIDE DEF l
<1>3. GoodMerge(JoinNext(l, k, free, identical), l, free, {})
  BY <1>1, JoinNextIsGood
<1> QED  BY <1>1, <1>2, <1>3, MergeOfMerge

LEMMA OwnElementIsGood ==
  ASSUME NEW front, SpecList(front), NEW back \in Seq(FragSpecs),
         NEW new \in FragSpecs, NEW n \in Nat,
         NEW list, NEW free,
         Coverage(front) \cup Coverage(back) \subseteq Coverage(list),
         n + Len(front) + Len(back) = free + Len(list)
  PROVE  GoodMerge(OwnElement(front, new, back, n), list, free, Covers(new))
<1>1. front \in Seq(FragSpecs) /\ Len(front) \in Nat /\ Len(back) \in Nat
  BY DEF SpecList
<1>2. CASE n = 0
  <2>1. /\ front \o back \in Seq(FragSpecs)
        /\ Len(front \o back) = Len(front) + Len(back)
        /\ \A i \in 1..(Len(front) + Len(back)) : (front \o back)[i] =
             IF i <= Len(front) THEN front[i] ELSE back[i - Len(front)]
    BY <1>1, ConcatProperties
  <2>2. SpecList(front \o back)
    BY <1>1, <2>1 DEF SpecList
  <2>3. Coverage(front \o back) \subseteq Coverage(list) \cup Covers(new)
    BY <1>1, CoverageOfConcat
  <2>4. n + Len(front \o back) = free + Len(list)
    BY <1>1, <2>1
  <2>5. GoodMerge(Result(front \o back, n, FALSE), list, free, Covers(new))
    BY <2>2, <2>3, <2>4, GoodResult
  <2> QED  BY <1>2, <2>5 DEF OwnElement
<1>3. CASE n # 0
  <2> DEFINE l == front \o <<new>>
  <2>1. /\ l \in Seq(FragSpecs) /\ Len(l) = Len(front) + 1
        /\ \A i \in 1..(Len(front) + 1) :
             l[i] = IF i <= Len(front) THEN front[i] ELSE <<new>>[i - Len(front)]
    BY <1>1, CoverageOfOne, ConcatProperties
  <2>2. Coverage(l) \subseteq Coverage(front) \cup Covers(new)
    <3>1. <<new>> \in Seq(FragSpecs) /\ Coverage(<<new>>) = Covers(new)
      BY CoverageOfOne
    <3>2. Coverage(front \o <<new>>) \subseteq Coverage(front) \cup Coverage(<<new>>)
      BY <1>1, <3>1, CoverageOfConcat
    <3> QED  BY <3>1, <3>2
  <2>3. l[1] = front[1]
    BY <1>1, <2>1 DEF SpecList
  <2> HIDE DEF l
  <2>4. /\ l \o back \in Seq(FragSpecs)
        /\ Len(l \o back) = Len(l) + Len(back)
        /\ \A i \in 1..(Len(l) + Len(back)) :
             (l \o back)[i] = IF i <= Len(l) THEN l[i] ELSE back[i - Len(l)]
    <3>1. l \in Seq(FragSpecs)
      BY <2>1
    <3> QED  BY <3>1, ConcatProperties
  <2>5. SpecList(l \o back)
    BY <1>1, <2>1, <2>3, <2>4 DEF SpecList
  <2>6. Coverage(l \o back) \subseteq Coverage(list) \cup Covers(new)
    <3>1. Coverage(l \o back) \subseteq Coverage(l) \cup Coverage(back)
      BY <2>1, CoverageOfConcat
    <3> QED  BY <2>2, <3>1
  <2>7. (n - 1) \in Nat /\ (n - 1) + Len(l \o back) = free + Len(list)
    BY <1>1, <1>3, <2>1, <2>4
  <2>8. GoodMerge(Result(l \o back, n - 1, TRUE), list, free, Covers(new))
    BY <2>5, <2>6, <2>7, GoodResult
  <2> QED  BY <1>3, <2>8 DEF OwnElement, l
<1> QED  BY <1>2, <1>3

LEMMA MergeFirstIsGood ==
  ASSUME NEW list, SpecList(list), NEW new \in FragSpecs, new.offset = 0,
         NEW free \in Nat, NEW identical
  PROVE  GoodMerge(MergeFirst(list, new, free, identical), list, free, Covers(new))
<1>1. Len(list) \in Nat /\ 1 \in 1..Len(list)
  BY DEF SpecList
<1>2. CASE Merged(list[1], new, identical)
  BY <1>1, <1>2, ExtendIsGood DEF MergeFirst
<1>3. CASE ~Merged(list[1], new, identical)
  <2>1. SpecList(<<new>>) /\ Len(<<new>>) = 1 /\ Coverage(<<new>>) = Covers(new)
    BY CoverageOfOne DEF SpecList
  <2>2. /\ FreedWith(list, free) \in Nat
        /\ FreedWith(list, free) + Len(<<new>>) = free + Len(list)
    BY <1>1, <2>1 DEF FreedWith, SpecList
  <2>3. GoodMerge(Result(<<new>>, FreedWith(list, free), TRUE), list, free, Covers(new))
    BY <2>1, <2>2, GoodResult
  <2> QED  BY <1>3, <2>3 DEF MergeFirst
<1> QED  BY <1>2, <1>3

LEMMA MergeLaterIsGood ==
  ASSUME NEW list, SpecList(list), NEW new \in FragSpecs, new.offset # 0,
         NEW free \in Nat, NEW identical
  PROVE  GoodMerge(MergeLater(list, new, free, identical), list, free, Covers(new))
<1> DEFINE k == InsertAfter(list, new)
<1>1. k \in 1..Len(list) /\ Len(list) \in Nat
  BY InsertionPoint DEF SpecList
<1>2. /\ SpecList(Upto(list, k)) /\ Len(Upto(list, k)) = k
      /\ Coverage(Upto(list, k)) \subseteq Coverage(list)
      /\ After(list, k) \in Seq(FragSpecs) /\ Len(After(list, k)) = Len(list) - k
      /\ Coverage(After(list, k)) \subseteq Coverage(list)
  <2>1. k \in 0..Len(list) /\ k >= 1
    BY <1>1
  <2> HIDE DEF k
  <2> QED  BY <2>1, Pieces DEF SpecList
<1>3. << >> \in Seq(FragSpecs) /\ Len(<< >>) = 0 /\ Coverage(<< >>) = {}
  <2>1. << >> \in Seq(FragSpecs) /\ Len(<< >>) = 0
    OBVIOUS
  <2>2. \A i \in 1..Len(<< >>) : Covers(<< >>[i]) \subseteq {}
    BY <2>1
  <2>3. Coverage(<< >>) \subseteq {}
    BY <2>2, CoverageOf
  <2> QED  BY <2>1, <2>3
<1>4. GoodMerge(OwnElement(<<Spec0>>, new, << >>, FreedWith(list, free)),
                list, free, Covers(new))
  <2>1. Spec0 \in FragSpecs /\ Spec0.offset = 0 /\ Covers(Spec0) = {}
    BY DEF Spec0, FragSpecs, Covers, End
  <2>2. SpecList(<<Spec0>>) /\ Len(<<Spec0>>) = 1 /\ Coverage(<<Spec0>>) = {}
    BY <2>1, CoverageOfOne DEF SpecList
  <2>3. /\ FreedWith(list, free) \in Nat
        /\ FreedWith(list, free) + Len(<<Spec0>>) + Len(<< >>) = free + Len(list)
    BY <1>1, <1>3, <2>2 DEF FreedWith
  <2> QED  BY <1>3, <2>2, <2>3, OwnElementIsGood
<1>5. GoodMerge(OwnElement(list, new, << >>, free), list, free, Covers(new))
  <2>1. free + Len(list) + Len(<< >>) = free + Len(list)
    BY <1>1, <1>3
  <2> QED  BY <1>3, <2>1, OwnElementIsGood
<1>6. GoodMerge(OwnElement(Upto(list, k), new, << >>, free + Len(list) - k),
                list, free, Covers(new))
  <2> HIDE DEF k
  <2>1. /\ free + Len(list) - k \in Nat
        /\ (free + Len(list) - k) + Len(Upto(list, k)) + Len(<< >>) = free + Len(list)
    BY <1>1, <1>2, <1>3
  <2> QED  BY <1>2, <1>3, <2>1, OwnElementIsGood
<1>7. GoodMerge(OwnElement(Upto(list, k), new, After(list, k), free),
                list, free, Covers(new))
  <2> HIDE DEF k
  <2>1. free + Len(Upto(list, k)) + Len(After(list, k)) = free + Len(list)
    BY <1>1, <1>2
  <2> QED  BY <1>2, <2>1, OwnElementIsGood
<1>8. ASSUME k # Len(list), Merged(list[k + 1], new, identical)
      PROVE  GoodMerge(Result([list EXCEPT ![k + 1] = Hull(@, new)], free, TRUE),
                       list, free, Covers(new))
  <2> HIDE DEF k
  <2>1. k + 1 \in 1..Len(list)
    BY <1>1, <1>8
  <2> DEFINE l == [list EXCEPT ![k + 1] = Hull(@, new)]
  <2>2. /\ SpecList(l) /\ Len(l) = Len(list)
        /\ Coverage(l) \subseteq Coverage(list) \cup Covers(new)
    BY <1>8, <2>1, ExceptIsList
  <2> HIDE DEF l
  <2>3. GoodMerge(Result(l, free, TRUE), list, free, Covers(new))
    BY <2>2, GoodResult
  <2> QED  BY <2>3 DEF l
<1>9. Merged(list[k], new, identical) =>
        GoodMerge(Extend(list, k, new, free, identical), list, free, Covers(new))
  <2> HIDE DEF k
  <2> QED  BY <1>1, ExtendIsGood
<1>10. k # 0
  BY <1>1
<1> QED  BY <1>4, <1>5, <1>6, <1>7, <1>8, <1>9, <1>10 DEF MergeLater

(* MergeNewFragSpecIntoPacket, for every fragment and every list: nothing  *)
(* is counted as received but what was received, and no element of the     *)
(* pool is lost or given back twice, also when the pool is dry.            *)
LEMMA MergeIsGood ==
  ASSUME NEW list, SpecList(list), NEW new \in FragSpecs,
         NEW free \in Nat, NEW identical
  PROVE  GoodMerge(MergeNewFragSpec(list, new, free, identical),
                   list, free, Covers(new))
BY MergeFirstIsGood, MergeLaterIsGood DEF MergeNewFragSpec

-----------------------------------------------------------------------------
(* The inductive invariant.  Frames: the queue holds received frames, each *)
(* once, and a buffer is in the queue or with the receiver.                *)
Once(q) == \A i, j \in 1..Len(q) : q[i] = q[j] => i = j
FramesInv ==
  /\ isOn \in BOOLEAN /\ posted \in BOOLEAN
  /\ queue \in Seq(Frames) /\ Len(queue) <= QueueSize /\ Once(queue)
  /\ content \in [Frames -> FrameKinds \cup {NULL}]
  /\ \A i \in 1..Len(queue) : content[queue[i]] \in FrameKinds
  /\ receiving \in (Frames \cup {NULL}) \ Queued
  /\ owned = Queued \cup ({receiving} \ {NULL})
  /\ TaskHasWork /\ ReceptionHasRoom

(* Stages: what the stage says of the frame at the head, of the locked     *)
(* datagram and of the ready packet.                                       *)
Whole(packet) ==
  packet.total \in Nat /\ packet.written = 0..(packet.total - 1)
StageInv ==
  /\ m_doneUntilNow \in Stages /\ m_processedPacket \in Slots \cup {NULL}
  /\ LockIsProcessed
  /\ queue = << >> => m_doneUntilNow = "NOTHING"
  /\ m_doneUntilNow = "LOCK_IPV6_PACKET" =>
       /\ Headers.kind = "fragment"
       /\ slot[m_processedPacket].key = Headers.key
       /\ slot[m_processedPacket].total = Headers.total
  /\ m_readyPacket # NULL => Whole(m_readyPacket)

(* Table: what a slot in use holds, and what is counted.                   *)
Datagram(d) ==
  /\ DOMAIN d = {"list", "packet", "key", "total", "specs", "start", "data",
                 "written"}
  /\ d.list \in {"current", "locked"} /\ d.packet = TRUE
  /\ d.total \in Nat /\ d.start \in 0..(ClockSize - 1)
  /\ SpecList(d.specs)
  /\ Coverage(d.specs) \subseteq d.written
  /\ d.written \subseteq 0..(d.total - 1)
  /\ d.data \in [0..(d.total - 1) -> Values]
TableInv ==
  /\ DOMAIN slot = Slots
  /\ \A s \in Slots : slot[s] = FreeSlot \/ Datagram(slot[s])
  /\ ~isOn => \A s \in Slots : slot[s] = FreeSlot
  /\ OneReassemblyPerKey
  /\ freeSpecs \in Nat /\ SpecsConserved /\ PacketsConserved

TimeInv ==
  /\ timeoutPending \in BOOLEAN /\ late \in BOOLEAN
  /\ now \in 0..(ClockSize - 1) /\ alarm \in 0..(ClockSize - 1) \cup {NULL}

DefragmenterInv == FramesInv /\ StageInv /\ TableInv /\ TimeInv

-----------------------------------------------------------------------------
(* Counting what the slots of a table hold.                                *)
Table(t) ==
  /\ DOMAIN t = Slots
  /\ \A s \in Slots : t[s] = FreeSlot \/ Datagram(t[s])

LEMMA UsedOrFree ==
  \A d : (d = FreeSlot \/ Datagram(d)) =>
           /\ d = FreeSlot <=> d.list = "free"
           /\ d = FreeSlot <=> ~d.packet
           /\ d # FreeSlot => /\ Datagram(d) /\ d.list \in {"current", "locked"}
                              /\ Len(d.specs) \in Nat \ {0}
<1> SUFFICES ASSUME NEW d, d = FreeSlot \/ Datagram(d)
             PROVE  /\ d = FreeSlot <=> d.list = "free"
                    /\ d = FreeSlot <=> ~d.packet
                    /\ d # FreeSlot => /\ Datagram(d)
                                       /\ d.list \in {"current", "locked"}
                                       /\ Len(d.specs) \in Nat \ {0}
  OBVIOUS
<1>1. FreeSlot.list = "free" /\ FreeSlot.packet = FALSE
  BY DEF FreeSlot
<1>2. Datagram(d) => /\ d.list \in {"current", "locked"} /\ d.packet = TRUE
                     /\ Len(d.specs) \in Nat \ {0}
  BY DEF Datagram, SpecList
<1> QED  BY <1>1, <1>2

LEMMA CountOne ==
  ASSUME NEW t, Table(t), NEW s \in Slots
  PROVE  /\ IsFiniteSet(HeldSpecs(t, {s}))
         /\ SpecsHeld(t, {s}) = IF t[s] = FreeSlot THEN 0 ELSE Len(t[s].specs) - 1
         /\ PacketsHeld(t, {s}) = IF t[s] = FreeSlot THEN 0 ELSE 1
<1>1. CASE t[s] = FreeSlot
  <2>1. t[s].list = "free" /\ t[s].packet = FALSE
    BY <1>1 DEF FreeSlot
  <2>2. HeldSpecs(t, {s}) = {} /\ {u \in {s} : t[u].packet} = {}
    BY <2>1 DEF HeldSpecs
  <2> QED  BY <1>1, <2>2, FS_EmptySet DEF SpecsHeld, PacketsHeld
<1>2. CASE t[s] # FreeSlot
  <2>1. t[s].list # "free" /\ t[s].packet = TRUE /\ Len(t[s].specs) \in Nat \ {0}
    BY <1>2, UsedOrFree DEF Table, Datagram
  <2>2. {u \in {s} : t[u].list # "free"} = {s} /\ {u \in {s} : t[u].packet} = {s}
    BY <2>1
  <2>3. HeldSpecs(t, {s}) = {s} \X (2..Len(t[s].specs))
    BY <2>2 DEF HeldSpecs
  <2>4. IsFiniteSet({s}) /\ Cardinality({s}) = 1
    BY FS_Singleton
  <2>5. /\ IsFiniteSet(2..Len(t[s].specs))
        /\ Cardinality(2..Len(t[s].specs)) = Len(t[s].specs) - 1
    BY <2>1, FS_Interval
  <2>6. /\ IsFiniteSet({s} \X (2..Len(t[s].specs)))
        /\ Cardinality({s} \X (2..Len(t[s].specs))) = Len(t[s].specs) - 1
    <3> DEFINE R == 2..Len(t[s].specs)
    <3>1. /\ IsFiniteSet({s} \X R)
          /\ Cardinality({s} \X R) = Cardinality({s}) * Cardinality(R)
      <4> HIDE DEF R
      <4>1. IsFiniteSet(R)
        BY <2>5 DEF R
      <4> QED  BY <2>4, <4>1, FS_Product
    <3> QED  BY <2>1, <2>4, <2>5, <3>1
  <2>7. SpecsHeld(t, {s}) = Len(t[s].specs) - 1 /\ IsFiniteSet(HeldSpecs(t, {s}))
    BY <2>3, <2>6 DEF SpecsHeld
  <2>8. PacketsHeld(t, {s}) = 1
    BY <2>2, <2>4 DEF PacketsHeld
  <2> QED  BY <1>2, <2>7, <2>8
<1> QED  BY <1>1, <1>2

LEMMA CountFinite ==
  ASSUME NEW t, Table(t), NEW A \in SUBSET Slots
  PROVE  /\ IsFiniteSet(A)
         /\ IsFiniteSet(HeldSpecs(t, A)) /\ SpecsHeld(t, A) \in Nat
         /\ IsFiniteSet({s \in A : t[s].packet}) /\ PacketsHeld(t, A) \in Nat
<1>1. IsFiniteSet(A)
  BY DefragmenterConstants, FS_Subset
<1> DEFINE used == {s \in A : t[s].list # "free"}
           parts == {{s} \X (2..Len(t[s].specs)) : s \in used}
<1>2. IsFiniteSet(used) /\ IsFiniteSet({s \in A : t[s].packet})
  BY <1>1, FS_Subset
<1>3. IsFiniteSet(parts)
  <2> DEFINE f == [s \in used |-> {s} \X (2..Len(t[s].specs))]
  <2>1. f \in Surjection(used, parts)
    BY DEF Surjection
  <2> QED  BY <1>2, <2>1, FS_Surjection
<1>4. \A P \in parts : IsFiniteSet(P)
  <2> SUFFICES ASSUME NEW s \in used PROVE IsFiniteSet({s} \X (2..Len(t[s].specs)))
    OBVIOUS
  <2>1. 2 \in Int /\ Len(t[s].specs) \in Int
    <3>1. Len(t[s].specs) \in Nat
      BY UsedOrFree DEF Table, FreeSlot
    <3> QED  BY <3>1
  <2>2. IsFiniteSet(2..Len(t[s].specs))
    BY <2>1, FS_Interval
  <2>3. IsFiniteSet({s})
    BY FS_Singleton
  <2> QED  BY <2>2, <2>3, FS_Product
<1>5. IsFiniteSet(HeldSpecs(t, A))
  BY <1>3, <1>4, FS_UNION DEF HeldSpecs
<1> QED  BY <1>1, <1>2, <1>5, FS_CardinalityType DEF SpecsHeld, PacketsHeld

LEMMA DisjointCount ==
  ASSUME NEW S, IsFiniteSet(S), NEW T, IsFiniteSet(T), S \cap T = {}
  PROVE  Cardinality(S \cup T) = Cardinality(S) + Cardinality(T)
<1>1. Cardinality(S) \in Nat /\ Cardinality(T) \in Nat
  BY FS_CardinalityType
<1>2. Cardinality(S \cup T) = Cardinality(S) + Cardinality(T) - Cardinality(S \cap T)
  BY FS_Union
<1>3. Cardinality(S \cap T) = 0
  BY FS_EmptySet
<1> QED  BY <1>1, <1>2, <1>3

LEMMA CountUnion ==
  ASSUME NEW t, Table(t), NEW A \in SUBSET Slots, NEW B \in SUBSET Slots,
         A \cap B = {}
  PROVE  /\ SpecsHeld(t, A \cup B) = SpecsHeld(t, A) + SpecsHeld(t, B)
         /\ PacketsHeld(t, A \cup B) = PacketsHeld(t, A) + PacketsHeld(t, B)
<1>1. /\ HeldSpecs(t, A \cup B) = HeldSpecs(t, A) \cup HeldSpecs(t, B)
      /\ HeldSpecs(t, A) \cap HeldSpecs(t, B) = {}
  BY DEF HeldSpecs
<1>2. /\ {s \in A \cup B : t[s].packet} =
           {s \in A : t[s].packet} \cup {s \in B : t[s].packet}
      /\ {s \in A : t[s].packet} \cap {s \in B : t[s].packet} = {}
  OBVIOUS
<1>3. /\ IsFiniteSet(HeldSpecs(t, A)) /\ IsFiniteSet(HeldSpecs(t, B))
      /\ IsFiniteSet({s \in A : t[s].packet}) /\ IsFiniteSet({s \in B : t[s].packet})
      /\ SpecsHeld(t, A) \in Nat /\ SpecsHeld(t, B) \in Nat
      /\ PacketsHeld(t, A) \in Nat /\ PacketsHeld(t, B) \in Nat
  BY CountFinite
<1>4. SpecsHeld(t, A \cup B) = SpecsHeld(t, A) + SpecsHeld(t, B)
  BY <1>1, <1>3, DisjointCount DEF SpecsHeld
<1>5. PacketsHeld(t, A \cup B) = PacketsHeld(t, A) + PacketsHeld(t, B)
  BY <1>2, <1>3, DisjointCount DEF PacketsHeld
<1> QED  BY <1>4, <1>5

LEMMA CountSame ==
  ASSUME NEW t, NEW u, NEW A, \A s \in A : t[s] = u[s]
  PROVE  SpecsHeld(t, A) = SpecsHeld(u, A) /\ PacketsHeld(t, A) = PacketsHeld(u, A)
<1>1. HeldSpecs(t, A) = HeldSpecs(u, A)
  BY DEF HeldSpecs
<1>2. {s \in A : t[s].packet} = {s \in A : u[s].packet}
  OBVIOUS
<1> QED  BY <1>1, <1>2 DEF SpecsHeld, PacketsHeld

LEMMA CountFree ==
  ASSUME NEW t, NEW A, \A s \in A : t[s] = FreeSlot
  PROVE  SpecsHeld(t, A) = 0 /\ PacketsHeld(t, A) = 0
<1>1. \A s \in A : t[s].list = "free" /\ t[s].packet = FALSE
  BY DEF FreeSlot
<1>2. HeldSpecs(t, A) = {} /\ {s \in A : t[s].packet} = {}
  BY <1>1 DEF HeldSpecs
<1> QED  BY <1>2, FS_EmptySet DEF SpecsHeld, PacketsHeld

(* What one slot counts for.                                               *)
SpecsOf(d) == IF d = FreeSlot THEN 0 ELSE Len(d.specs) - 1
PacketOf(d) == IF d = FreeSlot THEN 0 ELSE 1

(* A slot is written.                                                      *)
LEMMA UpdateCounts ==
  ASSUME NEW t, Table(t), NEW s \in Slots, NEW d, d = FreeSlot \/ Datagram(d)
  PROVE  /\ Table([t EXCEPT ![s] = d])
         /\ SpecsHeld([t EXCEPT ![s] = d], Slots) =
              SpecsHeld(t, Slots) - SpecsOf(t[s]) + SpecsOf(d)
         /\ PacketsHeld([t EXCEPT ![s] = d], Slots) =
              PacketsHeld(t, Slots) - PacketOf(t[s]) + PacketOf(d)
<1> DEFINE u == [t EXCEPT ![s] = d]
           rest == Slots \ {s}
<1>1. u[s] = d /\ DOMAIN u = Slots /\ \A r \in rest : u[r] = t[r]
  BY DEF Table
<1>2. Table(u)
  <2>1. \A r \in Slots : r # s => r \in rest
    OBVIOUS
  <2> QED  BY <1>1, <2>1 DEF Table
<1> HIDE DEF u
<1>3. Slots = rest \cup {s} /\ rest \cap {s} = {}
      /\ rest \in SUBSET Slots /\ {s} \in SUBSET Slots
  OBVIOUS
<1>4. /\ SpecsHeld(u, rest) = SpecsHeld(t, rest)
      /\ PacketsHeld(u, rest) = PacketsHeld(t, rest)
  BY <1>1, CountSame
<1> HIDE DEF rest
<1>5. /\ SpecsHeld(t, Slots) = SpecsHeld(t, rest) + SpecsHeld(t, {s})
      /\ PacketsHeld(t, Slots) = PacketsHeld(t, rest) + PacketsHeld(t, {s})
  BY <1>3, CountUnion
<1>6. /\ SpecsHeld(u, Slots) = SpecsHeld(u, rest) + SpecsHeld(u, {s})
      /\ PacketsHeld(u, Slots) = PacketsHeld(u, rest) + PacketsHeld(u, {s})
  BY <1>2, <1>3, CountUnion
<1>7. /\ SpecsHeld(t, {s}) = SpecsOf(t[s]) /\ PacketsHeld(t, {s}) = PacketOf(t[s])
      /\ SpecsHeld(u, {s}) = SpecsOf(d) /\ PacketsHeld(u, {s}) = PacketOf(d)
  BY <1>1, <1>2, CountOne DEF SpecsOf, PacketOf
<1>8. /\ SpecsHeld(t, rest) \in Nat /\ PacketsHeld(t, rest) \in Nat
      /\ SpecsHeld(t, {s}) \in Nat /\ PacketsHeld(t, {s}) \in Nat
      /\ SpecsHeld(u, {s}) \in Nat /\ PacketsHeld(u, {s}) \in Nat
  BY <1>2, <1>3, CountFinite
<1>9. SpecsHeld(u, Slots) = SpecsHeld(t, Slots) - SpecsOf(t[s]) + SpecsOf(d)
  BY <1>4, <1>5, <1>6, <1>7, <1>8
<1>10. PacketsHeld(u, Slots) = PacketsHeld(t, Slots) - PacketOf(t[s]) + PacketOf(d)
  BY <1>4, <1>5, <1>6, <1>7, <1>8
<1> QED  BY <1>2, <1>9, <1>10 DEF u

(* Slots are freed.                                                        *)
LEMMA DestroyCounts ==
  ASSUME NEW t, Table(t), NEW gone \in SUBSET Slots
  PROVE  /\ Table(Gone(t, gone))
         /\ SpecsHeld(Gone(t, gone), Slots) + SpecsHeld(t, gone) =
              SpecsHeld(t, Slots)
         /\ PacketsHeld(Gone(t, gone), Slots) + PacketsHeld(t, gone) =
              PacketsHeld(t, Slots)
<1> DEFINE u == Gone(t, gone)
           rest == Slots \ gone
<1>1. /\ DOMAIN u = Slots
      /\ \A s \in gone : u[s] = FreeSlot
      /\ \A s \in rest : u[s] = t[s]
  BY DEF Gone
<1>2. Table(u)
  <2>1. \A s \in Slots : s \in gone \/ s \in rest
    OBVIOUS
  <2> QED  BY <1>1, <2>1 DEF Table
<1> HIDE DEF u
<1>3. Slots = rest \cup gone /\ rest \cap gone = {} /\ rest \in SUBSET Slots
  OBVIOUS
<1>4. /\ SpecsHeld(u, rest) = SpecsHeld(t, rest)
      /\ PacketsHeld(u, rest) = PacketsHeld(t, rest)
  BY <1>1, CountSame
<1>5. SpecsHeld(u, gone) = 0 /\ PacketsHeld(u, gone) = 0
  BY <1>1, CountFree
<1> HIDE DEF rest
<1>6. /\ SpecsHeld(t, Slots) = SpecsHeld(t, rest) + SpecsHeld(t, gone)
      /\ PacketsHeld(t, Slots) = PacketsHeld(t, rest) + PacketsHeld(t, gone)
  BY <1>3, CountUnion
<1>7. /\ SpecsHeld(u, Slots) = SpecsHeld(u, rest) + SpecsHeld(u, gone)
      /\ PacketsHeld(u, Slots) = PacketsHeld(u, rest) + PacketsHeld(u, gone)
  BY <1>2, <1>3, CountUnion
<1>8. /\ SpecsHeld(t, rest) \in Nat /\ PacketsHeld(t, rest) \in Nat
      /\ SpecsHeld(t, gone) \in Nat /\ PacketsHeld(t, gone) \in Nat
  BY <1>3, CountFinite
<1>9. /\ SpecsHeld(u, Slots) + SpecsHeld(t, gone) = SpecsHeld(t, Slots)
      /\ PacketsHeld(u, Slots) + PacketsHeld(t, gone) = PacketsHeld(t, Slots)
  BY <1>4, <1>5, <1>6, <1>7, <1>8
<1> QED  BY <1>2, <1>9 DEF u

-----------------------------------------------------------------------------
(* startReceivingFrame: whatever it is called with and however the         *)
(* receiver and the allocator answer, the buffers owned are those in the   *)
(* queue and the one at the receiver.                                      *)
Rng(q) == {q[i] : i \in 1..Len(q)}
LEMMA StartReceivingBuffers ==
  ASSUME NEW q \in Seq(Frames), Len(q) <= QueueSize,
         NEW f \in (Frames \cup {NULL}) \ Rng(q),
         NEW busy \in (Frames \cup {NULL}) \ Rng(q),
         f = busy => f = NULL, busy # NULL => Len(q) < QueueSize,
         NEW mine, mine = Rng(q) \cup ({f, busy} \ {NULL}),
         StartReceiving(f, q, mine, busy)
  PROVE  /\ receiving' \in (Frames \cup {NULL}) \ Rng(q)
         /\ owned' = Rng(q) \cup ({receiving'} \ {NULL})
         /\ receiving' # NULL => Len(q) < QueueSize
<1>1. NULL \notin Frames /\ Len(q) \in Nat /\ QueueSize \in Nat /\ Rng(q) \subseteq Frames
  <2>1. \A i \in 1..Len(q) : q[i] \in Frames
    OBVIOUS
  <2> QED  BY <2>1, DefragmenterConstants DEF Rng
<1>2. ASSUME NEW g \in Frames \ Rng(q), NEW m,
             m = Rng(q) \cup ({g, busy} \ {NULL}), g # busy,
             Len(q) # QueueSize, HandOver(g, m, busy)
      PROVE  /\ receiving' \in (Frames \cup {NULL}) \ Rng(q)
             /\ owned' = Rng(q) \cup ({receiving'} \ {NULL})
             /\ receiving' # NULL => Len(q) < QueueSize
  <2>1. CASE busy = NULL /\ receiving' = g /\ owned' = m
    BY <1>1, <1>2, <2>1
  <2>2. CASE receiving' = busy /\ owned' = m \ {g}
    BY <1>1, <1>2, <2>2
  <2> QED  BY <1>2, <2>1, <2>2 DEF HandOver
<1>3. CASE Len(q) = QueueSize
  BY <1>1, <1>3 DEF StartReceiving
<1>4. CASE Len(q) # QueueSize /\ f # NULL
  <2>1. HandOver(f, mine, busy)
    BY <1>4 DEF StartReceiving
  <2> QED  BY <1>1, <1>2, <1>4, <2>1
<1>5. CASE Len(q) # QueueSize /\ f = NULL
  <2>1. CASE owned' = mine /\ receiving' = busy
    BY <1>1, <1>5, <2>1
  <2>2. CASE \E g \in Frames \ mine : HandOver(g, mine \cup {g}, busy)
    <3>1. PICK g \in Frames \ mine : HandOver(g, mine \cup {g}, busy)
      BY <2>2
    <3>2. /\ g \in Frames \ Rng(q) /\ g # busy
          /\ mine \cup {g} = Rng(q) \cup ({g, busy} \ {NULL})
      BY <1>1, <1>5, <3>1
    <3> QED  BY <1>2, <1>5, <3>1, <3>2
  <2> QED  BY <1>5, <2>1, <2>2 DEF StartReceiving
<1> QED  BY <1>3, <1>4, <1>5

LEMMA OnceTail ==
  ASSUME NEW q \in Seq(Frames), Once(q), q # << >>
  PROVE  /\ Tail(q) \in Seq(Frames) /\ Len(Tail(q)) = Len(q) - 1
         /\ Head(q) = q[1] /\ Head(q) \in Frames /\ Head(q) \in Rng(q)
         /\ Once(Tail(q)) /\ Rng(Tail(q)) = Rng(q) \ {Head(q)}
         /\ \A i \in 1..Len(Tail(q)) : Tail(q)[i] = q[i + 1]
<1>1. /\ Len(q) \in Nat \ {0} /\ \A i \in 1..Len(q) : q[i] \in Frames
      /\ Tail(q) \in Seq(Frames) /\ Len(Tail(q)) = Len(q) - 1
      /\ \A i \in 1..Len(Tail(q)) : Tail(q)[i] = q[i + 1]
      /\ Head(q) = q[1]
  OBVIOUS
<1>2. Once(Tail(q))
  BY <1>1 DEF Once
<1>3. ASSUME NEW f \in Rng(Tail(q)) PROVE f \in Rng(q) \ {Head(q)}
  <2>1. PICK i \in 1..Len(Tail(q)) : f = Tail(q)[i]
    BY DEF Rng
  <2>2. i + 1 \in 1..Len(q) /\ 1 \in 1..Len(q) /\ i + 1 # 1 /\ f = q[i + 1]
    BY <1>1, <2>1
  <2> QED  BY <1>1, <2>2 DEF Rng, Once
<1>4. ASSUME NEW f \in Rng(q), f # Head(q) PROVE f \in Rng(Tail(q))
  <2>1. PICK i \in 1..Len(q) : f = q[i]
    BY DEF Rng
  <2>2. i # 1
    BY <1>1, <1>4, <2>1
  <2>3. i - 1 \in 1..Len(Tail(q)) /\ f = Tail(q)[i - 1]
    BY <1>1, <2>1, <2>2
  <2> QED  BY <2>3 DEF Rng
<1>5. Head(q) \in Frames /\ Head(q) \in Rng(q)
  BY <1>1 DEF Rng
<1> QED  BY <1>1, <1>2, <1>3, <1>4, <1>5

LEMMA OnceAppend ==
  ASSUME NEW q \in Seq(Frames), Once(q), NEW f \in Frames \ Rng(q)
  PROVE  /\ Append(q, f) \in Seq(Frames) /\ Len(Append(q, f)) = Len(q) + 1
         /\ Once(Append(q, f)) /\ Rng(Append(q, f)) = Rng(q) \cup {f}
         /\ \A i \in 1..Len(q) : Append(q, f)[i] = q[i]
         /\ Append(q, f)[Len(q) + 1] = f
<1> DEFINE r == Append(q, f)
<1>1. /\ Len(q) \in Nat /\ \A i \in 1..Len(q) : q[i] \in Rng(q)
      /\ r \in Seq(Frames) /\ Len(r) = Len(q) + 1
      /\ \A i \in 1..Len(q) : r[i] = q[i]
      /\ r[Len(q) + 1] = f
  BY DEF Rng
<1> HIDE DEF r
<1>2. Once(r)
  <2> SUFFICES ASSUME NEW i \in 1..(Len(q) + 1), NEW j \in 1..(Len(q) + 1),
                      r[i] = r[j]
               PROVE  i = j
    BY <1>1 DEF Once
  <2>1. CASE i \in 1..Len(q) /\ j \in 1..Len(q)
    BY <1>1, <2>1 DEF Once
  <2>2. CASE i \in 1..Len(q) /\ j = Len(q) + 1
    BY <1>1, <2>2
  <2>3. CASE i = Len(q) + 1 /\ j \in 1..Len(q)
    BY <1>1, <2>3
  <2>4. CASE i = Len(q) + 1 /\ j = Len(q) + 1
    BY <2>4
  <2> QED  BY <1>1, <2>1, <2>2, <2>3, <2>4
<1>3. ASSUME NEW g \in Rng(r) PROVE g \in Rng(q) \cup {f}
  <2>1. PICK i \in 1..Len(r) : g = r[i]
    BY DEF Rng
  <2>2. CASE i \in 1..Len(q)
    BY <1>1, <2>1, <2>2
  <2>3. CASE i = Len(q) + 1
    BY <1>1, <2>1, <2>3
  <2> QED  BY <1>1, <2>1, <2>2, <2>3
<1>4. ASSUME NEW g \in Rng(q) \cup {f} PROVE g \in Rng(r)
  <2>1. CASE g = f
    <3>1. Len(q) + 1 \in 1..Len(r) /\ r[Len(q) + 1] = g
      BY <1>1, <2>1
    <3> QED  BY <3>1 DEF Rng
  <2>2. CASE g \in Rng(q)
    <3>1. PICK i \in 1..Len(q) : g = q[i]
      BY <2>2 DEF Rng
    <3>2. i \in 1..Len(r) /\ r[i] = g
      BY <1>1, <3>1
    <3> QED  BY <3>2 DEF Rng
  <2> QED  BY <2>1, <2>2
<1> QED  BY <1>1, <1>2, <1>3, <1>4 DEF r

-----------------------------------------------------------------------------
(* What an action leaves alone.                                            *)
LEMMA FramesKept ==
  ASSUME FramesInv, UNCHANGED <<isOn, posted, queue, content, owned, receiving>>
  PROVE  FramesInv' /\ Headers' = Headers
BY DEF FramesInv, Queued, Once, TaskHasWork, ReceptionHasRoom, Headers

LEMMA TableKept ==
  ASSUME TableInv, UNCHANGED <<slot, freeSpecs, live, m_readyPacket>>,
         isOn' \/ \A s \in Slots : slot[s] = FreeSlot
  PROVE  TableInv'
<1>1. OneReassemblyPerKey'
  BY DEF TableInv, OneReassemblyPerKey, Busy, On
<1>2. SpecsConserved' /\ PacketsConserved'
  BY DEF TableInv, SpecsConserved, PacketsConserved
<1> QED  BY <1>1, <1>2 DEF TableInv

(* stopProcessingFrameAndStartReceivingNewOne, for a frame at the head.    *)
LEMMA StopEffect ==
  ASSUME FramesInv, queue # << >>, Stop, UNCHANGED <<isOn, content>>
  PROVE  FramesInv' /\ m_doneUntilNow' = "NOTHING"
<1> DEFINE f == Head(queue)
           q == Tail(queue)
<1>1. /\ queue \in Seq(Frames) /\ Len(queue) <= QueueSize /\ Once(queue)
      /\ receiving \in (Frames \cup {NULL}) \ Rng(queue)
      /\ owned = Rng(queue) \cup ({receiving} \ {NULL})
      /\ receiving # NULL => Len(queue) < QueueSize
      /\ NULL \notin Frames /\ QueueSize \in Nat /\ Len(queue) \in Nat
  BY DefragmenterConstants DEF FramesInv, Queued, Rng, ReceptionHasRoom
<1>2. /\ q \in Seq(Frames) /\ Len(q) = Len(queue) - 1
      /\ f \in Frames /\ f \in Rng(queue)
      /\ Once(q) /\ Rng(q) = Rng(queue) \ {f}
      /\ \A i \in 1..Len(q) : q[i] = queue[i + 1]
  BY <1>1, OnceTail
<1>3. /\ queue' = q /\ StartReceiving(f, q, owned, receiving)
      /\ posted' = (q # << >>) /\ m_doneUntilNow' = "NOTHING"
  BY DEF Stop
<1> HIDE DEF f, q
<1>4. /\ receiving' \in (Frames \cup {NULL}) \ Rng(q)
      /\ owned' = Rng(q) \cup ({receiving'} \ {NULL})
      /\ receiving' # NULL => Len(q) < QueueSize
  <2>1. /\ Len(q) <= QueueSize
        /\ f \in (Frames \cup {NULL}) \ Rng(q)
        /\ receiving \in (Frames \cup {NULL}) \ Rng(q)
        /\ f # receiving /\ (receiving # NULL => Len(q) < QueueSize)
        /\ owned = Rng(q) \cup ({f, receiving} \ {NULL})
    BY <1>1, <1>2
  <2> QED  BY <1>2, <1>3, <2>1, StartReceivingBuffers
<1>5. \A i \in 1..Len(q) : content'[q[i]] \in FrameKinds
  <2> SUFFICES ASSUME NEW i \in 1..Len(q) PROVE content[queue[i + 1]] \in FrameKinds
    BY <1>2
  <2>1. i + 1 \in 1..Len(queue)
    BY <1>1, <1>2
  <2> QED  BY <2>1 DEF FramesInv
<1>6. isOn
  BY DEF FramesInv, TaskHasWork
<1>7. TaskHasWork' /\ ReceptionHasRoom'
  BY <1>3, <1>4, <1>6 DEF TaskHasWork, ReceptionHasRoom
<1>8. Queued' = Rng(q)
  BY <1>3 DEF Queued, Rng
<1>9. Len(q) <= QueueSize /\ isOn' \in BOOLEAN /\ posted' \in BOOLEAN
      /\ content' \in [Frames -> FrameKinds \cup {NULL}]
  BY <1>1, <1>2, <1>3 DEF FramesInv
<1>10. Once(queue')
  BY <1>2, <1>3
<1> QED  BY <1>2, <1>3, <1>4, <1>5, <1>7, <1>8, <1>9, <1>10 DEF FramesInv

-----------------------------------------------------------------------------
(* What is done to the table.                                              *)
LEMMA DestroyEffect ==
  ASSUME TableInv, NEW gone \in SUBSET Slots, Destroy(gone),
         UNCHANGED m_readyPacket, isOn'
  PROVE  /\ TableInv' /\ On("locked")' = On("locked") \ gone
         /\ \A s \in Slots \ gone : slot'[s] = slot[s]
<1>1. /\ Table(slot) /\ freeSpecs \in Nat
      /\ freeSpecs + SpecsHeld(slot, Slots) = SpecPoolSize
      /\ PacketsConserved /\ OneReassemblyPerKey
  BY DEF TableInv, Table, SpecsConserved
<1>2. /\ slot' = Gone(slot, gone)
      /\ freeSpecs' = freeSpecs + SpecsHeld(slot, gone)
      /\ live' = live - PacketsHeld(slot, gone)
  BY DEF Destroy
<1>3. /\ Table(slot')
      /\ SpecsHeld(slot', Slots) + SpecsHeld(slot, gone) = SpecsHeld(slot, Slots)
      /\ PacketsHeld(slot', Slots) + PacketsHeld(slot, gone) = PacketsHeld(slot, Slots)
  BY <1>1, <1>2, DestroyCounts
<1>4. /\ \A s \in Slots \ gone : slot'[s] = slot[s]
      /\ \A s \in gone : slot'[s].list = "free"
  BY <1>2 DEF Gone, FreeSlot
<1>5. /\ SpecsHeld(slot, gone) \in Nat /\ SpecsHeld(slot, Slots) \in Nat
      /\ SpecsHeld(slot', Slots) \in Nat
      /\ PacketsHeld(slot, gone) \in Nat /\ PacketsHeld(slot, Slots) \in Nat
      /\ PacketsHeld(slot', Slots) \in Nat /\ SpecPoolSize \in Nat
  BY <1>1, <1>3, CountFinite, DefragmenterConstants
<1>6. freeSpecs' \in Nat /\ SpecsConserved'
  BY <1>1, <1>2, <1>3, <1>5 DEF SpecsConserved
<1>7. PacketsConserved'
  BY <1>1, <1>2, <1>3, <1>5 DEF PacketsConserved
<1>8. OneReassemblyPerKey'
  BY <1>1, <1>4 DEF OneReassemblyPerKey, Busy, On
<1>9. On("locked")' = On("locked") \ gone
  BY <1>4 DEF On
<1> QED  BY <1>3, <1>4, <1>6, <1>7, <1>8, <1>9 DEF TableInv, Table

(* FindExistingOrAllocateNewPacketAndLockIt: a datagram found has the key  *)
(* and the size of the fragment, and is the only one that is locked.       *)
LEMMA FindEffect ==
  ASSUME TableInv, On("locked") = {}, NEW c \in FrameKinds, c.kind = "fragment",
         now \in 0..(ClockSize - 1),
         NEW r \in Slots \cup {NULL}, Find(c, r), UNCHANGED m_readyPacket, isOn'
  PROVE  /\ TableInv' /\ On("locked")' = {r} \ {NULL}
         /\ r # NULL => slot'[r].key = c.key /\ slot'[r].total = c.total
<1> DEFINE same == {s \in On("current") : slot[s].key = c.key}
           stale == {s \in same : slot[s].total # c.total}
           table == Gone(slot, stale)
<1>1. /\ Table(slot) /\ freeSpecs \in Nat
      /\ freeSpecs + SpecsHeld(slot, Slots) = SpecPoolSize
      /\ PacketsConserved /\ OneReassemblyPerKey
      /\ NULL \notin Slots /\ c.total \in Nat \ {0} /\ SpecPoolSize \in Nat
  BY DefragmenterConstants DEF TableInv, Table, SpecsConserved
<1>2. \A s \in Slots : /\ slot[s] = FreeSlot <=> slot[s].list = "free"
                       /\ slot[s] # FreeSlot => Datagram(slot[s])
                       /\ s \in Busy <=> s \in On("current")
                       /\ slot[s].list # "locked"
  <2>1. \A s \in Slots : slot[s].list # "locked"
    BY DEF On
  <2> QED  BY <1>1, <2>1, UsedOrFree DEF Table, Busy, On
<1>3. stale \in SUBSET Slots /\ same \in SUBSET Slots
  BY DEF On
<1>4. CASE same # stale
  <2>1. r \in same /\ slot' = [slot EXCEPT ![r].list = "locked"]
        /\ UNCHANGED <<freeSpecs, live>>
    BY <1>4 DEF Find
  <2>2. r \in Slots /\ slot[r].key = c.key /\ r \in Busy /\ slot[r] # FreeSlot
        /\ Datagram(slot[r])
    BY <1>2, <1>3, <2>1 DEF On, FreeSlot
  <2>3. slot[r].total = c.total
    <3>1. PICK s \in same : s \notin stale
      BY <1>4
    <3>2. s \in Busy /\ slot[s].key = c.key /\ slot[s].total = c.total
      BY <1>2, <1>3, <3>1
    <3>3. s = r
      BY <1>1, <2>2, <3>2 DEF OneReassemblyPerKey
    <3> QED  BY <3>2, <3>3
  <2> DEFINE d == [slot[r] EXCEPT !.list = "locked"]
  <2>4. slot' = [slot EXCEPT ![r] = d]
    BY <2>1
  <2>5. /\ Datagram(d) /\ d # FreeSlot /\ d.list = "locked" /\ d.key = slot[r].key
        /\ d.specs = slot[r].specs /\ d.total = slot[r].total
    <3>1. /\ DOMAIN d = DOMAIN slot[r] /\ d.list = "locked"
          /\ d.packet = slot[r].packet /\ d.key = slot[r].key
          /\ d.total = slot[r].total /\ d.specs = slot[r].specs
          /\ d.start = slot[r].start /\ d.data = slot[r].data
          /\ d.written = slot[r].written
      BY <2>2 DEF Datagram
    <3> HIDE DEF d
    <3>2. Datagram(d)
      BY <2>2, <3>1 DEF Datagram
    <3>3. d # FreeSlot
      BY <3>1 DEF FreeSlot
    <3> QED  BY <3>1, <3>2, <3>3
  <2> HIDE DEF d
  <2>6. slot'[r] = d /\ \A s \in Slots \ {r} : slot'[s] = slot[s]
    BY <1>1, <2>2, <2>4 DEF Table
  <2>7. /\ Table(slot')
        /\ SpecsHeld(slot', Slots) =
             SpecsHeld(slot, Slots) - SpecsOf(slot[r]) + SpecsOf(d)
        /\ PacketsHeld(slot', Slots) =
             PacketsHeld(slot, Slots) - PacketOf(slot[r]) + PacketOf(d)
    <3>1. Table(slot) /\ r \in Slots /\ Datagram(d)
      BY <1>1, <2>2, <2>5
    <3>2. /\ Table([slot EXCEPT ![r] = d])
          /\ SpecsHeld([slot EXCEPT ![r] = d], Slots) =
               SpecsHeld(slot, Slots) - SpecsOf(slot[r]) + SpecsOf(d)
          /\ PacketsHeld([slot EXCEPT ![r] = d], Slots) =
               PacketsHeld(slot, Slots) - PacketOf(slot[r]) + PacketOf(d)
      BY <3>1, UpdateCounts
    <3> QED  BY <2>4, <3>2
  <2>8. /\ SpecsHeld(slot', Slots) = SpecsHeld(slot, Slots)
        /\ PacketsHeld(slot', Slots) = PacketsHeld(slot, Slots)
    <3>1. SpecsOf(d) = SpecsOf(slot[r]) /\ PacketOf(d) = PacketOf(slot[r])
          /\ SpecsOf(d) \in Nat /\ PacketOf(d) \in Nat
      BY <2>2, <2>5, UsedOrFree DEF SpecsOf, PacketOf
    <3>2. SpecsHeld(slot, Slots) \in Nat /\ PacketsHeld(slot, Slots) \in Nat
      BY <1>1, CountFinite
    <3> QED  BY <2>7, <3>1, <3>2
  <2>9. freeSpecs' \in Nat /\ SpecsConserved' /\ PacketsConserved'
    BY <1>1, <2>1, <2>8 DEF SpecsConserved, PacketsConserved
  <2>10. Busy' = Busy /\ On("locked")' = {r}
    BY <1>2, <2>2, <2>5, <2>6 DEF Busy, On
  <2>11. OneReassemblyPerKey'
    <3>1. \A s \in Busy' : s \in Busy /\ slot'[s].key = slot[s].key
      BY <2>5, <2>6, <2>10 DEF Busy
    <3> QED  BY <1>1, <3>1 DEF OneReassemblyPerKey
  <2>12. slot'[r].key = c.key /\ slot'[r].total = c.total
    BY <2>2, <2>3, <2>5, <2>6
  <2> QED  BY <1>1, <2>2, <2>7, <2>9, <2>10, <2>11, <2>12 DEF TableInv, Table
<1>5. CASE same = stale /\ r = NULL /\ Destroy(stale)
  <2>1. TableInv' /\ On("locked")' = On("locked") \ stale
    BY <1>3, <1>5, DestroyEffect
  <2> QED  BY <1>5, <2>1
<1>6. ASSUME same = stale, NEW s \in Slots, table[s].list = "free",
             NEW memory \in [0..(c.total - 1) -> Values], r = s,
             slot' = [table EXCEPT ![s] = NewDatagram(c, memory)],
             freeSpecs' = freeSpecs + SpecsHeld(slot, stale),
             live' = live - PacketsHeld(slot, stale) + 1
      PROVE  /\ TableInv' /\ On("locked")' = {r} \ {NULL}
             /\ slot'[r].key = c.key /\ slot'[r].total = c.total
  <2> DEFINE d == NewDatagram(c, memory)
  <2>1. /\ Datagram(d) /\ d # FreeSlot /\ d.list = "locked" /\ d.key = c.key
        /\ d.total = c.total /\ Len(d.specs) = 1
    <3>1. /\ DOMAIN d = {"list", "packet", "key", "total", "specs", "start",
                         "data", "written"}
          /\ d.list = "locked" /\ d.packet = TRUE /\ d.key = c.key
          /\ d.total = c.total /\ d.specs = <<Spec0>> /\ d.start = now
          /\ d.data = memory /\ d.written = {}
      BY DEF NewDatagram
    <3> HIDE DEF d
    <3>2. Spec0 \in FragSpecs /\ Spec0.offset = 0 /\ Covers(Spec0) = {}
      BY DEF Spec0, FragSpecs, Covers, End
    <3>3. SpecList(d.specs) /\ Coverage(d.specs) = {} /\ Len(d.specs) = 1
      BY <3>1, <3>2, CoverageOfOne DEF SpecList
    <3>4. Datagram(d)
      BY <1>1, <3>1, <3>3 DEF Datagram
    <3>5. d # FreeSlot
      BY <3>1 DEF FreeSlot
    <3> QED  BY <3>1, <3>3, <3>4, <3>5
  <2> HIDE DEF d
  <2>2. /\ Table(table)
        /\ SpecsHeld(table, Slots) + SpecsHeld(slot, stale) = SpecsHeld(slot, Slots)
        /\ PacketsHeld(table, Slots) + PacketsHeld(slot, stale) =
             PacketsHeld(slot, Slots)
    BY <1>1, <1>3, DestroyCounts
  <2>3. /\ \A t \in stale : table[t] = FreeSlot
        /\ \A t \in Slots \ stale : table[t] = slot[t]
    BY <1>3 DEF Gone
  <2> HIDE DEF table
  <2>4. /\ Table(slot')
        /\ SpecsHeld(slot', Slots) =
             SpecsHeld(table, Slots) - SpecsOf(table[s]) + SpecsOf(d)
        /\ PacketsHeld(slot', Slots) =
             PacketsHeld(table, Slots) - PacketOf(table[s]) + PacketOf(d)
    <3>1. slot' = [table EXCEPT ![s] = d]
      BY <1>6 DEF d
    <3>2. Datagram(d) /\ Table(table) /\ s \in Slots
      BY <2>1, <2>2, <1>6
    <3>3. /\ Table([table EXCEPT ![s] = d])
          /\ SpecsHeld([table EXCEPT ![s] = d], Slots) =
               SpecsHeld(table, Slots) - SpecsOf(table[s]) + SpecsOf(d)
          /\ PacketsHeld([table EXCEPT ![s] = d], Slots) =
               PacketsHeld(table, Slots) - PacketOf(table[s]) + PacketOf(d)
      BY <3>2, UpdateCounts
    <3> QED  BY <3>1, <3>3
  <2>5. slot'[s] = d /\ \A t \in Slots \ {s} : slot'[t] = table[t]
    BY <1>6, <2>2 DEF Table, d
  <2>6. /\ SpecsOf(table[s]) = 0 /\ PacketOf(table[s]) = 0
        /\ SpecsOf(d) = 0 /\ PacketOf(d) = 1
    <3>1. table[s] = FreeSlot
      BY <1>6, <2>2, UsedOrFree DEF Table
    <3> QED  BY <2>1, <3>1 DEF SpecsOf, PacketOf
  <2>7. /\ SpecsHeld(slot, stale) \in Nat /\ SpecsHeld(slot, Slots) \in Nat
        /\ SpecsHeld(table, Slots) \in Nat
        /\ PacketsHeld(slot, stale) \in Nat /\ PacketsHeld(slot, Slots) \in Nat
        /\ PacketsHeld(table, Slots) \in Nat
    BY <1>1, <1>3, <2>2, CountFinite
  <2>8. freeSpecs' \in Nat /\ SpecsConserved'
    <3>1. /\ freeSpecs' = freeSpecs + SpecsHeld(slot, stale)
          /\ SpecsHeld(slot', Slots) = SpecsHeld(table, Slots) - 0 + 0
      BY <1>6, <2>4, <2>6
    <3>2. freeSpecs' + SpecsHeld(slot', Slots) = freeSpecs + SpecsHeld(slot, Slots)
      <4>1. \A held, gone, left, free \in Nat :
              left + gone = held => free + gone + (left - 0 + 0) = free + held
        OBVIOUS
      <4>2. SpecsHeld(table, Slots) + SpecsHeld(slot, stale) = SpecsHeld(slot, Slots)
        BY <2>2
      <4> QED  BY <1>1, <2>7, <3>1, <4>1, <4>2
    <3>3. freeSpecs' \in Nat
      BY <1>1, <2>7, <3>1
    <3> QED  BY <1>1, <3>2, <3>3 DEF SpecsConserved
  <2>9. PacketsConserved'
    <3>1. /\ live' = live - PacketsHeld(slot, stale) + 1
          /\ PacketsHeld(slot', Slots) = PacketsHeld(table, Slots) - 0 + 1
      BY <1>6, <2>4, <2>6
    <3> DEFINE ready == IF m_readyPacket = NULL THEN 0 ELSE 1
    <3>2. live = PacketsHeld(slot, Slots) + ready /\ ready \in Nat
      BY <1>1 DEF PacketsConserved
    <3>3. m_readyPacket' = m_readyPacket
      OBVIOUS
    <3> HIDE DEF ready
    <3>4. live' = PacketsHeld(slot', Slots) + ready
      <4>1. \A held, gone, left, free, all \in Nat :
              left + gone = held /\ all = held + free =>
                all - gone + 1 = left - 0 + 1 + free
        OBVIOUS
      <4>2. PacketsHeld(table, Slots) + PacketsHeld(slot, stale)
              = PacketsHeld(slot, Slots)
        BY <2>2
      <4>3. live \in Nat
        BY <2>7, <3>2
      <4> DEFINE held == PacketsHeld(slot, Slots)
                 gone == PacketsHeld(slot, stale)
                 left == PacketsHeld(table, Slots)
      <4>4. held \in Nat /\ gone \in Nat /\ left \in Nat
        BY <2>7
      <4>5. left + gone = held /\ live = held + ready
        BY <3>2, <4>2
      <4>6. live' = live - gone + 1 /\ PacketsHeld(slot', Slots) = left - 0 + 1
        BY <3>1
      <4> HIDE DEF held, gone, left
      <4>7. live - gone + 1 = left - 0 + 1 + ready
        BY <3>2, <4>1, <4>3, <4>4, <4>5
      <4> QED  BY <4>6, <4>7
    <3> QED  BY <3>3, <3>4 DEF PacketsConserved, ready
  <2>10. \A t \in Slots \ {s} : slot'[t].list # "free" =>
           slot'[t] = slot[t] /\ t \in Busy /\ t \notin same
    BY <1>6, <2>3, <2>5 DEF FreeSlot, Busy, On
  <2>11. OneReassemblyPerKey'
    <3>1. \A t \in Slots \ {s} : slot'[t].list # "free" =>
            slot'[t].key # c.key
      BY <1>2, <2>10
    <3>2. slot'[s].key = c.key
      BY <2>1, <2>5
    <3> SUFFICES ASSUME NEW t \in Slots, NEW u \in Slots,
                        slot'[t].list # "free", slot'[u].list # "free",
                        slot'[t].key = slot'[u].key
                 PROVE  t = u
      BY DEF OneReassemblyPerKey, Busy, On
    <3> QED  BY <1>1, <2>10, <3>1, <3>2 DEF OneReassemblyPerKey
  <2>12. On("locked")' = {s}
    <3>1. \A t \in Slots \ {s} : slot'[t].list # "locked"
      BY <1>2, <2>10
    <3> QED  BY <2>1, <2>5, <3>1 DEF On
  <2>13. slot'[r].key = c.key /\ slot'[r].total = c.total /\ {r} \ {NULL} = {s}
    BY <1>1, <1>6, <2>1, <2>5
  <2> QED  BY <2>4, <2>8, <2>9, <2>11, <2>12, <2>13 DEF TableInv, Table
<1>7. CASE same = stale
  <2>1. \/ r = NULL /\ Destroy(stale)
        \/ \E s \in {s \in Slots : table[s].list = "free"},
              memory \in [0..(c.total - 1) -> Values] :
             /\ r = s
             /\ slot' = [table EXCEPT ![s] = NewDatagram(c, memory)]
             /\ freeSpecs' = freeSpecs + SpecsHeld(slot, stale)
             /\ live' = live - PacketsHeld(slot, stale) + 1
    BY <1>7 DEF Find
  <2> QED  BY <1>5, <1>6, <1>7, <2>1
<1> QED  BY <1>4, <1>7

(* PassFrameWithIpv6PacketFragment with the locked datagram s.  Where it   *)
(* finds the datagram complete, every unit has been written.               *)
LEMMA PassFragmentEffect ==
  ASSUME TableInv, NEW s \in Slots, On("locked") = {s}, m_readyPacket = NULL,
         NEW c \in FrameKinds, c.kind = "fragment", slot[s].total = c.total,
         PassFragment(s, c), isOn'
  PROVE  /\ TableInv' /\ On("locked")' = {}
         /\ m_readyPacket' # NULL => Whole(m_readyPacket')
<1> DEFINE m == Merge(s, c)
           d == Filled(s, c, m)
           new == [offset |-> c.offset, size |-> c.size]
           list == slot[s].specs
<1>1. /\ Table(slot) /\ freeSpecs \in Nat
      /\ freeSpecs + SpecsHeld(slot, Slots) = SpecPoolSize
      /\ live = PacketsHeld(slot, Slots) /\ OneReassemblyPerKey
      /\ SpecPoolSize \in Nat
      /\ c.total \in Nat \ {0} /\ c.offset \in Nat /\ c.size \in Nat
      /\ c.offset + c.size <= c.total /\ c.value \in Values
      /\ SpecsHeld(slot, Slots) \in Nat /\ PacketsHeld(slot, Slots) \in Nat
  <2>1. Table(slot) /\ PacketsHeld(slot, Slots) \in Nat
    BY CountFinite DEF TableInv, Table
  <2>2. SpecsHeld(slot, Slots) \in Nat /\ SpecPoolSize \in Nat
    BY <2>1, CountFinite, DefragmenterConstants
  <2>3. /\ c.total \in Nat \ {0} /\ c.offset \in Nat /\ c.size \in Nat
        /\ c.offset + c.size <= c.total /\ c.value \in Values
    BY DefragmenterConstants
  <2>4. live = PacketsHeld(slot, Slots)
    BY <2>1 DEF TableInv, PacketsConserved
  <2> QED  BY <2>1, <2>2, <2>3, <2>4 DEF TableInv, SpecsConserved
<1>2. /\ slot[s].list = "locked" /\ slot[s] # FreeSlot /\ Datagram(slot[s])
      /\ \A t \in Slots \ {s} : slot[t].list # "locked"
  BY <1>1 DEF On, Table, FreeSlot
<1>3. /\ new \in FragSpecs /\ Covers(new) = Covers(c)
      /\ Covers(c) \subseteq 0..(c.total - 1)
  BY <1>1 DEF FragSpecs, Covers, End
<1>4. GoodMerge(m, list, freeSpecs, Covers(c))
  <2>1. GoodMerge(MergeNewFragSpec(list, new, freeSpecs, Identical(s, c)),
                  list, freeSpecs, Covers(new))
    BY <1>1, <1>2, <1>3, MergeIsGood DEF Datagram
  <2> QED  BY <1>3, <2>1 DEF Merge
<1> HIDE DEF m, new
<1>5. /\ SpecList(m.specs) /\ m.free \in Nat /\ Len(m.specs) \in Nat \ {0}
      /\ Len(list) \in Nat \ {0}
      /\ m.free + Len(m.specs) = freeSpecs + Len(list)
      /\ Coverage(m.specs) \subseteq slot[s].written \cup Covers(c)
      /\ slot[s].written \subseteq 0..(c.total - 1)
  BY <1>2, <1>4 DEF GoodMerge, SpecList, Datagram
<1>6. /\ Datagram(d) /\ d # FreeSlot /\ d.list = "current" /\ d.key = slot[s].key
      /\ d.specs = m.specs /\ d.total = c.total
      /\ d.written = slot[s].written \cup Covers(c)
  <2>1. /\ DOMAIN d = DOMAIN slot[s] /\ d.list = "current" /\ d.key = slot[s].key
        /\ d.packet = slot[s].packet /\ d.total = slot[s].total
        /\ d.specs = m.specs /\ d.start = slot[s].start
        /\ d.data = [u \in DOMAIN slot[s].data |->
                       IF u \in Covers(c) THEN c.value ELSE slot[s].data[u]]
        /\ d.written = slot[s].written \cup Covers(c)
    BY <1>2 DEF Filled, Datagram
  <2> HIDE DEF d
  <2>2. d.data \in [0..(c.total - 1) -> Values]
    BY <1>1, <1>2, <2>1 DEF Datagram
  <2>3. Datagram(d)
    BY <1>2, <1>3, <1>5, <2>1, <2>2 DEF Datagram
  <2>4. d # FreeSlot
    BY <2>1 DEF FreeSlot
  <2> QED  BY <2>1, <2>3, <2>4
<1> HIDE DEF d
<1>7. /\ SpecsOf(slot[s]) = Len(list) - 1 /\ PacketOf(slot[s]) = 1
      /\ SpecsOf(d) = Len(m.specs) - 1 /\ PacketOf(d) = 1
      /\ SpecsOf(FreeSlot) = 0 /\ PacketOf(FreeSlot) = 0
  BY <1>2, <1>6 DEF SpecsOf, PacketOf
<1> HIDE DEF list
<1>8. ASSUME NEW e, e = FreeSlot \/ Datagram(e), slot' = [slot EXCEPT ![s] = e],
             e.list # "locked", e = FreeSlot \/ e.key = slot[s].key
      PROVE  /\ Table(slot') /\ On("locked")' = {} /\ OneReassemblyPerKey'
             /\ SpecsHeld(slot', Slots) =
                  SpecsHeld(slot, Slots) - (Len(list) - 1) + SpecsOf(e)
             /\ PacketsHeld(slot', Slots) =
                  PacketsHeld(slot, Slots) - 1 + PacketOf(e)
  <2>1. /\ Table([slot EXCEPT ![s] = e])
        /\ SpecsHeld([slot EXCEPT ![s] = e], Slots) =
             SpecsHeld(slot, Slots) - SpecsOf(slot[s]) + SpecsOf(e)
        /\ PacketsHeld([slot EXCEPT ![s] = e], Slots) =
             PacketsHeld(slot, Slots) - PacketOf(slot[s]) + PacketOf(e)
    BY <1>1, <1>8, UpdateCounts
  <2>2. slot'[s] = e /\ \A t \in Slots \ {s} : slot'[t] = slot[t]
    BY <1>1, <1>8 DEF Table
  <2>3. On("locked")' = {}
    BY <1>2, <1>8, <2>2 DEF On
  <2>4. \A t \in Slots : slot'[t].list # "free" =>
                           slot[t].list # "free" /\ slot'[t].key = slot[t].key
    BY <1>2, <1>8, <2>2 DEF FreeSlot
  <2>5. OneReassemblyPerKey'
    BY <1>1, <2>4 DEF OneReassemblyPerKey, Busy, On
  <2> QED  BY <1>7, <1>8, <2>1, <2>3, <2>5
<1>9. ASSUME NEW n \in Nat, freeSpecs' \in Nat,
              freeSpecs' + n = freeSpecs + Len(list) - 1,
              SpecsHeld(slot', Slots) = SpecsHeld(slot, Slots) - (Len(list) - 1) + n
       PROVE  freeSpecs' \in Nat /\ SpecsConserved'
  <2>1. /\ Len(list) \in Nat /\ freeSpecs \in Nat /\ SpecsHeld(slot, Slots) \in Nat
        /\ freeSpecs + SpecsHeld(slot, Slots) = SpecPoolSize
    BY <1>1, <1>5
  <2>2. freeSpecs' + SpecsHeld(slot', Slots) = SpecPoolSize
    BY <1>9, <2>1
  <2> QED  BY <1>9, <2>2 DEF SpecsConserved
<1>10. FreeSlot.list # "locked"
  BY DEF FreeSlot
<1>11. CASE ~c.ok
  <2>1. m_readyPacket' = NULL /\ Destroy({s})
    BY <1>11 DEF PassFragment
  <2>2. TableInv' /\ On("locked")' = On("locked") \ {s}
    BY <2>1, DestroyEffect
  <2> QED  BY <2>1, <2>2
<1>12. CASE c.ok /\ ~m.ok
  <2>1. /\ m_readyPacket' = NULL /\ slot' = [slot EXCEPT ![s] = FreeSlot]
        /\ freeSpecs' = m.free + Len(m.specs) - 1 /\ live' = live - 1
    BY <1>12 DEF PassFragment, FreedWith, m
  <2>2. /\ Table(slot') /\ On("locked")' = {} /\ OneReassemblyPerKey'
        /\ SpecsHeld(slot', Slots) =
             SpecsHeld(slot, Slots) - (Len(list) - 1) + SpecsOf(FreeSlot)
        /\ PacketsHeld(slot', Slots) =
             PacketsHeld(slot, Slots) - 1 + PacketOf(FreeSlot)
    BY <1>8, <1>10, <2>1
  <2>3. freeSpecs' \in Nat /\ SpecsConserved'
    <3>1. /\ m.free \in Nat /\ Len(m.specs) \in Nat \ {0} /\ Len(list) \in Nat
          /\ m.free + Len(m.specs) = freeSpecs + Len(list) /\ freeSpecs \in Nat
      BY <1>1, <1>5
    <3>2. freeSpecs' \in Nat
      BY <2>1, <3>1
    <3>3. SpecsOf(FreeSlot) \in Nat /\ freeSpecs' + SpecsOf(FreeSlot) = freeSpecs + Len(list) - 1
      BY <1>7, <2>1, <3>1
    <3> QED  BY <1>9, <2>2, <3>2, <3>3
  <2>4. PacketsConserved'
    BY <1>1, <1>7, <2>1, <2>2 DEF PacketsConserved
  <2> QED  BY <2>1, <2>2, <2>3, <2>4 DEF TableInv, Table
<1>13. CASE c.ok /\ m.ok /\ m.specs[1].size = c.total
  <2>1. /\ m_readyPacket' = [total |-> d.total, written |-> d.written]
        /\ slot' = [slot EXCEPT ![s] = FreeSlot]
        /\ freeSpecs' = m.free + Len(m.specs) - 1 /\ live' = live
    BY <1>13 DEF PassFragment, FreedWith, m, d
  <2>2. /\ Table(slot') /\ On("locked")' = {} /\ OneReassemblyPerKey'
        /\ SpecsHeld(slot', Slots) =
             SpecsHeld(slot, Slots) - (Len(list) - 1) + SpecsOf(FreeSlot)
        /\ PacketsHeld(slot', Slots) =
             PacketsHeld(slot, Slots) - 1 + PacketOf(FreeSlot)
    BY <1>8, <1>10, <2>1
  <2>3. d.written = 0..(d.total - 1)
    <3>1. Covers(m.specs[1]) \subseteq Coverage(m.specs)
      <4>1. 1 \in 1..Len(m.specs)
        BY <1>5
      <4> QED  BY <4>1, CoverageOf
    <3>2. Covers(m.specs[1]) = 0..(c.total - 1)
      BY <1>1, <1>5, <1>13 DEF SpecList, Covers, End
    <3> QED  BY <1>3, <1>5, <1>6, <3>1, <3>2
  <2>4. Whole(m_readyPacket') /\ m_readyPacket' # NULL
    <3>1. d.total \in Nat /\ d.written \in SUBSET Nat
      BY <1>1, <1>6, <2>3
    <3>2. m_readyPacket' \in [total : Nat, written : SUBSET Nat]
      BY <2>1, <3>1
    <3> QED  BY <2>1, <2>3, <3>1, <3>2, DefragmenterConstants DEF Whole
  <2>5. freeSpecs' \in Nat /\ SpecsConserved'
    <3>1. /\ m.free \in Nat /\ Len(m.specs) \in Nat \ {0} /\ Len(list) \in Nat
          /\ m.free + Len(m.specs) = freeSpecs + Len(list) /\ freeSpecs \in Nat
      BY <1>1, <1>5
    <3>2. freeSpecs' \in Nat
      BY <2>1, <3>1
    <3>3. SpecsOf(FreeSlot) \in Nat /\ freeSpecs' + SpecsOf(FreeSlot) = freeSpecs + Len(list) - 1
      BY <1>7, <2>1, <3>1
    <3> QED  BY <1>9, <2>2, <3>2, <3>3
  <2>6. PacketsConserved'
    BY <1>1, <1>7, <2>1, <2>2, <2>4 DEF PacketsConserved
  <2> QED  BY <2>2, <2>4, <2>5, <2>6 DEF TableInv, Table
<1>14. CASE c.ok /\ m.ok /\ m.specs[1].size # c.total
  <2>1. /\ m_readyPacket' = NULL /\ slot' = [slot EXCEPT ![s] = d]
        /\ freeSpecs' = m.free /\ live' = live
    BY <1>14 DEF PassFragment, m, d
  <2>2. /\ Table(slot') /\ On("locked")' = {} /\ OneReassemblyPerKey'
        /\ SpecsHeld(slot', Slots) =
             SpecsHeld(slot, Slots) - (Len(list) - 1) + SpecsOf(d)
        /\ PacketsHeld(slot', Slots) =
             PacketsHeld(slot, Slots) - 1 + PacketOf(d)
    BY <1>6, <1>8, <2>1
  <2>3. freeSpecs' \in Nat /\ SpecsConserved'
    <3>1. /\ m.free \in Nat /\ Len(m.specs) \in Nat \ {0} /\ Len(list) \in Nat
          /\ m.free + Len(m.specs) = freeSpecs + Len(list) /\ freeSpecs \in Nat
      BY <1>1, <1>5
    <3>2. freeSpecs' \in Nat
      BY <2>1, <3>1
    <3>3. SpecsOf(d) \in Nat /\ freeSpecs' + SpecsOf(d) = freeSpecs + Len(list) - 1
      BY <1>7, <2>1, <3>1
    <3> QED  BY <1>9, <2>2, <3>2, <3>3
  <2>4. PacketsConserved'
    BY <1>1, <1>7, <2>1, <2>2 DEF PacketsConserved
  <2> QED  BY <2>1, <2>2, <2>3, <2>4 DEF TableInv, Table
<1> QED  BY <1>11, <1>12, <1>13, <1>14

(* The timeout never destroys the datagram that is locked.                 *)
LEMMA HandleTimeoutEffect ==
  ASSUME TableInv, HandleTimeout, UNCHANGED m_readyPacket, isOn'
  PROVE  /\ TableInv' /\ On("locked")' = On("locked") /\ timeoutPending' \in BOOLEAN
         /\ \A s \in On("locked") : slot'[s] = slot[s]
<1>1. CASE On("locked") # {}
  <2>1. UNCHANGED <<slot, freeSpecs, live>> /\ timeoutPending' = TRUE
    BY <1>1 DEF HandleTimeout, tableVars
  <2> QED  BY <2>1, TableKept DEF On
<1>2. CASE On("locked") = {}
  <2>1. /\ timeoutPending' = FALSE
        /\ Destroy({s \in On("current") : Age(s) >= Timeout})
    BY <1>2 DEF HandleTimeout
  <2>2. {s \in On("current") : Age(s) >= Timeout} \in SUBSET Slots
    BY DEF On
  <2>3. TableInv' /\ On("locked")' = On("locked") \ {s \in On("current") : Age(s) >= Timeout}
    BY <2>1, <2>2, DestroyEffect
  <2> QED  BY <1>2, <2>1, <2>3
<1> QED  BY <1>1, <1>2

-----------------------------------------------------------------------------
(* One lemma for each action.                                              *)
LEMMA InitInv == Init => DefragmenterInv
<1> SUFFICES ASSUME Init PROVE DefragmenterInv
  OBVIOUS
<1>1. NULL \notin Slots \cup Frames /\ QueueSize \in Nat /\ ClockSize \in Nat \ {0}
      /\ SpecPoolSize \in Nat
  BY DefragmenterConstants
<1>2. \A s \in Slots : slot[s] = FreeSlot /\ slot[s].list = "free"
  BY DEF Init, FreeSlot
<1>3. SpecsHeld(slot, Slots) = 0 /\ PacketsHeld(slot, Slots) = 0
  BY <1>2, CountFree
<1>4. FramesInv
  <2>1. queue = << >> /\ queue \in Seq(Frames) /\ Len(queue) = 0 /\ 1..0 = {}
    BY DEF Init
  <2>2. /\ Queued = {} /\ Once(queue)
        /\ \A i \in 1..Len(queue) : content[queue[i]] \in FrameKinds
    BY <2>1 DEF Queued, Once
  <2>3. content \in [Frames -> FrameKinds \cup {NULL}]
    BY DEF Init
  <2>4. TaskHasWork /\ ReceptionHasRoom
    BY <2>1 DEF Init, TaskHasWork, ReceptionHasRoom
  <2>5. /\ isOn \in BOOLEAN /\ posted \in BOOLEAN
        /\ receiving \in (Frames \cup {NULL}) \ {}
        /\ owned = {} \cup ({receiving} \ {NULL})
    BY DEF Init
  <2>6. Len(queue) <= QueueSize
    BY <1>1, <2>1
  <2> QED  BY <2>1, <2>2, <2>3, <2>4, <2>5, <2>6 DEF FramesInv
<1>5. StageInv
  BY <1>1, <1>2 DEF Init, StageInv, LockIsProcessed, On, Stages
<1>6. TableInv
  <2>1. DOMAIN slot = Slots /\ Busy = {}
    BY <1>2 DEF Init, Busy, On
  <2> QED  BY <1>1, <1>2, <1>3, <2>1
           DEF Init, TableInv, OneReassemblyPerKey, SpecsConserved, PacketsConserved
<1>7. TimeInv
  <2>1. 0 \in 0..(ClockSize - 1)
    BY <1>1
  <2> QED  BY <2>1 DEF Init, TimeInv
<1> QED  BY <1>4, <1>5, <1>6, <1>7 DEF DefragmenterInv

LEMMA Times ==
  /\ ClockSize \in Nat \ {0} /\ Timeout \in Nat
  /\ TimeInv => InHalfTimeout \in 0..(ClockSize - 1)
               /\ (now + 1) % ClockSize \in 0..(ClockSize - 1)
<1>1. ClockSize \in Nat \ {0} /\ Timeout \in Nat
  BY DefragmenterConstants
<1>2. Timeout \div 2 \in Nat
  BY <1>1
<1>3. \A n \in Nat : n % ClockSize \in 0..(ClockSize - 1)
  BY <1>1
<1>4. TimeInv => now + Timeout \div 2 \in Nat /\ now + 1 \in Nat
  BY <1>1, <1>2 DEF TimeInv
<1> QED  BY <1>1, <1>3, <1>4 DEF InHalfTimeout

LEMMA StartKeeps == DefragmenterInv /\ Start => DefragmenterInv'
<1> SUFFICES ASSUME DefragmenterInv, Start PROVE DefragmenterInv'
  OBVIOUS
<1> USE DEF DefragmenterInv
<1>1. /\ ~isOn /\ queue = << >> /\ receiving = NULL /\ owned = {}
      /\ QueueSize \in Nat \ {0} /\ NULL \notin Frames
      /\ Rng(queue) = {} /\ Len(queue) = 0
  BY DefragmenterConstants DEF Start, FramesInv, ReceptionHasRoom, Queued, Rng
<1>2. /\ receiving' \in Frames \cup {NULL} /\ owned' = {receiving'} \ {NULL}
  <2>1. /\ StartReceiving(NULL, queue, owned, receiving)
        /\ queue \in Seq(Frames) /\ Len(queue) <= QueueSize
        /\ NULL \in (Frames \cup {NULL}) \ Rng(queue)
        /\ receiving \in (Frames \cup {NULL}) \ Rng(queue)
        /\ owned = Rng(queue) \cup ({NULL, receiving} \ {NULL})
    BY <1>1 DEF Start, FramesInv
  <2> QED  BY <1>1, <2>1, StartReceivingBuffers
<1>3. FramesInv'
  <2>1. queue' = << >> /\ Queued' = {} /\ Len(queue') = 0
    BY <1>1 DEF Start, Queued
  <2>2. /\ isOn' = (receiving' # NULL) /\ posted' = posted /\ content' = content
    BY DEF Start
  <2>3. TaskHasWork'
    <3>1. ~posted /\ ~posted'
      BY <1>1, <2>2 DEF FramesInv, TaskHasWork
    <3> QED  BY <2>1, <3>1 DEF TaskHasWork
  <2>4. ReceptionHasRoom'
    <3>1. Len(queue') < QueueSize
      BY <1>1, <2>1
    <3> QED  BY <2>2, <3>1 DEF ReceptionHasRoom
  <2> QED  BY <1>1, <1>2, <2>1, <2>2, <2>3, <2>4 DEF FramesInv, Once
<1>4. \A s \in Slots : slot[s] = FreeSlot /\ slot'[s] = FreeSlot
                       /\ slot'[s].list = "free"
  BY <1>1 DEF Start, TableInv, FreeSlot
<1>5. /\ SpecsHeld(slot', Slots) = 0 /\ PacketsHeld(slot', Slots) = 0
      /\ PacketsHeld(slot, Slots) = 0
  BY <1>4, CountFree
<1>6. StageInv'
  <2>1. /\ UNCHANGED <<m_doneUntilNow, m_processedPacket, m_readyPacket, queue>>
        /\ m_doneUntilNow = "NOTHING"
    BY <1>1 DEF Start, stageVars, StageInv
  <2>2. On("locked")' = On("locked")
    BY <1>4 DEF On
  <2> QED  BY <1>1, <2>1, <2>2 DEF StageInv, LockIsProcessed
<1>7. TableInv'
  <2>1. DOMAIN slot' = Slots /\ Busy' = {} /\ freeSpecs' = SpecPoolSize
        /\ UNCHANGED <<live, m_readyPacket>> /\ SpecPoolSize \in Nat
    BY <1>4, DefragmenterConstants DEF Start, Busy, On, stageVars
  <2>2. SpecsConserved' /\ PacketsConserved'
    BY <1>5, <2>1 DEF SpecsConserved, PacketsConserved, TableInv
  <2> QED  BY <1>4, <2>1, <2>2 DEF TableInv, OneReassemblyPerKey
<1>8. TimeInv'
  BY Times DEF Start, TimeInv
<1> QED  BY <1>3, <1>6, <1>7, <1>8

LEMMA FrameReceivedKeeps ==
  ASSUME DefragmenterInv, NEW c \in FrameKinds, FrameReceived(c)
  PROVE  DefragmenterInv'
<1> USE DEF DefragmenterInv
<1> DEFINE q == Append(queue, receiving)
<1>1. /\ receiving \in Frames \ Rng(queue) /\ isOn /\ Len(queue) < QueueSize
      /\ queue \in Seq(Frames) /\ Once(queue) /\ Len(queue) \in Nat
      /\ owned = Rng(queue) \cup {receiving}
      /\ QueueSize \in Nat /\ NULL \notin Frames
  BY DefragmenterConstants
     DEF FrameReceived, FramesInv, ReceptionHasRoom, Queued, Rng
<1>2. /\ q \in Seq(Frames) /\ Len(q) = Len(queue) + 1
      /\ Once(q) /\ Rng(q) = Rng(queue) \cup {receiving}
      /\ \A i \in 1..Len(queue) : q[i] = queue[i]
      /\ q[Len(queue) + 1] = receiving
  BY <1>1, OnceAppend
<1>3. /\ content' = [content EXCEPT ![receiving] = c]
      /\ queue' = q /\ StartReceiving(NULL, q, owned, NULL)
      /\ IF Len(q) = 1
           THEN /\ m_processedPacket' = NULL /\ m_readyPacket' = NULL
                /\ m_doneUntilNow' = "NOTHING" /\ posted' = TRUE
           ELSE UNCHANGED <<posted, m_doneUntilNow, m_processedPacket, m_readyPacket>>
      /\ UNCHANGED <<isOn, late, slot, freeSpecs, live, timeoutPending, now, alarm>>
  BY <1>1 DEF FrameReceived, stageVars, tableVars, timeVars
<1> HIDE DEF q
<1>4. /\ receiving' \in (Frames \cup {NULL}) \ Rng(q)
      /\ owned' = Rng(q) \cup ({receiving'} \ {NULL})
      /\ receiving' # NULL => Len(q) < QueueSize
  <2>1. /\ Len(q) <= QueueSize /\ NULL \in (Frames \cup {NULL}) \ Rng(q)
        /\ owned = Rng(q) \cup ({NULL, NULL} \ {NULL})
    BY <1>1, <1>2, DefragmenterConstants DEF Rng
  <2> QED  BY <1>2, <1>3, <2>1, StartReceivingBuffers
<1>5. /\ content' \in [Frames -> FrameKinds \cup {NULL}]
      /\ \A f \in Rng(queue) : content'[f] = content[f]
      /\ content'[receiving] = c
  <2>1. Rng(queue) \subseteq Frames /\ content \in [Frames -> FrameKinds \cup {NULL}]
    BY <1>1 DEF Rng, FramesInv
  <2> QED  BY <1>1, <1>3, <2>1
<1>6. FramesInv'
  <2>1. \A i \in 1..Len(q) : content'[q[i]] \in FrameKinds
    <3> SUFFICES ASSUME NEW i \in 1..Len(q) PROVE content'[q[i]] \in FrameKinds
      OBVIOUS
    <3>1. CASE i = Len(queue) + 1
      BY <1>2, <1>5, <3>1
    <3>2. CASE i \in 1..Len(queue)
      <4>1. q[i] = queue[i] /\ queue[i] \in Rng(queue)
        BY <1>2, <3>2 DEF Rng
      <4> QED  BY <1>5, <3>2, <4>1 DEF FramesInv
    <3> QED  BY <1>1, <1>2, <3>1, <3>2
  <2>2. Len(q) = 1 \/ queue # << >>
    BY <1>1, <1>2
  <2>3. q # << >> /\ posted' = TRUE
    BY <1>1, <1>2, <1>3, <2>2 DEF FramesInv, TaskHasWork
  <2>4. TaskHasWork' /\ ReceptionHasRoom'
    BY <1>1, <1>3, <1>4, <2>3 DEF TaskHasWork, ReceptionHasRoom
  <2>5. Queued' = Rng(q) /\ Once(queue')
    BY <1>2, <1>3 DEF Queued, Rng
  <2> QED  BY <1>1, <1>2, <1>3, <1>4, <1>5, <2>1, <2>3, <2>4, <2>5 DEF FramesInv
<1>7. StageInv' /\ m_readyPacket' = m_readyPacket
  <2>1. CASE queue = << >>
    <3>1. Len(q) = 1 /\ m_doneUntilNow = "NOTHING" /\ m_processedPacket = NULL
          /\ m_readyPacket = NULL
      BY <1>2, <2>1 DEF StageInv, LockIsProcessed
    <3>2. On("locked")' = On("locked")
      BY <1>3 DEF On
    <3> QED  BY <1>3, <3>1, <3>2 DEF StageInv, LockIsProcessed
  <2>2. CASE queue # << >>
    <3>1. /\ Len(q) # 1 /\ 1 \in 1..Len(queue)
      BY <1>1, <1>2, <2>2
    <3>2. UNCHANGED <<m_doneUntilNow, m_processedPacket, m_readyPacket, slot>>
      BY <1>3, <3>1
    <3>3. Headers' = Headers
      <4>1. Head(q) = queue[1] /\ Head(queue) = queue[1] /\ queue[1] \in Rng(queue)
        BY <1>1, <1>2, <2>2, <3>1 DEF Rng
      <4> QED  BY <1>3, <1>5, <4>1 DEF Headers
    <3>4. queue' # << >>
      BY <1>2, <1>3
    <3>5. LockIsProcessed'
      BY <3>2 DEF StageInv, LockIsProcessed, On
    <3> QED  BY <3>2, <3>3, <3>4, <3>5 DEF StageInv, Whole
  <2> QED  BY <2>1, <2>2
<1>8. TableInv'
  BY <1>1, <1>3, <1>7, TableKept
<1>9. TimeInv'
  BY <1>3 DEF TimeInv
<1> QED  BY <1>6, <1>7, <1>8, <1>9

(* What neither the stage nor the frames of an action disturb.             *)
LEMMA StageKept ==
  ASSUME StageInv,
         UNCHANGED <<m_doneUntilNow, m_processedPacket, m_readyPacket, queue, content>>,
         On("locked")' = On("locked"), \A s \in On("locked") : slot'[s] = slot[s]
  PROVE  StageInv'
<1>1. LockIsProcessed' /\ Headers' = Headers
  BY DEF StageInv, LockIsProcessed, Headers
<1>2. m_doneUntilNow = "LOCK_IPV6_PACKET" => m_processedPacket \in On("locked")
  BY DEF StageInv, LockIsProcessed
<1> QED  BY <1>1, <1>2 DEF StageInv, Whole

LEMMA ReceptionFailedKeeps == DefragmenterInv /\ ReceptionFailed => DefragmenterInv'
<1> SUFFICES ASSUME DefragmenterInv, ReceptionFailed PROVE DefragmenterInv'
  OBVIOUS
<1> USE DEF DefragmenterInv
<1>1. /\ receiving \in Frames \ Rng(queue) /\ isOn /\ Len(queue) < QueueSize
      /\ queue \in Seq(Frames) /\ Once(queue) /\ Len(queue) \in Nat
      /\ owned = Rng(queue) \cup {receiving}
      /\ QueueSize \in Nat /\ NULL \notin Frames
  BY DefragmenterConstants
     DEF ReceptionFailed, FramesInv, ReceptionHasRoom, Queued, Rng
<1>2. /\ StartReceiving(receiving, queue, owned, NULL)
      /\ UNCHANGED <<isOn, posted, late, queue, content, stageVars, tableVars, timeVars>>
  BY <1>1 DEF ReceptionFailed
<1>3. /\ receiving' \in (Frames \cup {NULL}) \ Rng(queue)
      /\ owned' = Rng(queue) \cup ({receiving'} \ {NULL})
      /\ receiving' # NULL => Len(queue) < QueueSize
  <2>1. /\ Len(queue) <= QueueSize
        /\ receiving \in (Frames \cup {NULL}) \ Rng(queue)
        /\ NULL \in (Frames \cup {NULL}) \ Rng(queue)
        /\ owned = Rng(queue) \cup ({receiving, NULL} \ {NULL})
    BY <1>1, DefragmenterConstants DEF Rng
  <2> QED  BY <1>1, <1>2, <2>1, StartReceivingBuffers
<1>4. FramesInv'
  <2>1. TaskHasWork' /\ ReceptionHasRoom'
    BY <1>1, <1>2, <1>3 DEF FramesInv, TaskHasWork, ReceptionHasRoom
  <2>2. Queued' = Rng(queue)
    BY <1>2 DEF Queued, Rng
  <2> QED  BY <1>2, <1>3, <2>1, <2>2 DEF FramesInv, Once
<1>5. /\ UNCHANGED <<m_doneUntilNow, m_processedPacket, m_readyPacket, slot,
                     freeSpecs, live>>
      /\ On("locked")' = On("locked")
  BY <1>2 DEF stageVars, tableVars, On
<1>6. StageInv'
  BY <1>2, <1>5, StageKept
<1>7. TableInv'
  BY <1>1, <1>2, <1>5, TableKept
<1>8. TimeInv'
  BY <1>2 DEF TimeInv, timeVars
<1> QED  BY <1>4, <1>6, <1>7, <1>8

-----------------------------------------------------------------------------
(* The stages of the task.                                                 *)
LEMMA TaskHandlesTimeoutKeeps ==
  DefragmenterInv /\ TaskHandlesTimeout => DefragmenterInv'
<1> SUFFICES ASSUME DefragmenterInv, TaskHandlesTimeout PROVE DefragmenterInv'
  OBVIOUS
<1> USE DEF DefragmenterInv
<1>1. /\ UNCHANGED <<isOn, posted, queue, content, owned, receiving>>
      /\ UNCHANGED <<m_doneUntilNow, m_processedPacket, m_readyPacket>>
      /\ UNCHANGED <<now, alarm>> /\ late' = FALSE /\ isOn' /\ HandleTimeout
  BY DEF TaskHandlesTimeout, TaskRuns, frameVars, stageVars
<1>2. /\ TableInv' /\ On("locked")' = On("locked") /\ timeoutPending' \in BOOLEAN
      /\ \A s \in On("locked") : slot'[s] = slot[s]
  BY <1>1, HandleTimeoutEffect
<1>3. StageInv'
  BY <1>1, <1>2, StageKept
<1>4. FramesInv'
  BY <1>1, FramesKept
<1> QED  BY <1>1, <1>2, <1>3, <1>4 DEF TimeInv

LEMMA TimerFiredKeeps == DefragmenterInv /\ TimerFired => DefragmenterInv'
<1> SUFFICES ASSUME DefragmenterInv, TimerFired PROVE DefragmenterInv'
  OBVIOUS
<1> USE DEF DefragmenterInv
<1>1. /\ UNCHANGED <<isOn, posted, queue, content, owned, receiving>>
      /\ UNCHANGED <<m_doneUntilNow, m_processedPacket, m_readyPacket>>
      /\ UNCHANGED <<now, late>> /\ alarm' = InHalfTimeout /\ isOn'
      /\ HandleTimeout
  BY DEF TimerFired, frameVars, stageVars
<1>2. /\ TableInv' /\ On("locked")' = On("locked") /\ timeoutPending' \in BOOLEAN
      /\ \A s \in On("locked") : slot'[s] = slot[s]
  BY <1>1, HandleTimeoutEffect
<1>3. StageInv'
  BY <1>1, <1>2, StageKept
<1>4. FramesInv'
  BY <1>1, FramesKept
<1> QED  BY <1>1, <1>2, <1>3, <1>4, Times DEF TimeInv

LEMMA TickKeeps == DefragmenterInv /\ Tick => DefragmenterInv'
<1> SUFFICES ASSUME DefragmenterInv, Tick PROVE DefragmenterInv'
  OBVIOUS
<1> USE DEF DefragmenterInv
<1>1. /\ UNCHANGED <<isOn, posted, queue, content, owned, receiving>>
      /\ UNCHANGED <<m_doneUntilNow, m_processedPacket, m_readyPacket>>
      /\ UNCHANGED <<slot, freeSpecs, live, timeoutPending, alarm>>
      /\ now' = (now + 1) % ClockSize /\ late' = posted /\ isOn'
  BY DEF Tick, frameVars, stageVars, tableVars
<1>2. FramesInv'
  BY <1>1, FramesKept
<1>3. StageInv'
  <2>1. On("locked")' = On("locked")
    BY <1>1 DEF On
  <2> QED  BY <1>1, <2>1, StageKept
<1>4. TableInv'
  BY <1>1, TableKept
<1>5. TimeInv'
  BY <1>1, Times DEF TimeInv, FramesInv
<1> QED  BY <1>2, <1>3, <1>4, <1>5

(* What a stage finds: a frame at the head, received and known.            *)
LEMMA StageStarts ==
  ASSUME DefragmenterInv, NEW s, Stage(s)
  PROVE  /\ isOn' /\ queue # << >> /\ m_doneUntilNow = s
         /\ Headers \in FrameKinds
         /\ UNCHANGED <<isOn, content>> /\ TimeInv'
<1>1. isOn /\ queue # << >> /\ late' = FALSE /\ m_doneUntilNow = s
      /\ UNCHANGED <<isOn, content, timeoutPending, now, alarm>>
  BY DEF Stage, TaskRuns, timeVars
<1>2. 1 \in 1..Len(queue) /\ Head(queue) = queue[1]
  BY <1>1 DEF DefragmenterInv, FramesInv
<1>3. Headers \in FrameKinds
  BY <1>2 DEF DefragmenterInv, FramesInv, Headers
<1>4. TimeInv'
  BY <1>1 DEF DefragmenterInv, TimeInv
<1> QED  BY <1>1, <1>3, <1>4

(* After Stop, and after a stage that has gone on.                         *)
LEMMA StageAfterStop ==
  ASSUME FramesInv', m_doneUntilNow' = "NOTHING",
         m_processedPacket' = NULL, m_readyPacket' = NULL, On("locked")' = {}
  PROVE  StageInv'
BY DEF StageInv, LockIsProcessed, Stages

LEMMA unpackKeeps == DefragmenterInv /\ unpack6LoWPANHeaders => DefragmenterInv'
<1> SUFFICES ASSUME DefragmenterInv, unpack6LoWPANHeaders PROVE DefragmenterInv'
  OBVIOUS
<1> USE DEF DefragmenterInv
<1>1. /\ isOn' /\ queue # << >> /\ m_doneUntilNow = "NOTHING"
      /\ UNCHANGED <<isOn, content>> /\ TimeInv'
  BY StageStarts DEF unpack6LoWPANHeaders
<1>2. UNCHANGED <<m_processedPacket, m_readyPacket, slot, freeSpecs, live>>
  BY DEF unpack6LoWPANHeaders, tableVars
<1>3. /\ m_processedPacket = NULL /\ m_readyPacket = NULL
      /\ On("locked")' = {}
  BY <1>1, <1>2 DEF StageInv, LockIsProcessed, On
<1>4. TableInv'
  BY <1>1, <1>2, TableKept
<1>5. CASE Stop
  <2>1. FramesInv' /\ m_doneUntilNow' = "NOTHING"
    BY <1>1, <1>5, StopEffect
  <2> QED  BY <1>1, <1>2, <1>3, <1>4, <2>1, StageAfterStop
<1>6. CASE GoOn("UNPACK_6LOWPAN_HDRS")
  <2>1. /\ m_doneUntilNow' = "UNPACK_6LOWPAN_HDRS"
        /\ UNCHANGED <<posted, queue, owned, receiving>>
    BY <1>6 DEF GoOn
  <2>2. FramesInv'
    BY <1>1, <2>1, FramesKept
  <2>3. StageInv'
    BY <1>1, <1>2, <1>3, <2>1 DEF StageInv, LockIsProcessed, Stages
  <2> QED  BY <1>1, <1>4, <2>2, <2>3
<1> QED  BY <1>5, <1>6 DEF unpack6LoWPANHeaders

LEMMA lockKeeps == DefragmenterInv /\ lockDatagram => DefragmenterInv'
<1> SUFFICES ASSUME DefragmenterInv, lockDatagram PROVE DefragmenterInv'
  OBVIOUS
<1> USE DEF DefragmenterInv
<1>1. /\ isOn' /\ queue # << >> /\ m_doneUntilNow = "UNPACK_6LOWPAN_HDRS"
      /\ UNCHANGED <<isOn, content>> /\ TimeInv'
      /\ Headers \in FrameKinds /\ Headers.kind = "fragment"
  BY StageStarts DEF lockDatagram
<1>2. PICK r \in Slots \cup {NULL} :
        /\ Find(Headers, r) /\ m_processedPacket' = r
        /\ IF r = NULL THEN Stop ELSE GoOn("LOCK_IPV6_PACKET")
  BY DEF lockDatagram
<1>3. m_readyPacket = NULL /\ m_readyPacket' = NULL /\ On("locked") = {}
  BY <1>1 DEF lockDatagram, StageInv, LockIsProcessed
<1>4. /\ TableInv' /\ On("locked")' = {r} \ {NULL}
      /\ r # NULL => slot'[r].key = Headers.key /\ slot'[r].total = Headers.total
  <2> DEFINE c == Headers
  <2>1. c \in FrameKinds /\ c.kind = "fragment" /\ Find(c, r)
    BY <1>1, <1>2
  <2>2. now \in 0..(ClockSize - 1)
    BY DEF TimeInv
  <2> HIDE DEF c
  <2>3. /\ TableInv' /\ On("locked")' = {r} \ {NULL}
        /\ r # NULL => slot'[r].key = c.key /\ slot'[r].total = c.total
    BY <1>1, <1>3, <2>1, <2>2, FindEffect
  <2> QED  BY <2>3 DEF c
<1>5. CASE r = NULL
  <2>1. FramesInv' /\ m_doneUntilNow' = "NOTHING"
    BY <1>1, <1>2, <1>5, StopEffect
  <2> QED  BY <1>1, <1>2, <1>3, <1>4, <1>5, <2>1, StageAfterStop
<1>6. CASE r # NULL
  <2>1. /\ m_doneUntilNow' = "LOCK_IPV6_PACKET"
        /\ UNCHANGED <<posted, queue, owned, receiving>>
    BY <1>2, <1>6 DEF GoOn
  <2>2. FramesInv' /\ Headers' = Headers
    BY <1>1, <2>1, FramesKept
  <2>3. LockIsProcessed'
    BY <1>2, <1>3, <1>4, <1>6, <2>1 DEF LockIsProcessed
  <2>4. StageInv'
    BY <1>1, <1>2, <1>3, <1>4, <1>6, <2>1, <2>2, <2>3 DEF StageInv, Stages
  <2> QED  BY <1>1, <1>4, <2>2, <2>4
<1> QED  BY <1>5, <1>6

LEMMA passEntireKeeps == DefragmenterInv /\ passEntirePacket => DefragmenterInv'
<1> SUFFICES ASSUME DefragmenterInv, passEntirePacket PROVE DefragmenterInv'
  OBVIOUS
<1> USE DEF DefragmenterInv
<1>1. /\ isOn' /\ queue # << >> /\ m_doneUntilNow = "UNPACK_6LOWPAN_HDRS"
      /\ UNCHANGED <<isOn, content>> /\ TimeInv'
  BY StageStarts DEF passEntirePacket
<1>2. /\ UNCHANGED <<m_processedPacket, slot, freeSpecs>>
      /\ m_processedPacket = NULL /\ m_readyPacket = NULL
      /\ On("locked")' = {}
  BY <1>1 DEF passEntirePacket, StageInv, LockIsProcessed, On
<1>3. CASE Stop /\ UNCHANGED <<m_readyPacket, live>>
  <2>1. FramesInv' /\ m_doneUntilNow' = "NOTHING"
    BY <1>1, <1>3, StopEffect
  <2>2. TableInv'
    BY <1>1, <1>2, <1>3, TableKept
  <2> QED  BY <1>1, <1>2, <1>3, <2>1, <2>2, StageAfterStop
<1>4. CASE /\ m_readyPacket' = [total |-> 1, written |-> {0}]
           /\ live' = live + 1 /\ GoOn("DEFRAGMENTING_IPV6_PACKET")
  <2>1. /\ m_doneUntilNow' = "DEFRAGMENTING_IPV6_PACKET"
        /\ UNCHANGED <<posted, queue, owned, receiving>>
    BY <1>4 DEF GoOn
  <2>2. FramesInv'
    BY <1>1, <2>1, FramesKept
  <2>3. m_readyPacket' # NULL /\ Whole(m_readyPacket')
    <3>1. m_readyPacket' \in [total : Nat, written : SUBSET Nat]
      BY <1>4
    <3>2. {0} = 0..(1 - 1)
      OBVIOUS
    <3> QED  BY <1>4, <3>1, <3>2, DefragmenterConstants DEF Whole
  <2>4. StageInv'
    BY <1>1, <1>2, <2>1, <2>3 DEF StageInv, LockIsProcessed, Stages
  <2>5. TableInv'
    <3>1. OneReassemblyPerKey' /\ SpecsConserved'
      BY <1>2 DEF TableInv, OneReassemblyPerKey, SpecsConserved, Busy, On
    <3>2. PacketsConserved'
      <4>1. live = PacketsHeld(slot, Slots) /\ PacketsHeld(slot, Slots) \in Nat
        <5>1. PacketsHeld(slot, Slots) \in Nat
          BY CountFinite DEF TableInv, Table
        <5> QED  BY <1>2, <5>1 DEF TableInv, PacketsConserved
      <4> QED  BY <1>2, <1>4, <2>3, <4>1 DEF PacketsConserved
    <3> QED  BY <1>1, <1>2, <3>1, <3>2 DEF TableInv
  <2> QED  BY <1>1, <2>2, <2>4, <2>5
<1> QED  BY <1>3, <1>4 DEF passEntirePacket

LEMMA mergeKeeps == DefragmenterInv /\ mergeFragmentToPacket => DefragmenterInv'
<1> SUFFICES ASSUME DefragmenterInv, mergeFragmentToPacket PROVE DefragmenterInv'
  OBVIOUS
<1> USE DEF DefragmenterInv
<1>1. /\ isOn' /\ queue # << >> /\ m_doneUntilNow = "LOCK_IPV6_PACKET"
      /\ UNCHANGED <<isOn, content>> /\ TimeInv' /\ Headers \in FrameKinds
  BY StageStarts DEF mergeFragmentToPacket
<1> DEFINE s == m_processedPacket
           c == Headers
<1>2. /\ s \in Slots /\ On("locked") = {s} /\ m_readyPacket = NULL
      /\ c.kind = "fragment" /\ slot[s].total = c.total
  BY <1>1, DefragmenterConstants DEF StageInv, LockIsProcessed
<1>3. /\ TableInv' /\ On("locked")' = {}
      /\ m_readyPacket' # NULL => Whole(m_readyPacket')
  <2>1. PassFragment(s, c) /\ c \in FrameKinds
    BY <1>1 DEF mergeFragmentToPacket
  <2> HIDE DEF s, c
  <2> QED  BY <1>1, <1>2, <2>1, PassFragmentEffect
<1>4. /\ m_processedPacket' = NULL
      /\ IF m_readyPacket' = NULL THEN Stop ELSE GoOn("DEFRAGMENTING_IPV6_PACKET")
  BY DEF mergeFragmentToPacket
<1>5. CASE m_readyPacket' = NULL
  <2>1. FramesInv' /\ m_doneUntilNow' = "NOTHING"
    BY <1>1, <1>4, <1>5, StopEffect
  <2> QED  BY <1>1, <1>3, <1>4, <1>5, <2>1, StageAfterStop
<1>6. CASE m_readyPacket' # NULL
  <2>1. /\ m_doneUntilNow' = "DEFRAGMENTING_IPV6_PACKET"
        /\ UNCHANGED <<posted, queue, owned, receiving>>
    BY <1>4, <1>6 DEF GoOn
  <2>2. FramesInv'
    BY <1>1, <2>1, FramesKept
  <2>3. StageInv'
    BY <1>1, <1>3, <1>4, <1>6, <2>1 DEF StageInv, LockIsProcessed, Stages
  <2> QED  BY <1>1, <1>3, <2>2, <2>3
<1> QED  BY <1>5, <1>6

LEMMA deliverKeeps == DefragmenterInv /\ deliverDefragmentedPacket => DefragmenterInv'
<1> SUFFICES ASSUME DefragmenterInv, deliverDefragmentedPacket PROVE DefragmenterInv'
  OBVIOUS
<1> USE DEF DefragmenterInv
<1>1. /\ isOn' /\ queue # << >> /\ m_doneUntilNow = "DEFRAGMENTING_IPV6_PACKET"
      /\ UNCHANGED <<isOn, content>> /\ TimeInv'
  BY StageStarts DEF deliverDefragmentedPacket
<1>2. /\ m_readyPacket' = NULL /\ live' = live - 1 /\ Stop
      /\ UNCHANGED <<m_processedPacket, slot, freeSpecs>>
      /\ m_processedPacket = NULL /\ m_readyPacket # NULL /\ On("locked")' = {}
  BY <1>1 DEF deliverDefragmentedPacket, StageInv, LockIsProcessed, On
<1>3. FramesInv' /\ m_doneUntilNow' = "NOTHING"
  BY <1>1, <1>2, StopEffect
<1>4. TableInv'
  <2>1. OneReassemblyPerKey' /\ SpecsConserved'
    BY <1>2 DEF TableInv, OneReassemblyPerKey, SpecsConserved, Busy, On
  <2>2. PacketsConserved'
    <3>1. live = PacketsHeld(slot, Slots) + 1 /\ PacketsHeld(slot, Slots) \in Nat
      <4>1. PacketsHeld(slot, Slots) \in Nat
        BY CountFinite DEF TableInv, Table
      <4> QED  BY <1>2, <4>1 DEF TableInv, PacketsConserved
    <3> QED  BY <1>2, <3>1 DEF PacketsConserved
  <2> QED  BY <1>1, <1>2, <2>1, <2>2 DEF TableInv
<1> QED  BY <1>1, <1>2, <1>3, <1>4, StageAfterStop

LEMMA UnchangedKeeps == DefragmenterInv /\ UNCHANGED vars => DefragmenterInv'
<1> SUFFICES ASSUME DefragmenterInv, UNCHANGED vars PROVE DefragmenterInv'
  OBVIOUS
<1> USE DEF DefragmenterInv
<1>1. /\ UNCHANGED <<isOn, posted, queue, content, owned, receiving>>
      /\ UNCHANGED <<m_doneUntilNow, m_processedPacket, m_readyPacket>>
      /\ UNCHANGED <<slot, freeSpecs, live, timeoutPending, now, alarm, late>>
  BY DEF vars, frameVars, stageVars, tableVars, timeVars
<1>2. On("locked")' = On("locked")
  BY <1>1 DEF On
<1>3. TableInv'
  BY <1>1, TableKept DEF TableInv
<1>4. TimeInv'
  BY <1>1 DEF TimeInv
<1> QED  BY <1>1, <1>2, <1>3, <1>4, FramesKept, StageKept

LEMMA NextKeeps == DefragmenterInv /\ [Next]_vars => DefragmenterInv'
<1> SUFFICES ASSUME DefragmenterInv, [Next]_vars PROVE DefragmenterInv'
  OBVIOUS
<1>1. CASE Start            BY <1>1, StartKeeps
<1>2. CASE TaskStep
  BY <1>2, TaskHandlesTimeoutKeeps, unpackKeeps, lockKeeps, passEntireKeeps,
     mergeKeeps, deliverKeeps DEF TaskStep
<1>3. CASE TimerFired       BY <1>3, TimerFiredKeeps
<1>4. CASE Tick             BY <1>4, TickKeeps
<1>5. CASE ReceptionFailed  BY <1>5, ReceptionFailedKeeps
<1>6. CASE \E c \in FrameKinds : FrameReceived(c)
  BY <1>6, FrameReceivedKeeps
<1>7. CASE UNCHANGED vars   BY <1>7, UnchangedKeeps
<1> QED  BY <1>1, <1>2, <1>3, <1>4, <1>5, <1>6, <1>7 DEF Next

LEMMA DefragmenterInvariant == Spec => []DefragmenterInv
BY InitInv, NextKeeps, PTL DEF Spec

-----------------------------------------------------------------------------
(* The types of LoWPANDefragmenterMainPrv.nc and of the table: no          *)
(* specification lies outside its datagram, the pools stay within their    *)
(* sizes, and the frame queue within frame_queue_size.                     *)
THEOREM DefragmenterTypes == Spec => []TypeOK
<1>1. DefragmenterInv => TypeOK
  <2> SUFFICES ASSUME DefragmenterInv PROVE TypeOK
    OBVIOUS
  <2> USE DEF DefragmenterInv
  <2>1. Table(slot) /\ SpecPoolSize \in Nat
    BY DefragmenterConstants DEF TableInv, Table
  <2>2. freeSpecs \in 0..SpecPoolSize
    <3>1. SpecsHeld(slot, Slots) \in Nat
      BY <2>1, CountFinite
    <3> QED  BY <2>1, <3>1 DEF TableInv, SpecsConserved
  <2>3. live \in Nat
    <3>1. PacketsHeld(slot, Slots) \in Nat
      BY <2>1, CountFinite
    <3> QED  BY <3>1 DEF TableInv, PacketsConserved
  <2>4. \A s \in Slots :
          slot[s] = FreeSlot \/
          /\ slot[s].list \in {"current", "locked"} /\ slot[s].packet
          /\ slot[s].start \in 0..(ClockSize - 1)
          /\ Coverage(slot[s].specs) \cup slot[s].written
               \subseteq 0..(slot[s].total - 1)
          /\ slot[s].data \in [0..(slot[s].total - 1) -> Values]
    BY <2>1 DEF Table, Datagram
  <2>5. m_readyPacket # NULL => m_readyPacket.written \subseteq Nat
    BY DEF StageInv, Whole
  <2>6. owned \subseteq Frames
    BY DEF FramesInv, Queued
  <2> QED  BY <2>1, <2>2, <2>3, <2>4, <2>5, <2>6
           DEF TypeOK, FramesInv, StageInv, TimeInv, Table
<1> QED  BY <1>1, DefragmenterInvariant, PTL

(* Whichever tasks, events and timers come between two stages: the stage   *)
(* in m_doneUntilNow, the locked datagram, the ready packet, the posted    *)
(* task, the queue and the buffer at the receiver agree.                   *)
THEOREM StagesAgreeWithFrames == Spec => []StagesMatchFrames
<1>1. DefragmenterInv => StagesMatchFrames
  BY DEF DefragmenterInv, FramesInv, StageInv, StagesMatchFrames
<1> QED  BY <1>1, DefragmenterInvariant, PTL

(* DestroyDefragPacket, MergeNewFragSpecIntoPacket and the ways of a frame *)
(* through the task: no specification, no packet and no frame buffer is    *)
(* lost or given back twice.                                               *)
THEOREM ReassemblyDoesNotLeak == Spec => []NothingLeaks
<1>1. ASSUME NEW q \in Seq(Frames), Once(q)
      PROVE  Cardinality(Rng(q)) = Len(q)
  <2> DEFINE f == [i \in 1..Len(q) |-> q[i]]
  <2>1. Len(q) \in Nat
    OBVIOUS
  <2>2. f \in Bijection(1..Len(q), Rng(q))
    <3>1. f \in [1..Len(q) -> Rng(q)]
      BY DEF Rng
    <3>2. \A i, j \in 1..Len(q) : f[i] = f[j] => i = j
      BY <1>1 DEF Once
    <3>3. \A g \in Rng(q) : \E i \in 1..Len(q) : f[i] = g
      BY DEF Rng
    <3> HIDE DEF f
    <3>4. f \in Injection(1..Len(q), Rng(q))
      BY <3>1, <3>2 DEF Injection, IsInjective
    <3>5. f \in Surjection(1..Len(q), Rng(q))
      BY <3>1, <3>3 DEF Surjection
    <3> QED  BY <3>4, <3>5 DEF Bijection
  <2>3. IsFiniteSet(1..Len(q)) /\ Cardinality(1..Len(q)) = Len(q)
    <3>1. 1 \in Int /\ Len(q) \in Int /\ (1 > Len(q) => Len(q) = 0)
      BY <2>1
    <3> QED  BY <2>1, <3>1, FS_Interval
  <2> HIDE DEF f
  <2>4. ExistsBijection(1..Len(q), Rng(q))
    BY <2>2 DEF ExistsBijection
  <2> QED  BY <2>3, <2>4, FS_Bijection
<1>2. DefragmenterInv => NothingLeaks
  <2> SUFFICES ASSUME DefragmenterInv PROVE NothingLeaks
    OBVIOUS
  <2>1. Cardinality(Queued) = Len(queue)
    BY <1>1 DEF DefragmenterInv, FramesInv, Queued, Rng
  <2> QED  BY <2>1
           DEF DefragmenterInv, FramesInv, TableInv, NothingLeaks, BuffersConserved
<1> QED  BY <1>2, DefragmenterInvariant, PTL

(* FindExistingOrAllocateNewPacketAndLockIt: the fragments of a datagram   *)
(* are collected in one place, also after another size under its key.      *)
THEOREM ReassembledInOnePlace == Spec => []OneReassemblyPerKey
<1>1. DefragmenterInv => OneReassemblyPerKey
  BY DEF DefragmenterInv, TableInv
<1> QED  BY <1>1, DefragmenterInvariant, PTL

(* PassFrameWithIpv6PacketFragment: for datagrams of every size, cut and   *)
(* overlapping in every way, in every order and with a specification pool  *)
(* of any size, a packet is delivered only with all its units written.     *)
THEOREM DeliveredPacketsAreWhole == Spec => []DeliveredIsWhole
<1>1. DefragmenterInv => DeliveredIsWhole
  BY DEF DefragmenterInv, StageInv, DeliveredIsWhole, Whole
<1> QED  BY <1>1, DefragmenterInvariant, PTL

-----------------------------------------------------------------------------
(* The account of time behind StaleIsDropped.                              *)
LEMMA Wraps ==
  ASSUME NEW M \in Nat \ {0}, NEW x \in 0..(M - 1)
  PROVE  x % M = x /\ (x - M) % M = x /\ (x + M) % M = x
OBVIOUS

(* The difference of two readings of a clock.                              *)
LEMMA Differences ==
  ASSUME NEW M \in Nat \ {0}, NEW a \in 0..(M - 1), NEW b \in 0..(M - 1)
  PROVE  (a - b) % M = IF a >= b THEN a - b ELSE a - b + M
<1>1. CASE a >= b
  BY <1>1, Wraps
<1>2. CASE ~(a >= b)
  <2>1. a - b + M \in 0..(M - 1) /\ (a - b + M) - M = a - b
    BY <1>2
  <2>2. ((a - b + M) - M) % M = a - b + M
    BY <2>1, Wraps
  <2> QED  BY <1>2, <2>1, <2>2
<1> QED  BY <1>1, <1>2

LEMMA NextReading ==
  ASSUME NEW M \in Nat \ {0}, NEW a \in 0..(M - 1)
  PROVE  (a + 1) % M = IF a = M - 1 THEN 0 ELSE a + 1
<1>1. CASE a = M - 1
  <2>1. a + 1 = 0 + M /\ 0 \in 0..(M - 1)
    BY <1>1
  <2> QED  BY <1>1, <2>1, Wraps
<1>2. CASE a # M - 1
  BY <1>2, Wraps
<1> QED  BY <1>1, <1>2

(* A tick makes a datagram at most one tick older, and brings the timer    *)
(* one nearer.                                                             *)
LEMMA OneTick ==
  ASSUME NEW M \in Nat \ {0}, NEW n \in 0..(M - 1), NEW a \in 0..(M - 1)
  PROVE  /\ (((n + 1) % M) - a) % M <= ((n - a) % M) + 1
         /\ a # n => (a - ((n + 1) % M)) % M = ((a - n) % M) - 1
<1> DEFINE k == (n + 1) % M
<1>1. k = (IF n = M - 1 THEN 0 ELSE n + 1) /\ k \in 0..(M - 1)
  BY NextReading
<1> HIDE DEF k
<1>2. /\ (k - a) % M = IF k >= a THEN k - a ELSE k - a + M
      /\ (n - a) % M = IF n >= a THEN n - a ELSE n - a + M
      /\ (a - k) % M = IF a >= k THEN a - k ELSE a - k + M
      /\ (a - n) % M = IF a >= n THEN a - n ELSE a - n + M
  BY <1>1, Differences
<1>3. (k - a) % M <= ((n - a) % M) + 1
  BY <1>1, <1>2
<1>4. a # n => (a - k) % M = ((a - n) % M) - 1
  BY <1>1, <1>2
<1> QED  BY <1>3, <1>4 DEF k

(* While a datagram is locked, the timer leaves its work to the task,      *)
(* which does it before the next datagram is locked.  Until the task has   *)
(* merged the fragment no more than one tick passes, as it is posted; then *)
(* the timer does the work if the task does not.                           *)
Half == Timeout \div 2
Ahead == (alarm - now) % ClockSize
Oldest ==
  IF ~timeoutPending THEN Timeout - 1 + Half - Ahead
  ELSE IF On("locked") = {} THEN Timeout + 2 * Half - Ahead
  ELSE Timeout - 1 + Half + (IF late THEN 1 ELSE 0)

AgeInv ==
  isOn => /\ alarm \in 0..(ClockSize - 1) /\ Ahead \in 0..Half
          /\ \A s \in Busy : Age(s) <= Oldest

(* What the invariant says is within Timeout + 2 * Half.                   *)
LEMMA OldestIs ==
  ASSUME DefragmenterInv, isOn, AgeInv
  PROVE  /\ Timeout \in Nat \ {0} /\ Half \in Nat /\ Ahead \in 0..Half
         /\ Oldest \in Int /\ Oldest >= Timeout - 1
         /\ Oldest <= Timeout + 2 * Half
<1>1. Timeout \in Nat \ {0} /\ ClockSize \in Nat \ {0}
  BY DefragmenterConstants
<1>2. Half \in Nat
  BY <1>1 DEF Half
<1>3. Ahead \in 0..Half /\ timeoutPending \in BOOLEAN /\ late \in BOOLEAN
  BY DEF AgeInv, DefragmenterInv, TimeInv
<1> QED  BY <1>1, <1>2, <1>3 DEF Oldest

LEMMA AgesAre ==
  ASSUME DefragmenterInv, NEW s \in Busy
  PROVE  slot[s].start \in 0..(ClockSize - 1) /\ Age(s) \in Nat /\ isOn
<1>1. s \in Slots /\ slot[s] # FreeSlot
  BY DEF Busy, On, FreeSlot
<1>2. slot[s].start \in 0..(ClockSize - 1) /\ isOn
  BY <1>1 DEF DefragmenterInv, TableInv, FramesInv, Datagram
<1>3. now \in 0..(ClockSize - 1) /\ ClockSize \in Nat \ {0}
  BY DefragmenterConstants DEF DefragmenterInv, TimeInv
<1> QED  BY <1>2, <1>3 DEF Age

(* Whatever is under reassembly after an action was so before or is new.   *)
Datagrams ==
  \A s \in Busy' : \/ s \in Busy /\ slot'[s].start = slot[s].start
                   \/ slot'[s].start = now

LEMMA DestroyedAge ==
  ASSUME NEW gone \in SUBSET Slots, Destroy(gone)
  PROVE  Busy' = Busy \ gone /\ \A s \in Busy' : slot'[s] = slot[s]
BY DEF Destroy, Gone, Busy, On, FreeSlot

(* An action in which no time passes and the timer does not move.          *)
LEMMA SameAge ==
  ASSUME DefragmenterInv, AgeInv, isOn, Datagrams, UNCHANGED <<now, alarm>>,
         Oldest' \in Int, Oldest' >= Oldest
  PROVE  AgeInv'
<1>1. /\ Oldest \in Int /\ Oldest >= Timeout - 1 /\ Timeout \in Nat \ {0}
      /\ Ahead' = Ahead /\ Ahead \in 0..Half /\ alarm \in 0..(ClockSize - 1)
  BY OldestIs DEF Ahead, AgeInv
<1>2. ASSUME NEW s \in Busy' PROVE Age(s)' <= Oldest'
  <2>1. CASE s \in Busy /\ slot'[s].start = slot[s].start
    <3>1. Age(s)' = Age(s) /\ Age(s) <= Oldest /\ Age(s) \in Nat
      BY <2>1, AgesAre DEF Age, AgeInv
    <3> QED  BY <1>1, <3>1
  <2>2. CASE slot'[s].start = now
    <3>1. now \in 0..(ClockSize - 1) /\ ClockSize \in Nat \ {0}
      BY DefragmenterConstants DEF DefragmenterInv, TimeInv
    <3>2. Age(s)' = (now - now) % ClockSize
      BY <2>2 DEF Age
    <3>3. (now - now) % ClockSize = 0
      BY <3>1, Differences
    <3> QED  BY <1>1, <3>2, <3>3
  <2> QED  BY <1>2, <2>1, <2>2 DEF Datagrams
<1> QED  BY <1>1, <1>2 DEF AgeInv

(* HandleTimeout while nothing is locked.                                  *)
LEMMA TimeoutAge ==
  ASSUME DefragmenterInv, isOn, HandleTimeout, On("locked") = {}, now' = now,
         Ahead' \in 0..Half, alarm' \in 0..(ClockSize - 1)
  PROVE  AgeInv'
<1> DEFINE gone == {s \in On("current") : Age(s) >= Timeout}
<1>1. timeoutPending' = FALSE /\ Destroy(gone) /\ gone \in SUBSET Slots
  BY DEF HandleTimeout, On
<1> HIDE DEF gone
<1>2. Busy' = Busy \ gone /\ \A s \in Busy' : slot'[s] = slot[s]
  BY <1>1, DestroyedAge
<1>3. Timeout \in Nat \ {0} /\ Half \in Nat
  BY DefragmenterConstants DEF Half
<1>4. Oldest' \in Int /\ Oldest' >= Timeout - 1
  <2>1. Oldest' = Timeout - 1 + Half - Ahead' /\ Ahead' \in 0..Half
    BY <1>1 DEF Oldest, Half
  <2>2. \A a \in 0..Half : Timeout - 1 + Half - a \in Int
                           /\ Timeout - 1 + Half - a >= Timeout - 1
    BY <1>3
  <2> QED  BY <2>1, <2>2
<1>5. ASSUME NEW s \in Busy' PROVE Age(s)' <= Oldest'
  <2>1. s \in Busy /\ s \notin gone /\ slot'[s] = slot[s]
    BY <1>2, <1>5
  <2>2. s \in On("current")
    <3>1. s \in Slots /\ slot[s].list # "free"
      BY <2>1 DEF Busy, On
    <3>2. slot[s].list \in {"current", "locked"}
      BY <3>1, UsedOrFree DEF DefragmenterInv, TableInv
    <3> QED  BY <3>1, <3>2 DEF On
  <2>3. Age(s)' = Age(s) /\ Age(s) \in Nat
    BY <2>1, AgesAre DEF Age
  <2>4. ~(Age(s) >= Timeout)
    BY <2>1, <2>2 DEF gone
  <2> QED  BY <1>3, <1>4, <2>3, <2>4
<1> QED  BY <1>5 DEF AgeInv

-----------------------------------------------------------------------------
(* What the table holds after an action of what it held before it.         *)
Same(d, e) ==
  /\ d.key = e.key /\ d.total = e.total /\ d.start = e.start
  /\ d.specs = e.specs /\ d.data = e.data /\ d.written = e.written

LEMMA FindLeaves ==
  ASSUME TableInv, NEW c, NEW r \in Slots \cup {NULL}, Find(c, r)
  PROVE  \A s \in Busy' :
           \/ s \in Busy /\ Same(slot'[s], slot[s])
           \/ \E memory \in [0..(c.total - 1) -> Values] : slot'[s] = NewDatagram(c, memory)
<1> DEFINE same == {s \in On("current") : slot[s].key = c.key}
           stale == {s \in same : slot[s].total # c.total}
           table == Gone(slot, stale)
<1>1. SUFFICES ASSUME NEW s \in Busy'
               PROVE  \/ s \in Busy /\ Same(slot'[s], slot[s])
                      \/ \E memory \in [0..(c.total - 1) -> Values] :
                           slot'[s] = NewDatagram(c, memory)
  OBVIOUS
<1>2. s \in Slots /\ slot'[s].list # "free" /\ stale \in SUBSET Slots
  BY DEF Busy, On
<1>3. \A t \in Slots : table[t] = slot[t] \/ table[t] = FreeSlot
  BY DEF Gone
<1>4. DOMAIN table = Slots /\ DOMAIN slot = Slots
  BY DEF Gone, TableInv
<1>5. FreeSlot.list = "free"
  BY DEF FreeSlot
<1>6. CASE same # stale
  <2>1. r \in same /\ slot' = [slot EXCEPT ![r].list = "locked"]
    BY <1>6 DEF Find
  <2>2. r \in Slots /\ slot[r] # FreeSlot /\ slot[r].list # "free"
    BY <2>1, <1>5 DEF On
  <2>3. Datagram(slot[r])
    BY <2>2 DEF TableInv
  <2>4. CASE s = r
    <3>1. slot'[s] = [slot[r] EXCEPT !.list = "locked"]
      BY <1>4, <2>1, <2>2, <2>4
    <3>2. Same(slot'[s], slot[r])
      BY <2>3, <3>1 DEF Datagram, Same
    <3> QED  BY <2>2, <2>4, <3>2 DEF Busy, On
  <2>5. CASE s # r
    <3>1. slot'[s] = slot[s]
      BY <1>2, <1>4, <2>1, <2>5
    <3> QED  BY <1>2, <3>1 DEF Busy, On, Same
  <2> QED  BY <2>4, <2>5
<1>7. CASE same = stale
  <2>1. CASE slot' = table
    <3>1. slot'[s] = slot[s]
      BY <1>2, <1>3, <1>5, <2>1
    <3> QED  BY <1>2, <3>1 DEF Busy, On, Same
  <2>2. CASE \E t \in {t \in Slots : table[t].list = "free"},
                memory \in [0..(c.total - 1) -> Values] :
                slot' = [table EXCEPT ![t] = NewDatagram(c, memory)]
    <3>1. PICK t \in {t \in Slots : table[t].list = "free"},
               memory \in [0..(c.total - 1) -> Values] :
               slot' = [table EXCEPT ![t] = NewDatagram(c, memory)]
      BY <2>2
    <3> HIDE DEF table
    <3>2. CASE s = t
      BY <1>2, <1>4, <3>1, <3>2
    <3>3. CASE s # t
      <4>1. slot'[s] = table[s]
        BY <1>2, <1>4, <3>1, <3>3
      <4>2. slot'[s] = slot[s]
        BY <1>2, <1>3, <1>5, <4>1
      <4> QED  BY <1>2, <4>2 DEF Busy, On, Same
    <3> QED  BY <3>2, <3>3
  <2>3. \/ slot' = table
        \/ \E t \in {t \in Slots : table[t].list = "free"},
              memory \in [0..(c.total - 1) -> Values] :
              slot' = [table EXCEPT ![t] = NewDatagram(c, memory)]
    BY <1>7 DEF Find, Destroy
  <2> QED  BY <2>1, <2>2, <2>3
<1> QED  BY <1>6, <1>7

LEMMA PassFragmentLeaves ==
  ASSUME TableInv, NEW s \in Slots, NEW c, slot[s] # FreeSlot, PassFragment(s, c)
  PROVE  \A t \in Busy' :
           \/ t # s /\ t \in Busy /\ slot'[t] = slot[t]
           \/ t = s /\ Merge(s, c).ok /\ slot'[s] = Filled(s, c, Merge(s, c))
<1> DEFINE m == Merge(s, c)
           d == Filled(s, c, m)
<1>1. /\ DOMAIN slot = Slots /\ FreeSlot.list = "free"
  BY DEF TableInv, FreeSlot
<1>2. \/ slot' = [t \in Slots |-> IF t \in {s} THEN FreeSlot ELSE slot[t]]
      \/ slot' = [slot EXCEPT ![s] = FreeSlot]
      \/ m.ok /\ slot' = [slot EXCEPT ![s] = d]
  BY DEF PassFragment, Destroy, Gone
<1> HIDE DEF m, d
<1>3. \A t \in Slots : t # s => slot'[t] = slot[t]
  BY <1>1, <1>2
<1>4. slot'[s] = FreeSlot \/ (m.ok /\ slot'[s] = d)
  BY <1>1, <1>2
<1> QED  BY <1>1, <1>3, <1>4 DEF Busy, On, d, m

(* The timer that has just been armed.                                     *)
LEMMA TimerAhead ==
  ASSUME TimeInv, alarm' = InHalfTimeout, now' = now
  PROVE  Ahead' \in 0..Half /\ alarm' \in 0..(ClockSize - 1)
<1>1. /\ now \in 0..(ClockSize - 1) /\ ClockSize \in Nat \ {0}
      /\ Timeout \in Nat /\ Timeout <= ClockSize /\ 1 <= Timeout
  BY DefragmenterConstants DEF TimeInv
<1>2. Half \in 0..(ClockSize - 1)
  BY <1>1 DEF Half
<1>3. InHalfTimeout = (now + Half) % ClockSize
  BY DEF InHalfTimeout, Half
<1>4. InHalfTimeout = IF now + Half < ClockSize THEN now + Half ELSE now + Half - ClockSize
  <2>1. CASE now + Half < ClockSize
    <3>1. now + Half \in 0..(ClockSize - 1)
      BY <1>1, <1>2, <2>1
    <3> QED  BY <1>1, <1>3, <2>1, <3>1, Wraps
  <2>2. CASE ~(now + Half < ClockSize)
    <3>1. now + Half - ClockSize \in 0..(ClockSize - 1)
          /\ (now + Half - ClockSize) + ClockSize = now + Half
      BY <1>1, <1>2, <2>2
    <3>2. (now + Half) % ClockSize = now + Half - ClockSize
      BY <1>1, <3>1, Wraps
    <3> QED  BY <1>3, <2>2, <3>2
  <2> QED  BY <2>1, <2>2
<1>5. InHalfTimeout \in 0..(ClockSize - 1)
  BY <1>1, <1>2, <1>4
<1>6. (InHalfTimeout - now) % ClockSize = Half
  <2>1. (InHalfTimeout - now) % ClockSize
          = IF InHalfTimeout >= now THEN InHalfTimeout - now
                                    ELSE InHalfTimeout - now + ClockSize
    BY <1>1, <1>5, Differences
  <2> QED  BY <1>1, <1>2, <1>4, <2>1
<1>7. Ahead' = (InHalfTimeout - now) % ClockSize
  BY DEF Ahead
<1> QED  BY <1>2, <1>5, <1>6, <1>7

-----------------------------------------------------------------------------
(* The actions, for the ages.                                              *)
LEMMA StartAge == DefragmenterInv /\ Start => AgeInv'
<1> SUFFICES ASSUME DefragmenterInv, Start, isOn' PROVE AgeInv'
  BY DEF AgeInv
<1>1. /\ alarm' = InHalfTimeout /\ now' = now
      /\ \A s \in Slots : slot'[s] = FreeSlot
  BY DEF Start
<1>2. Busy' = {}
  BY <1>1 DEF Busy, On, FreeSlot
<1>3. Ahead' \in 0..Half /\ alarm' \in 0..(ClockSize - 1)
  BY <1>1, TimerAhead DEF DefragmenterInv
<1> QED  BY <1>2, <1>3 DEF AgeInv

LEMMA QuietAge ==
  ASSUME DefragmenterInv, AgeInv, UNCHANGED <<isOn, slot, timeoutPending, now, alarm>>,
         UNCHANGED late \/ ~timeoutPending
  PROVE  AgeInv'
<1> SUFFICES ASSUME isOn PROVE AgeInv'
  BY DEF AgeInv
<1>1. Datagrams
  BY DEF Datagrams, Busy, On
<1>2. Oldest' = Oldest
  BY DEF Oldest, Ahead, On
<1> QED  BY <1>1, <1>2, SameAge, OldestIs

LEMMA TaskHandlesTimeoutAge == DefragmenterInv /\ AgeInv /\ TaskHandlesTimeout => AgeInv'
<1> SUFFICES ASSUME DefragmenterInv, AgeInv, TaskHandlesTimeout PROVE AgeInv'
  OBVIOUS
<1>1. /\ isOn /\ HandleTimeout /\ UNCHANGED <<now, alarm>>
      /\ m_processedPacket = NULL
  BY DEF TaskHandlesTimeout, TaskRuns
<1>2. On("locked") = {}
  BY <1>1 DEF DefragmenterInv, StageInv, LockIsProcessed
<1>3. Ahead' \in 0..Half /\ alarm' \in 0..(ClockSize - 1)
  BY <1>1 DEF AgeInv, Ahead
<1> QED  BY <1>1, <1>2, <1>3, TimeoutAge

LEMMA TimerFiredAge == DefragmenterInv /\ AgeInv /\ TimerFired => AgeInv'
<1> SUFFICES ASSUME DefragmenterInv, AgeInv, TimerFired PROVE AgeInv'
  OBVIOUS
<1>1. /\ isOn /\ isOn' /\ alarm = now /\ alarm' = InHalfTimeout /\ HandleTimeout
      /\ UNCHANGED <<now, late>>
  BY DEF TimerFired
<1>2. Ahead' \in 0..Half /\ alarm' \in 0..(ClockSize - 1)
  BY <1>1, TimerAhead DEF DefragmenterInv
<1>3. CASE On("locked") = {}
  BY <1>1, <1>2, <1>3, TimeoutAge
<1>4. CASE On("locked") # {}
  <2>1. timeoutPending' = TRUE /\ UNCHANGED slot
    BY <1>1, <1>4 DEF HandleTimeout, tableVars
  <2>2. Busy' = Busy /\ On("locked")' # {} /\ \A s \in Busy : Age(s)' = Age(s)
    BY <1>1, <1>4, <2>1 DEF Busy, On, Age
  <2>3. Oldest' = Timeout - 1 + Half + (IF late THEN 1 ELSE 0)
    BY <1>1, <2>1, <2>2 DEF Oldest, Half
  <2>4. Oldest' \in Int /\ Oldest' >= Oldest
    <3>1. Ahead = 0
      <4>1. now \in 0..(ClockSize - 1) /\ ClockSize \in Nat \ {0}
        BY DefragmenterConstants DEF DefragmenterInv, TimeInv
      <4> QED  BY <1>1, <4>1, Differences DEF Ahead
    <3>2. Timeout \in Nat /\ Half \in Nat
      BY <1>1, OldestIs
    <3>3. Oldest = Timeout - 1 + Half - 0
            \/ Oldest = Timeout - 1 + Half + (IF late THEN 1 ELSE 0)
      BY <1>4, <3>1 DEF Oldest
    <3> QED  BY <2>3, <3>2, <3>3
  <2>5. ASSUME NEW s \in Busy PROVE Age(s) <= Oldest'
    <3>1. Age(s) \in Nat /\ Age(s) <= Oldest /\ Oldest \in Int
      BY <1>1, <2>5, AgesAre, OldestIs DEF AgeInv
    <3> QED  BY <2>4, <3>1
  <2> QED  BY <1>2, <2>2, <2>5 DEF AgeInv
<1> QED  BY <1>3, <1>4

LEMMA TickAge == DefragmenterInv /\ AgeInv /\ Tick => AgeInv'
<1> SUFFICES ASSUME DefragmenterInv, AgeInv, Tick PROVE AgeInv'
  OBVIOUS
<1>1. /\ isOn /\ alarm # now /\ ~(posted /\ late)
      /\ now' = (now + 1) % ClockSize /\ late' = posted
      /\ UNCHANGED <<slot, timeoutPending, alarm>>
  BY DEF Tick, tableVars
<1>2. /\ now \in 0..(ClockSize - 1) /\ ClockSize \in Nat \ {0}
      /\ alarm \in 0..(ClockSize - 1) /\ alarm \in 0..(ClockSize - 1)
  BY <1>1, DefragmenterConstants DEF DefragmenterInv, TimeInv, AgeInv
<1>3. Ahead' = Ahead - 1 /\ Ahead \in 0..Half /\ Ahead' \in Nat
  <2>1. Ahead' = (alarm - ((now + 1) % ClockSize)) % ClockSize
    BY <1>1 DEF Ahead
  <2>2. (alarm - ((now + 1) % ClockSize)) % ClockSize = Ahead - 1
    BY <1>1, <1>2, OneTick DEF Ahead
  <2>3. (now + 1) % ClockSize \in Int
    BY <1>2, NextReading
  <2>4. Ahead' \in Nat
    BY <1>2, <2>1, <2>3
  <2> QED  BY <1>1, <2>1, <2>2, <2>4 DEF AgeInv
<1>4. Busy' = Busy /\ On("locked")' = On("locked")
  BY <1>1 DEF Busy, On
<1>5. Oldest \in Int /\ Oldest' = Oldest + 1
  <2>1. Timeout \in Nat /\ Half \in Nat
    BY <1>1, OldestIs
  <2>2. CASE ~timeoutPending
    <3>1. Oldest = Timeout - 1 + Half - Ahead /\ Oldest' = Timeout - 1 + Half - Ahead'
      BY <1>1, <2>2 DEF Oldest, Half
    <3> QED  BY <1>3, <2>1, <3>1
  <2>3. CASE timeoutPending /\ On("locked") = {}
    <3>1. Oldest = Timeout + 2 * Half - Ahead /\ Oldest' = Timeout + 2 * Half - Ahead'
      BY <1>1, <1>4, <2>3 DEF Oldest, Half
    <3> QED  BY <1>3, <2>1, <3>1
  <2>4. CASE timeoutPending /\ On("locked") # {}
    <3>1. posted
      BY <2>4 DEF DefragmenterInv, StageInv, FramesInv, LockIsProcessed, TaskHasWork
    <3>2. ~late /\ late' = TRUE
      BY <1>1, <3>1 DEF DefragmenterInv, FramesInv
    <3>3. /\ Oldest = Timeout - 1 + Half + 0
          /\ Oldest' = Timeout - 1 + Half + 1
      BY <1>1, <1>4, <2>4, <3>2 DEF Oldest, Half
    <3> QED  BY <2>1, <3>3
  <2> QED  BY <2>2, <2>3, <2>4 DEF DefragmenterInv, TimeInv
<1>6. ASSUME NEW s \in Busy PROVE Age(s)' <= Oldest'
  <2>1. /\ slot[s].start \in 0..(ClockSize - 1) /\ Age(s) \in Nat /\ Age(s) <= Oldest
    BY <1>1, <1>6, AgesAre DEF AgeInv
  <2>2. Age(s)' = (((now + 1) % ClockSize) - slot[s].start) % ClockSize
    BY <1>1 DEF Age
  <2>3. (((now + 1) % ClockSize) - slot[s].start) % ClockSize <= Age(s) + 1
    BY <1>2, <2>1, OneTick DEF Age
  <2>4. (now + 1) % ClockSize \in Int
    BY <1>2, NextReading
  <2>5. Age(s)' \in Int
    BY <1>2, <2>1, <2>2, <2>4
  <2> QED  BY <1>5, <2>1, <2>2, <2>3, <2>5
<1>7. Ahead' \in 0..Half
  <2>1. Half \in Nat
    BY <1>1, OldestIs
  <2> QED  BY <1>3, <2>1
<1> QED  BY <1>1, <1>2, <1>4, <1>6, <1>7 DEF AgeInv

LEMMA lockAge == DefragmenterInv /\ AgeInv /\ lockDatagram => AgeInv'
<1> SUFFICES ASSUME DefragmenterInv, AgeInv, lockDatagram PROVE AgeInv'
  OBVIOUS
<1>1. /\ isOn /\ UNCHANGED <<isOn, timeoutPending, now, alarm>>
      /\ m_doneUntilNow = "UNPACK_6LOWPAN_HDRS"
      /\ ~(m_processedPacket = NULL /\ timeoutPending)
  BY DEF lockDatagram, Stage, TaskRuns, timeVars
<1>2. PICK r \in Slots \cup {NULL} : Find(Headers, r)
  BY DEF lockDatagram
<1>3. ~timeoutPending
  BY <1>1 DEF DefragmenterInv, StageInv, LockIsProcessed
<1>4. Datagrams
  <2>1. TableInv
    BY DEF DefragmenterInv
  <2>2. \A s \in Busy' : \/ s \in Busy /\ slot'[s].start = slot[s].start
                         \/ \E memory \in [0..(Headers.total - 1) -> Values] :
                              slot'[s] = NewDatagram(Headers, memory)
    BY <1>2, <2>1, FindLeaves DEF Same
  <2>3. \A memory : NewDatagram(Headers, memory).start = now
    BY DEF NewDatagram
  <2> QED  BY <2>2, <2>3 DEF Datagrams
<1>5. Oldest' = Oldest
  BY <1>1, <1>3 DEF Oldest, Ahead
<1> QED  BY <1>1, <1>4, <1>5, SameAge, OldestIs

LEMMA mergeAge == DefragmenterInv /\ AgeInv /\ mergeFragmentToPacket => AgeInv'
<1> SUFFICES ASSUME DefragmenterInv, AgeInv, mergeFragmentToPacket PROVE AgeInv'
  OBVIOUS
<1> DEFINE s == m_processedPacket
<1>1. /\ isOn /\ UNCHANGED <<isOn, timeoutPending, now, alarm>>
      /\ m_doneUntilNow = "LOCK_IPV6_PACKET" /\ PassFragment(s, Headers)
  BY DEF mergeFragmentToPacket, Stage, TaskRuns, timeVars
<1>2. /\ s \in Slots /\ On("locked") = {s} /\ TableInv
  BY <1>1, DefragmenterConstants DEF DefragmenterInv, StageInv, LockIsProcessed
<1>3. slot[s] # FreeSlot /\ s \in Busy /\ Datagram(slot[s])
  BY <1>2 DEF On, Busy, FreeSlot, TableInv
<1> HIDE DEF s
<1>4. \A t \in Busy' : \/ t # s /\ t \in Busy /\ slot'[t] = slot[t]
                       \/ t = s /\ slot'[s] = Filled(s, Headers, Merge(s, Headers))
  BY <1>1, <1>2, <1>3, PassFragmentLeaves
<1>5. /\ Filled(s, Headers, Merge(s, Headers)).start = slot[s].start
      /\ Filled(s, Headers, Merge(s, Headers)).list = "current"
  BY <1>3 DEF Filled, Datagram
<1>6. Datagrams
  BY <1>3, <1>4, <1>5 DEF Datagrams
<1>7. On("locked")' = {}
  BY <1>2, <1>4, <1>5 DEF Busy, On
<1>8. Oldest' \in Int /\ Oldest' >= Oldest
  <2>1. /\ Timeout \in Nat /\ Half \in Nat /\ Ahead \in 0..Half /\ Oldest \in Int
        /\ On("locked") # {}
    BY <1>1, <1>2, OldestIs
  <2>2. CASE ~timeoutPending
    <3>1. Oldest' = Oldest
      BY <1>1, <2>2 DEF Oldest, Ahead
    <3> QED  BY <2>1, <3>1
  <2>3. CASE timeoutPending
    <3>1. /\ Oldest = Timeout - 1 + Half + (IF late THEN 1 ELSE 0)
          /\ Oldest' = Timeout + 2 * Half - Ahead
      BY <1>1, <1>7, <2>1, <2>3 DEF Oldest, Ahead, Half
    <3> QED  BY <2>1, <3>1
  <2> QED  BY <2>2, <2>3
<1> QED  BY <1>1, <1>6, <1>8, SameAge

(* No action lets a datagram get older than Oldest.                        *)
LEMMA NextAge == DefragmenterInv /\ AgeInv /\ [Next]_vars => AgeInv'
<1> SUFFICES ASSUME DefragmenterInv, AgeInv, [Next]_vars PROVE AgeInv'
  OBVIOUS
<1>1. CASE Start            BY <1>1, StartAge
<1>2. CASE TaskHandlesTimeout BY <1>2, TaskHandlesTimeoutAge
<1>3. CASE lockDatagram     BY <1>3, lockAge
<1>4. CASE mergeFragmentToPacket BY <1>4, mergeAge
<1>5. CASE unpack6LoWPANHeaders \/ passEntirePacket \/ deliverDefragmentedPacket
  <2>1. /\ m_doneUntilNow # "LOCK_IPV6_PACKET"
        /\ ~(m_processedPacket = NULL /\ timeoutPending)
        /\ UNCHANGED <<isOn, slot, timeoutPending, now, alarm>>
    BY <1>5 DEF unpack6LoWPANHeaders, passEntirePacket, deliverDefragmentedPacket,
                Stage, timeVars, tableVars
  <2>2. ~timeoutPending
    BY <2>1 DEF DefragmenterInv, StageInv, LockIsProcessed
  <2> QED  BY <2>1, <2>2, QuietAge
<1>6. CASE TimerFired       BY <1>6, TimerFiredAge
<1>7. CASE Tick             BY <1>7, TickAge
<1>8. CASE ReceptionFailed \/ (\E c \in FrameKinds : FrameReceived(c)) \/ UNCHANGED vars
  <2>1. UNCHANGED <<isOn, slot, timeoutPending, now, alarm, late>>
    BY <1>8 DEF ReceptionFailed, FrameReceived, vars, timeVars, tableVars
  <2> QED  BY <2>1, QuietAge
<1> QED  BY <1>1, <1>2, <1>3, <1>4, <1>5, <1>6, <1>7, <1>8 DEF Next, TaskStep

(* The periodic timer and the timeout that the task makes up for: nothing  *)
(* stays in the table for more than two periods beyond its timeout, for    *)
(* every timeout and period and however often a datagram is locked when    *)
(* the timer fires.                                                        *)
THEOREM StaleDatagramsAreDropped == Spec => []StaleIsDropped
<1>1. Init => AgeInv
  BY DEF Init, AgeInv
<1>2. DefragmenterInv /\ AgeInv => StaleIsDropped
  <2> SUFFICES ASSUME DefragmenterInv, AgeInv, NEW s \in Busy
               PROVE  Age(s) <= Timeout + 2 * Half
    BY DEF StaleIsDropped, Half
  <2>1. isOn /\ Age(s) \in Nat /\ Age(s) <= Oldest
    BY AgesAre DEF AgeInv
  <2>2. Oldest \in Int /\ Oldest <= Timeout + 2 * Half
        /\ Timeout \in Nat /\ Half \in Nat
    BY <2>1, OldestIs
  <2> QED  BY <2>1, <2>2
<1> QED  BY <1>1, <1>2, DefragmenterInvariant, NextAge, PTL DEF Spec

-----------------------------------------------------------------------------
(* Fragments of one fragmentation.  The specifications of a datagram are   *)
(* then in order with gaps between them, and each is made of fragments, so *)
(* that another fragment is in one of them or in none.                     *)
Apart(list) ==
  /\ \A i, j \in 1..Len(list) : i < j => End(list[i]) < list[j].offset
  /\ \A i \in 1..Len(list) : i # 1 => list[i].size # 0
Aligned(d, s) == Covers(d) \subseteq Covers(s) \/ Covers(d) \cap Covers(s) = {}
AlignedWith(d, list) == \A i \in 1..Len(list) : Aligned(d, list[i])

(* l is list with h in the place of the elements behind the i-th up to the *)
(* j-th one.                                                               *)
Spliced(l, list, i, j, h) ==
  /\ l \in Seq(FragSpecs) /\ Len(l) = i + 1 + Len(list) - j
  /\ \A n \in 1..i : l[n] = list[n]
  /\ l[i + 1] = h
  /\ \A n \in (i + 2)..Len(l) : l[n] = list[n - (i + 1) + j]

LEMMA JoinedTwo ==
  ASSUME NEW a \in Seq(FragSpecs), NEW b \in Seq(FragSpecs)
  PROVE  /\ a \o b \in Seq(FragSpecs) /\ Len(a \o b) = Len(a) + Len(b)
         /\ \A n \in 1..(Len(a) + Len(b)) :
              (a \o b)[n] = IF n <= Len(a) THEN a[n] ELSE b[n - Len(a)]
BY ConcatProperties

LEMMA ThreeParts ==
  ASSUME NEW x \in Seq(FragSpecs), NEW h \in FragSpecs, NEW y \in Seq(FragSpecs)
  PROVE  LET l == x \o <<h>> \o y
         IN  /\ l \in Seq(FragSpecs) /\ Len(l) = Len(x) + 1 + Len(y)
             /\ \A n \in 1..Len(x) : l[n] = x[n]
             /\ l[Len(x) + 1] = h
             /\ \A n \in (Len(x) + 2)..Len(l) : l[n] = y[n - (Len(x) + 1)]
<1> DEFINE z == x \o <<h>>
           l == z \o y
<1>1. Len(x) \in Nat /\ Len(y) \in Nat
  OBVIOUS
<1>2. /\ z \in Seq(FragSpecs) /\ Len(z) = Len(x) + 1
      /\ \A n \in 1..(Len(x) + 1) : z[n] = IF n <= Len(x) THEN x[n] ELSE <<h>>[n - Len(x)]
  BY CoverageOfOne, ConcatProperties
<1>3. z[Len(x) + 1] = h
  <2>1. Len(x) + 1 \in 1..(Len(x) + 1) /\ ~(Len(x) + 1 <= Len(x)) /\ Len(x) + 1 - Len(x) = 1
    BY <1>1
  <2>2. z[Len(x) + 1] = <<h>>[Len(x) + 1 - Len(x)]
    BY <1>2, <2>1
  <2> QED  BY <2>1, <2>2
<1> HIDE DEF z
<1>4. /\ l \in Seq(FragSpecs) /\ Len(l) = Len(z) + Len(y)
      /\ \A n \in 1..(Len(z) + Len(y)) : l[n] = IF n <= Len(z) THEN z[n] ELSE y[n - Len(z)]
  BY <1>2, JoinedTwo
<1> HIDE DEF l
<1>5. \A n \in 1..Len(x) : l[n] = x[n]
  BY <1>1, <1>2, <1>4
<1>6. l[Len(x) + 1] = h
  <2>1. Len(x) + 1 \in 1..(Len(z) + Len(y)) /\ Len(x) + 1 <= Len(z)
    BY <1>1, <1>2
  <2> QED  BY <1>3, <1>4, <2>1
<1>7. ASSUME NEW n \in (Len(x) + 2)..Len(l)
      PROVE  l[n] = y[n - (Len(x) + 1)]
  <2>1. n \in 1..(Len(z) + Len(y)) /\ ~(n <= Len(z))
    BY <1>1, <1>2, <1>4
  <2>2. l[n] = y[n - Len(z)]
    BY <1>4, <2>1
  <2> QED  BY <1>2, <2>2
<1> QED  BY <1>1, <1>2, <1>4, <1>5, <1>6, <1>7 DEF l, z

LEMMA PiecesAre ==
  ASSUME NEW list \in Seq(FragSpecs), NEW k \in 0..Len(list)
  PROVE  /\ Upto(list, k) \in Seq(FragSpecs) /\ Len(Upto(list, k)) = k
         /\ \A n \in 1..k : Upto(list, k)[n] = list[n]
         /\ After(list, k) \in Seq(FragSpecs) /\ Len(After(list, k)) = Len(list) - k
         /\ \A n \in 1..(Len(list) - k) : After(list, k)[n] = list[n + k]
<1>1. Len(list) \in Nat /\ \A i \in 1..Len(list) : list[i] \in FragSpecs
  OBVIOUS
<1>2. /\ Upto(list, k) \in Seq(FragSpecs) /\ Len(Upto(list, k)) = k
      /\ \A i \in 1..k : Upto(list, k)[i] = list[i]
  <2>1. \A i \in 1..k : list[i] \in FragSpecs
    BY <1>1
  <2> QED  BY <1>1, <2>1, SubSeqProperties DEF Upto
<1>3. /\ After(list, k) \in Seq(FragSpecs) /\ Len(After(list, k)) = Len(list) - k
      /\ \A i \in 1..(Len(list) - k) : After(list, k)[i] = list[i + k]
  <2>1. \A i \in (k + 1)..Len(list) : list[i] \in FragSpecs
    BY <1>1
  <2>2. /\ SubSeq(list, k + 1, Len(list)) \in Seq(FragSpecs)
        /\ Len(SubSeq(list, k + 1, Len(list))) =
             IF k + 1 <= Len(list) THEN Len(list) - (k + 1) + 1 ELSE 0
        /\ \A i \in 1..(Len(list) - (k + 1) + 1) :
             SubSeq(list, k + 1, Len(list))[i] = list[k + 1 + i - 1]
    BY <1>1, <2>1, SubSeqProperties
  <2>3. \A i \in Int : k + 1 + i - 1 = i + k
    BY <1>1
  <2> QED  BY <1>1, <2>2, <2>3 DEF After
<1> QED  BY <1>2, <1>3

LEMMA SpliceIs ==
  ASSUME NEW list \in Seq(FragSpecs), NEW i \in 0..Len(list), NEW j \in i..Len(list),
         NEW h \in FragSpecs
  PROVE  Spliced(Upto(list, i) \o <<h>> \o After(list, j), list, i, j, h)
<1> DEFINE x == Upto(list, i)
           y == After(list, j)
<1>1. Len(list) \in Nat /\ j \in 0..Len(list)
  OBVIOUS
<1>2. /\ x \in Seq(FragSpecs) /\ Len(x) = i /\ \A n \in 1..i : x[n] = list[n]
      /\ y \in Seq(FragSpecs) /\ Len(y) = Len(list) - j
      /\ \A n \in 1..(Len(list) - j) : y[n] = list[n + j]
  BY <1>1, PiecesAre
<1> HIDE DEF x, y
<1> DEFINE l == x \o <<h>> \o y
<1>3. /\ l \in Seq(FragSpecs) /\ Len(l) = i + 1 + (Len(list) - j)
      /\ \A n \in 1..i : l[n] = x[n]
      /\ l[i + 1] = h
      /\ \A n \in (i + 2)..Len(l) : l[n] = y[n - (i + 1)]
  <2>1. x \in Seq(FragSpecs) /\ y \in Seq(FragSpecs)
    BY <1>2
  <2>2. /\ l \in Seq(FragSpecs) /\ Len(l) = Len(x) + 1 + Len(y)
        /\ \A n \in 1..Len(x) : l[n] = x[n]
        /\ l[Len(x) + 1] = h
        /\ \A n \in (Len(x) + 2)..Len(l) : l[n] = y[n - (Len(x) + 1)]
    BY <2>1, ThreeParts
  <2> HIDE DEF l
  <2> QED  BY <1>2, <2>2
<1> HIDE DEF l
<1>4. ASSUME NEW n \in (i + 2)..Len(l)
      PROVE  l[n] = list[n - (i + 1) + j]
  <2>1. n - (i + 1) \in 1..(Len(list) - j) /\ l[n] = y[n - (i + 1)]
    BY <1>1, <1>3
  <2> QED  BY <1>2, <2>1
<1> QED  BY <1>1, <1>2, <1>3, <1>4 DEF Spliced, l, x, y

LEMMA AppendIs ==
  ASSUME NEW list \in Seq(FragSpecs), NEW h \in FragSpecs
  PROVE  Spliced(list \o <<h>> \o << >>, list, Len(list), Len(list), h)
<1> DEFINE y == << >>
           l == list \o <<h>> \o y
<1>1. Len(list) \in Nat /\ y \in Seq(FragSpecs) /\ Len(y) = 0
  OBVIOUS
<1> HIDE DEF y
<1>2. /\ l \in Seq(FragSpecs) /\ Len(l) = Len(list) + 1 + 0
      /\ \A n \in 1..Len(list) : l[n] = list[n]
      /\ l[Len(list) + 1] = h
  BY <1>1, ThreeParts
<1> HIDE DEF l
<1>3. \A n \in (Len(list) + 2)..Len(l) : FALSE
  BY <1>1, <1>2
<1> QED  BY <1>1, <1>2, <1>3 DEF Spliced, l, y

LEMMA ReplaceIs ==
  ASSUME NEW list \in Seq(FragSpecs), NEW k \in 1..Len(list), NEW h \in FragSpecs
  PROVE  Spliced([list EXCEPT ![k] = h], list, k - 1, k, h)
<1> DEFINE l == [list EXCEPT ![k] = h]
<1>1. /\ l \in Seq(FragSpecs) /\ Len(l) = Len(list) /\ Len(list) \in Nat
      /\ \A n \in 1..Len(list) : l[n] = IF n = k THEN h ELSE list[n]
  BY ExceptSeq
<1> HIDE DEF l
<1>2. \A n \in (k - 1 + 2)..Len(l) : l[n] = list[n] /\ n - (k - 1 + 1) + k = n
  BY <1>1
<1> QED  BY <1>1, <1>2 DEF Spliced, l

(* A list that has taken the units of new in and nothing else.             *)
Takes(l, list, new) ==
  /\ Apart(l) /\ Coverage(l) = Coverage(list) \cup Covers(new)
  /\ \A d : AlignedWith(d, list) /\ (Covers(d) = Covers(new) \/ Covers(d) \cap Covers(new) = {})
              => AlignedWith(d, l)

LEMMA SplicedTakes ==
  ASSUME NEW list, SpecList(list), Apart(list),
         NEW i \in 0..Len(list), NEW j \in i..Len(list), j # 0,
         NEW h \in FragSpecs, NEW new,
         NEW l, Spliced(l, list, i, j, h), h.size # 0,
         i # 0 => End(list[i]) < h.offset,
         j # Len(list) => End(h) < list[j + 1].offset,
         Covers(h) = Covers(new) \cup UNION {Covers(list[n]) : n \in (i + 1)..j}
  PROVE  Takes(l, list, new)
<1>1. /\ Len(list) \in Nat /\ Len(l) = i + 1 + Len(list) - j
      /\ i \in Nat /\ j \in Nat /\ i <= j /\ j <= Len(list) /\ Len(l) \in Nat
  <2>1. Len(list) \in Nat /\ Len(l) = i + 1 + Len(list) - j
    BY DEF SpecList, Spliced
  <2> QED  BY <2>1
<1>9. \A n \in 1..Len(list) : /\ list[n].offset \in Int /\ End(list[n]) \in Int
                              /\ list[n].offset <= End(list[n])
  <2>1. \A n \in 1..Len(list) : list[n] \in FragSpecs
    BY DEF SpecList
  <2>2. \A x \in FragSpecs : x.offset \in Int /\ End(x) \in Int /\ x.offset <= End(x)
    BY DEF FragSpecs, End
  <2> QED  BY <2>1, <2>2
<1>10. h.offset \in Int /\ End(h) \in Int /\ h.offset <= End(h)
  BY DEF FragSpecs, End
<1>2. /\ \A n \in 1..i : l[n] = list[n] /\ n \in 1..Len(list) /\ n \in 1..Len(l)
      /\ l[i + 1] = h /\ i + 1 \in 1..Len(l)
      /\ \A n \in (i + 2)..Len(l) : /\ l[n] = list[n - (i + 1) + j]
                                    /\ n - (i + 1) + j \in (j + 1)..Len(list)
  <2>1. \A n \in 1..i : n \in 1..Len(list) /\ n \in 1..Len(l)
    BY <1>1
  <2>2. i + 1 \in 1..Len(l)
    BY <1>1
  <2>3. \A n \in (i + 2)..Len(l) : n - (i + 1) + j \in (j + 1)..Len(list)
    BY <1>1
  <2> QED  BY <2>1, <2>2, <2>3 DEF Spliced
<1>3. \A n \in 1..Len(l) : n \in 1..i \/ n = i + 1 \/ n \in (i + 2)..Len(l)
  BY <1>1
<1>4. \A n \in 1..i : End(list[n]) < h.offset
  <2> SUFFICES ASSUME NEW n \in 1..i PROVE End(list[n]) < h.offset
    OBVIOUS
  <2>1. i \in 1..Len(list) /\ n \in 1..Len(list) /\ i # 0
    BY <1>1
  <2>2. n < i => End(list[n]) < list[i].offset
    BY <2>1 DEF Apart
  <2>3. CASE n = i
    BY <2>1, <2>3
  <2>4. CASE n < i
    <3>1. End(list[n]) \in Int /\ list[i].offset \in Int /\ End(list[i]) \in Int
          /\ list[i].offset <= End(list[i])
      BY <1>9, <2>1
    <3> QED  BY <1>10, <2>2, <2>4, <3>1
  <2> QED  BY <1>1, <2>3, <2>4
<1>5. \A n \in (j + 1)..Len(list) : End(h) < list[n].offset
  <2> SUFFICES ASSUME NEW n \in (j + 1)..Len(list) PROVE End(h) < list[n].offset
    OBVIOUS
  <2>1. j + 1 \in 1..Len(list) /\ n \in 1..Len(list) /\ j # Len(list)
    BY <1>1
  <2>2. j + 1 < n => End(list[j + 1]) < list[n].offset
    BY <2>1 DEF Apart
  <2>3. CASE n = j + 1
    BY <2>1, <2>3
  <2>4. CASE j + 1 < n
    <3>1. /\ list[n].offset \in Int /\ list[j + 1].offset \in Int /\ End(list[j + 1]) \in Int
          /\ list[j + 1].offset <= End(list[j + 1])
      BY <1>9, <2>1
    <3> QED  BY <1>10, <2>2, <2>4, <3>1
  <2> QED  BY <1>1, <2>3, <2>4
<1>6. Apart(l)
  <2>1. ASSUME NEW a \in 1..Len(l), NEW b \in 1..Len(l), a < b
        PROVE  End(l[a]) < l[b].offset
    <3>1. CASE a \in 1..i /\ b \in 1..i
      BY <1>2, <2>1, <3>1 DEF Apart
    <3>2. CASE a \in 1..i /\ b = i + 1
      BY <1>2, <1>4, <3>2
    <3>3. CASE a \in 1..i /\ b \in (i + 2)..Len(l)
      <4> DEFINE n == b - (i + 1) + j
      <4>1. n \in (j + 1)..Len(list) /\ l[b] = list[n]
        BY <1>2, <3>3
      <4>2. l[a] = list[a] /\ a \in 1..Len(list)
        BY <1>2, <3>3
      <4> HIDE DEF n
      <4>3. n \in 1..Len(list) /\ a < n
        BY <1>1, <3>3, <4>1
      <4> QED  BY <4>1, <4>2, <4>3 DEF Apart
    <3>4. CASE a = i + 1 /\ b \in (i + 2)..Len(l)
      BY <1>2, <1>5, <3>4
    <3>5. CASE a \in (i + 2)..Len(l) /\ b \in (i + 2)..Len(l)
      <4> DEFINE n == b - (i + 1) + j
                 m == a - (i + 1) + j
      <4>1. /\ n \in (j + 1)..Len(list) /\ l[b] = list[n]
            /\ m \in (j + 1)..Len(list) /\ l[a] = list[m]
        BY <1>2, <3>5
      <4>2. m < n
        BY <1>1, <2>1, <3>5
      <4> HIDE DEF n, m
      <4>3. n \in 1..Len(list) /\ m \in 1..Len(list)
        BY <1>1, <4>1
      <4> QED  BY <4>1, <4>2, <4>3 DEF Apart
    <3>6. ~(a = i + 1 /\ b = i + 1) /\ ~(a = i + 1 /\ b \in 1..i)
          /\ ~(a \in (i + 2)..Len(l) /\ (b \in 1..i \/ b = i + 1))
      BY <1>1, <2>1
    <3> QED  BY <1>3, <3>1, <3>2, <3>3, <3>4, <3>5, <3>6
  <2>2. ASSUME NEW a \in 1..Len(l), a # 1 PROVE l[a].size # 0
    <3>1. CASE a \in 1..i
      BY <1>2, <2>2, <3>1 DEF Apart
    <3>2. CASE a = i + 1
      BY <1>2, <3>2
    <3>3. CASE a \in (i + 2)..Len(l)
      <4> DEFINE n == a - (i + 1) + j
      <4>1. n \in (j + 1)..Len(list) /\ l[a] = list[n]
        BY <1>2, <3>3
      <4> HIDE DEF n
      <4>2. n \in 1..Len(list) /\ n # 1
        BY <1>1, <4>1
      <4> QED  BY <4>1, <4>2 DEF Apart
    <3> QED  BY <1>3, <3>1, <3>2, <3>3
  <2> QED  BY <2>1, <2>2 DEF Apart
<1>7. Coverage(l) = Coverage(list) \cup Covers(new)
  <2>1. ASSUME NEW a \in 1..Len(l) PROVE Covers(l[a]) \subseteq Coverage(list) \cup Covers(new)
    <3>1. CASE a \in 1..i
      BY <1>2, <3>1, CoverageOf
    <3>2. CASE a = i + 1
      <4>1. \A n \in (i + 1)..j : n \in 1..Len(list)
        BY <1>1
      <4> QED  BY <1>2, <3>2, <4>1, CoverageOf
    <3>3. CASE a \in (i + 2)..Len(l)
      <4> DEFINE n == a - (i + 1) + j
      <4>1. n \in (j + 1)..Len(list) /\ l[a] = list[n]
        BY <1>2, <3>3
      <4> HIDE DEF n
      <4>2. n \in 1..Len(list)
        BY <1>1, <4>1
      <4> QED  BY <4>1, <4>2, CoverageOf
    <3> QED  BY <1>3, <3>1, <3>2, <3>3
  <2>2. ASSUME NEW a \in 1..Len(list) PROVE Covers(list[a]) \subseteq Coverage(l)
    <3>1. CASE a \in 1..i
      BY <1>2, <3>1, CoverageOf
    <3>2. CASE a \in (i + 1)..j
      <4>1. Covers(h) \subseteq Coverage(l)
        BY <1>2, CoverageOf
      <4> QED  BY <3>2, <4>1
    <3>3. CASE a \in (j + 1)..Len(list)
      <4> DEFINE n == a - j + (i + 1)
      <4>1. n \in (i + 2)..Len(l) /\ n \in 1..Len(l) /\ n - (i + 1) + j = a
        BY <1>1, <3>3
      <4> HIDE DEF n
      <4>2. l[n] = list[a]
        BY <1>2, <4>1
      <4> QED  BY <4>1, <4>2, CoverageOf
    <3> QED  BY <1>1, <3>1, <3>2, <3>3
  <2>3. Covers(new) \subseteq Coverage(l)
    <3>1. Covers(h) \subseteq Coverage(l)
      BY <1>2, CoverageOf
    <3> QED  BY <3>1
  <2>4. Coverage(l) \subseteq Coverage(list) \cup Covers(new)
    BY <2>1, CoverageOf
  <2>5. Coverage(list) \subseteq Coverage(l)
    BY <2>2, CoverageOf
  <2> QED  BY <2>3, <2>4, <2>5
<1>8. ASSUME NEW d, AlignedWith(d, list),
             Covers(d) = Covers(new) \/ Covers(d) \cap Covers(new) = {},
             NEW a \in 1..Len(l)
      PROVE  Aligned(d, l[a])
  <2>1. CASE a \in 1..i
    BY <1>2, <1>8, <2>1 DEF AlignedWith
  <2>2. CASE a = i + 1
    <3>1. \A n \in (i + 1)..j : Covers(d) \subseteq Covers(list[n])
                                \/ Covers(d) \cap Covers(list[n]) = {}
      <4>1. \A n \in (i + 1)..j : n \in 1..Len(list)
        BY <1>1
      <4> QED  BY <1>8, <4>1 DEF AlignedWith, Aligned
    <3>2. Covers(d) \subseteq Covers(h) \/ Covers(d) \cap Covers(h) = {}
      <4>1. CASE Covers(d) = Covers(new)
        BY <4>1
      <4>2. CASE \E n \in (i + 1)..j : Covers(d) \subseteq Covers(list[n])
        BY <4>2
      <4>3. CASE /\ Covers(d) \cap Covers(new) = {}
                 /\ \A n \in (i + 1)..j : Covers(d) \cap Covers(list[n]) = {}
        BY <4>3
      <4> QED  BY <1>8, <3>1, <4>1, <4>2, <4>3
    <3> QED  BY <1>2, <2>2, <3>2 DEF Aligned
  <2>3. CASE a \in (i + 2)..Len(l)
    <3> DEFINE n == a - (i + 1) + j
    <3>1. n \in (j + 1)..Len(list) /\ l[a] = list[n]
      BY <1>2, <2>3
    <3> HIDE DEF n
    <3>2. n \in 1..Len(list)
      BY <1>1, <3>1
    <3> QED  BY <1>8, <3>1, <3>2 DEF AlignedWith
  <2> QED  BY <1>3, <2>1, <2>2, <2>3
<1> QED  BY <1>6, <1>7, <1>8 DEF Takes, AlignedWith

-----------------------------------------------------------------------------
(* How a fragment that is made of the same pieces lies to a specification, *)
(* and what the hull of both is then.                                      *)
LEMMA AlignedIntervals ==
  ASSUME NEW s \in FragSpecs, NEW t \in FragSpecs, t.size # 0, Aligned(t, s),
         s.size # 0 \/ s.offset = 0
  PROVE  \/ s.offset <= t.offset /\ End(t) <= End(s)
         \/ End(t) <= s.offset \/ End(s) <= t.offset
<1>1. /\ s.offset \in Nat /\ s.size \in Nat /\ End(s) = s.offset + s.size
      /\ t.offset \in Nat /\ t.size \in Nat /\ End(t) = t.offset + t.size
      /\ End(s) \in Nat /\ End(t) \in Nat /\ t.offset < End(t)
  BY DEF FragSpecs, End
<1>2. /\ \A u : u \in Covers(s) <=> u \in s.offset..(End(s) - 1)
      /\ \A u : u \in Covers(t) <=> u \in t.offset..(End(t) - 1)
  BY DEF Covers
<1>3. CASE Covers(t) \subseteq Covers(s)
  <2>1. t.offset \in Covers(s) /\ End(t) - 1 \in Covers(s)
    BY <1>1, <1>2, <1>3
  <2> QED  BY <1>1, <1>2, <2>1
<1>4. CASE Covers(t) \cap Covers(s) = {} /\ s.offset <= t.offset
  <2>1. t.offset \notin Covers(s)
    BY <1>1, <1>2, <1>4
  <2> QED  BY <1>1, <1>2, <1>4, <2>1
<1>5. CASE Covers(t) \cap Covers(s) = {} /\ t.offset < s.offset
  <2>1. s.offset < End(s)
    BY <1>1, <1>5
  <2>2. s.offset \notin Covers(t)
    BY <1>1, <1>2, <1>5, <2>1
  <2> QED  BY <1>1, <1>2, <1>5, <2>2
<1> QED  BY <1>1, <1>3, <1>4, <1>5 DEF Aligned

LEMMA HullInside ==
  ASSUME NEW s \in FragSpecs, NEW t \in FragSpecs, t.size # 0, NEW identical,
         s.offset <= t.offset, End(t) <= End(s), identical
  PROVE  /\ Hull(s, t) = s /\ Merged(s, t, identical)
         /\ Covers(s) = Covers(t) \cup Covers(s) /\ s.size # 0
<1>1. /\ s.offset \in Nat /\ s.size \in Nat /\ End(s) = s.offset + s.size
      /\ t.offset \in Nat /\ t.size \in Nat /\ End(t) = t.offset + t.size
  BY DEF FragSpecs, End
<1>2. s = [offset |-> s.offset, size |-> s.size]
  BY DEF FragSpecs
<1>3. Hull(s, t) = s
  <2>1. ~(t.offset < s.offset) /\ ~(End(s) < End(t))
    BY <1>1
  <2>2. Hull(s, t) = [offset |-> s.offset, size |-> End(s) - s.offset]
    BY <1>1, <2>1 DEF Hull
  <2>3. End(s) - s.offset = s.size
    BY <1>1
  <2> QED  BY <1>2, <2>2, <2>3
<1>4. s.size < s.size + t.size /\ s.size # 0
  BY <1>1
<1>5. Covers(t) \subseteq Covers(s)
  BY <1>1 DEF Covers
<1> QED  BY <1>3, <1>4, <1>5 DEF Merged

(* One behind the other, in either order of the arguments.                 *)
LEMMA HullBehind ==
  ASSUME NEW s \in FragSpecs, NEW t \in FragSpecs, t.size # 0, NEW identical,
         End(s) <= t.offset
  PROVE  LET h == Hull(s, t)
         IN  /\ h \in FragSpecs /\ h.offset = s.offset /\ End(h) = End(t)
             /\ h.size # 0
             /\ Merged(s, t, identical) <=> End(s) = t.offset
             /\ ~Overlap(s, t, identical)
             /\ End(s) = t.offset => Covers(h) = Covers(s) \cup Covers(t)
<1> DEFINE h == Hull(s, t)
<1>1. /\ s.offset \in Nat /\ s.size \in Nat /\ End(s) = s.offset + s.size
      /\ t.offset \in Nat /\ t.size \in Nat /\ End(t) = t.offset + t.size
  BY DEF FragSpecs, End
<1>2. h = [offset |-> s.offset, size |-> End(t) - s.offset]
  <2>1. ~(t.offset < s.offset) /\ End(s) < End(t)
    BY <1>1
  <2> QED  BY <2>1 DEF Hull
<1>3. h.offset = s.offset /\ h.size = End(t) - s.offset
  BY <1>2
<1>4. h.size \in Nat /\ h.size # 0 /\ h.size # s.size
  BY <1>1, <1>3
<1>5. h \in FragSpecs
  BY <1>1, <1>2, <1>3, <1>4 DEF FragSpecs
<1>6. End(h) = End(t)
  BY <1>1, <1>3 DEF End
<1>7. h # s
  BY <1>4
<1> HIDE DEF h
<1>8. /\ h.size = s.size + t.size <=> End(s) = t.offset
      /\ ~(h.size < s.size + t.size)
  BY <1>1, <1>3
<1>9. /\ Merged(s, t, identical) <=> End(s) = t.offset
      /\ ~Overlap(s, t, identical)
  BY <1>7, <1>8 DEF Merged, Overlap, h
<1>10. ASSUME End(s) = t.offset
       PROVE  Covers(h) = Covers(s) \cup Covers(t)
  <2>1. /\ Covers(h) = s.offset..(End(t) - 1) /\ Covers(s) = s.offset..(t.offset - 1)
        /\ Covers(t) = t.offset..(End(t) - 1)
    BY <1>3, <1>6, <1>10 DEF Covers
  <2>2. s.offset <= t.offset /\ t.offset <= End(t)
    BY <1>1, <1>10
  <2>3. End(t) \in Nat
    BY <1>1
  <2> QED  BY <1>1, <2>1, <2>2, <2>3
<1> QED  BY <1>3, <1>4, <1>5, <1>6, <1>9, <1>10 DEF h

LEMMA HullBefore ==
  ASSUME NEW s \in FragSpecs, NEW t \in FragSpecs, t.size # 0, s.size # 0,
         NEW identical, End(t) <= s.offset
  PROVE  LET h == Hull(s, t)
         IN  /\ h \in FragSpecs /\ h.offset = t.offset /\ End(h) = End(s)
             /\ h.size # 0
             /\ Merged(s, t, identical) <=> End(t) = s.offset
             /\ ~Overlap(s, t, identical)
             /\ End(t) = s.offset => Covers(h) = Covers(s) \cup Covers(t)
<1>1. /\ s.offset \in Nat /\ s.size \in Nat /\ End(s) = s.offset + s.size
      /\ t.offset \in Nat /\ t.size \in Nat /\ End(t) = t.offset + t.size
  BY DEF FragSpecs, End
<1>2. Hull(s, t) = Hull(t, s)
  <2>1. t.offset < s.offset /\ End(t) < End(s)
    BY <1>1
  <2> QED  BY <1>1, <2>1 DEF Hull
<1>3. Hull(s, t) # s
  <2>1. t.offset < s.offset
    BY <1>1
  <2> QED  BY <1>1, <2>1 DEF Hull
<1>4. LET h == Hull(t, s)
      IN  /\ h \in FragSpecs /\ h.offset = t.offset /\ End(h) = End(s) /\ h.size # 0
          /\ Merged(t, s, identical) <=> End(t) = s.offset
          /\ ~Overlap(t, s, identical)
          /\ End(t) = s.offset => Covers(h) = Covers(t) \cup Covers(s)
  BY HullBehind
<1>5. Hull(t, s) # t
  <2>1. End(t) - t.offset # End(s) - t.offset
    BY <1>1
  <2>2. Hull(t, s).size = End(s) - t.offset /\ t.size = End(t) - t.offset
    <3>1. ~(s.offset < t.offset) /\ End(t) < End(s)
      BY <1>1
    <3> QED  BY <1>1, <3>1 DEF Hull
  <2> QED  BY <2>1, <2>2
<1>6. s.size + t.size = t.size + s.size
  BY <1>1
<1>7. /\ Merged(s, t, identical) <=> Merged(t, s, identical)
      /\ Overlap(s, t, identical) <=> Overlap(t, s, identical)
  BY <1>2, <1>3, <1>5, <1>6 DEF Merged, Overlap
<1> QED  BY <1>2, <1>4, <1>7

-----------------------------------------------------------------------------
(* The fragment has been merged into the k-th specification.               *)
LEMMA ExtendTakes ==
  ASSUME NEW list, SpecList(list), Apart(list), NEW k \in 1..Len(list),
         NEW new, NEW free, NEW identical, NEW h \in FragSpecs,
         h = Hull(list[k], new), h.size # 0, h.offset = list[k].offset,
         Covers(h) = Covers(list[k]) \cup Covers(new),
         k # Len(list) => End(h) <= list[k + 1].offset
  PROVE  Takes(Extend(list, k, new, free, identical).specs, list, new)
<1> DEFINE l == [list EXCEPT ![k] = h]
           m == JoinNext(l, k, free, identical)
<1>1. list \in Seq(FragSpecs) /\ Len(list) \in Nat /\ k \in Nat /\ k - 1 \in 0..Len(list)
      /\ k \in (k - 1)..Len(list) /\ k # 0
  BY DEF SpecList
<1>2. /\ l \in Seq(FragSpecs) /\ Len(l) = Len(list)
      /\ \A n \in 1..Len(list) : l[n] = IF n = k THEN h ELSE list[n]
      /\ Spliced(l, list, k - 1, k, h)
  BY <1>1, ExceptSeq, ReplaceIs
<1>3. Extend(list, k, new, free, identical) = m
  BY DEF Extend
<1> HIDE DEF l
<1>4. k - 1 # 0 => End(list[k - 1]) < h.offset
  <2> SUFFICES ASSUME k - 1 # 0 PROVE End(list[k - 1]) < list[k].offset
    OBVIOUS
  <2>1. k - 1 \in 1..Len(list) /\ k - 1 < k
    BY <1>1
  <2> QED  BY <2>1 DEF Apart
<1>5. ASSUME k # Len(list) => End(h) < list[k + 1].offset
      PROVE  Takes(l, list, new)
  <2>1. UNION {Covers(list[n]) : n \in (k - 1 + 1)..k} = Covers(list[k])
    <3>1. (k - 1 + 1)..k = {k}
      BY <1>1
    <3> QED  BY <3>1
  <2>2. Covers(h) = Covers(new) \cup UNION {Covers(list[n]) : n \in (k - 1 + 1)..k}
    BY <2>1
  <2> DEFINE i == k - 1
  <2>3. /\ i \in 0..Len(list) /\ k \in i..Len(list)
        /\ i # 0 => End(list[i]) < h.offset
        /\ Spliced(l, list, i, k, h)
        /\ Covers(h) = Covers(new) \cup UNION {Covers(list[n]) : n \in (i + 1)..k}
    BY <1>1, <1>2, <1>4, <2>2
  <2> HIDE DEF i
  <2> QED  BY <1>1, <1>5, <2>3, SplicedTakes
<1>6. CASE k = Len(list)
  <2>1. m.specs = l
    BY <1>2, <1>6 DEF JoinNext, Result
  <2> QED  BY <1>3, <1>5, <1>6, <2>1
<1>7. CASE k # Len(list)
  <2> DEFINE t == list[k + 1]
  <2>1. k + 1 \in 1..Len(list) /\ k + 1 # 1 /\ k + 1 # k
    BY <1>1, <1>7
  <2>2. t \in FragSpecs /\ t.size # 0 /\ l[k] = h /\ l[k + 1] = t
    BY <1>1, <1>2, <2>1 DEF Apart
  <2>3. End(h) <= t.offset
    BY <1>7
  <2> HIDE DEF t
  <2> DEFINE g == Hull(h, t)
  <2>4. /\ g \in FragSpecs /\ g.offset = h.offset /\ End(g) = End(t) /\ g.size # 0
        /\ Merged(h, t, identical) <=> End(h) = t.offset
        /\ ~Overlap(h, t, identical)
        /\ End(h) = t.offset => Covers(g) = Covers(h) \cup Covers(t)
    BY <2>2, <2>3, HullBehind
  <2> HIDE DEF g
  <2>5. CASE End(h) # t.offset
    <3>1. m.specs = l
      BY <1>2, <1>7, <2>2, <2>4, <2>5 DEF JoinNext, Result
    <3>2. End(h) < t.offset
      <4>1. End(h) \in Int /\ t.offset \in Int
        BY <2>2 DEF FragSpecs, End
      <4> QED  BY <2>3, <2>5, <4>1
    <3> QED  BY <1>3, <1>5, <3>1, <3>2 DEF t
  <2>6. CASE End(h) = t.offset
    <3> DEFINE x == Upto(l, k - 1) \o <<g>> \o After(l, k + 1)
    <3>1. m.specs = x
      BY <1>2, <1>7, <2>2, <2>4, <2>6 DEF JoinNext, Result, g
    <3> DEFINE i == k - 1
               j == k + 1
    <3>2. i \in 0..Len(l) /\ j \in i..Len(l) /\ j # 0 /\ i \in Nat /\ j \in Nat
      BY <1>1, <1>2, <2>1
    <3>3. x = Upto(l, i) \o <<g>> \o After(l, j)
      OBVIOUS
    <3> HIDE DEF x, i, j
    <3>4. Spliced(x, l, i, j, g)
      BY <1>2, <2>4, <3>2, <3>3, SpliceIs
    <3>5. Spliced(x, list, i, j, g)
      <4>1. /\ x \in Seq(FragSpecs) /\ Len(x) = i + 1 + Len(list) - j
            /\ \A n \in 1..i : x[n] = l[n]
            /\ x[i + 1] = g
            /\ \A n \in (i + 2)..Len(x) : x[n] = l[n - (i + 1) + j]
        BY <1>2, <3>4 DEF Spliced
      <4>2. \A n \in 1..i : l[n] = list[n]
        BY <1>1, <1>2 DEF i
      <4>3. \A n \in (j + 1)..Len(list) : l[n] = list[n]
        BY <1>1, <1>2 DEF j
      <4>4. \A n \in (i + 2)..Len(x) : n - (i + 1) + j \in (j + 1)..Len(list)
        BY <1>1, <1>2, <3>2, <4>1
      <4> QED  BY <4>1, <4>2, <4>3, <4>4 DEF Spliced
    <3>6. i # 0 => End(list[i]) < g.offset
      BY <1>4, <2>4 DEF i
    <3>7. j # Len(list) => End(g) < list[j + 1].offset
      <4> SUFFICES ASSUME j # Len(list) PROVE End(t) < list[j + 1].offset
        BY <2>4
      <4>1. j \in 1..Len(list) /\ j + 1 \in 1..Len(list) /\ j < j + 1
        BY <1>1, <1>2, <2>1, <3>2 DEF j
      <4>2. t = list[j]
        BY DEF t, j
      <4> QED  BY <4>1, <4>2 DEF Apart
    <3>8. Covers(g) = Covers(new) \cup UNION {Covers(list[n]) : n \in (i + 1)..j}
      <4>1. (i + 1)..j = {k, k + 1}
        BY <1>1 DEF i, j
      <4> QED  BY <2>4, <2>6, <4>1 DEF t
    <3>9. Takes(x, list, new)
      BY <1>1, <1>2, <2>4, <3>2, <3>5, <3>6, <3>7, <3>8, SplicedTakes
    <3> QED  BY <1>3, <3>1, <3>9
  <2> QED  BY <2>5, <2>6
<1> QED  BY <1>6, <1>7

-----------------------------------------------------------------------------
(* MergeNewFragSpecIntoPacket of a fragment of the same fragmentation:     *)
(* unless the pool is dry, the specifications take in what it covers, keep *)
(* what they had, and stay apart.                                          *)
LEMMA MergeTakes ==
  ASSUME NEW list, SpecList(list), Apart(list), NEW new \in FragSpecs, new.size # 0,
         NEW free, NEW identical, AlignedWith(new, list),
         \A i \in 1..Len(list) : Covers(new) \subseteq Covers(list[i]) => identical
  PROVE  LET m == MergeNewFragSpec(list, new, free, identical)
         IN  m.ok => Takes(m.specs, list, new)
<1> DEFINE Inside(n) == list[n].offset <= new.offset /\ End(new) <= End(list[n])
<1>1. /\ Len(list) \in Nat /\ list \in Seq(FragSpecs) /\ list[1].offset = 0
      /\ \A n \in 1..Len(list) : list[n] \in FragSpecs
      /\ 1 \in 1..Len(list)
  BY DEF SpecList
<1>2. /\ \A n \in 1..Len(list) : /\ list[n].offset \in Nat /\ End(list[n]) \in Nat
                                 /\ n # 1 => list[n].offset < End(list[n])
      /\ new.offset \in Nat /\ End(new) \in Nat /\ new.offset < End(new)
  <2>1. \A x \in FragSpecs : /\ x.offset \in Nat /\ End(x) \in Nat
                             /\ x.size # 0 => x.offset < End(x)
    BY DEF FragSpecs, End
  <2> QED  BY <1>1, <2>1 DEF Apart
<1>3. ASSUME NEW n \in 1..Len(list)
      PROVE  \/ Inside(n) \/ End(new) <= list[n].offset \/ End(list[n]) <= new.offset
  <2>1. list[n].size # 0 \/ list[n].offset = 0
    BY <1>1 DEF Apart
  <2>2. Aligned(new, list[n]) /\ list[n] \in FragSpecs
    BY <1>1 DEF AlignedWith
  <2> QED  BY <2>1, <2>2, AlignedIntervals
<1>4. ASSUME NEW n \in 1..Len(list), Inside(n) PROVE identical
  <2>1. Covers(new) \subseteq Covers(list[n])
    BY <1>2, <1>4 DEF Covers
  <2> QED  BY <2>1
<1>5. ASSUME NEW k \in 1..Len(list), Inside(k) \/ End(list[k]) = new.offset,
             k # Len(list) => new.offset <= list[k + 1].offset
      PROVE  /\ Merged(list[k], new, identical)
             /\ Takes(Extend(list, k, new, free, identical).specs, list, new)
  <2> DEFINE h == Hull(list[k], new)
  <2>1. k # Len(list) => /\ k + 1 \in 1..Len(list) /\ k < k + 1 /\ k + 1 # 1
                         /\ End(list[k]) < list[k + 1].offset
    BY <1>1 DEF Apart
  <2>2. CASE Inside(k)
    <3>1. /\ h = list[k] /\ Merged(list[k], new, identical)
          /\ Covers(list[k]) = Covers(new) \cup Covers(list[k]) /\ list[k].size # 0
      BY <1>1, <1>4, <2>2, HullInside
    <3> HIDE DEF h
    <3>2. /\ h \in FragSpecs /\ h.size # 0 /\ h.offset = list[k].offset
          /\ Covers(h) = Covers(list[k]) \cup Covers(new)
          /\ k # Len(list) => End(h) <= list[k + 1].offset
      BY <1>1, <1>2, <2>1, <3>1
    <3> QED  BY <3>1, <3>2, ExtendTakes DEF h
  <2>3. CASE End(list[k]) = new.offset
    <3>1. End(list[k]) <= new.offset
      BY <1>2, <2>3
    <3>2. /\ h \in FragSpecs /\ h.offset = list[k].offset /\ End(h) = End(new)
          /\ h.size # 0 /\ Merged(list[k], new, identical)
          /\ Covers(h) = Covers(list[k]) \cup Covers(new)
      <4> DEFINE e == list[k]
      <4>1. e \in FragSpecs /\ new \in FragSpecs /\ new.size # 0
            /\ End(e) <= new.offset /\ End(e) = new.offset
        BY <1>1, <2>3, <3>1
      <4> HIDE DEF e
      <4>2. /\ Hull(e, new) \in FragSpecs /\ Hull(e, new).offset = e.offset
            /\ End(Hull(e, new)) = End(new) /\ Hull(e, new).size # 0
            /\ Merged(e, new, identical)
            /\ Covers(Hull(e, new)) = Covers(e) \cup Covers(new)
        BY <4>1, HullBehind
      <4> QED  BY <4>2 DEF e
    <3>3. k # Len(list) => End(new) <= list[k + 1].offset
      <4> SUFFICES ASSUME k # Len(list) PROVE End(new) <= list[k + 1].offset
        OBVIOUS
      <4>1. ~(list[k + 1].offset <= new.offset)
        BY <1>2, <2>1, <2>3
      <4>2. ~(End(list[k + 1]) <= new.offset)
        BY <1>2, <1>5, <2>1
      <4> QED  BY <1>3, <2>1, <4>1, <4>2
    <3> HIDE DEF h
    <3> QED  BY <3>2, <3>3, ExtendTakes DEF h
  <2> QED  BY <1>5, <2>2, <2>3
<1>6. CASE new.offset = 0
  <2>1. Inside(1) \/ End(list[1]) = new.offset
    <3>1. ~(End(new) <= list[1].offset)
      BY <1>1, <1>2, <1>6
    <3> QED  BY <1>1, <1>2, <1>3, <1>6, <3>1
  <2>2. 1 # Len(list) => new.offset <= list[1 + 1].offset
    <3> DEFINE j == 1 + 1
    <3>1. Len(list) \in Nat /\ Len(list) >= 1
      BY <1>1
    <3>2. 1 # Len(list) => j \in 1..Len(list)
      BY <3>1
    <3>3. \A n \in 1..Len(list) : list[n].offset >= 0
      BY <1>2
    <3> HIDE DEF j
    <3>4. 1 # Len(list) => list[j].offset >= 0
      BY <3>2, <3>3
    <3> QED  BY <1>6, <3>4 DEF j
  <2>3. /\ Merged(list[1], new, identical)
        /\ Takes(Extend(list, 1, new, free, identical).specs, list, new)
    BY <1>1, <1>5, <2>1, <2>2
  <2> QED  BY <1>6, <2>3 DEF MergeNewFragSpec, MergeFirst
<1>7. CASE new.offset # 0
  <2> DEFINE k == InsertAfter(list, new)
             m == MergeLater(list, new, free, identical)
  <2>1. /\ k \in 1..Len(list) /\ list[k].offset < new.offset
        /\ k # Len(list) => new.offset <= list[k + 1].offset
    BY <1>7, InsertionPoint
  <2>2. MergeNewFragSpec(list, new, free, identical) = m
    BY <1>7 DEF MergeNewFragSpec
  <2>3. m = IF k = 0 THEN Result(list, free, FALSE)
            ELSE IF Merged(list[k], new, identical)
              THEN Extend(list, k, new, free, identical)
            ELSE IF Overlap(list[k], new, identical)
              THEN OwnElement(<<Spec0>>, new, << >>, FreedWith(list, free))
            ELSE IF k = Len(list) THEN OwnElement(list, new, << >>, free)
            ELSE IF Merged(list[k + 1], new, identical)
              THEN Result([list EXCEPT ![k + 1] = Hull(list[k + 1], new)], free, TRUE)
            ELSE IF Overlap(list[k + 1], new, identical)
              THEN OwnElement(Upto(list, k), new, << >>, free + Len(list) - k)
            ELSE OwnElement(Upto(list, k), new, After(list, k), free)
    BY <1>1, <2>1 DEF MergeLater
  <2> HIDE DEF k, m
  <2>4. SUFFICES ASSUME m.ok PROVE Takes(m.specs, list, new)
    BY <2>2
  <2>5. k # 0 /\ k \in Nat
    BY <2>1
  <2>6. CASE Inside(k) \/ End(list[k]) = new.offset
    <3>1. Merged(list[k], new, identical)
          /\ Takes(Extend(list, k, new, free, identical).specs, list, new)
      BY <1>5, <2>1, <2>6
    <3> QED  BY <2>3, <2>5, <3>1
  <2>7. CASE ~Inside(k) /\ End(list[k]) # new.offset
    <3>1. End(list[k]) < new.offset
      <4>1. ~(End(new) <= list[k].offset)
        BY <1>2, <2>1
      <4> QED  BY <1>2, <1>3, <2>1, <2>7, <4>1
    <3>2. ~Merged(list[k], new, identical) /\ ~Overlap(list[k], new, identical)
      <4>1. End(list[k]) <= new.offset
        BY <1>2, <2>1, <3>1
      <4> QED  BY <1>1, <2>1, <2>7, <4>1, HullBehind
    <3>3. CASE k = Len(list)
      <4>1. m = OwnElement(list, new, << >>, free)
        BY <2>3, <2>5, <3>2, <3>3
      <4>2. m.specs = list \o <<new>> \o << >>
        BY <2>4, <4>1 DEF OwnElement, Result
      <4>3. Spliced(m.specs, list, k, k, new)
        BY <1>1, <3>3, <4>2, AppendIs
      <4>4. UNION {Covers(list[n]) : n \in (k + 1)..k} = {}
        <5>1. (k + 1)..k = {}
          BY <2>5
        <5> QED  BY <5>1
      <4>5. k \in 0..Len(list) /\ k \in k..Len(list)
        BY <2>1
      <4> QED  BY <2>5, <3>1, <3>3, <4>3, <4>4, <4>5, SplicedTakes
    <3>4. CASE k # Len(list)
      <4>1. /\ k + 1 \in 1..Len(list) /\ k \in 0..Len(list) /\ k \in k..Len(list)
            /\ k + 1 \in k..Len(list) /\ k + 1 # 0 /\ k + 1 # 1 /\ k < k + 1
        BY <1>1, <2>1, <3>4
      <4>2. new.offset <= list[k + 1].offset /\ list[k + 1].size # 0
        BY <2>1, <3>4, <4>1 DEF Apart
      <4>3. k + 1 # Len(list) => End(list[k + 1]) < list[k + 1 + 1].offset
        <5>1. k + 1 # Len(list) => k + 1 + 1 \in 1..Len(list) /\ k + 1 < k + 1 + 1
          BY <1>1, <2>5, <4>1
        <5> QED  BY <4>1, <5>1 DEF Apart
      <4>4. End(list[k]) < list[k + 1].offset
        BY <2>1, <4>1 DEF Apart
      <4> DEFINE h == Hull(list[k + 1], new)
      <4>5. ASSUME Merged(list[k + 1], new, identical), h \in FragSpecs, h.size # 0,
                   End(list[k]) < h.offset, End(h) = End(list[k + 1]),
                   Covers(h) = Covers(list[k + 1]) \cup Covers(new)
            PROVE  Takes(m.specs, list, new)
        <5> HIDE DEF h
        <5>1. m = Result([list EXCEPT ![k + 1] = h], free, TRUE)
          BY <2>3, <2>5, <3>2, <3>4, <4>5 DEF h
        <5>2. m.specs = [list EXCEPT ![k + 1] = h]
          BY <5>1 DEF Result
        <5> DEFINE j == k + 1
        <5>3. Spliced(m.specs, list, k, j, h)
          <6>1. j - 1 = k
            BY <2>5
          <6>2. Spliced(m.specs, list, j - 1, j, h)
            BY <1>1, <4>1, <4>5, <5>2, ReplaceIs
          <6> QED  BY <6>1, <6>2
        <5>4. UNION {Covers(list[n]) : n \in (k + 1)..j} = Covers(list[j])
          <6>1. (k + 1)..j = {j}
            BY <2>5
          <6> QED  BY <6>1
        <5>5. /\ k \in 0..Len(list) /\ j \in k..Len(list) /\ j # 0
              /\ j # Len(list) => End(h) < list[j + 1].offset
              /\ Covers(h) = Covers(new) \cup UNION {Covers(list[n]) : n \in (k + 1)..j}
          BY <4>1, <4>3, <4>5, <5>4
        <5> HIDE DEF j
        <5> QED  BY <4>5, <5>3, <5>5, SplicedTakes
      <4>6. CASE Inside(k + 1)
        <5>1. /\ h = list[k + 1] /\ Merged(list[k + 1], new, identical)
              /\ Covers(list[k + 1]) = Covers(new) \cup Covers(list[k + 1])
          BY <1>1, <1>4, <4>1, <4>6, HullInside
        <5> QED  BY <1>1, <4>1, <4>2, <4>4, <4>5, <5>1
      <4>7. CASE End(new) <= list[k + 1].offset
        <5>1. /\ h \in FragSpecs /\ h.offset = new.offset /\ End(h) = End(list[k + 1])
              /\ h.size # 0
              /\ Merged(list[k + 1], new, identical) <=> End(new) = list[k + 1].offset
              /\ ~Overlap(list[k + 1], new, identical)
              /\ End(new) = list[k + 1].offset =>
                   Covers(h) = Covers(list[k + 1]) \cup Covers(new)
          BY <1>1, <4>1, <4>2, <4>7, HullBefore
        <5>2. CASE End(new) = list[k + 1].offset
          BY <3>1, <4>5, <5>1, <5>2
        <5>3. CASE End(new) # list[k + 1].offset
          <6>1. m = OwnElement(Upto(list, k), new, After(list, k), free)
            BY <2>3, <2>5, <3>2, <3>4, <5>1, <5>3
          <6>2. m.specs = Upto(list, k) \o <<new>> \o After(list, k)
            BY <2>4, <6>1 DEF OwnElement, Result
          <6>3. Spliced(m.specs, list, k, k, new)
            BY <1>1, <4>1, <6>2, SpliceIs
          <6>4. UNION {Covers(list[n]) : n \in (k + 1)..k} = {}
            <7>1. (k + 1)..k = {}
              BY <2>5
            <7> QED  BY <7>1
          <6>5. End(new) < list[k + 1].offset
            BY <1>2, <4>1, <4>7, <5>3
          <6> QED  BY <2>5, <3>1, <4>1, <6>3, <6>4, <6>5, SplicedTakes
        <5> QED  BY <5>2, <5>3
      <4>8. ~(End(list[k + 1]) <= new.offset)
        BY <1>2, <4>1, <4>2
      <4> QED  BY <1>3, <4>1, <4>6, <4>7, <4>8
    <3> QED  BY <3>3, <3>4
  <2> QED  BY <2>6, <2>7
<1> QED  BY <1>6, <1>7

-----------------------------------------------------------------------------
(* A datagram that has only got fragments of one fragmentation: all of     *)
(* them are counted, and their units hold what the fragments do.           *)
Received(d) ==
  /\ Apart(d.specs) /\ Coverage(d.specs) = d.written
  /\ \A c \in FragmentKinds : c.key = d.key =>
       /\ AlignedWith(c, d.specs)
       /\ \A u \in d.written \cap Covers(c) : d.data[u] = c.value

KeptInv ==
  \A s \in Busy : slot[s].key \in FragmentedOnce => Received(slot[s])

LEMMA OneFragmentation ==
  ASSUME NEW c \in FragmentKinds, NEW d \in FragmentKinds, c.key = d.key,
         c.key \in FragmentedOnce
  PROVE  c = d \/ Covers(d) \cap Covers(c) = {}
<1>1. PICK x \in FragmentKinds :
        /\ x.key = c.key
        /\ \A e, g \in FragmentKinds : e.key = x.key => Agree(e, g)
  BY DEF FragmentedOnce
<1>2. Agree(d, c)
  BY <1>1
<1> QED  BY <1>2 DEF Agree

LEMMA NewIsReceived ==
  ASSUME NEW c, NEW memory PROVE Received(NewDatagram(c, memory))
<1> DEFINE d == NewDatagram(c, memory)
           list == <<Spec0>>
<1>1. d.specs = list /\ d.written = {}
  BY DEF NewDatagram
<1> HIDE DEF d
<1>2. Len(list) = 1 /\ list[1] = Spec0 /\ 1..1 = {1}
  OBVIOUS
<1>3. Covers(Spec0) = {}
  BY DEF Spec0, Covers, End
<1> HIDE DEF list
<1>4. Coverage(list) = {}
  BY <1>2, <1>3 DEF Coverage
<1>5. Apart(list)
  BY <1>2 DEF Apart
<1>6. \A e : AlignedWith(e, list)
  BY <1>2, <1>3 DEF AlignedWith, Aligned
<1>7. Received(d)
  BY <1>1, <1>4, <1>5, <1>6 DEF Received
<1> QED  BY <1>7 DEF d

LEMMA SameIsReceived ==
  ASSUME NEW d, NEW e, Same(d, e), Received(e) PROVE Received(d)
BY DEF Same, Received

LEMMA FilledIsReceived ==
  ASSUME NEW s \in Slots, Datagram(slot[s]), Received(slot[s]),
         slot[s].key \in FragmentedOnce,
         NEW c \in FragmentKinds, c.key = slot[s].key, c.total = slot[s].total,
         Merge(s, c).ok
  PROVE  Received(Filled(s, c, Merge(s, c)))
<1> DEFINE d == slot[s]
           list == slot[s].specs
           new == [offset |-> c.offset, size |-> c.size]
           m == Merge(s, c)
           f == Filled(s, c, m)
<1>1. /\ c.offset \in Nat /\ c.size \in Nat /\ c.size # 0
      /\ c.offset + c.size <= c.total /\ c.total \in Nat
  BY DefragmenterConstants DEF FragmentKinds
<1>2. /\ SpecList(list) /\ Apart(list) /\ Coverage(list) = d.written
      /\ \A e \in FragmentKinds : e.key = d.key =>
           /\ AlignedWith(e, list)
           /\ \A u \in d.written \cap Covers(e) : d.data[u] = e.value
  BY DEF Datagram, Received
<1>3. new \in FragSpecs /\ new.size # 0 /\ Covers(new) = Covers(c)
  BY <1>1 DEF FragSpecs, Covers, End
<1>4. AlignedWith(new, list)
  BY <1>2, <1>3 DEF AlignedWith, Aligned
<1>5. ASSUME NEW i \in 1..Len(list), Covers(new) \subseteq Covers(list[i])
      PROVE  Identical(s, c)
  <2>1. Covers(c) \subseteq d.written
    BY <1>2, <1>3, <1>5, CoverageOf
  <2>2. \A u \in Covers(c) : d.data[u] = c.value
    BY <1>2, <2>1
  <2>3. ASSUME c.offset = 0 PROVE list[1].size > 0
    <3>1. 0 \in Covers(list[i])
      BY <1>1, <1>3, <1>5, <2>3 DEF Covers, End
    <3>2. /\ list[1].offset \in Nat /\ list[1].size \in Nat
          /\ list[i].offset \in Nat /\ list[i].size \in Nat
          /\ 1 \in 1..Len(list) /\ i \in Nat /\ 1 <= i
      <4>1. list \in Seq(FragSpecs) /\ Len(list) \in Nat
        BY <1>2 DEF SpecList
      <4>2. i \in Nat /\ 1 <= i /\ 1 \in 1..Len(list)
        BY <1>5, <4>1
      <4>3. list[1] \in FragSpecs /\ list[i] \in FragSpecs
        BY <1>5, <4>1, <4>2
      <4> QED  BY <4>2, <4>3 DEF FragSpecs
    <3>3. list[i].offset = 0 /\ list[i].size > 0
      BY <3>1, <3>2 DEF Covers, End
    <3>4. ~(1 < i)
      <4>1. 1 < i => End(list[1]) < list[i].offset
        BY <1>2, <3>2 DEF Apart
      <4>2. End(list[1]) \in Nat
        <5>1. End(list[1]) = list[1].offset + list[1].size
          BY DEF End
        <5> QED  BY <3>2, <5>1
      <4> QED  BY <3>3, <4>1, <4>2
    <3>5. i = 1
      BY <3>2, <3>4
    <3> QED  BY <3>3, <3>5
  <2> QED  BY <2>2, <2>3 DEF Identical
<1>6. m = MergeNewFragSpec(list, new, freeSpecs, Identical(s, c))
  BY DEF Merge
<1> HIDE DEF m, new
<1>7. Takes(m.specs, list, new)
  <2> DEFINE id == Identical(s, c)
             l == list
  <2>1. \A i \in 1..Len(l) : Covers(new) \subseteq Covers(l[i]) => id
    BY <1>5
  <2>2. SpecList(l) /\ Apart(l) /\ AlignedWith(new, l)
        /\ m = MergeNewFragSpec(l, new, freeSpecs, id)
    BY <1>2, <1>4, <1>6
  <2> HIDE DEF id, l
  <2>3. m.ok => Takes(m.specs, l, new)
    BY <1>3, <2>1, <2>2, MergeTakes
  <2>4. m.ok
    BY DEF m
  <2> QED  BY <2>3, <2>4 DEF l
<1>8. /\ f.specs = m.specs /\ f.written = d.written \cup Covers(c)
      /\ f.key = d.key
      /\ f.data = [u \in DOMAIN d.data |-> IF u \in Covers(c) THEN c.value ELSE d.data[u]]
  BY DEF Filled, Datagram
<1>9. d.written \cup Covers(c) \subseteq DOMAIN d.data
  <2>1. Covers(c) \subseteq 0..(d.total - 1)
    BY <1>1 DEF Covers, End
  <2> QED  BY <2>1 DEF Datagram
<1> HIDE DEF f
<1>10. Apart(f.specs) /\ Coverage(f.specs) = f.written
  BY <1>2, <1>3, <1>7, <1>8 DEF Takes
<1>11. ASSUME NEW e \in FragmentKinds, e.key = d.key
       PROVE  /\ AlignedWith(e, f.specs)
              /\ \A u \in f.written \cap Covers(e) : f.data[u] = e.value
  <2>1. e = c \/ Covers(e) \cap Covers(c) = {}
    BY <1>11, OneFragmentation
  <2>2. AlignedWith(e, f.specs)
    BY <1>2, <1>3, <1>7, <1>8, <1>11, <2>1 DEF Takes
  <2>3. ASSUME NEW u \in f.written \cap Covers(e) PROVE f.data[u] = e.value
    <3>1. u \in DOMAIN d.data
      BY <1>8, <1>9
    <3>2. CASE e = c
      BY <1>8, <3>1, <3>2
    <3>3. CASE Covers(e) \cap Covers(c) = {}
      <4>1. u \notin Covers(c) /\ u \in d.written /\ u \in Covers(e)
        BY <1>8, <3>3
      <4> QED  BY <1>2, <1>8, <1>11, <3>1, <4>1
    <3> QED  BY <2>1, <3>2, <3>3
  <2> QED  BY <2>2, <2>3
<1>12. Received(f)
  BY <1>8, <1>10, <1>11 DEF Received
<1> QED  BY <1>12 DEF f, m

LEMMA NextKept == DefragmenterInv /\ KeptInv /\ [Next]_vars => KeptInv'
<1> SUFFICES ASSUME DefragmenterInv, KeptInv, [Next]_vars PROVE KeptInv'
  OBVIOUS
<1>1. ASSUME \A s \in Busy' : s \in Busy /\ slot'[s] = slot[s]
      PROVE  KeptInv'
  <2>1. ASSUME NEW s \in Busy', slot'[s].key \in FragmentedOnce
        PROVE  Received(slot'[s])
    <3>1. s \in Busy /\ slot'[s] = slot[s]
      BY <1>1, <2>1
    <3>2. Received(slot[s])
      BY <2>1, <3>1 DEF KeptInv
    <3> QED  BY <3>1, <3>2
  <2> QED  BY <2>1 DEF KeptInv
<1>2. TableInv
  BY DEF DefragmenterInv
<1>3. CASE UNCHANGED slot
  BY <1>1, <1>3 DEF Busy, On
<1>4. CASE \E gone \in SUBSET Slots : Destroy(gone)
  BY <1>1, <1>4, DestroyedAge
<1>5. CASE Start
  <2>1. Busy' = {}
    BY <1>5 DEF Start, Busy, On, FreeSlot
  <2> QED  BY <2>1 DEF KeptInv
<1>6. CASE lockDatagram
  <2>1. PICK r \in Slots \cup {NULL} : Find(Headers, r)
    BY <1>6 DEF lockDatagram
  <2>2. \A s \in Busy' :
          \/ s \in Busy /\ Same(slot'[s], slot[s])
          \/ \E memory \in [0..(Headers.total - 1) -> Values] :
               slot'[s] = NewDatagram(Headers, memory)
    BY <1>2, <2>1, FindLeaves
  <2>3. ASSUME NEW s \in Busy', slot'[s].key \in FragmentedOnce
        PROVE  Received(slot'[s])
    <3>1. CASE s \in Busy /\ Same(slot'[s], slot[s])
      <4>1. slot[s].key \in FragmentedOnce
        BY <2>3, <3>1 DEF Same
      <4> QED  BY <3>1, <4>1, SameIsReceived DEF KeptInv
    <3>2. CASE \E memory \in [0..(Headers.total - 1) -> Values] :
                 slot'[s] = NewDatagram(Headers, memory)
      BY <3>2, NewIsReceived
    <3> QED  BY <2>2, <3>1, <3>2
  <2> QED  BY <2>3 DEF KeptInv
<1>7. CASE mergeFragmentToPacket
  <2> DEFINE s == m_processedPacket
  <2>1. m_doneUntilNow = "LOCK_IPV6_PACKET" /\ PassFragment(s, Headers)
    BY <1>7 DEF mergeFragmentToPacket, Stage, TaskRuns
  <2>2. s \in Slots /\ On("locked") = {s} /\ Headers \in FrameKinds
    <3>1. Headers \in FrameKinds
      BY <1>7, StageStarts DEF mergeFragmentToPacket
    <3> QED
      BY <2>1, <3>1, DefragmenterConstants
         DEF DefragmenterInv, StageInv, LockIsProcessed
  <2>3. slot[s] # FreeSlot /\ s \in Busy /\ Datagram(slot[s])
    BY <1>2, <2>2 DEF On, Busy, FreeSlot, TableInv
  <2>4. /\ Headers \in FragmentKinds /\ Headers.key = slot[s].key
        /\ Headers.total = slot[s].total
    BY <2>1, <2>2 DEF DefragmenterInv, StageInv, FragmentKinds
  <2> HIDE DEF s
  <2>5. \A t \in Busy' :
          \/ t # s /\ t \in Busy /\ slot'[t] = slot[t]
          \/ /\ t = s /\ Merge(s, Headers).ok
             /\ slot'[s] = Filled(s, Headers, Merge(s, Headers))
    BY <1>2, <2>1, <2>2, <2>3, PassFragmentLeaves
  <2>6. Filled(s, Headers, Merge(s, Headers)).key = slot[s].key
    BY <2>3 DEF Filled, Datagram
  <2>7. ASSUME NEW t \in Busy', slot'[t].key \in FragmentedOnce
        PROVE  Received(slot'[t])
    <3>1. CASE t \in Busy /\ slot'[t] = slot[t]
      BY <2>7, <3>1 DEF KeptInv
    <3>2. CASE /\ t = s /\ Merge(s, Headers).ok
               /\ slot'[s] = Filled(s, Headers, Merge(s, Headers))
      <4>1. slot[s].key \in FragmentedOnce
        BY <2>6, <2>7, <3>2
      <4>2. Received(slot[s])
        BY <2>3, <4>1 DEF KeptInv
      <4>3. Received(Filled(s, Headers, Merge(s, Headers)))
        BY <2>2, <2>3, <2>4, <3>2, <4>1, <4>2, FilledIsReceived
      <4> QED  BY <3>2, <4>3
    <3> QED  BY <2>5, <3>1, <3>2
  <2> QED  BY <2>7 DEF KeptInv
<1>8. CASE TaskHandlesTimeout \/ TimerFired
  <2>1. HandleTimeout
    BY <1>8 DEF TaskHandlesTimeout, TimerFired
  <2>2. UNCHANGED slot \/ \E gone \in SUBSET Slots : Destroy(gone)
    BY <2>1 DEF HandleTimeout, tableVars, On
  <2> QED  BY <1>3, <1>4, <2>2
<1>9. CASE \/ unpack6LoWPANHeaders \/ passEntirePacket
           \/ deliverDefragmentedPacket \/ Tick \/ ReceptionFailed
           \/ (\E c \in FrameKinds : FrameReceived(c)) \/ UNCHANGED vars
  <2>1. UNCHANGED slot
    BY <1>9 DEF unpack6LoWPANHeaders, passEntirePacket, ReceptionFailed,
                deliverDefragmentedPacket, Tick, FrameReceived, tableVars, vars
  <2> QED  BY <1>3, <2>1
<1> QED
  BY <1>5, <1>6, <1>7, <1>8, <1>9 DEF Next, TaskStep

(* Merging fragments that leave gaps, that come in any order and again,    *)
(* and that have waited behind others: while they are pieces of one        *)
(* fragmentation, the specifications of a datagram cover what its          *)
(* fragments have written, for every number of units, fragments and slots. *)
THEOREM NothingReceivedIsLost == Spec => []NothingLost
<1>1. Init => KeptInv
  BY DEF Init, KeptInv, Busy, On, FreeSlot
<1>2. KeptInv => NothingLost
  BY DEF KeptInv, NothingLost, Received
<1> QED  BY <1>1, <1>2, DefragmenterInvariant, NextKept, PTL DEF Spec

-----------------------------------------------------------------------------
(* While what stays in currentPackets has a first specification that is    *)
(* not yet the whole datagram, and the specifications are in order with    *)
(* gaps, something is still missing.                                       *)
Unfinished == \A s \in On("current") : slot[s].specs[1].size # slot[s].total

LEMMA GapIsMissing ==
  ASSUME NEW list, SpecList(list), Apart(list), NEW total \in Nat,
         list[1].size # total
  PROVE  Coverage(list) # 0..(total - 1)
<1> SUFFICES ASSUME Coverage(list) = 0..(total - 1) PROVE FALSE
  OBVIOUS
<1> DEFINE z == list[1].size
<1>1. /\ 1 \in 1..Len(list) /\ list[1].offset = 0 /\ z \in Nat
      /\ \A i \in 1..Len(list) : /\ i \in Nat /\ 1 <= i
                                 /\ list[i].offset \in Nat /\ list[i].size \in Nat
  <2>1. list \in Seq(FragSpecs) /\ Len(list) \in Nat /\ 1 <= Len(list)
        /\ list[1].offset = 0
    BY DEF SpecList
  <2>2. \A i \in 1..Len(list) : list[i] \in FragSpecs /\ i \in Nat /\ 1 <= i
    BY <2>1
  <2>3. 1 \in 1..Len(list)
    BY <2>1
  <2> QED  BY <2>1, <2>2, <2>3 DEF FragSpecs
<1>2. End(list[1]) = z
  BY <1>1 DEF End
<1>3. Covers(list[1]) = {u \in Nat : u < z}
  <2>1. Covers(list[1]) = 0..(z - 1)
    BY <1>1, <1>2 DEF Covers
  <2> QED  BY <1>1, <2>1
<1> HIDE DEF z
<1>4. Covers(list[1]) \subseteq 0..(total - 1)
  BY <1>1, CoverageOf
<1>5. z < total
  <2>1. total < z => total \in Covers(list[1])
    BY <1>1, <1>3
  <2>2. total \notin 0..(total - 1)
    OBVIOUS
  <2>3. z # total
    BY DEF z
  <2> QED  BY <1>1, <1>4, <2>1, <2>2, <2>3
<1>6. PICK i \in 1..Len(list) : z \in Covers(list[i])
  <2>1. z \in 0..(total - 1)
    BY <1>1, <1>5
  <2> QED  BY <2>1 DEF Coverage
<1>7. list[i].offset <= z
  <2>1. z \in list[i].offset .. (End(list[i]) - 1)
    BY <1>6 DEF Covers
  <2> QED  BY <1>1, <2>1
<1>8. i # 1
  BY <1>1, <1>3, <1>6
<1>9. End(list[1]) < list[i].offset
  BY <1>1, <1>8 DEF Apart
<1> QED  BY <1>1, <1>2, <1>7, <1>9

LEMMA PassFragmentUnfinished ==
  ASSUME TableInv, NEW s \in Slots, NEW c, slot[s] # FreeSlot, PassFragment(s, c),
         s \in Busy'
  PROVE  Merge(s, c).specs[1].size # c.total
<1> DEFINE m == Merge(s, c)
<1>1. DOMAIN slot = Slots /\ FreeSlot.list = "free"
  BY DEF TableInv, FreeSlot
<1>2. slot'[s].list # "free"
  BY DEF Busy, On
<1>3. slot' # [slot EXCEPT ![s] = FreeSlot] /\ ~Destroy({s})
  BY <1>1, <1>2 DEF Destroy, Gone
<1> HIDE DEF m
<1>4. PassFragment(s, c) => m.specs[1].size # c.total
  BY <1>3 DEF PassFragment, m
<1> QED  BY <1>4 DEF m

LEMMA NextUnfinished ==
  DefragmenterInv /\ Unfinished /\ [Next]_vars => Unfinished'
<1> SUFFICES ASSUME DefragmenterInv, Unfinished, [Next]_vars PROVE Unfinished'
  OBVIOUS
<1>1. ASSUME \A s \in On("current")' : s \in On("current") /\ slot'[s] = slot[s]
      PROVE  Unfinished'
  BY <1>1 DEF Unfinished
<1>2. TableInv
  BY DEF DefragmenterInv
<1>3. CASE UNCHANGED slot
  BY <1>1, <1>3 DEF On
<1>4. CASE \E gone \in SUBSET Slots : Destroy(gone)
  <2>1. \A s \in Busy' : slot'[s] = slot[s]
    BY <1>4, DestroyedAge
  <2>2. On("current")' \subseteq Busy'
    BY DEF On, Busy
  <2> QED  BY <1>1, <2>1, <2>2 DEF On
<1>5. CASE Start
  BY <1>5 DEF Start, Unfinished, On, FreeSlot
<1>6. CASE lockDatagram
  <2>1. PICK r \in Slots \cup {NULL} : Find(Headers, r)
    BY <1>6 DEF lockDatagram
  <2> DEFINE c == Headers
             same == {s \in On("current") : slot[s].key = c.key}
             stale == {s \in same : slot[s].total # c.total}
             table == Gone(slot, stale)
  <2>2. \A s \in Slots : table[s] = slot[s] \/ table[s].list = "free"
    BY DEF Gone, FreeSlot
  <2>3. DOMAIN table = Slots /\ DOMAIN slot = Slots
    BY <1>2 DEF Gone, TableInv
  <2>4. \/ slot' = table
        \/ \E s \in Slots, memory \in [0..(c.total - 1) -> Values] :
             slot' = [table EXCEPT ![s] = NewDatagram(c, memory)]
        \/ r \in same /\ slot' = [slot EXCEPT ![r].list = "locked"]
    BY <2>1 DEF Find, Destroy
  <2> HIDE DEF table, same
  <2>5. CASE slot' = table
    BY <1>1, <2>2, <2>5 DEF On
  <2>6. CASE \E s \in Slots, memory \in [0..(c.total - 1) -> Values] :
               slot' = [table EXCEPT ![s] = NewDatagram(c, memory)]
    <3>1. PICK t \in Slots, memory \in [0..(c.total - 1) -> Values] :
                 slot' = [table EXCEPT ![t] = NewDatagram(c, memory)]
      BY <2>6
    <3>2. \A s \in Slots : \/ slot'[s] = slot[s] \/ slot'[s].list = "free"
                           \/ slot'[s].list = "locked"
      <4>1. NewDatagram(c, memory).list = "locked"
        BY DEF NewDatagram
      <4> QED  BY <2>2, <2>3, <3>1, <4>1
    <3> QED  BY <1>1, <3>2 DEF On
  <2>7. CASE r \in same /\ slot' = [slot EXCEPT ![r].list = "locked"]
    <3>1. r \in Slots /\ slot[r] # FreeSlot
      BY <2>7 DEF same, On, FreeSlot
    <3>2. Datagram(slot[r])
      BY <1>2, <3>1 DEF TableInv
    <3>3. slot'[r] = [slot[r] EXCEPT !.list = "locked"]
      BY <2>3, <2>7, <3>1
    <3>4. slot'[r].list = "locked"
      BY <3>2, <3>3 DEF Datagram
    <3>5. \A s \in Slots : s # r => slot'[s] = slot[s]
      BY <2>3, <2>7
    <3> QED  BY <1>1, <3>4, <3>5 DEF On
  <2> QED  BY <2>4, <2>5, <2>6, <2>7
<1>7. CASE mergeFragmentToPacket
  <2> DEFINE s == m_processedPacket
             m == Merge(s, Headers)
             f == Filled(s, Headers, m)
  <2>1. m_doneUntilNow = "LOCK_IPV6_PACKET" /\ PassFragment(s, Headers)
    BY <1>7 DEF mergeFragmentToPacket, Stage, TaskRuns
  <2>2. /\ s \in Slots /\ On("locked") = {s} /\ Headers.total = slot[s].total
    BY <2>1, DefragmenterConstants DEF DefragmenterInv, StageInv, LockIsProcessed
  <2>3. slot[s] # FreeSlot /\ Datagram(slot[s])
    BY <1>2, <2>2 DEF On, FreeSlot, TableInv
  <2> HIDE DEF s
  <2>4. f.specs = m.specs /\ f.total = slot[s].total
    BY <2>3 DEF Filled, Datagram
  <2> HIDE DEF m, f
  <2>5. ASSUME NEW t \in On("current")'
        PROVE  slot'[t].specs[1].size # slot'[t].total
    <3>1. t \in Busy'
      BY <2>5 DEF On, Busy
    <3>2. CASE t # s
      <4>1. slot'[t] = slot[t]
        BY <1>2, <2>1, <2>2, <2>3, <3>1, <3>2, PassFragmentLeaves
      <4> QED  BY <2>5, <4>1 DEF Unfinished, On
    <3>3. CASE t = s
      <4>1. slot'[s] = f
        BY <1>2, <2>1, <2>2, <2>3, <3>1, <3>3, PassFragmentLeaves DEF f, m
      <4>2. m.specs[1].size # Headers.total
        BY <1>2, <2>1, <2>2, <2>3, <3>1, <3>3, PassFragmentUnfinished DEF m
      <4> QED  BY <2>2, <2>4, <3>3, <4>1, <4>2
    <3> QED  BY <3>2, <3>3
  <2> QED  BY <2>5 DEF Unfinished
<1>8. CASE TaskHandlesTimeout \/ TimerFired
  <2>1. HandleTimeout
    BY <1>8 DEF TaskHandlesTimeout, TimerFired
  <2>2. UNCHANGED slot \/ \E gone \in SUBSET Slots : Destroy(gone)
    BY <2>1 DEF HandleTimeout, tableVars, On
  <2> QED  BY <1>3, <1>4, <2>2
<1>9. CASE \/ unpack6LoWPANHeaders \/ passEntirePacket
           \/ deliverDefragmentedPacket \/ Tick \/ ReceptionFailed
           \/ (\E c \in FrameKinds : FrameReceived(c)) \/ UNCHANGED vars
  <2>1. UNCHANGED slot
    BY <1>9 DEF unpack6LoWPANHeaders, passEntirePacket, ReceptionFailed,
                deliverDefragmentedPacket, Tick, FrameReceived, tableVars, vars
  <2> QED  BY <1>3, <2>1
<1> QED
  BY <1>5, <1>6, <1>7, <1>8, <1>9 DEF Next, TaskStep

(* The pieces of a datagram that all comes from one fragmentation stay     *)
(* apart, whatever sizes and however many its fragments are: each fragment *)
(* is merged with all the specifications that it touches, although one     *)
(* following specification only is tried.                                  *)
THEOREM PiecesStayApartAlways == Spec => []PiecesStayApart
<1>1. Init => KeptInv /\ Unfinished
  BY DEF Init, KeptInv, Unfinished, Busy, On, FreeSlot
<1>2. KeptInv => PiecesStayApart
  BY DEF KeptInv, Received, Apart, PiecesStayApart
<1> QED
  BY <1>1, <1>2, DefragmenterInvariant, NextKept, NextUnfinished, PTL DEF Spec

(* CompleteIsDelivered, for every datagram that all comes from one         *)
(* fragmentation: it is handed over with the fragment that completes it    *)
(* and does not wait for its timeout, although                             *)
(* PassFrameWithIpv6PacketFragment looks at the first specification only.  *)
(* For other fragments CompleteIsDelivered is false.                       *)
ReassembledInTime ==
  \A s \in On("current") : slot[s].key \in FragmentedOnce =>
    /\ Coverage(slot[s].specs) # 0..(slot[s].total - 1)
    /\ slot[s].written # 0..(slot[s].total - 1)

THEOREM CompleteDatagramsDoNotWait == Spec => []ReassembledInTime
<1>1. Init => KeptInv /\ Unfinished
  BY DEF Init, KeptInv, Unfinished, Busy, On, FreeSlot
<1>2. DefragmenterInv /\ KeptInv /\ Unfinished => ReassembledInTime
  <2> SUFFICES ASSUME DefragmenterInv, KeptInv, Unfinished,
                      NEW s \in On("current"), slot[s].key \in FragmentedOnce
               PROVE  /\ Coverage(slot[s].specs) # 0..(slot[s].total - 1)
                      /\ slot[s].written # 0..(slot[s].total - 1)
    BY DEF ReassembledInTime
  <2> DEFINE list == slot[s].specs
  <2>1. s \in Busy /\ s \in Slots /\ slot[s].list # "free"
    BY DEF Busy, On
  <2>2. SpecList(list) /\ slot[s].total \in Nat
    BY <2>1 DEF DefragmenterInv, TableInv, FreeSlot, Datagram
  <2>3. Apart(list) /\ Coverage(list) = slot[s].written
    BY <2>1 DEF KeptInv, Received
  <2>4. list[1].size # slot[s].total
    BY DEF Unfinished, On
  <2> HIDE DEF list
  <2>5. Coverage(list) # 0..(slot[s].total - 1)
    BY <2>2, <2>3, <2>4, GapIsMissing
  <2> QED  BY <2>3, <2>5 DEF list
<1> QED
  BY <1>1, <1>2, DefragmenterInvariant, NextKept, NextUnfinished, PTL DEF Spec
=============================================================================
