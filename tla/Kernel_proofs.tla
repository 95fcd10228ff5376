---------------------------- MODULE Kernel_proofs ---------------------------
(***************************************************************************)
(* Proofs about Kernel, for all sets of tasks and workers: first what      *)
(* TAILQ_REMOVE and addProcess do to a list of the process scheduler       *)
(* without repetitions and to its order, then the theorems, which rest on  *)
(* one inductive invariant, KernelInv.                                     *)
(***************************************************************************)
EXTENDS Kernel, TaskQueue_proofs, SequenceTheorems, FiniteSetTheorems,
        WellFoundedInduction

Distinct(list) == \A i, j \in 1..Len(list) : list[i] = list[j] => i = j

Sorted(list, pr) ==
  \A i, j \in 1..Len(list) : i < j => pr[list[i]] <= pr[list[j]]

-----------------------------------------------------------------------------
(* Removing one entry closes the gap it leaves.                            *)
LEMMA RemoveAtEntries ==
  ASSUME NEW S, NEW list \in Seq(S), NEW k \in 1..Len(list)
  PROVE  /\ RemoveAt(list, k) \in Seq(S)
         /\ Len(RemoveAt(list, k)) = Len(list) - 1
         /\ \A i \in 1..(Len(list) - 1) :
              RemoveAt(list, k)[i] = IF i < k THEN list[i] ELSE list[i + 1]
PROOF
<1>. DEFINE a == SubSeq(list, 1, k - 1)
            b == SubSeq(list, k + 1, Len(list))
<1>1. k \in Nat /\ Len(list) \in Nat /\ 1 <= k /\ k <= Len(list)
  OBVIOUS
<1>2. /\ a \in Seq(S) /\ Len(a) = k - 1
      /\ \A i \in 1..(k - 1) : a[i] = list[i]
  BY <1>1
<1>3. /\ b \in Seq(S) /\ Len(b) = Len(list) - k
      /\ \A i \in 1..(Len(list) - k) : b[i] = list[k + i]
  BY <1>1
<1>4. RemoveAt(list, k) = a \o b
  BY DEF RemoveAt
<1>5. /\ a \o b \in Seq(S) /\ Len(a \o b) = Len(a) + Len(b)
      /\ \A i \in 1..(Len(a) + Len(b)) :
           (a \o b)[i] = IF i <= Len(a) THEN a[i] ELSE b[i - Len(a)]
  BY <1>2, <1>3, ConcatProperties
<1>. HIDE DEF a, b
<1>6. ASSUME NEW i \in 1..(Len(list) - 1)
      PROVE  (a \o b)[i] = IF i < k THEN list[i] ELSE list[i + 1]
  <2>1. CASE i < k
    BY <1>1, <1>2, <1>3, <1>5, <2>1
  <2>2. CASE ~(i < k)
    <3>1. i - (k - 1) \in 1..(Len(list) - k) /\ k + (i - (k - 1)) = i + 1
      BY <1>1, <2>2
    <3>2. (a \o b)[i] = b[i - (k - 1)]
      BY <1>1, <1>2, <1>3, <1>5, <2>2
    <3>. QED  BY <1>3, <2>2, <3>1, <3>2
  <2>. QED  BY <2>1, <2>2
<1>. QED  BY <1>1, <1>2, <1>3, <1>4, <1>5, <1>6

(* Inserting an entry moves those behind it by one.                        *)
LEMMA InsertAtEntries ==
  ASSUME NEW S, NEW list \in Seq(S), NEW e \in S, NEW k \in 1..(Len(list) + 1)
  PROVE  /\ InsertAt(list, k, e) \in Seq(S)
         /\ Len(InsertAt(list, k, e)) = Len(list) + 1
         /\ \A i \in 1..(Len(list) + 1) :
              InsertAt(list, k, e)[i] = IF i < k THEN list[i]
                                        ELSE IF i = k THEN e ELSE list[i - 1]
PROOF
<1>. DEFINE a == SubSeq(list, 1, k - 1)
            b == SubSeq(list, k, Len(list))
            m == <<e>>
<1>1. k \in Nat /\ Len(list) \in Nat /\ 1 <= k /\ k <= Len(list) + 1
  OBVIOUS
<1>2. /\ a \in Seq(S) /\ Len(a) = k - 1
      /\ \A i \in 1..(k - 1) : a[i] = list[i]
  BY <1>1
<1>3. /\ b \in Seq(S) /\ Len(b) = (Len(list) + 1) - k
      /\ \A i \in 1..((Len(list) + 1) - k) : b[i] = list[(k + i) - 1]
  BY <1>1
<1>4. m \in Seq(S) /\ Len(m) = 1 /\ m[1] = e
  OBVIOUS
<1>5. InsertAt(list, k, e) = a \o m \o b
  BY DEF InsertAt
<1>. HIDE DEF a, b, m
<1>. DEFINE c == a \o m
<1>6. /\ c \in Seq(S) /\ Len(c) = k
      /\ \A i \in 1..k : c[i] = IF i < k THEN list[i] ELSE e
  <2>1. /\ c \in Seq(S) /\ Len(c) = Len(a) + Len(m)
        /\ \A i \in 1..(Len(a) + Len(m)) :
             c[i] = IF i <= Len(a) THEN a[i] ELSE m[i - Len(a)]
    BY <1>2, <1>4, ConcatProperties
  <2>. HIDE DEF c
  <2>2. Len(a) + Len(m) = k
    BY <1>1, <1>2, <1>4
  <2>3. ASSUME NEW i \in 1..k PROVE c[i] = IF i < k THEN list[i] ELSE e
    <3>1. CASE i < k
      BY <1>1, <1>2, <2>1, <2>2, <3>1
    <3>2. CASE ~(i < k)
      <4>1. i = k /\ i - (k - 1) = 1
        BY <1>1, <3>2
      <4>. QED  BY <1>1, <1>2, <1>4, <2>1, <2>2, <3>2, <4>1
    <3>. QED  BY <3>1, <3>2
  <2>. QED  BY <2>1, <2>2, <2>3
<1>. HIDE DEF c
<1>7. /\ c \o b \in Seq(S) /\ Len(c \o b) = Len(list) + 1
      /\ \A i \in 1..(Len(list) + 1) :
           (c \o b)[i] = IF i <= k THEN c[i] ELSE b[i - k]
  <2>1. /\ c \o b \in Seq(S) /\ Len(c \o b) = Len(c) + Len(b)
        /\ \A i \in 1..(Len(c) + Len(b)) :
             (c \o b)[i] = IF i <= Len(c) THEN c[i] ELSE b[i - Len(c)]
    BY <1>3, <1>6, ConcatProperties
  <2>2. Len(c) + Len(b) = Len(list) + 1 /\ Len(c) = k
    BY <1>1, <1>3, <1>6
  <2>. QED  BY <2>1, <2>2
<1>8. ASSUME NEW i \in 1..(Len(list) + 1)
      PROVE  (c \o b)[i] = IF i < k THEN list[i]
                           ELSE IF i = k THEN e ELSE list[i - 1]
  <2>1. CASE i <= k
    BY <1>1, <1>6, <1>7, <2>1
  <2>2. CASE ~(i <= k)
    <3>1. i - k \in 1..((Len(list) + 1) - k) /\ (k + (i - k)) - 1 = i - 1
      BY <1>1, <2>2
    <3>. QED  BY <1>1, <1>3, <1>7, <2>2, <3>1
  <2>. QED  BY <2>1, <2>2
<1>. QED  BY <1>5, <1>7, <1>8 DEF c

-----------------------------------------------------------------------------
(* Every non-empty set of naturals has a least element.                    *)
LEMMA LeastNatural ==
  ASSUME NEW T \in SUBSET Nat, T # {}
  PROVE  \E x \in T : \A y \in T : x <= y
PROOF
<1>. DEFINE Less == {ss \in Nat \X Nat : ss[1] < ss[2]}
<1>1. IsWellFoundedOn(Less, Nat)
  BY NatLessThanWellFounded DEF OpToRel
<1>2. PICK x \in T : \A y \in T : ~(<<y, x>> \in Less)
  BY <1>1, WFMin
<1>3. ASSUME NEW y \in T PROVE x <= y
  <2>1. x \in Nat /\ y \in Nat /\ ~(y < x)
    BY <1>2
  <2>. QED  BY <2>1
<1>. QED  BY <1>2, <1>3

(* addProcess inserts before the first less important entry.               *)
LEMMA AddPositionProps ==
  ASSUME NEW list \in Seq(Procs), NEW p \in Procs, NEW pr \in [Procs -> Nat]
  PROVE  LET k == AddPosition(list, p, pr)
         IN  /\ k \in 1..(Len(list) + 1)
             /\ \A i \in 1..Len(list) : i < k => pr[list[i]] <= pr[p]
             /\ k # Len(list) + 1 => pr[p] < pr[list[k]]
PROOF
<1>. DEFINE T == {i \in 1..Len(list) : pr[p] < pr[list[i]]}
            k == AddPosition(list, p, pr)
<1>1. /\ Len(list) \in Nat
      /\ \A i \in 1..Len(list) : pr[list[i]] \in Nat
      /\ pr[p] \in Nat
  OBVIOUS
<1>2. CASE T = {}
  <2>1. k = Len(list) + 1
    BY <1>2 DEF AddPosition
  <2>2. \A i \in 1..Len(list) : pr[list[i]] <= pr[p]
    BY <1>1, <1>2
  <2>. QED  BY <1>1, <2>1, <2>2
<1>3. CASE T # {}
  <2>1. T \in SUBSET Nat
    OBVIOUS
  <2>2. \E i \in T : \A j \in T : i <= j
    BY <1>3, <2>1, LeastNatural
  <2>3. k = CHOOSE i \in T : \A j \in T : i <= j
    BY <1>3 DEF AddPosition
  <2>4. k \in T /\ \A j \in T : k <= j
    BY <2>2, <2>3
  <2>. HIDE DEF k
  <2>5. ASSUME NEW i \in 1..Len(list), i < k PROVE pr[list[i]] <= pr[p]
    BY <1>1, <2>4, <2>5
  <2>6. k \in 1..(Len(list) + 1) /\ pr[p] < pr[list[k]]
    BY <1>1, <2>4
  <2>. QED  BY <2>5, <2>6 DEF k
<1>. QED  BY <1>2, <1>3

-----------------------------------------------------------------------------
(* What suspend, resume and setPriority do to a list from which they       *)
(* unlink a process: the others stay, in their order.                      *)
LEMMA UnlinkedProps ==
  ASSUME NEW list \in Seq(Procs), Distinct(list), NEW p \in Procs, In(p, list)
  PROVE  /\ Unlinked(list, p) \in Seq(Procs)
         /\ Distinct(Unlinked(list, p))
         /\ \A q \in Procs : In(q, Unlinked(list, p)) <=> q # p /\ In(q, list)
         /\ \A pr \in [Procs -> Nat] :
              Sorted(list, pr) => Sorted(Unlinked(list, p), pr)
PROOF
<1>. DEFINE k == CHOOSE i \in 1..Len(list) : list[i] = p
            u == Unlinked(list, p)
            n == Len(list)
<1>1. k \in 1..n /\ list[k] = p
  BY DEF In
<1>2. /\ u \in Seq(Procs) /\ Len(u) = n - 1
      /\ \A i \in 1..(n - 1) : u[i] = IF i < k THEN list[i] ELSE list[i + 1]
  BY <1>1, RemoveAtEntries DEF Unlinked
<1>. HIDE DEF k, u
<1>. DEFINE at(i) == IF i < k THEN i ELSE i + 1
<1>3. /\ n \in Nat /\ Len(u) = n - 1
      /\ \A i \in 1..(n - 1) : at(i) \in 1..n /\ at(i) # k /\ u[i] = list[at(i)]
      /\ \A i, j \in 1..(n - 1) : i < j => at(i) < at(j)
  BY <1>1, <1>2
<1>4. Distinct(u)
  <2>1. SUFFICES ASSUME NEW i \in 1..(n - 1), NEW j \in 1..(n - 1), u[i] = u[j]
                 PROVE  i = j
    BY <1>3 DEF Distinct
  <2>2. at(i) = at(j)
    BY <1>3, <2>1 DEF Distinct
  <2>. QED  BY <1>1, <2>2
<1>5. ASSUME NEW q \in Procs
      PROVE  In(q, u) <=> q # p /\ In(q, list)
  <2>1. ASSUME NEW i \in 1..(n - 1), u[i] = q
        PROVE  q # p /\ In(q, list)
    BY <1>1, <1>3, <2>1 DEF In, Distinct
  <2>2. ASSUME q # p, NEW i \in 1..n, list[i] = q
        PROVE  In(q, u)
    <3>1. CASE i < k
      <4>1. i \in 1..(n - 1) /\ u[i] = q
        BY <1>1, <1>2, <2>2, <3>1
      <4>. QED  BY <1>3, <4>1 DEF In
    <3>2. CASE ~(i < k)
      <4>1. i - 1 \in 1..(n - 1) /\ ~(i - 1 < k) /\ (i - 1) + 1 = i
        BY <1>1, <2>2, <3>2
      <4>2. u[i - 1] = q
        BY <1>2, <2>2, <4>1
      <4>. QED  BY <1>3, <4>1, <4>2 DEF In
    <3>. QED  BY <3>1, <3>2
  <2>. QED  BY <1>3, <2>1, <2>2 DEF In
<1>6. ASSUME NEW pr \in [Procs -> Nat], Sorted(list, pr)
      PROVE  Sorted(u, pr)
  <2>1. SUFFICES ASSUME NEW i \in 1..(n - 1), NEW j \in 1..(n - 1), i < j
                 PROVE  pr[u[i]] <= pr[u[j]]
    BY <1>3 DEF Sorted
  <2>2. at(i) \in 1..n /\ at(j) \in 1..n /\ at(i) < at(j)
    BY <1>3, <2>1
  <2>3. u[i] = list[at(i)] /\ u[j] = list[at(j)]
    BY <1>3
  <2>. HIDE DEF at
  <2>. QED  BY <1>6, <2>2, <2>3 DEF Sorted
<1>. QED  BY <1>2, <1>4, <1>5, <1>6 DEF u

(* addProcess puts p at some position k: the entries before k keep their   *)
(* place and are at least as important, the others move by one and are     *)
(* less important.                                                         *)
LEMMA AddedEntries ==
  ASSUME NEW list \in Seq(Procs), NEW p \in Procs, NEW pr \in [Procs -> Nat]
  PROVE  /\ Added(list, p, pr) \in Seq(Procs)
         /\ Len(Added(list, p, pr)) = Len(list) + 1
         /\ \E k \in 1..(Len(list) + 1) :
              /\ Added(list, p, pr)[k] = p
              /\ \A i \in 1..Len(list) :
                   /\ i < k => Added(list, p, pr)[i] = list[i]
                   /\ i >= k => Added(list, p, pr)[i + 1] = list[i]
                   /\ i < k => pr[list[i]] <= pr[p]
              /\ k # Len(list) + 1 => pr[p] < pr[list[k]]
PROOF
<1>. DEFINE pos == AddPosition(list, p, pr)
            n == Len(list)
<1>1. pos \in 1..(n + 1) /\ n \in Nat
  BY AddPositionProps
<1>2. /\ \A i \in 1..n : i < pos => pr[list[i]] <= pr[p]
      /\ pos # n + 1 => pr[p] < pr[list[pos]]
  BY AddPositionProps
<1>3. Added(list, p, pr) = InsertAt(list, pos, p)
  BY DEF Added
<1>. HIDE DEF pos
<1>4. PICK k \in 1..(n + 1) : k = pos
  BY <1>1
<1>. DEFINE a == InsertAt(list, k, p)
<1>5. /\ a \in Seq(Procs) /\ Len(a) = n + 1
      /\ \A i \in 1..(n + 1) :
           a[i] = IF i < k THEN list[i] ELSE IF i = k THEN p ELSE list[i - 1]
  <2>1. k \in 1..(Len(list) + 1)
    OBVIOUS
  <2>2. a \in Seq(Procs)
    BY <2>1, InsertAtEntries
  <2>3. Len(a) = n + 1
    BY <2>1, InsertAtEntries
  <2>4. \A i \in 1..(n + 1) :
          a[i] = IF i < k THEN list[i] ELSE IF i = k THEN p ELSE list[i - 1]
    BY <2>1, InsertAtEntries
  <2>. QED  BY <2>2, <2>3, <2>4
<1>. HIDE DEF a
<1>6. a[k] = p
  <2>1. k \in 1..(n + 1) /\ ~(k < k)
    BY <1>1
  <2>. QED  BY Zenon, <1>5, <2>1
<1>7. ASSUME NEW i \in 1..n
      PROVE  (i < k => a[i] = list[i]) /\ (i >= k => a[i + 1] = list[i])
  <2>1. i \in 1..(n + 1) /\ i + 1 \in 1..(n + 1) /\ (i + 1) - 1 = i
    BY <1>1
  <2>2. i >= k => ~(i + 1 < k) /\ i + 1 # k
    BY <1>1
  <2>3. i < k => a[i] = list[i]
    BY <1>5, <2>1
  <2>4. i >= k => a[i + 1] = list[(i + 1) - 1]
    BY <1>5, <2>1, <2>2
  <2>. QED  BY <2>1, <2>3, <2>4
<1>8. Added(list, p, pr) = a
  BY <1>3, <1>4 DEF a
<1>. QED  BY <1>1, <1>2, <1>4, <1>5, <1>6, <1>7, <1>8

(* What addProcess does to a list without the process: it is on the list   *)
(* then, once, the others stay, and a sorted list stays sorted.            *)
LEMMA AddedProps ==
  ASSUME NEW list \in Seq(Procs), Distinct(list), NEW p \in Procs,
         ~In(p, list), NEW pr \in [Procs -> Nat]
  PROVE  /\ Added(list, p, pr) \in Seq(Procs)
         /\ Distinct(Added(list, p, pr))
         /\ \A q \in Procs : In(q, Added(list, p, pr)) <=> q = p \/ In(q, list)
         /\ Sorted(list, pr) => Sorted(Added(list, p, pr), pr)
PROOF
<1>. DEFINE a == Added(list, p, pr)
            n == Len(list)
<1>1. a \in Seq(Procs) /\ Len(a) = n + 1 /\ n \in Nat
  BY AddedEntries
<1>2. PICK k \in 1..(n + 1) :
        /\ a[k] = p
        /\ \A i \in 1..n : /\ i < k => a[i] = list[i]
                           /\ i >= k => a[i + 1] = list[i]
                           /\ i < k => pr[list[i]] <= pr[p]
        /\ k # n + 1 => pr[p] < pr[list[k]]
  BY AddedEntries
<1>. HIDE DEF a
<1>3. \A i \in 1..n : list[i] \in Procs /\ list[i] # p /\ pr[list[i]] \in Nat
  BY DEF In
<1>4. ASSUME NEW i \in 1..(n + 1)
      PROVE  /\ i < k => i \in 1..n /\ a[i] = list[i]
             /\ i > k => i - 1 \in 1..n /\ a[i] = list[i - 1]
  <2>1. i < k => i \in 1..n
    BY <1>1, <1>2
  <2>2. i > k => i - 1 \in 1..n /\ i - 1 >= k /\ (i - 1) + 1 = i
    BY <1>1, <1>2
  <2>. QED  BY <1>2, <2>1, <2>2
<1>5. Distinct(a)
  <2>1. SUFFICES ASSUME NEW i \in 1..(n + 1), NEW j \in 1..(n + 1),
                        i < j, a[i] = a[j]
                 PROVE  FALSE
    BY <1>1 DEF Distinct
  <2>2. CASE i = k \/ j = k
    BY <1>1, <1>2, <1>3, <1>4, <2>1, <2>2
  <2>3. CASE j < k
    BY <1>1, <1>2, <1>4, <2>1, <2>3 DEF Distinct
  <2>4. CASE i < k /\ j > k
    <3>1. i \in 1..n /\ j - 1 \in 1..n /\ i # j - 1
      BY <1>1, <1>2, <1>4, <2>4
    <3>. QED  BY <1>4, <2>1, <2>4, <3>1 DEF Distinct
  <2>5. CASE i > k
    <3>1. i - 1 \in 1..n /\ j - 1 \in 1..n /\ i - 1 # j - 1 /\ j > k
      BY <1>1, <1>2, <1>4, <2>1, <2>5
    <3>. QED  BY <1>4, <2>1, <2>5, <3>1 DEF Distinct
  <2>. QED  BY <1>1, <1>2, <2>1, <2>2, <2>3, <2>4, <2>5
<1>6. ASSUME NEW q \in Procs
      PROVE  In(q, a) <=> q = p \/ In(q, list)
  <2>1. ASSUME NEW i \in 1..(n + 1), a[i] = q
        PROVE  q = p \/ In(q, list)
    <3>1. i < k \/ i = k \/ i > k
      BY <1>2
    <3>. QED  BY <1>2, <1>4, <2>1, <3>1 DEF In
  <2>2. ASSUME NEW i \in 1..n, list[i] = q
        PROVE  In(q, a)
    <3>1. i \in 1..(n + 1) /\ i + 1 \in 1..(n + 1) /\ (i < k \/ i >= k)
      BY <1>1, <1>2
    <3>. QED  BY <1>1, <1>2, <2>2, <3>1 DEF In
  <2>. QED  BY <1>1, <1>2, <2>1, <2>2 DEF In
<1>7. ASSUME Sorted(list, pr)
      PROVE  Sorted(a, pr)
  <2>1. SUFFICES ASSUME NEW i \in 1..(n + 1), NEW j \in 1..(n + 1), i < j
                 PROVE  pr[a[i]] <= pr[a[j]]
    BY <1>1 DEF Sorted
  <2>2. CASE j = k
    <3>1. i \in 1..n /\ a[i] = list[i] /\ a[j] = p
      BY <1>2, <1>4, <2>1, <2>2
    <3>. QED  BY <1>2, <2>1, <2>2, <3>1
  <2>3. CASE i = k
    <3>1. j - 1 \in 1..n /\ k \in 1..n /\ a[j] = list[j - 1] /\ k <= j - 1
      <4>1. j > k
        BY <2>1, <2>3
      <4>2. j - 1 \in 1..n /\ a[j] = list[j - 1]
        BY <1>4, <4>1
      <4>. QED  BY <1>1, <1>2, <4>1, <4>2
    <3>2. pr[list[k]] <= pr[list[j - 1]]
      <4>1. CASE k = j - 1
        BY <3>1, <4>1
      <4>2. CASE k < j - 1
        BY <1>1, <1>7, <3>1, <4>2 DEF Sorted
      <4>3. pr[list[k]] \in Nat
        BY <1>3, <3>1
      <4>4. k = j - 1 \/ k < j - 1
        BY <3>1
      <4>. QED  BY <4>1, <4>2, <4>3, <4>4
    <3>3. pr[p] < pr[list[k]] /\ pr[p] \in Nat
      BY <1>1, <1>2, <3>1
    <3>4. a[i] = p
      BY <1>2, <2>3
    <3>. QED  BY <1>3, <3>1, <3>2, <3>3, <3>4
  <2>4. CASE j < k
    <3>1. i \in 1..n /\ j \in 1..n /\ a[i] = list[i] /\ a[j] = list[j]
      BY <1>2, <1>4, <2>1, <2>4
    <3>2. pr[list[i]] <= pr[list[j]]
      BY <1>7, <2>1, <3>1 DEF Sorted
    <3>. QED  BY <3>1, <3>2
  <2>5. CASE i < k /\ j > k
    <3>1. i \in 1..n /\ j - 1 \in 1..n /\ i < j - 1
      BY <1>1, <1>2, <1>4, <2>5
    <3>2. pr[list[i]] <= pr[list[j - 1]]
      BY <1>1, <1>7, <3>1 DEF Sorted
    <3>. QED  BY <1>4, <2>5, <3>1, <3>2
  <2>6. CASE i > k
    <3>1. i - 1 \in 1..n /\ j - 1 \in 1..n /\ i - 1 < j - 1 /\ j > k
      BY <1>1, <1>2, <1>4, <2>1, <2>6
    <3>2. pr[list[i - 1]] <= pr[list[j - 1]]
      BY <1>1, <1>7, <3>1 DEF Sorted
    <3>. QED  BY <1>4, <2>6, <3>1, <3>2
  <2>. QED  BY <1>1, <1>2, <2>1, <2>2, <2>3, <2>4, <2>5, <2>6
<1>. QED  BY <1>1, <1>5, <1>6, <1>7 DEF a

(* The head of a sorted list is one of the most important entries.         *)
LEMMA HeadIsMostImportant ==
  ASSUME NEW list \in Seq(Procs), NEW pr \in [Procs -> Nat],
         Sorted(list, pr), NEW p \in Procs, In(p, list)
  PROVE  /\ list # << >> /\ Head(list) \in Procs /\ In(Head(list), list)
         /\ pr[Head(list)] <= pr[p]
PROOF
<1>1. PICK i \in 1..Len(list) : list[i] = p
  BY DEF In
<1>2. list # << >> /\ 1 \in 1..Len(list) /\ Head(list) = list[1]
  BY <1>1
<1>3. pr[list[1]] <= pr[p]
  BY <1>1, <1>2 DEF Sorted
<1>. QED  BY <1>2, <1>3 DEF In

-----------------------------------------------------------------------------
(* The process scheduler's share: the lists agree with the states, idle is *)
(* always ready and every other process is more important.                 *)
PrioritiesOK ==
  /\ prio[main] < PROCESS_PRIO_IDLE /\ prio[idle] = PROCESS_PRIO_IDLE
  /\ \A w \in Workers : prio[w] < PROCESS_PRIO_IDLE

PSInv == /\ PSTypeOK /\ ListsMatchState /\ RunListSorted
         /\ PrioritiesOK /\ state[idle] = "READY"

(* A process in the middle of a post keeps the CPU; so does main while the *)
(* system boots; idle sleeps only while it is current, and with interrupts *)
(* masked no handler is active.                                            *)
Control ==
  /\ \A p \in Procs : hooking[p] => current = p /\ ~pendsv /\ MayPost(p)
  /\ pc[main] \in {"sysinit", "drain", "drainTask"} => current = main /\ ~pendsv
  /\ pc[idle] = "wfi" => current = idle
  /\ Masked => isr = "none"

KernelInv == /\ TypeOK /\ WellFormedList /\ PSInv /\ Control
             /\ NoLostWakeup /\ SleepsOnlyWhenIdle /\ SuspendedDoesNotRun

-----------------------------------------------------------------------------
LEMMA ProcFacts ==
  /\ main \in Procs /\ idle \in Procs /\ Workers \subseteq Procs
  /\ main # idle /\ main \notin Workers /\ idle \notin Workers
  /\ \A p \in Procs : p = main \/ p = idle \/ p \in Workers
  /\ PROCESS_PRIO_DEFAULT = 128 /\ PROCESS_PRIO_IDLE = 255
BY ProcessesAreDistinct DEF PROCESS_PRIO_DEFAULT, PROCESS_PRIO_IDLE

(* The invariant in the vocabulary of the lemmas about lists.              *)
LEMMA PSFacts ==
  ASSUME PSInv
  PROVE  /\ run_list \in Seq(Procs) /\ sleep_list \in Seq(Procs)
         /\ prio \in [Procs -> 0..255] /\ prio \in [Procs -> Nat]
         /\ state \in [Procs -> {"READY", "SLEEPING"}] /\ current \in Procs
         /\ Sorted(run_list, prio)
         /\ Distinct(run_list) /\ Distinct(sleep_list)
         /\ \A p \in Procs : In(p, run_list) <=> state[p] = "READY"
         /\ \A p \in Procs : In(p, sleep_list) <=> state[p] = "SLEEPING"
PROOF
<1>1. /\ run_list \in Seq(Procs) /\ sleep_list \in Seq(Procs)
      /\ prio \in [Procs -> 0..255]
      /\ state \in [Procs -> {"READY", "SLEEPING"}] /\ current \in Procs
  BY DEF PSInv, PSTypeOK
<1>2. prio \in [Procs -> Nat]
  <2>1. 0..255 \subseteq Nat
    OBVIOUS
  <2>. QED  BY <1>1, <2>1
<1>3. Sorted(run_list, prio)
  BY DEF PSInv, RunListSorted, Sorted
<1>4. Distinct(run_list) /\ Distinct(sleep_list)
  BY DEF PSInv, ListsMatchState, Distinct
<1>5. /\ \A p \in Procs : In(p, run_list) <=> state[p] = "READY"
      /\ \A p \in Procs : In(p, sleep_list) <=> state[p] = "SLEEPING"
  BY DEF PSInv, ListsMatchState
<1>. QED  BY <1>1, <1>2, <1>3, <1>4, <1>5

LEMMA PSUnchanged ==
  ASSUME PSInv, UNCHANGED psVars
  PROVE  PSInv'
PROOF
<1>1. /\ run_list' = run_list /\ sleep_list' = sleep_list
      /\ state' = state /\ prio' = prio /\ current' = current
  BY DEF psVars
<1>2. PSTypeOK'
  BY <1>1 DEF PSInv, PSTypeOK
<1>3. ListsMatchState'
  BY <1>1 DEF PSInv, ListsMatchState, In
<1>4. RunListSorted'
  BY <1>1 DEF PSInv, RunListSorted
<1>5. PrioritiesOK' /\ state'[idle] = "READY"
  BY <1>1 DEF PSInv, PrioritiesOK
<1>. QED  BY <1>1, <1>2, <1>3, <1>4, <1>5 DEF PSInv

(* The run list is never empty and its head is READY.                      *)
LEMMA HeadReady ==
  ASSUME PSInv
  PROVE  /\ run_list # << >> /\ Head(run_list) \in Procs
         /\ state[Head(run_list)] = "READY"
PROOF
<1>1. In(idle, run_list) /\ idle \in Procs /\ run_list \in Seq(Procs)
      /\ prio \in [Procs -> Nat] /\ Sorted(run_list, prio)
  BY ProcFacts, PSFacts DEF PSInv
<1>. QED  BY <1>1, HeadIsMostImportant, PSFacts

LEMMA HeadReady_prime ==
  PSInv' => /\ run_list' # << >> /\ Head(run_list') \in Procs
            /\ state'[Head(run_list')] = "READY"
PROOF
<1>. DEFINE Ready == /\ run_list # << >> /\ Head(run_list) \in Procs
                     /\ state[Head(run_list)] = "READY"
<1>1. PSInv => Ready
  BY HeadReady
<1>2. PSInv' => Ready'
  <2>. HIDE DEF Ready
  <2>. QED  BY <1>1, PTL
<1>. QED  BY <1>2

(* If idle heads the run list, nobody else is on it.                       *)
LEMMA IdleAlone ==
  ASSUME PSInv, Head(run_list) = idle
  PROVE  run_list = <<idle>> /\ state[main] = "SLEEPING"
PROOF
<1>1. /\ run_list \in Seq(Procs) /\ prio \in [Procs -> Nat]
      /\ Sorted(run_list, prio) /\ Distinct(run_list)
  BY PSFacts
<1>2. ASSUME NEW p \in Procs, In(p, run_list) PROVE p = idle
  <2>1. prio[idle] <= prio[p]
    BY <1>1, <1>2, HeadIsMostImportant
  <2>2. prio[idle] = 255
    BY ProcFacts DEF PSInv, PrioritiesOK
  <2>3. p # idle => prio[p] < 255
    BY ProcFacts DEF PSInv, PrioritiesOK
  <2>4. prio[p] \in Nat
    BY <1>1
  <2>. QED  BY <2>1, <2>2, <2>3, <2>4
<1>3. run_list # << >>
  BY HeadReady
<1>4. \A i \in 1..Len(run_list) : run_list[i] = idle
  BY <1>1, <1>2 DEF In
<1>5. Len(run_list) = 1
  <2>1. Len(run_list) \in Nat /\ Len(run_list) >= 1
    BY <1>1, <1>3
  <2>2. Len(run_list) >= 2 => FALSE
    BY <1>1, <1>4, <2>1 DEF Distinct
  <2>. QED  BY <2>1, <2>2
<1>6. run_list = <<idle>>
  BY <1>1, <1>4, <1>5
<1>7. ~In(main, run_list)
  BY <1>2, ProcFacts
<1>8. state[main] # "READY" /\ state[main] \in {"READY", "SLEEPING"}
  BY <1>7, ProcFacts DEF PSInv, ListsMatchState, PSTypeOK
<1>. QED  BY <1>6, <1>8

-----------------------------------------------------------------------------
(* The commands of the process scheduler keep its invariant.               *)
LEMMA SuspendKeepsPSInv ==
  ASSUME PSInv, NEW p \in Procs, p # idle, suspend(p)
  PROVE  /\ PSInv' /\ state'[p] = "SLEEPING" /\ current' = current
         /\ \A q \in Procs : q # p => state'[q] = state[q]
PROOF
<1>1. CASE state[p] = "SLEEPING"
  BY <1>1, PSUnchanged DEF suspend, psVars
<1>2. CASE state[p] # "SLEEPING"
  <2>1. /\ run_list' = Unlinked(run_list, p)
        /\ sleep_list' = Append(sleep_list, p)
        /\ state' = [state EXCEPT ![p] = "SLEEPING"]
        /\ prio' = prio /\ current' = current
    BY <1>2 DEF suspend
  <2>2. /\ run_list \in Seq(Procs) /\ sleep_list \in Seq(Procs)
        /\ prio \in [Procs -> Nat] /\ Sorted(run_list, prio)
        /\ Distinct(run_list) /\ Distinct(sleep_list)
        /\ In(p, run_list) /\ ~In(p, sleep_list)
        /\ state \in [Procs -> {"READY", "SLEEPING"}]
    BY <1>2, PSFacts
  <2>3. /\ run_list' \in Seq(Procs) /\ Distinct(run_list')
        /\ \A q \in Procs : In(q, run_list') <=> q # p /\ In(q, run_list)
        /\ Sorted(run_list', prio)
    BY <2>1, <2>2, UnlinkedProps
  <2>4. /\ sleep_list' \in Seq(Procs) /\ Distinct(sleep_list')
        /\ \A q \in Procs : In(q, sleep_list') <=> q = p \/ In(q, sleep_list)
    <3>1. /\ sleep_list' \in Seq(Procs) /\ Len(sleep_list') = Len(sleep_list) + 1
          /\ \A i \in 1..Len(sleep_list) : sleep_list'[i] = sleep_list[i]
          /\ sleep_list'[Len(sleep_list) + 1] = p
          /\ Len(sleep_list) \in Nat
      BY <2>1, <2>2
    <3>2. \A i \in 1..Len(sleep_list') :
            i \in 1..Len(sleep_list) \/ i = Len(sleep_list) + 1
      BY <3>1
    <3>3. \A i \in 1..Len(sleep_list) : sleep_list[i] # p
      BY <2>2 DEF In
    <3>4. Distinct(sleep_list')
      BY <2>2, <3>1, <3>2, <3>3 DEF Distinct
    <3>5. \A q \in Procs : In(q, sleep_list') <=> q = p \/ In(q, sleep_list)
      BY <3>1, <3>2 DEF In
    <3>. QED  BY <3>1, <3>4, <3>5
  <2>5. PSTypeOK'
    BY <2>1, <2>2, <2>3, <2>4 DEF PSInv, PSTypeOK
  <2>6. ListsMatchState'
    BY <2>1, <2>2, <2>3, <2>4 DEF PSInv, ListsMatchState, Distinct
  <2>7. RunListSorted'
    BY <2>1, <2>3 DEF RunListSorted, Sorted
  <2>8. PrioritiesOK' /\ state'[idle] = "READY"
    BY <2>1, <2>2, ProcFacts DEF PSInv, PrioritiesOK
  <2>. QED  BY <2>1, <2>2, <2>5, <2>6, <2>7, <2>8 DEF PSInv
<1>. QED  BY <1>1, <1>2

LEMMA ResumeKeepsPSInv ==
  ASSUME PSInv, NEW p \in Procs, resume(p)
  PROVE  /\ PSInv' /\ state'[p] = "READY" /\ current' = current
         /\ \A q \in Procs : q # p => state'[q] = state[q]
PROOF
<1>1. CASE state[p] = "READY"
  BY <1>1, PSUnchanged DEF resume, psVars
<1>2. CASE state[p] # "READY"
  <2>1. /\ sleep_list' = Unlinked(sleep_list, p)
        /\ run_list' = Added(run_list, p, prio)
        /\ state' = [state EXCEPT ![p] = "READY"]
        /\ prio' = prio /\ current' = current
    BY <1>2 DEF resume
  <2>2. /\ run_list \in Seq(Procs) /\ sleep_list \in Seq(Procs)
        /\ prio \in [Procs -> Nat] /\ Sorted(run_list, prio)
        /\ Distinct(run_list) /\ Distinct(sleep_list)
        /\ ~In(p, run_list) /\ In(p, sleep_list)
        /\ state \in [Procs -> {"READY", "SLEEPING"}]
    BY <1>2, PSFacts
  <2>3. /\ run_list' \in Seq(Procs) /\ Distinct(run_list')
        /\ \A q \in Procs : In(q, run_list') <=> q = p \/ In(q, run_list)
        /\ Sorted(run_list', prio)
    BY <2>1, <2>2, AddedProps
  <2>4. /\ sleep_list' \in Seq(Procs) /\ Distinct(sleep_list')
        /\ \A q \in Procs : In(q, sleep_list') <=> q # p /\ In(q, sleep_list)
    BY <2>1, <2>2, UnlinkedProps
  <2>5. PSTypeOK'
    BY <2>1, <2>2, <2>3, <2>4 DEF PSInv, PSTypeOK
  <2>6. ListsMatchState'
    BY <2>1, <2>2, <2>3, <2>4 DEF PSInv, ListsMatchState, Distinct
  <2>7. RunListSorted'
    BY <2>1, <2>3 DEF RunListSorted, Sorted
  <2>8. PrioritiesOK' /\ state'[idle] = "READY"
    BY <2>1, <2>2, ProcFacts DEF PSInv, PrioritiesOK
  <2>. QED  BY <2>1, <2>2, <2>5, <2>6, <2>7, <2>8 DEF PSInv
<1>. QED  BY <1>1, <1>2

LEMMA SetPriorityKeepsPSInv ==
  ASSUME PSInv, NEW w \in Workers, NEW new \in WorkerPrios, setPriority(w, new)
  PROVE  PSInv' /\ state' = state /\ current' = current
PROOF
<1>1. /\ prio' = [prio EXCEPT ![w] = new] /\ new \in 0..254 /\ w \in Procs
      /\ sleep_list' = sleep_list /\ state' = state /\ current' = current
  BY WorkerPriosAreUserPrios, ProcFacts DEF setPriority
<1>2. /\ run_list \in Seq(Procs) /\ sleep_list \in Seq(Procs)
      /\ prio \in [Procs -> 0..255] /\ prio \in [Procs -> Nat]
      /\ Sorted(run_list, prio)
      /\ Distinct(run_list) /\ Distinct(sleep_list)
      /\ In(w, run_list) <=> state[w] = "READY"
  BY <1>1, PSFacts
<1>3. /\ prio' \in [Procs -> 0..255] /\ prio' \in [Procs -> Nat]
      /\ \A q \in Procs : q # w => prio'[q] = prio[q]
      /\ prio'[w] = new
  <2>1. new \in 0..255 /\ new \in Nat
    BY <1>1
  <2>2. prio' \in [Procs -> 0..255]
    BY <1>1, <1>2, <2>1
  <2>3. prio' \in [Procs -> Nat]
    BY <1>1, <1>2, <2>1
  <2>4. prio'[w] = new /\ \A q \in Procs : q # w => prio'[q] = prio[q]
    BY <1>1, <1>2
  <2>. QED  BY <2>2, <2>3, <2>4
<1>4. /\ run_list' \in Seq(Procs) /\ Distinct(run_list')
      /\ Sorted(run_list', prio')
      /\ \A q \in Procs : In(q, run_list') <=> In(q, run_list)
  <2>1. CASE state[w] = "READY"
    <3>. DEFINE u == Unlinked(run_list, w)
    <3>1. run_list' = Added(u, w, prio')
      BY <2>1 DEF setPriority
    <3>2. /\ u \in Seq(Procs) /\ Distinct(u) /\ Sorted(u, prio)
          /\ \A q \in Procs : In(q, u) <=> q # w /\ In(q, run_list)
      BY <1>1, <1>2, <2>1, UnlinkedProps
    <3>. HIDE DEF u
    <3>3. Sorted(u, prio')
      <4>1. \A i \in 1..Len(u) : u[i] \in Procs /\ u[i] # w
        BY <3>2, <1>1 DEF In
      <4>. QED  BY <1>3, <3>2, <4>1 DEF Sorted
    <3>4. ~In(w, u)
      BY <1>1, <3>2
    <3>5. In(w, run_list)
      BY <1>2, <2>1
    <3>6. /\ Added(u, w, prio') \in Seq(Procs)
          /\ Distinct(Added(u, w, prio')) /\ Sorted(Added(u, w, prio'), prio')
          /\ \A q \in Procs : In(q, Added(u, w, prio')) <=> q = w \/ In(q, u)
      BY <1>1, <1>3, <3>2, <3>3, <3>4, AddedProps
    <3>. QED  BY <3>1, <3>2, <3>5, <3>6
  <2>2. CASE state[w] # "READY"
    <3>1. run_list' = run_list
      BY <2>2 DEF setPriority
    <3>2. \A i \in 1..Len(run_list) : run_list[i] \in Procs /\ run_list[i] # w
      BY <1>1, <1>2, <2>2 DEF In
    <3>3. Sorted(run_list, prio')
      <4>1. \A i \in 1..Len(run_list) : prio'[run_list[i]] = prio[run_list[i]]
        BY <1>3, <3>2
      <4>2. \A i, j \in 1..Len(run_list) :
               i < j => prio[run_list[i]] <= prio[run_list[j]]
        BY <1>2 DEF Sorted
      <4>. QED  BY <4>1, <4>2 DEF Sorted
    <3>. QED  BY <1>2, <3>1, <3>3
  <2>. QED  BY <2>1, <2>2
<1>5. PSTypeOK'
  BY <1>1, <1>3, <1>4 DEF PSInv, PSTypeOK
<1>6. ListsMatchState'
  BY <1>1, <1>4 DEF PSInv, ListsMatchState, Distinct, In
<1>7. RunListSorted'
  BY <1>4 DEF RunListSorted, Sorted
<1>8. PrioritiesOK' /\ state'[idle] = "READY"
  BY <1>1, <1>3, ProcFacts DEF PSInv, PrioritiesOK
<1>. QED  BY <1>1, <1>5, <1>6, <1>7, <1>8 DEF PSInv

LEMMA SwitchKeepsPSInv ==
  ASSUME PSInv, SwitchContext
  PROVE  PSInv' /\ state' = state /\ state[current'] = "READY"
PROOF
<1>1. current' \in Procs /\ state[current'] = "READY"
  BY HeadReady DEF SwitchContext
<1>2. /\ run_list' = run_list /\ sleep_list' = sleep_list
      /\ state' = state /\ prio' = prio
  BY DEF SwitchContext
<1>3. PSTypeOK'
  BY <1>1, <1>2 DEF PSInv, PSTypeOK
<1>4. ListsMatchState'
  BY <1>2 DEF PSInv, ListsMatchState, In
<1>5. RunListSorted'
  BY <1>2 DEF PSInv, RunListSorted
<1>6. PrioritiesOK' /\ state'[idle] = "READY"
  BY <1>2 DEF PSInv, PrioritiesOK
<1>. QED  BY <1>1, <1>2, <1>3, <1>4, <1>5, <1>6 DEF PSInv

-----------------------------------------------------------------------------
(* The commands of the task queue, seen through isWaiting().               *)
LEMMA PushEffect ==
  ASSUME TQInv, NEW t \in Tasks, pushTask(t)
  PROVE  /\ TQInv' /\ outcome' \in {"SUCCESS", "EBUSY"}
         /\ outcome' = "EBUSY" =>
              \A u \in Tasks : isWaiting(u)' <=> isWaiting(u)
PROOF
<1>1. TQInv'
  BY PushKeepsInv
<1>2. outcome' \in {"SUCCESS", "EBUSY"}
  BY DEF pushTask
<1>3. outcome' = "EBUSY" => UNCHANGED queueVars
  BY DEF pushTask
<1>. QED  BY <1>1, <1>2, <1>3 DEF queueVars, isWaiting

LEMMA WaitingNextState == TQInv' => WaitingIsExact'
PROOF
<1>1. TQInv => WaitingIsExact
  BY WaitingLemma
<1>. QED  BY <1>1, PTL

LEMMA PopEffect ==
  ASSUME TQInv, popTask
  PROVE  /\ TQInv' /\ outcome' \in Tasks \cup {NO_TASK}
         /\ \A t \in Tasks : isWaiting(t)' => isWaiting(t)
         /\ outcome' = NO_TASK => \A t \in Tasks : ~isWaiting(t)'
         /\ outcome' # NO_TASK => \E t \in Tasks : isWaiting(t)
PROOF
<1>1. /\ TQInv'
      /\ posted = << >> => outcome' = NO_TASK /\ posted' = << >>
      /\ posted # << >> => outcome' = Head(posted) /\ posted' = Tail(posted)
  BY PopKeepsInv
<1>2. WaitingIsExact /\ WaitingIsExact'
  <2>1. WaitingIsExact
    BY WaitingLemma
  <2>. QED  BY <1>1, <2>1, WaitingNextState
<1>3. posted \in Seq(Tasks)
  BY DEF TQInv, TQTypeOK
<1>4. CASE posted = << >>
  BY <1>1, <1>2, <1>4 DEF WaitingIsExact
<1>5. CASE posted # << >>
  <2>1. /\ Head(posted) \in Tasks /\ Head(posted) = posted[1]
        /\ Len(posted') = Len(posted) - 1
        /\ \A i \in 1..(Len(posted) - 1) : posted'[i] = posted[i + 1]
        /\ Len(posted) \in Nat /\ Len(posted) >= 1
    BY <1>1, <1>3, <1>5, HeadTailProperties
  <2>2. isWaiting(posted[1])
    BY <1>2, <2>1 DEF WaitingIsExact
  <2>3. ASSUME NEW t \in Tasks, isWaiting(t)'
        PROVE  isWaiting(t)
    <3>1. PICK i \in 1..Len(posted') : posted'[i] = t
      BY <1>2, <2>3 DEF WaitingIsExact
    <3>2. i + 1 \in 1..Len(posted) /\ posted[i + 1] = t
      BY <2>1, <3>1
    <3>. QED  BY <1>2, <3>2 DEF WaitingIsExact
  <2>. QED  BY <1>1, <1>5, <2>1, <2>2, <2>3, NoTaskIsNoTask
<1>. QED  BY <1>4, <1>5

-----------------------------------------------------------------------------
(* Consequences of the invariant used for every action.                    *)
LEMMA Consequences ==
  ASSUME KernelInv
  PROVE  /\ TQInv /\ ~hooking[idle]
         /\ \A p, q \in Procs : current = p /\ ~hooking[p] => ~hooking[q]
         /\ state \in [Procs -> {"READY", "SLEEPING"}] /\ current \in Procs
         /\ hooking \in [Procs -> BOOLEAN] /\ DOMAIN pc = Procs
PROOF
<1>1. TQInv
  BY DEF KernelInv, TypeOK, TQInv
<1>2. ~MayPost(idle)
  BY ProcFacts DEF MayPost
<1>. QED  BY <1>1, <1>2, ProcFacts, PSFacts DEF KernelInv, Control, TypeOK

(* A step that changes neither the task queue nor the process lists.       *)
LEMMA Frame ==
  ASSUME KernelInv, UNCHANGED <<tqVars, psVars>>
  PROVE  /\ TQInv' /\ PSInv' /\ run_list' = run_list /\ state' = state
         /\ current' = current
         /\ \A t \in Tasks : isWaiting(t)' <=> isWaiting(t)
PROOF
<1>1. TQInv'
  BY Consequences DEF tqVars, TQInv, TQTypeOK, WellFormedList, NoTaskTwice,
                      EndsMatch, LinksMatch
<1>2. PSInv'
  BY PSUnchanged DEF KernelInv
<1>. QED  BY <1>1, <1>2 DEF tqVars, psVars, isWaiting

(* The typing of the variables of Kernel itself.                           *)
KTypeOK ==
  /\ pc \in [Procs -> MainLabels \cup IdleLabels \cup WorkerLabels]
  /\ pc[main] \in MainLabels /\ pc[idle] \in IdleLabels
  /\ \A w \in Workers : pc[w] \in WorkerLabels
  /\ hooking \in [Procs -> BOOLEAN]
  /\ running \in Tasks \cup {NO_TASK}
  /\ irq \in BOOLEAN /\ isr \in {"none", "body", "hook"} /\ pendsv \in BOOLEAN

LEMMA InvParts ==
  KernelInv <=> /\ TQInv /\ PSInv /\ KTypeOK /\ Control
                /\ NoLostWakeup /\ SleepsOnlyWhenIdle /\ SuspendedDoesNotRun
BY DEF KernelInv, TypeOK, KTypeOK, TQInv, PSInv

LEMMA InvParts_prime ==
  KernelInv' <=> /\ TQInv' /\ PSInv' /\ KTypeOK' /\ Control'
                 /\ NoLostWakeup' /\ SleepsOnlyWhenIdle' /\ SuspendedDoesNotRun'
BY InvParts, PTL

-----------------------------------------------------------------------------
(* One lemma per action: the step keeps KernelInv.                         *)
LEMMA ThreadPostKeepsInv ==
  ASSUME KernelInv, NEW p \in Procs, NEW t \in Tasks, ThreadPost(p, t)
  PROVE  KernelInv'
PROOF
<1>1. /\ TQInv' /\ outcome' \in {"SUCCESS", "EBUSY"}
      /\ outcome' = "EBUSY" => \A u \in Tasks : isWaiting(u)' <=> isWaiting(u)
  BY Consequences, PushEffect DEF ThreadPost
<1>2. /\ UNCHANGED <<psVars, pc, running, irq, isr, pendsv>>
      /\ hooking' = [hooking EXCEPT ![p] = (outcome' = "SUCCESS")]
      /\ Runs(p) /\ MayPost(p) /\ ~hooking[p]
  BY DEF ThreadPost
<1>3. PSInv' /\ run_list' = run_list /\ state' = state /\ current' = current
  BY <1>2, PSUnchanged, InvParts DEF psVars
<1>4. /\ \A q \in Procs : ~hooking[q] /\ (hooking'[q] <=> q = p /\ outcome' = "SUCCESS")
      /\ hooking' \in [Procs -> BOOLEAN]
  BY <1>1, <1>2, Consequences DEF Runs
<1>5. KTypeOK'
  BY <1>2, <1>4, InvParts DEF KTypeOK
<1>6. current = p /\ ~pendsv /\ p # idle
  BY <1>2, ProcFacts, InvParts DEF Runs, MayPost, Masked, Control
<1>7. Control'
  BY <1>2, <1>3, <1>4, <1>6, InvParts DEF Control, MayPost, Masked
<1>8. NoLostWakeup'
  BY <1>1, <1>2, <1>3, <1>4, InvParts DEF NoLostWakeup, PostIncomplete
<1>9. SleepsOnlyWhenIdle'
  BY <1>3, <1>6 DEF SleepsOnlyWhenIdle
<1>10. SuspendedDoesNotRun'
  BY <1>2, <1>3, InvParts DEF SuspendedDoesNotRun
<1>. QED  BY <1>1, <1>3, <1>5, <1>7, <1>8, <1>9, <1>10, InvParts_prime

LEMMA ThreadHookKeepsInv ==
  ASSUME KernelInv, NEW p \in Procs, ThreadHook(p)
  PROVE  KernelInv'
PROOF
<1>1. /\ UNCHANGED <<tqVars, pc, running, irq, isr, pendsv>>
      /\ hooking' = [hooking EXCEPT ![p] = FALSE]
      /\ Runs(p) /\ hooking[p] /\ resume(main)
  BY DEF ThreadHook
<1>2. /\ PSInv' /\ state'[main] = "READY" /\ current' = current
      /\ \A q \in Procs : q # main => state'[q] = state[q]
  BY <1>1, ProcFacts, ResumeKeepsPSInv, InvParts
<1>3. TQInv' /\ \A t \in Tasks : isWaiting(t)' <=> isWaiting(t)
  BY <1>1, Consequences DEF tqVars, TQInv, TQTypeOK, WellFormedList,
       NoTaskTwice, EndsMatch, LinksMatch, isWaiting
<1>4. hooking' \in [Procs -> BOOLEAN] /\ \A q \in Procs : hooking'[q] => hooking[q]
  BY <1>1, Consequences
<1>5. KTypeOK'
  BY <1>1, <1>4, InvParts DEF KTypeOK
<1>6. current = p /\ p # idle
  BY <1>1, Consequences DEF Runs
<1>7. Control'
  BY <1>1, <1>2, <1>4, InvParts DEF Control, MayPost, Masked
<1>8. NoLostWakeup'
  BY <1>2 DEF NoLostWakeup
<1>9. SleepsOnlyWhenIdle'
  BY <1>2, <1>6 DEF SleepsOnlyWhenIdle
<1>10. SuspendedDoesNotRun'
  BY <1>1, <1>2, HeadReady, Consequences, ProcFacts, InvParts
     DEF SuspendedDoesNotRun, PSInv, ListsMatchState, In
<1>. QED  BY <1>2, <1>3, <1>5, <1>7, <1>8, <1>9, <1>10, InvParts_prime

(* Steps of main that move only its control state, and the pops.           *)
LEMMA MainFacts ==
  ASSUME KernelInv, Runs(main), pc[main] \in MainLabels, ~hooking[main]
  PROVE  /\ current = main /\ isr = "none" /\ ~pendsv
         /\ \A p \in Procs : ~hooking[p]
         /\ pc[idle] # "wfi" /\ state[main] = "READY"
PROOF
<1>1. current = main /\ isr = "none" /\ (Masked \/ ~pendsv)
  BY DEF Runs
<1>2. ~pendsv
  BY <1>1, ProcFacts, InvParts DEF Masked, Control
<1>3. pc[idle] # "wfi"
  BY <1>1, ProcFacts, InvParts DEF Control
<1>4. state[main] = "READY"
  BY <1>1, <1>2, Consequences, ProcFacts, InvParts
     DEF SuspendedDoesNotRun, MainLabels
<1>. QED  BY <1>1, <1>2, <1>3, <1>4, Consequences, ProcFacts

LEMMA MainMoves ==
  ASSUME KernelInv, Runs(main), ~hooking[main], TQInv', UNCHANGED psVars,
         UNCHANGED <<hooking, irq, isr, pendsv>>,
         running' \in Tasks \cup {NO_TASK},
         NEW label \in MainLabels, Goto(main, label),
         label \in {"sysinit", "drain", "drainTask"} =>
           pc[main] \in {"sysinit", "drain", "drainTask"}
  PROVE  KernelInv'
PROOF
<1>1. /\ current = main /\ isr = "none" /\ ~pendsv
      /\ \A p \in Procs : ~hooking[p]
      /\ pc[idle] # "wfi" /\ state[main] = "READY"
  BY MainFacts, InvParts DEF KTypeOK
<1>2. PSInv' /\ run_list' = run_list /\ state' = state /\ current' = current
  BY PSUnchanged, InvParts DEF psVars
<1>3. /\ pc'[main] = label /\ pc' \in [Procs -> MainLabels \cup IdleLabels \cup WorkerLabels]
      /\ \A p \in Procs : p # main => pc'[p] = pc[p]
  BY ProcFacts, InvParts DEF Goto, KTypeOK
<1>4. KTypeOK'
  BY <1>3, ProcFacts, InvParts DEF KTypeOK
<1>5. Control'
  BY <1>1, <1>2, <1>3, ProcFacts, InvParts DEF Control, Masked
<1>6. NoLostWakeup'
  BY <1>1, <1>2 DEF NoLostWakeup
<1>7. SleepsOnlyWhenIdle'
  BY <1>1, <1>2, ProcFacts DEF SleepsOnlyWhenIdle
<1>8. SuspendedDoesNotRun'
  BY <1>1, <1>2, InvParts DEF SuspendedDoesNotRun
<1>. QED  BY <1>2, <1>4, <1>5, <1>6, <1>7, <1>8, InvParts_prime

LEMMA BootKeepsInv ==
  ASSUME KernelInv, InitialisersDone \/ BootedDone \/ TaskDone
  PROVE  KernelInv'
PROOF
<1>1. TQInv'
  BY Frame DEF InitialisersDone, BootedDone, TaskDone, tqVars, TQInv, TQTypeOK,
       WellFormedList, NoTaskTwice, EndsMatch, LinksMatch, KernelInv, TypeOK
<1>2. CASE InitialisersDone
  BY <1>1, <1>2, MainMoves, InvParts DEF InitialisersDone, MainLabels, KTypeOK
<1>3. CASE BootedDone
  BY <1>1, <1>3, MainMoves, InvParts DEF BootedDone, MainLabels, KTypeOK
<1>4. CASE TaskDone
  BY <1>1, <1>4, MainMoves, InvParts DEF TaskDone, MainLabels, KTypeOK
<1>. QED  BY <1>2, <1>3, <1>4

LEMMA RunNextTaskKeepsInv ==
  ASSUME KernelInv, RunNextTask
  PROVE  KernelInv'
PROOF
<1>1. TQInv' /\ outcome' \in Tasks \cup {NO_TASK}
  BY PopEffect, InvParts DEF RunNextTask
<1>2. ~hooking[main]
  BY ProcFacts, InvParts DEF RunNextTask, Control, MayPost
<1>. QED  BY <1>1, <1>2, MainMoves DEF RunNextTask, MainLabels

LEMMA TaskLoopKeepsInv ==
  ASSUME KernelInv, TaskLoop
  PROVE  KernelInv'
PROOF
<1>1. /\ TQInv' /\ outcome' \in Tasks \cup {NO_TASK}
      /\ outcome' = NO_TASK => \A t \in Tasks : ~isWaiting(t)'
  BY PopEffect, InvParts DEF TaskLoop
<1>2. ~hooking[main]
  BY ProcFacts, InvParts DEF TaskLoop, Control, MayPost
<1>3. CASE outcome' # NO_TASK
  BY <1>1, <1>2, <1>3, MainMoves DEF TaskLoop, MainLabels
<1>4. CASE outcome' = NO_TASK
  <2>1. /\ suspend(main) /\ Schedule
        /\ UNCHANGED <<pc, hooking, irq, isr>> /\ running' = outcome'
        /\ pc[main] = "loop" /\ Runs(main)
    BY <1>4 DEF TaskLoop
  <2>2. /\ current = main /\ isr = "none" /\ ~pendsv
        /\ \A p \in Procs : ~hooking[p]
        /\ pc[idle] # "wfi"
    BY <1>2, <2>1, MainFacts, InvParts DEF KTypeOK
  <2>3. PSInv' /\ state'[main] = "SLEEPING" /\ current' = current
    BY <2>1, SuspendKeepsPSInv, ProcFacts, InvParts
  <2>4. run_list' # << >> /\ state'[Head(run_list')] = "READY"
    <3>1. PSInv' => run_list' # << >> /\ state'[Head(run_list')] = "READY"
      BY HeadReady_prime
    <3>. QED  BY <2>3, <3>1
  <2>5. pendsv' = TRUE
    BY <2>1, <2>2, <2>3, <2>4 DEF Schedule
  <2>6. KTypeOK'
    BY <1>1, <2>1, <2>5, InvParts DEF KTypeOK
  <2>7. Control'
    BY <2>1, <2>2, <2>3, ProcFacts, InvParts DEF Control, Masked
  <2>8. NoLostWakeup'
    BY <1>1, <1>4 DEF NoLostWakeup
  <2>9. SleepsOnlyWhenIdle'
    BY <2>1, <2>2 DEF SleepsOnlyWhenIdle
  <2>10. SuspendedDoesNotRun'
    BY <2>4, <2>5 DEF SuspendedDoesNotRun
  <2>. QED  BY <1>1, <2>3, <2>6, <2>7, <2>8, <2>9, <2>10, InvParts_prime
<1>. QED  BY <1>3, <1>4

(* The idle process.                                                       *)
LEMMA IdleScheduleKeepsInv ==
  ASSUME KernelInv, IdleSchedule
  PROVE  KernelInv'
PROOF
<1>1. /\ Runs(idle) /\ pc[idle] = "switch" /\ Goto(idle, "check") /\ Schedule
      /\ UNCHANGED <<tqVars, psVars, hooking, running, irq, isr>>
  BY DEF IdleSchedule
<1>2. /\ TQInv' /\ PSInv' /\ run_list' = run_list /\ state' = state
      /\ current' = current
      /\ \A t \in Tasks : isWaiting(t)' <=> isWaiting(t)
  BY <1>1, Frame
<1>3. current = idle /\ isr = "none" /\ \A p \in Procs : ~hooking[p]
  BY <1>1, Consequences, ProcFacts DEF Runs
<1>4. /\ pc'[idle] = "check" /\ pc' \in [Procs -> MainLabels \cup IdleLabels \cup WorkerLabels]
      /\ \A p \in Procs : p # idle => pc'[p] = pc[p]
  BY <1>1, ProcFacts, InvParts DEF Goto, KTypeOK, IdleLabels
<1>5. KTypeOK'
  BY <1>1, <1>4, ProcFacts, InvParts DEF KTypeOK, IdleLabels, Schedule
<1>6. Control'
  BY <1>1, <1>2, <1>3, <1>4, ProcFacts, InvParts DEF Control, Masked
<1>7. NoLostWakeup'
  BY <1>1, <1>2, InvParts DEF NoLostWakeup, PostIncomplete
<1>8. SleepsOnlyWhenIdle'
  BY <1>4 DEF SleepsOnlyWhenIdle
<1>9. SuspendedDoesNotRun'
  BY <1>2, <1>3, InvParts DEF SuspendedDoesNotRun, PSInv
<1>. QED  BY <1>2, <1>5, <1>6, <1>7, <1>8, <1>9, InvParts_prime

(* Going to sleep: the check under the mask sees that idle alone is left,  *)
(* so main is suspended, and then no task can be waiting.                  *)
LEMMA IdleCheckKeepsInv ==
  ASSUME KernelInv, IdleCheck
  PROVE  KernelInv'
PROOF
<1>1. /\ Runs(idle) /\ pc[idle] = "check"
      /\ Goto(idle, IF SwitchPending THEN "switch" ELSE "wfi")
      /\ UNCHANGED <<tqVars, psVars, hooking, running, irq, isr, pendsv>>
  BY DEF IdleCheck
<1>2. /\ TQInv' /\ PSInv' /\ run_list' = run_list /\ state' = state
      /\ current' = current
      /\ \A t \in Tasks : isWaiting(t)' <=> isWaiting(t)
  BY <1>1, Frame
<1>3. current = idle /\ isr = "none" /\ \A p \in Procs : ~hooking[p]
  BY <1>1, Consequences, ProcFacts DEF Runs
<1>4. /\ pc'[idle] = IF SwitchPending THEN "switch" ELSE "wfi"
      /\ pc' \in [Procs -> MainLabels \cup IdleLabels \cup WorkerLabels]
      /\ \A p \in Procs : p # idle => pc'[p] = pc[p]
  BY <1>1, ProcFacts, InvParts DEF Goto, KTypeOK, IdleLabels
<1>5. KTypeOK'
  BY <1>1, <1>4, ProcFacts, InvParts DEF KTypeOK, IdleLabels
<1>6. Control'
  BY <1>1, <1>2, <1>3, <1>4, ProcFacts, InvParts DEF Control, Masked
<1>7. NoLostWakeup'
  BY <1>1, <1>2, InvParts DEF NoLostWakeup, PostIncomplete
<1>8. SleepsOnlyWhenIdle'
  <2>1. CASE SwitchPending
    BY <2>1, <1>4 DEF SleepsOnlyWhenIdle
  <2>2. CASE ~SwitchPending
    <3>1. run_list = <<idle>> /\ state[main] = "SLEEPING"
      BY <2>2, <1>3, IdleAlone, InvParts DEF SwitchPending
    <3>2. ~PostIncomplete
      BY <1>3 DEF PostIncomplete
    <3>3. \A t \in Tasks : ~isWaiting(t)
      BY <3>1, <3>2, InvParts DEF NoLostWakeup
    <3>. QED  BY <1>1, <1>2, <3>1, <3>2, <3>3 DEF SleepsOnlyWhenIdle, PostIncomplete
  <2>. QED  BY <2>1, <2>2
<1>9. SuspendedDoesNotRun'
  BY <1>2, <1>3, InvParts DEF SuspendedDoesNotRun, PSInv
<1>. QED  BY <1>2, <1>5, <1>6, <1>7, <1>8, <1>9, InvParts_prime

LEMMA IdleWakesKeepsInv ==
  ASSUME KernelInv, IdleWakes
  PROVE  KernelInv'
PROOF
<1>1. /\ Runs(idle) /\ Goto(idle, "switch")
      /\ UNCHANGED <<tqVars, psVars, hooking, running, irq, isr, pendsv>>
  BY DEF IdleWakes
<1>2. /\ TQInv' /\ PSInv' /\ run_list' = run_list /\ state' = state
      /\ current' = current
      /\ \A t \in Tasks : isWaiting(t)' <=> isWaiting(t)
  BY <1>1, Frame
<1>3. current = idle /\ \A p \in Procs : ~hooking[p]
  BY <1>1, Consequences, ProcFacts DEF Runs
<1>4. /\ pc'[idle] = "switch"
      /\ pc' \in [Procs -> MainLabels \cup IdleLabels \cup WorkerLabels]
      /\ \A p \in Procs : p # idle => pc'[p] = pc[p]
  BY <1>1, ProcFacts, InvParts DEF Goto, KTypeOK, IdleLabels
<1>5. KTypeOK'
  BY <1>1, <1>4, ProcFacts, InvParts DEF KTypeOK, IdleLabels
<1>6. Control'
  BY <1>1, <1>2, <1>3, <1>4, ProcFacts, InvParts DEF Control, Masked
<1>7. NoLostWakeup'
  BY <1>1, <1>2, InvParts DEF NoLostWakeup, PostIncomplete
<1>8. SleepsOnlyWhenIdle'
  BY <1>4 DEF SleepsOnlyWhenIdle
<1>9. SuspendedDoesNotRun'
  BY <1>2, <1>3, InvParts DEF SuspendedDoesNotRun, PSInv
<1>. QED  BY <1>2, <1>5, <1>6, <1>7, <1>8, <1>9, InvParts_prime

(* The workers.                                                            *)
LEMMA WorkerFacts ==
  ASSUME KernelInv, NEW w \in Workers, Runs(w), ~hooking[w]
  PROVE  /\ current = w /\ isr = "none" /\ ~pendsv /\ w \in Procs
         /\ w # main /\ w # idle
         /\ \A p \in Procs : ~hooking[p]
         /\ pc[idle] # "wfi" /\ pc[main] \notin {"sysinit", "drain", "drainTask"}
PROOF
<1>1. current = w /\ isr = "none" /\ (Masked \/ ~pendsv)
  BY DEF Runs
<1>2. w \in Procs /\ w # main /\ w # idle
  BY ProcFacts
<1>3. ~Masked
  BY <1>1, <1>2 DEF Masked
<1>. QED  BY <1>1, <1>2, <1>3, Consequences, InvParts DEF Control

LEMMA WorkerYieldKeepsInv ==
  ASSUME KernelInv, NEW w \in Workers, WorkerYield(w)
  PROVE  KernelInv'
PROOF
<1>1. /\ Runs(w) /\ ~hooking[w] /\ Goto(w, "work") /\ Schedule
      /\ UNCHANGED <<tqVars, psVars, hooking, running, irq, isr>>
  BY DEF WorkerYield
<1>2. /\ TQInv' /\ PSInv' /\ run_list' = run_list /\ state' = state
      /\ current' = current
      /\ \A t \in Tasks : isWaiting(t)' <=> isWaiting(t)
  BY <1>1, Frame
<1>3. /\ current = w /\ isr = "none" /\ w \in Procs /\ w # main /\ w # idle
      /\ \A p \in Procs : ~hooking[p]
      /\ pc[idle] # "wfi" /\ pc[main] \notin {"sysinit", "drain", "drainTask"}
  BY <1>1, WorkerFacts
<1>4. /\ pc'[w] = "work"
      /\ pc' \in [Procs -> MainLabels \cup IdleLabels \cup WorkerLabels]
      /\ \A p \in Procs : p # w => pc'[p] = pc[p]
  BY <1>1, <1>3, InvParts DEF Goto, KTypeOK, WorkerLabels
<1>5. KTypeOK'
  BY <1>1, <1>3, <1>4, ProcFacts, InvParts DEF KTypeOK, WorkerLabels, Schedule
<1>6. Control'
  BY <1>1, <1>2, <1>3, <1>4, ProcFacts, InvParts DEF Control, Masked
<1>7. NoLostWakeup'
  BY <1>1, <1>2, InvParts DEF NoLostWakeup, PostIncomplete
<1>8. SleepsOnlyWhenIdle'
  BY <1>2, <1>3 DEF SleepsOnlyWhenIdle
<1>9. SuspendedDoesNotRun'
  <2>1. run_list # << >> /\ state[Head(run_list)] = "READY"
    BY HeadReady, InvParts
  <2>. QED  BY <1>1, <1>2, <2>1 DEF SuspendedDoesNotRun, Schedule
<1>. QED  BY <1>2, <1>5, <1>6, <1>7, <1>8, <1>9, InvParts_prime

LEMMA WorkerSuspendKeepsInv ==
  ASSUME KernelInv, NEW w \in Workers, WorkerSuspend(w)
  PROVE  KernelInv'
PROOF
<1>1. /\ Runs(w) /\ ~hooking[w] /\ Goto(w, "yield") /\ suspend(w)
      /\ UNCHANGED <<tqVars, hooking, running, irq, isr, pendsv>>
  BY DEF WorkerSuspend
<1>2. /\ current = w /\ isr = "none" /\ w \in Procs /\ w # main /\ w # idle
      /\ \A p \in Procs : ~hooking[p]
      /\ pc[idle] # "wfi" /\ pc[main] \notin {"sysinit", "drain", "drainTask"}
  BY <1>1, WorkerFacts
<1>3. /\ PSInv' /\ current' = current
      /\ \A q \in Procs : q # w => state'[q] = state[q]
  BY <1>1, <1>2, SuspendKeepsPSInv, InvParts
<1>4. TQInv' /\ \A t \in Tasks : isWaiting(t)' <=> isWaiting(t)
  BY <1>1, Consequences DEF tqVars, TQInv, TQTypeOK, WellFormedList,
       NoTaskTwice, EndsMatch, LinksMatch, isWaiting
<1>5. /\ pc'[w] = "yield"
      /\ pc' \in [Procs -> MainLabels \cup IdleLabels \cup WorkerLabels]
      /\ \A p \in Procs : p # w => pc'[p] = pc[p]
  BY <1>1, <1>2, InvParts DEF Goto, KTypeOK, WorkerLabels
<1>6. KTypeOK'
  BY <1>1, <1>2, <1>5, ProcFacts, InvParts DEF KTypeOK, WorkerLabels
<1>7. Control'
  BY <1>1, <1>2, <1>3, <1>5, ProcFacts, InvParts DEF Control, Masked
<1>8. NoLostWakeup'
  BY <1>1, <1>2, <1>3, <1>4, ProcFacts, InvParts DEF NoLostWakeup, PostIncomplete
<1>9. SleepsOnlyWhenIdle'
  BY <1>2, <1>3 DEF SleepsOnlyWhenIdle
<1>10. SuspendedDoesNotRun'
  BY <1>2, <1>3, <1>5, HeadReady_prime DEF SuspendedDoesNotRun
<1>. QED  BY <1>3, <1>4, <1>6, <1>7, <1>8, <1>9, <1>10, InvParts_prime

LEMMA ThreadSetPriorityKeepsInv ==
  ASSUME KernelInv, NEW p \in Procs, NEW w \in Workers, NEW new \in WorkerPrios,
         ThreadSetPriority(p, w, new)
  PROVE  KernelInv'
PROOF
<1>1. /\ Runs(p) /\ MayPost(p) /\ ~hooking[p] /\ setPriority(w, new)
      /\ UNCHANGED <<tqVars, pc, hooking, running, irq, isr, pendsv>>
  BY DEF ThreadSetPriority, kVars
<1>2. current # idle
  BY <1>1, ProcFacts DEF Runs, MayPost
<1>3. PSInv' /\ state' = state /\ current' = current
  BY <1>1, SetPriorityKeepsPSInv, InvParts
<1>4. TQInv' /\ \A t \in Tasks : isWaiting(t)' <=> isWaiting(t)
  BY <1>1, Consequences DEF tqVars, TQInv, TQTypeOK, WellFormedList,
       NoTaskTwice, EndsMatch, LinksMatch, isWaiting
<1>5. KTypeOK'
  BY <1>1, InvParts DEF KTypeOK
<1>6. Control'
  BY <1>1, <1>3, InvParts DEF Control, Masked, MayPost
<1>7. NoLostWakeup'
  BY <1>1, <1>3, <1>4, InvParts DEF NoLostWakeup, PostIncomplete
<1>8. SleepsOnlyWhenIdle'
  BY <1>2, <1>3 DEF SleepsOnlyWhenIdle
<1>9. SuspendedDoesNotRun'
  BY <1>1, <1>3, HeadReady_prime, InvParts DEF SuspendedDoesNotRun
<1>. QED  BY <1>3, <1>4, <1>5, <1>6, <1>7, <1>8, <1>9, InvParts_prime

(* The exceptions.                                                         *)
LEMMA InterruptKeepsInv ==
  ASSUME KernelInv, InterruptArrives \/ IsrEnter \/ IsrExit
  PROVE  KernelInv'
PROOF
<1>1. /\ UNCHANGED <<tqVars, psVars, pc, hooking, running, pendsv>>
      /\ irq' \in BOOLEAN /\ isr' \in {"none", "body", "hook"}
      /\ isr' # isr => ~Masked /\ isr' # "hook" /\ isr # "hook"
  BY InvParts DEF InterruptArrives, IsrEnter, IsrExit, KTypeOK, Control
<1>2. /\ TQInv' /\ PSInv' /\ run_list' = run_list /\ state' = state
      /\ current' = current
      /\ \A t \in Tasks : isWaiting(t)' <=> isWaiting(t)
  BY <1>1, Frame
<1>3. KTypeOK'
  BY <1>1, InvParts DEF KTypeOK
<1>4. Control'
  BY <1>1, <1>2, InvParts DEF Control, Masked, MayPost
<1>5. PostIncomplete' <=> PostIncomplete
  BY <1>1 DEF PostIncomplete
<1>6. NoLostWakeup'
  BY <1>1, <1>2, <1>5, InvParts DEF NoLostWakeup
<1>7. SleepsOnlyWhenIdle'
  BY <1>1, <1>2, <1>5, InvParts DEF SleepsOnlyWhenIdle
<1>8. SuspendedDoesNotRun'
  BY <1>1, <1>2, InvParts DEF SuspendedDoesNotRun
<1>. QED  BY <1>2, <1>3, <1>4, <1>6, <1>7, <1>8, InvParts_prime

LEMMA IsrPostKeepsInv ==
  ASSUME KernelInv, NEW t \in Tasks, IsrPost(t)
  PROVE  KernelInv'
PROOF
<1>1. /\ isr = "body" /\ pushTask(t)
      /\ isr' = IF outcome' = "SUCCESS" THEN "hook" ELSE "body"
      /\ UNCHANGED <<psVars, pc, hooking, running, irq, pendsv>>
  BY DEF IsrPost
<1>2. /\ TQInv' /\ outcome' \in {"SUCCESS", "EBUSY"}
      /\ outcome' = "EBUSY" => \A u \in Tasks : isWaiting(u)' <=> isWaiting(u)
  BY <1>1, Consequences, PushEffect
<1>3. PSInv' /\ run_list' = run_list /\ state' = state /\ current' = current
  BY <1>1, PSUnchanged, InvParts DEF psVars
<1>4. ~Masked
  BY <1>1, InvParts DEF Control
<1>5. KTypeOK'
  BY <1>1, InvParts DEF KTypeOK
<1>6. Control'
  BY <1>1, <1>3, <1>4, InvParts DEF Control, Masked, MayPost
<1>7. NoLostWakeup'
  BY <1>1, <1>2, <1>3, InvParts DEF NoLostWakeup, PostIncomplete
<1>8. SleepsOnlyWhenIdle'
  BY <1>1, <1>3, <1>4 DEF SleepsOnlyWhenIdle, Masked
<1>9. SuspendedDoesNotRun'
  BY <1>1, <1>3, InvParts DEF SuspendedDoesNotRun
<1>. QED  BY <1>2, <1>3, <1>5, <1>6, <1>7, <1>8, <1>9, InvParts_prime

(* A handler resumes main, after a post, or a worker.                      *)
LEMMA IsrResumesKeepsInv ==
  ASSUME KernelInv, IsrHook \/ \E w \in Workers : IsrResume(w)
  PROVE  KernelInv'
PROOF
<1>1. PICK p \in Procs :
        /\ resume(p) /\ isr' \in {"body", isr} /\ isr # "none"
        /\ isr = "hook" => p = main
        /\ UNCHANGED <<tqVars, pc, hooking, running, irq, pendsv>>
  BY ProcFacts DEF IsrHook, IsrResume, kVars
<1>2. /\ PSInv' /\ state'[p] = "READY" /\ current' = current
      /\ \A q \in Procs : q # p => state'[q] = state[q]
  BY <1>1, ResumeKeepsPSInv, InvParts
<1>3. TQInv' /\ \A t \in Tasks : isWaiting(t)' <=> isWaiting(t)
  BY <1>1, Consequences DEF tqVars, TQInv, TQTypeOK, WellFormedList,
       NoTaskTwice, EndsMatch, LinksMatch, isWaiting
<1>4. ~Masked
  BY <1>1, InvParts DEF Control
<1>5. KTypeOK'
  BY <1>1, InvParts DEF KTypeOK
<1>6. Control'
  BY <1>1, <1>2, <1>4, InvParts DEF Control, Masked, MayPost
<1>7. NoLostWakeup'
  BY <1>1, <1>2, <1>3, ProcFacts, InvParts DEF NoLostWakeup, PostIncomplete
<1>8. SleepsOnlyWhenIdle'
  BY <1>1, <1>2, <1>4 DEF SleepsOnlyWhenIdle, Masked
<1>9. SuspendedDoesNotRun'
  BY <1>1, <1>2, HeadReady_prime, Consequences, InvParts DEF SuspendedDoesNotRun
<1>. QED  BY <1>2, <1>3, <1>5, <1>6, <1>7, <1>8, <1>9, InvParts_prime

LEMMA PendSVKeepsInv ==
  ASSUME KernelInv, PendSV
  PROVE  KernelInv'
PROOF
<1>1. /\ pendsv /\ isr = "none" /\ ~Masked /\ SwitchContext /\ pendsv' = FALSE
      /\ UNCHANGED <<tqVars, pc, hooking, running, irq, isr>>
  BY DEF PendSV
<1>2. PSInv' /\ state' = state /\ state[current'] = "READY"
  BY <1>1, SwitchKeepsPSInv, InvParts
<1>3. TQInv' /\ \A t \in Tasks : isWaiting(t)' <=> isWaiting(t)
  BY <1>1, Consequences DEF tqVars, TQInv, TQTypeOK, WellFormedList,
       NoTaskTwice, EndsMatch, LinksMatch, isWaiting
<1>4. /\ \A p \in Procs : ~hooking[p]
      /\ pc[idle] # "wfi" /\ pc[main] \notin {"sysinit", "drain", "drainTask"}
  BY <1>1, InvParts DEF Control, Masked
<1>5. KTypeOK'
  BY <1>1, InvParts DEF KTypeOK
<1>6. Control'
  BY <1>1, <1>4 DEF Control, Masked
<1>7. NoLostWakeup'
  BY <1>1, <1>2, <1>3, InvParts DEF NoLostWakeup, PostIncomplete
<1>8. SleepsOnlyWhenIdle'
  BY <1>1, <1>4 DEF SleepsOnlyWhenIdle
<1>9. SuspendedDoesNotRun'
  BY <1>1, <1>2, HeadReady_prime DEF SuspendedDoesNotRun
<1>. QED  BY <1>2, <1>3, <1>5, <1>6, <1>7, <1>8, <1>9, InvParts_prime

(* A stuttering step.                                                      *)
LEMMA StutterKeepsInv ==
  ASSUME KernelInv, UNCHANGED vars
  PROVE  KernelInv'
PROOF
<1>1. UNCHANGED <<tqVars, psVars, pc, hooking, running, irq, isr, pendsv>>
  BY DEF vars, kVars
<1>2. /\ TQInv' /\ PSInv' /\ run_list' = run_list /\ state' = state
      /\ current' = current
      /\ \A t \in Tasks : isWaiting(t)' <=> isWaiting(t)
  BY <1>1, Frame
<1>. QED  BY <1>1, <1>2, InvParts, InvParts_prime
             DEF KTypeOK, Control, Masked, MayPost, NoLostWakeup, PostIncomplete,
                 SleepsOnlyWhenIdle, SuspendedDoesNotRun

-----------------------------------------------------------------------------
LEMMA InitKernelInv == Init => KernelInv
PROOF
<1>. SUFFICES ASSUME Init PROVE KernelInv
  OBVIOUS
<1>1. TQInv
  BY InitInv DEF Init
<1>2. /\ run_list \in Seq(Procs)
      /\ prio \in [Procs -> 0..255]
      /\ state = [p \in Procs |-> "READY"] /\ sleep_list = << >>
      /\ current = main
  <2>1. IsFiniteSet(Procs)
    <3>1. IsFiniteSet(Workers \cup {main})
      BY ProcessesAreDistinct, FS_AddElement
    <3>2. IsFiniteSet((Workers \cup {main}) \cup {idle})
      BY <3>1, FS_AddElement
    <3>3. Procs = (Workers \cup {main}) \cup {idle}
      BY ProcessesAreDistinct
    <3>. QED  BY <3>2, <3>3
  <2>2. Cardinality(Procs) \in Nat
    BY <2>1, FS_CardinalityType
  <2>3. run_list \in Seq(Procs)
    BY <2>2 DEF Init
  <2>4. prio \in [Procs -> 0..255]
    <3>1. prio \in [Procs -> WorkerPrios \cup {PROCESS_PRIO_DEFAULT, PROCESS_PRIO_IDLE}]
      BY DEF Init
    <3>2. WorkerPrios \cup {PROCESS_PRIO_DEFAULT, PROCESS_PRIO_IDLE} \subseteq 0..255
      BY WorkerPriosAreUserPrios, ProcFacts
    <3>. QED  BY <3>1, <3>2
  <2>. QED  BY <2>3, <2>4 DEF Init
<1>3. PSTypeOK
  BY <1>2, ProcFacts DEF PSTypeOK
<1>4. ListsMatchState
  <2>1. \A p \in Procs : In(p, run_list)
    BY DEF Init
  <2>2. \A i, j \in 1..Len(run_list) : run_list[i] = run_list[j] => i = j
    BY DEF Init
  <2>3. \A p \in Procs : ~In(p, sleep_list)
    BY <1>2 DEF In
  <2>. QED  BY <1>2, <2>1, <2>2, <2>3 DEF ListsMatchState
<1>5. PrioritiesOK
  <2>1. /\ prio[main] = 128 /\ prio[idle] = 255 /\ PROCESS_PRIO_IDLE = 255
        /\ \A w \in Workers : prio[w] \in WorkerPrios
    BY ProcFacts DEF Init
  <2>2. WorkerPrios \subseteq 0..254
    BY ProcFacts, WorkerPriosAreUserPrios
  <2>3. ASSUME NEW w \in Workers PROVE prio[w] < 255
    <3>1. prio[w] \in WorkerPrios
      BY <2>1
    <3>2. prio[w] \in 0..254
      BY <2>2, <3>1
    <3>. HIDE <2>1, <2>2
    <3>. QED  BY <3>2
  <2>. QED  BY <2>1, <2>3 DEF PrioritiesOK
<1>6. PSInv
  BY <1>2, <1>3, <1>4, <1>5, ProcFacts DEF PSInv, Init
<1>7. KTypeOK
  <2>1. /\ pc[main] = "sysinit" /\ pc[idle] = "switch"
        /\ \A w \in Workers : pc[w] = "work"
        /\ pc \in [Procs -> {"sysinit", "switch", "work"}]
    BY ProcFacts DEF Init
  <2>2. /\ hooking \in [Procs -> BOOLEAN] /\ running = NO_TASK
        /\ irq = FALSE /\ isr = "none" /\ pendsv = FALSE
    BY DEF Init
  <2>3. {"sysinit", "switch", "work"}
          \subseteq MainLabels \cup IdleLabels \cup WorkerLabels
    BY DEF MainLabels, IdleLabels, WorkerLabels
  <2>. QED  BY <2>1, <2>2, <2>3
            DEF KTypeOK, MainLabels, IdleLabels, WorkerLabels
<1>8. Control
  BY ProcFacts DEF Init, Control
<1>9. NoLostWakeup /\ SuspendedDoesNotRun
  BY <1>2, <1>6, HeadReady, ProcFacts DEF NoLostWakeup, SuspendedDoesNotRun
<1>10. SleepsOnlyWhenIdle
  BY ProcFacts DEF Init, SleepsOnlyWhenIdle
<1>. QED  BY <1>1, <1>6, <1>7, <1>8, <1>9, <1>10, InvParts

LEMMA NextKeepsKernelInv == KernelInv /\ [Next]_vars => KernelInv'
PROOF
<1>. SUFFICES ASSUME KernelInv, [Next]_vars PROVE KernelInv'
  OBVIOUS
<1>1. ASSUME NEW p \in Procs, ThreadHook(p) PROVE KernelInv'
  BY <1>1, ThreadHookKeepsInv
<1>2. ASSUME NEW p \in Procs, NEW t \in Tasks, ThreadPost(p, t) PROVE KernelInv'
  BY <1>2, ThreadPostKeepsInv
<1>3. CASE InitialisersDone \/ BootedDone \/ TaskDone
  BY <1>3, BootKeepsInv
<1>4. CASE RunNextTask
  BY <1>4, RunNextTaskKeepsInv
<1>5. CASE TaskLoop
  BY <1>5, TaskLoopKeepsInv
<1>6. CASE IdleSchedule \/ IdleCheck \/ IdleWakes
  BY <1>6, IdleScheduleKeepsInv, IdleCheckKeepsInv, IdleWakesKeepsInv
<1>7. ASSUME NEW w \in Workers, WorkerYield(w) \/ WorkerSuspend(w)
      PROVE  KernelInv'
  BY <1>7, WorkerYieldKeepsInv, WorkerSuspendKeepsInv
<1>8. ASSUME NEW p \in Procs, NEW w \in Workers, NEW new \in WorkerPrios,
             ThreadSetPriority(p, w, new)
      PROVE  KernelInv'
  BY <1>8, ThreadSetPriorityKeepsInv
<1>9. CASE InterruptArrives \/ IsrEnter \/ IsrExit
  BY <1>9, InterruptKeepsInv
<1>10. CASE IsrHook \/ \E w \in Workers : IsrResume(w)
  BY <1>10, IsrResumesKeepsInv
<1>11. ASSUME NEW t \in Tasks, IsrPost(t) PROVE KernelInv'
  BY <1>11, IsrPostKeepsInv
<1>12. CASE PendSV
  BY <1>12, PendSVKeepsInv
<1>13. CASE UNCHANGED vars
  BY <1>13, StutterKeepsInv
<1>. QED  BY <1>1, <1>2, <1>3, <1>4, <1>5, <1>6, <1>7, <1>8, <1>9, <1>10,
             <1>11, <1>12, <1>13 DEF Next, ThreadStep, ExceptionStep

(* The inductive invariant holds in every reachable state.                 *)
THEOREM KernelInvariant == Spec => []KernelInv
PROOF
<1>1. Init => KernelInv
  BY InitKernelInv
<1>2. KernelInv /\ [Next]_vars => KernelInv'
  BY NextKeepsKernelInv
<1>. QED  BY <1>1, <1>2, PTL DEF Spec

(* SchedulerBasicPrv.taskLoop, McuSleep.sleep and TaskPostedHook: a posted *)
(* task never waits for a main process that nobody will wake up.           *)
THEOREM WakeupsAreNotLost == Spec => []NoLostWakeup
PROOF
<1>1. KernelInv => NoLostWakeup
  BY DEF KernelInv
<1>. QED  BY <1>1, KernelInvariant, PTL

(* IdleProcessPrv.process_main: the CPU sleeps only when nothing is left.  *)
THEOREM IdleSleepsOnlyWhenIdle == Spec => []SleepsOnlyWhenIdle
PROOF
<1>1. KernelInv => SleepsOnlyWhenIdle
  BY DEF KernelInv
<1>. QED  BY <1>1, KernelInvariant, PTL

(* GenericProcessSchedulerPub: a suspended process does not run on, and    *)
(* schedule() always finds a process.                                      *)
THEOREM SuspendedProcessStops == Spec => []SuspendedDoesNotRun
PROOF
<1>1. KernelInv => SuspendedDoesNotRun
  BY DEF KernelInv
<1>. QED  BY <1>1, KernelInvariant, PTL

(* GenericProcessSchedulerPub: the run list is sorted by priority, and the *)
(* two lists hold each process once, on the list its state says.           *)
THEOREM SchedulerListsConsistent == Spec => []ListsConsistent
PROOF
<1>1. KernelInv => ListsConsistent
  BY DEF KernelInv, PSInv, ListsConsistent
<1>. QED  BY <1>1, KernelInvariant, PTL

(* Every variable of the composition has its type.                         *)
THEOREM KernelTypes == Spec => []TypeOK
PROOF
<1>1. KernelInv => TypeOK
  BY DEF KernelInv
<1>. QED  BY <1>1, KernelInvariant, PTL

(* Inside the whole system the task queue is still the FIFO at-most-once   *)
(* queue: every step of any process or handler is a push, a pop, or none.  *)
THEOREM KernelQueueIsFifo == Spec => ImplementsFifo
PROOF
<1>1. Init => TQInit
  BY DEF Init
<1>2. [Next]_vars => [TQNext]_tqVars
  <2>. SUFFICES ASSUME [Next]_vars PROVE TQNext \/ UNCHANGED tqVars
    OBVIOUS
  <2>1. CASE UNCHANGED vars
    BY <2>1 DEF vars
  <2>2. CASE ThreadStep
    BY <2>2 DEF ThreadStep, ThreadHook, ThreadPost, InitialisersDone,
       RunNextTask, BootedDone, TaskDone, TaskLoop, IdleSchedule, IdleCheck,
       IdleWakes, WorkerYield, WorkerSuspend, ThreadSetPriority, TQNext
  <2>3. CASE ExceptionStep
    BY <2>3 DEF ExceptionStep, InterruptArrives, IsrEnter, IsrHook, IsrExit,
       PendSV, IsrPost, IsrResume, TQNext
  <2>. QED  BY <2>1, <2>2, <2>3 DEF Next
<1>3. Spec => TQSpec
  BY <1>1, <1>2, PTL DEF Spec, TQSpec
<1>. QED  BY <1>3, QueueIsFifo, PTL
=============================================================================
