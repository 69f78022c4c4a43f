------------------------------- MODULE Inductions ------------------------------
(***************************************************************************)
(* Induction over the natural numbers, as a statement about sets, and what *)
(* follows from it for FlattenSeq of the community modules, which is a     *)
(* recursive function.  The proofs about aggregations, options and the     *)
(* list command use it.                                                    *)
(***************************************************************************)
EXTENDS Integers, SequencesExt, SequenceTheorems, FiniteSetTheorems,
        WellFoundedInduction, TLAPS

-----------------------------------------------------------------------------
(* A set of numbers has a least one.  It follows from the finite sets, whose *)
(* order is well-founded: take the intervals 0..m.                           *)

LEMMA Smallest ==
  ASSUME NEW T \in SUBSET Nat, T # {}
  PROVE  \E n \in T : \A m \in T : n <= m
<1>1. PICK b \in T : TRUE
  OBVIOUS
<1> DEFINE S == 0..b
           R == StrictSubsetOrdering(S)
           U == {0..m : m \in {k \in T : k <= b}}
<1>2. IsFiniteSet(S)
  BY <1>1, FS_Interval
<1>3. IsWellFoundedOn(R, SUBSET S)
  <2>1. IsWellFoundedOn(R, FiniteSubsetsOf(S))
    BY FS_StrictSubsetOrderingWellFounded, Zenon
  <2>2. FiniteSubsetsOf(S) = SUBSET S
    BY <1>2, FS_FiniteSubsetsOfFinite, Zenon
  <2> QED
    BY <2>1, <2>2, Zenon
<1>4. U \subseteq SUBSET S /\ U # {}
  BY <1>1
<1>5. \A x, y \in SUBSET S : <<y, x>> \in R <=> y \subseteq x /\ y # x
  BY Zenon DEF StrictSubsetOrdering
<1> HIDE DEF R
<1>6. PICK x \in U : \A y \in U : ~ (<<y, x>> \in R)
  BY <1>3, <1>4, WFMin, Zenon
<1>7. PICK n \in T : n <= b /\ x = 0..n
  BY <1>6
<1>8. ASSUME NEW m \in T, m < n
      PROVE  FALSE
  <2>1. 0..m \in U /\ x \in U
    BY <1>6, <1>7, <1>8
  <2>2. 0..m \subseteq x /\ 0..m # x
    BY <1>7, <1>8
  <2> QED
    BY <1>4, <1>5, <1>6, <2>1, <2>2, Zenon
<1> QED
  BY <1>7, <1>8

-----------------------------------------------------------------------------
(* Induction, and the sequences FlattenSeq makes                           *)

LEMMA SetInduction ==
  ASSUME NEW S, 0 \in S, \A n \in Nat : n \in S => n + 1 \in S
  PROVE  Nat \subseteq S
<1> DEFINE T == Nat \ S
<1> SUFFICES ASSUME T # {}
             PROVE  FALSE
  OBVIOUS
<1>1. PICK n \in T : \A m \in T : n <= m
  BY Smallest
<1> QED
  BY <1>1

\* Glued(ss, n, f): f[k] is what the first k of the sequences ss make together.
Glued(ss, n, f) == f = [k \in 1..n |-> IF k = 1 THEN ss[k] ELSE f[k - 1] \o ss[k]]

LEMMA GluedExists ==
  ASSUME NEW ss
  PROVE  \A n \in Nat : \E f : Glued(ss, n, f)
<1> DEFINE S == {n \in Nat : \E f : Glued(ss, n, f)}
<1>1. 0 \in S
  <2>1. Glued(ss, 0, [k \in 1..0 |-> k])
    BY DEF Glued
  <2> QED
    BY <2>1
<1>2. ASSUME NEW n \in Nat, n \in S
      PROVE  n + 1 \in S
  <2>1. PICK f : Glued(ss, n, f)
    BY <1>2
  <2> DEFINE g == [k \in 1..(n + 1) |->
                     IF k = n + 1 THEN IF k = 1 THEN ss[k] ELSE f[n] \o ss[k] ELSE f[k]]
  <2>2. ASSUME NEW k \in 1..(n + 1)
        PROVE  g[k] = IF k = 1 THEN ss[k] ELSE g[k - 1] \o ss[k]
    <3>1. CASE k = n + 1
      BY <3>1
    <3>2. CASE k # n + 1
      <4>1. k \in 1..n
        BY <3>2
      <4>2. g[k] = f[k] /\ f[k] = IF k = 1 THEN ss[k] ELSE f[k - 1] \o ss[k]
        BY <2>1, <3>2, <4>1 DEF Glued
      <4>3. k # 1 => g[k - 1] = f[k - 1]
        BY <4>1
      <4> QED
        BY <4>2, <4>3
    <3> QED
      BY <3>1, <3>2
  <2>3. Glued(ss, n + 1, g)
    BY <2>2 DEF Glued
  <2> QED
    BY <2>3
<1>3. Nat \subseteq S
  BY <1>1, <1>2, SetInduction
<1> QED
  BY <1>3

LEMMA FlattenSeqIn ==
  ASSUME NEW W, \A s, t \in W : s \o t \in W, NEW ss \in Seq(W), Len(ss) # 0
  PROVE  FlattenSeq(ss) \in W
<1> DEFINE n == Len(ss)
           flatten == CHOOSE f : Glued(ss, n, f)
           S == {k \in Nat : k + 1 <= n => flatten[k + 1] \in W}
<1>1. n \in Nat /\ n # 0 /\ \A k \in 1..n : ss[k] \in W
  OBVIOUS
<1> HIDE DEF n
<1>2. Glued(ss, n, flatten)
  BY <1>1, GluedExists
<1>3. FlattenSeq(ss) = flatten[n]
  BY <1>1 DEF FlattenSeq, Glued, n
<1> HIDE DEF flatten
<1>4. \A k \in 1..n : flatten[k] = IF k = 1 THEN ss[k] ELSE flatten[k - 1] \o ss[k]
  BY <1>1, <1>2 DEF Glued
<1>5. 0 \in S
  BY <1>1, <1>4
<1>6. ASSUME NEW k \in Nat, k \in S
      PROVE  k + 1 \in S
  <2> SUFFICES ASSUME k + 2 <= n
               PROVE  flatten[k + 2] \in W
    OBVIOUS
  <2>1. flatten[k + 1] \in W /\ ss[k + 2] \in W
    BY <1>1, <1>6
  <2>2. flatten[k + 2] = flatten[k + 1] \o ss[k + 2]
    <3>1. k + 2 \in 1..n /\ k + 2 # 1 /\ (k + 2) - 1 = k + 1
      BY <1>1
    <3> QED
      BY <1>4, <3>1
  <2> QED
    BY <2>1, <2>2
<1>7. Nat \subseteq S
  BY <1>5, <1>6, SetInduction
<1>8. n - 1 \in Nat /\ n - 1 \in S /\ (n - 1) + 1 = n
  BY <1>1, <1>7
<1> QED
  BY <1>3, <1>8

LEMMA FlattenSeqIsGlued ==
  ASSUME NEW W, NEW n \in Nat, n # 0, NEW ss \in [1..n -> Seq(W)]
  PROVE  \E f : Glued(ss, n, f) /\ FlattenSeq(ss) = f[n]
<1> DEFINE flatten == CHOOSE f : Glued(ss, n, f)
<1>1. Len(ss) = n /\ ss \in Seq(Seq(W))
  OBVIOUS
<1>2. Glued(ss, n, flatten)
  BY GluedExists
<1>3. FlattenSeq(ss) = flatten[n]
  BY <1>1 DEF FlattenSeq, Glued
<1> QED
  BY <1>2, <1>3

LEMMA FlattenSeqEmpty ==
  ASSUME NEW ss \in [1..0 -> {}]
  PROVE  FlattenSeq(ss) = <<>>
BY DEF FlattenSeq

LEMMA FlattenSeqGrows ==
  ASSUME NEW W, NEW n \in Nat, NEW ss \in [1..(n + 1) -> Seq(W)]
  PROVE  /\ FlattenSeq([k \in 1..n |-> ss[k]]) \in Seq(W)
         /\ FlattenSeq(ss) = FlattenSeq([k \in 1..n |-> ss[k]]) \o ss[n + 1]
<1> DEFINE rr == [k \in 1..n |-> ss[k]]
<1>1. n + 1 \in Nat /\ n + 1 # 0 /\ n + 1 \in 1..(n + 1) /\ ss[n + 1] \in Seq(W)
  OBVIOUS
<1>2. PICK g : Glued(ss, n + 1, g) /\ FlattenSeq(ss) = g[n + 1]
  BY <1>1, FlattenSeqIsGlued
<1>3. g[n + 1] = IF n + 1 = 1 THEN ss[n + 1] ELSE g[(n + 1) - 1] \o ss[n + 1]
  BY <1>1, <1>2 DEF Glued
<1>4. CASE n = 0
  <2>1. rr \in [1..0 -> {}]
    BY <1>4
  <2>2. FlattenSeq(rr) = <<>>
    BY <2>1, FlattenSeqEmpty
  <2>3. <<>> \o ss[n + 1] = ss[n + 1]
    BY <1>1, ConcatEmptySeq
  <2>4. FlattenSeq(ss) = ss[n + 1]
    BY <1>2, <1>3, <1>4
  <2>5. <<>> \in Seq(W)
    OBVIOUS
  <2> HIDE DEF rr
  <2>6. FlattenSeq(rr) \in Seq(W) /\ FlattenSeq(ss) = FlattenSeq(rr) \o ss[n + 1]
    BY <2>2, <2>3, <2>4, <2>5
  <2> QED
    BY <2>6 DEF rr
<1>5. CASE n # 0
  <2>1. rr \in [1..n -> Seq(W)]
    OBVIOUS
  <2>2. PICK f : Glued(rr, n, f) /\ FlattenSeq(rr) = f[n]
    BY <1>5, <2>1, FlattenSeqIsGlued
  <2>3. \A k \in 1..n : rr[k] = ss[k]
    OBVIOUS
  <2> HIDE DEF rr
  <2>4. f[n] = g[n]
    <3> DEFINE S == {k \in Nat : k + 1 <= n => f[k + 1] = g[k + 1]}
    <3>0. \A k \in 1..(n + 1) : g[k] = IF k = 1 THEN ss[k] ELSE g[k - 1] \o ss[k]
      BY <1>2 DEF Glued
    <3>1. /\ \A k \in 1..n : f[k] = IF k = 1 THEN rr[k] ELSE f[k - 1] \o rr[k]
          /\ \A k \in 1..n : k \in 1..(n + 1)
      <4>1. \A k \in 1..n : f[k] = IF k = 1 THEN rr[k] ELSE f[k - 1] \o rr[k]
        BY <2>2 DEF Glued
      <4> QED
        BY <4>1
    <3>2. 0 \in S
      BY <2>3, <3>0, <3>1
    <3>3. ASSUME NEW k \in Nat, k \in S
          PROVE  k + 1 \in S
      <4>0. k + 1 \in Nat /\ (k + 1) + 1 = k + 2
        OBVIOUS
      <4> SUFFICES ASSUME k + 2 <= n
                   PROVE  f[k + 2] = g[k + 2]
        BY <4>0
      <4>1. k + 2 \in 1..n /\ k + 2 # 1 /\ (k + 2) - 1 = k + 1
        OBVIOUS
      <4>2. f[k + 2] = f[k + 1] \o rr[k + 2] /\ g[k + 2] = g[k + 1] \o ss[k + 2]
        BY <3>0, <3>1, <4>1
      <4>3. f[k + 1] = g[k + 1] /\ rr[k + 2] = ss[k + 2]
        BY <2>3, <3>3, <4>1
      <4> QED
        BY <4>2, <4>3
    <3>4. Nat \subseteq S
      BY <3>2, <3>3, SetInduction
    <3>5. n - 1 \in Nat /\ (n - 1) + 1 = n
      BY <1>5
    <3>6. n - 1 \in S
      BY <3>4, <3>5
    <3> QED
      BY <3>5, <3>6
  <2>5. rr \in Seq(Seq(W)) /\ Len(rr) = n
    BY <2>1
  <2>6. \A s, t \in Seq(W) : s \o t \in Seq(W)
    BY ConcatProperties
  <2>7. FlattenSeq(rr) \in Seq(W)
    BY <1>5, <2>5, <2>6, FlattenSeqIn
  <2>8. g[n + 1] = g[n] \o ss[n + 1]
    <3>1. n + 1 # 1 /\ (n + 1) - 1 = n
      BY <1>5
    <3> QED
      BY <1>3, <3>1
  <2>9. FlattenSeq(ss) = FlattenSeq(rr) \o ss[n + 1]
    BY <1>2, <2>2, <2>4, <2>8
  <2> QED
    BY <2>7, <2>9 DEF rr
<1> QED
  BY <1>4, <1>5

-----------------------------------------------------------------------------
(* The first of a number of sequences, put together                        *)

Joint(ss, k) == FlattenSeq([j \in 1..k |-> ss[j]])

LEMMA JointEmpty ==
  ASSUME NEW ss
  PROVE  Joint(ss, 0) = <<>>
<1>1. [j \in 1..0 |-> ss[j]] \in [1..0 -> {}]
  OBVIOUS
<1> QED
  BY <1>1, FlattenSeqEmpty DEF Joint

LEMMA JointGrows ==
  ASSUME NEW W, NEW n \in Nat, NEW ss \in [1..n -> Seq(W)], NEW k \in Nat, k < n
  PROVE  /\ Joint(ss, k) \in Seq(W) /\ Joint(ss, k + 1) \in Seq(W)
         /\ ss[k + 1] \in Seq(W)
         /\ Joint(ss, k + 1) = Joint(ss, k) \o ss[k + 1]
<1> DEFINE tt == [j \in 1..(k + 1) |-> ss[j]]
           rr == [j \in 1..k |-> ss[j]]
<1>1. tt \in [1..(k + 1) -> Seq(W)]
  OBVIOUS
<1>2. rr = [j \in 1..k |-> tt[j]] /\ tt[k + 1] = ss[k + 1] /\ ss[k + 1] \in Seq(W)
  OBVIOUS
<1>3. Joint(ss, k) = FlattenSeq(rr) /\ Joint(ss, k + 1) = FlattenSeq(tt)
  BY DEF Joint
<1> HIDE DEF tt, rr
<1>4. FlattenSeq(rr) \in Seq(W) /\ FlattenSeq(tt) = FlattenSeq(rr) \o tt[k + 1]
  BY <1>1, <1>2, FlattenSeqGrows
<1>5. FlattenSeq(tt) \in Seq(W)
  BY <1>2, <1>4, ConcatProperties
<1> QED
  BY <1>2, <1>3, <1>4, <1>5

LEMMA JointType ==
  ASSUME NEW W, NEW n \in Nat, NEW ss \in [1..n -> Seq(W)], NEW k \in 0..n
  PROVE  Joint(ss, k) \in Seq(W)
<1>1. CASE k < n
  BY <1>1, JointGrows
<1>2. CASE k = n /\ n # 0
  <2>1. n - 1 \in Nat /\ n - 1 < n /\ (n - 1) + 1 = n
    BY <1>2
  <2>2. Joint(ss, (n - 1) + 1) \in Seq(W)
    BY <2>1, JointGrows
  <2> QED
    BY <1>2, <2>1, <2>2
<1>3. CASE k = 0
  <2>1. Joint(ss, 0) = <<>> /\ <<>> \in Seq(W)
    BY JointEmpty
  <2> QED
    BY <1>3, <2>1
<1> QED
  BY <1>1, <1>2, <1>3

ComesFirst(W, s, t) == \E rest \in Seq(W) : t = s \o rest

\* What the first k make comes first of what all make.
LEMMA JointComesFirst ==
  ASSUME NEW W, NEW n \in Nat, NEW ss \in [1..n -> Seq(W)], NEW k \in 0..n
  PROVE  ComesFirst(W, Joint(ss, k), Joint(ss, n))
<1>0. ASSUME NEW j \in Nat, j < n
      PROVE  ss[j + 1] \in Seq(W) /\ Joint(ss, j + 1) = Joint(ss, j) \o ss[j + 1]
  BY <1>0, JointGrows
<1> DEFINE First(m) == \E rest \in Seq(W) : Joint(ss, k + m) = Joint(ss, k) \o rest
           S == {m \in Nat : k + m <= n => First(m)}
<1>1. Joint(ss, k) \in Seq(W)
  BY JointType
<1>2. 0 \in S
  <2>1. Joint(ss, k) = Joint(ss, k) \o <<>> /\ <<>> \in Seq(W)
    BY <1>1, ConcatEmptySeq
  <2>2. k + 0 = k
    OBVIOUS
  <2> QED
    BY <2>1, <2>2
<1>3. ASSUME NEW m \in Nat, m \in S
      PROVE  m + 1 \in S
  <2> HIDE DEF First
  <2> SUFFICES ASSUME k + (m + 1) <= n
               PROVE  First(m + 1)
    OBVIOUS
  <2>1. k + m \in Nat /\ k + m < n /\ k + m <= n /\ (k + m) + 1 = k + (m + 1)
    OBVIOUS
  <2>0. First(m)
    BY <1>3, <2>1
  <2>2. PICK rest \in Seq(W) : Joint(ss, k + m) = Joint(ss, k) \o rest
    BY <2>0 DEF First
  <2>3. /\ ss[(k + m) + 1] \in Seq(W)
        /\ Joint(ss, (k + m) + 1) = Joint(ss, k + m) \o ss[(k + m) + 1]
    <3>1. k + m \in Nat /\ k + m < n
      BY <2>1
    <3> HIDE DEF S
    <3> QED
      BY <3>1, <1>0
  <2>4. PICK p \in Seq(W), q \in Seq(W) : p = Joint(ss, k) /\ q = ss[(k + m) + 1]
    BY <1>1, <2>3
  <2>5. (p \o rest) \o q = p \o (rest \o q)
    OBVIOUS
  <2>6. rest \o q \in Seq(W)
    OBVIOUS
  <2>7. Joint(ss, k + (m + 1)) = Joint(ss, k) \o (rest \o q)
    BY <2>1, <2>2, <2>3, <2>4, <2>5
  <2> QED
    BY <2>6, <2>7 DEF First
<1>4. Nat \subseteq S
  BY <1>2, <1>3, SetInduction
<1>5. n - k \in Nat /\ k + (n - k) = n /\ n <= n
  OBVIOUS
<1>6. n - k \in S
  BY <1>4, <1>5
<1>7. First(n - k)
  BY <1>5, <1>6
<1> QED
  BY <1>5, <1>7 DEF ComesFirst

LiesAt(p, c, s) == c + Len(p) <= Len(s) /\ \A m \in 1..Len(p) : s[c + m] = p[m]

\* Where the next one is in what all make.
LEMMA JointAt ==
  ASSUME NEW W, NEW n \in Nat, NEW ss \in [1..n -> Seq(W)], NEW k \in Nat, k < n
  PROVE  /\ Len(Joint(ss, k)) \in Nat
         /\ Len(Joint(ss, k + 1)) = Len(Joint(ss, k)) + Len(ss[k + 1])
         /\ LiesAt(ss[k + 1], Len(Joint(ss, k)), Joint(ss, n))
<1>1. k + 1 \in 0..n
  OBVIOUS
<1>2. PICK rest \in Seq(W) : Joint(ss, n) = Joint(ss, k + 1) \o rest
  <2>1. ComesFirst(W, Joint(ss, k + 1), Joint(ss, n))
    BY <1>1, JointComesFirst
  <2> QED
    BY <2>1 DEF ComesFirst
<1>3. PICK p \in Seq(W), q \in Seq(W) : p = Joint(ss, k) /\ q = ss[k + 1]
  BY JointGrows
<1>4. Joint(ss, k + 1) = p \o q
  BY <1>3, JointGrows
<1>5. /\ Len(p \o q) = Len(p) + Len(q)
      /\ Len((p \o q) \o rest) = Len(p) + Len(q) + Len(rest)
      /\ Len(p) \in Nat /\ Len(q) \in Nat /\ Len(rest) \in Nat
  OBVIOUS
<1>6. ASSUME NEW m \in 1..Len(q)
      PROVE  ((p \o q) \o rest)[Len(p) + m] = q[m]
  <2>1. m \in Nat /\ m >= 1 /\ m <= Len(q) /\ Len(p) + m \in 1..(Len(p) + Len(q))
    BY <1>5
  <2>2. (p \o q)[Len(p) + m] = q[m]
    BY <1>5, <2>1
  <2>3. ((p \o q) \o rest)[Len(p) + m] = (p \o q)[Len(p) + m]
    <3> DEFINE d == p \o q
    <3>1. d \in Seq(W) /\ Len(d) = Len(p) + Len(q)
      BY <1>5
    <3> HIDE DEF d
    <3>2. (d \o rest)[Len(p) + m] = d[Len(p) + m]
      BY <2>1, <3>1
    <3> QED
      BY <3>2 DEF d
  <2> QED
    BY <2>2, <2>3
<1>7. LiesAt(q, Len(p), (p \o q) \o rest)
  BY <1>5, <1>6 DEF LiesAt
<1> QED
  BY <1>2, <1>3, <1>4, <1>5, <1>7
================================================================================
