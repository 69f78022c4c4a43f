-------------------------- MODULE DtraceSessionProofs --------------------------
(***************************************************************************)
(* Proofs about DtraceSession, for every number of objects, processes and  *)
(* callbacks, and process commands nested to any depth: what is registered *)
(* or being evaluated stays referenced, references are leaked by nothing   *)
(* but a callback that is replaced and the end of the interpreter, no      *)
(* grabbed process is lost; and all of it implements TraceService.         *)
(***************************************************************************)
EXTENDS DtraceSession, FiniteSetTheorems, SequenceTheorems, TLAPS

Frame == [at : Phases, slot : Slots \cup {NULL}, obj : Objs \cup {NULL}]

\* What a frame evaluates is an object.
EvaluatesObjects ==
  \A k \in DOMAIN stack : stack[k].at = "eval" => stack[k].obj \in Objs

IInv ==
  /\ TypeOK /\ EvaluatesObjects
  /\ CallbacksReferenced /\ LeaksOnlyLost
  /\ VectorHoldsAll /\ HeldAreRemembered

-----------------------------------------------------------------------------
(* Counting                                                                *)

LEMMA SlotsFinite == IsFiniteSet(Slots)
<1> DEFINE a == {} \cup {"probe_desc"}
           b == a \cup {"probe_output"}
           c == b \cup {"drop"}
           d == c \cup {"error"}
           e == d \cup {"proc"}
<1>1. IsFiniteSet(a)
  BY FS_EmptySet, FS_AddElement
<1>2. IsFiniteSet(b)
  BY <1>1, FS_AddElement
<1>3. IsFiniteSet(c)
  BY <1>2, FS_AddElement
<1>4. IsFiniteSet(d)
  BY <1>3, FS_AddElement
<1>5. IsFiniteSet(e)
  BY <1>4, FS_AddElement
<1>6. Slots \in SUBSET e
  BY SessionAssumption
<1> HIDE DEF e
<1> QED BY <1>5, <1>6, FS_Subset

\* The slots an object is stored in, and the frames that evaluate it, are finitely
\* many.
LEMMA StoredFinite ==
  ASSUME NEW o
  PROVE  IsFiniteSet(Stored(o)) /\ Cardinality(Stored(o)) \in Nat
<1>1. Stored(o) \in SUBSET Slots
  BY DEF Stored
<1> QED BY <1>1, SlotsFinite, FS_Subset, FS_CardinalityType

LEMMA EvaluationsFinite ==
  ASSUME NEW o, stack \in Seq(Frame)
  PROVE  IsFiniteSet(Evaluations(o)) /\ Cardinality(Evaluations(o)) \in Nat
<1>1. DOMAIN stack = 1..Len(stack) /\ Len(stack) \in Nat
  BY LenProperties
<1>2. Evaluations(o) \in SUBSET (1..Len(stack))
  BY <1>1 DEF Evaluations
<1>3. IsFiniteSet(1..Len(stack))
  BY <1>1, FS_Interval
<1> QED BY <1>2, <1>3, FS_Subset, FS_CardinalityType

\* The greatest of some numbers up to n.
LEMMA Greatest ==
  ASSUME NEW n \in Nat, NEW T \in SUBSET (1..n), T # {}
  PROVE  \E k \in T : \A m \in T : m <= k
<1> DEFINE U == {d \in Nat : \E k \in T : d = n - k}
           less == {ss \in Nat \X Nat : ss[1] < ss[2]}
<1>0. \A k \in T : k \in 1..n /\ n - k \in Nat
  OBVIOUS
<1>1. U \subseteq Nat /\ U # {}
  <2>1. PICK t \in T : TRUE
    OBVIOUS
  <2>2. n - t \in U
    BY <1>0
  <2> QED BY <2>2
<1>2. IsWellFoundedOn(less, Nat)
  BY NatLessThanWellFounded DEF OpToRel
<1>3. PICK u \in U : \A v \in U : <<v, u>> \notin less
  <2> HIDE DEF U, less
  <2> QED BY <1>1, <1>2, WFMin
<1>4. PICK k \in T : u = n - k
  BY <1>3
<1>5. ASSUME NEW m \in T PROVE m <= k
  <2>1. n - m \in U
    BY <1>0
  <2>2. ~ (n - m < n - k)
    BY <1>0, <1>3, <1>4, <2>1
  <2> QED BY <1>0, <2>2
<1> QED BY <1>5

-----------------------------------------------------------------------------
(* Storing callbacks                                                       *)

LEMMA SpecsAreSeqs ==
  ASSUME NEW specs \in Specs
  PROVE  Len(specs) \in Nat /\ specs \in [1..Len(specs) -> Slots \X Objs]
BY SessionAssumption DEF Specs

\* The last spec for a slot is the one that is stored.
LEMMA LastSpecStored ==
  ASSUME NEW specs \in Specs, NEW n \in 0..Len(specs), NEW s \in Slots
  PROVE  \/ /\ \A k \in 1..n : specs[k][1] # s
            /\ StoredFrom(specs, n)[s] = callbacks[s]
         \/ \E k \in 1..n : /\ specs[k][1] = s /\ StoredFrom(specs, n)[s] = specs[k][2]
                            /\ \A m \in 1..n : specs[m][1] = s => m <= k
<1> DEFINE named == {k \in 1..n : specs[k][1] = s}
           top == CHOOSE k \in named : \A m \in named : m <= k
<1>0. n \in Nat
  BY SpecsAreSeqs
<1>1. CASE named = {}
  BY <1>1 DEF StoredFrom
<1>2. CASE named # {}
  <2>1. \E k \in named : \A m \in named : m <= k
    <3>1. named \in SUBSET (1..n)
      OBVIOUS
    <3> HIDE DEF named
    <3> QED BY <1>0, <1>2, <3>1, Greatest
  <2>2. top \in named /\ \A m \in named : m <= top
    BY <2>1
  <2>3. StoredFrom(specs, n)[s] = specs[top][2]
    BY <1>2 DEF StoredFrom
  <2> QED BY <2>2, <2>3
<1> QED BY <1>1, <1>2

\* Storing n specs puts an object into at most as many new slots as it was named in
\* them, and into exactly that many when it is not stored over.
LEMMA StoringCounts ==
  ASSUME TypeOK, NEW specs \in Specs, NEW n \in 0..Len(specs), NEW o \in Objs,
         callbacks' = StoredFrom(specs, n)
  PROVE  /\ Named(specs, n, o) \in Nat
         /\ Cardinality(Stored(o)') <= Cardinality(Stored(o)) + Named(specs, n, o)
         /\ o \notin Replaced(specs, n) =>
              Cardinality(Stored(o)') = Cardinality(Stored(o)) + Named(specs, n, o)
<1> DEFINE K == {k \in 1..n : specs[k][2] = o}
           f == [k \in K |-> specs[k][1]]
           Img == {specs[k][1] : k \in K}
<1>0. n \in Nat /\ \A k \in 1..n : specs[k] \in Slots \X Objs
  BY SpecsAreSeqs
<1>1. IsFiniteSet(K) /\ Cardinality(K) \in Nat /\ Named(specs, n, o) = Cardinality(K)
  <2>1. IsFiniteSet(1..n)
    BY <1>0, FS_Interval
  <2>2. K \in SUBSET (1..n)
    OBVIOUS
  <2>3. Named(specs, n, o) = Cardinality(K)
    BY DEF Named
  <2> HIDE DEF K
  <2> QED BY <2>1, <2>2, <2>3, FS_Subset, FS_CardinalityType
<1>2. f \in Surjection(K, Img)
  BY DEF Surjection
<1>3. /\ IsFiniteSet(Img) /\ Cardinality(Img) \in Nat /\ Cardinality(Img) <= Cardinality(K)
      /\ f \in Injection(K, Img) => Cardinality(Img) = Cardinality(K)
  <2> HIDE DEF K, f, Img
  <2> QED BY <1>1, <1>2, FS_Surjection, FS_CardinalityType
<1>4. IsFiniteSet(Stored(o)) /\ Cardinality(Stored(o)) \in Nat
  BY StoredFinite
<1>5. /\ IsFiniteSet(Stored(o) \cup Img)
      /\ Cardinality(Stored(o) \cup Img) \in Nat
      /\ Cardinality(Stored(o) \cup Img) <= Cardinality(Stored(o)) + Cardinality(Img)
      /\ Stored(o) \cap Img = {} =>
           Cardinality(Stored(o) \cup Img) = Cardinality(Stored(o)) + Cardinality(Img)
  <2> HIDE DEF Img
  <2>1. /\ IsFiniteSet(Stored(o) \cup Img)
        /\ Cardinality(Stored(o) \cup Img) =
             Cardinality(Stored(o)) + Cardinality(Img) - Cardinality(Stored(o) \cap Img)
    BY <1>3, <1>4, FS_Union
  <2>2. Cardinality(Stored(o) \cap Img) \in Nat
    BY <1>4, FS_Intersection, FS_CardinalityType
  <2>3. Cardinality(Stored(o) \cup Img) \in Nat
    BY <2>1, FS_CardinalityType
  <2>4. Stored(o) \cap Img = {} => Cardinality(Stored(o) \cap Img) = 0
    BY FS_EmptySet
  <2> QED BY <1>3, <1>4, <2>1, <2>2, <2>3, <2>4
<1>6. Stored(o)' \in SUBSET (Stored(o) \cup Img)
  <2>1. ASSUME NEW s \in Slots, callbacks'[s] = o PROVE s \in Stored(o) \cup Img
    BY <2>1, LastSpecStored DEF Stored
  <2> QED BY <2>1 DEF Stored
<1>7. Cardinality(Stored(o)') \in Nat /\ Cardinality(Stored(o)') <= Cardinality(Stored(o) \cup Img)
  <2> HIDE DEF Img
  <2> QED BY <1>5, <1>6, FS_Subset, FS_CardinalityType
<1>8. ASSUME o \notin Replaced(specs, n)
      PROVE  Cardinality(Stored(o)') = Cardinality(Stored(o)) + Named(specs, n, o)
  <2>1. \A k \in 1..n : callbacks[specs[k][1]] # o
    BY <1>8 DEF Replaced
  <2>p. ASSUME NEW j \in 1..n, NEW k \in 1..n, specs[j][2] = o, specs[j][1] = specs[k][1], j < k
        PROVE FALSE
    <3>1. specs[j] = <<specs[k][1], o>>
      BY <1>0, <2>p
    <3>2. j \in 1..(k - 1)
      BY <1>0, <2>p
    <3> QED BY <1>8, <3>1, <3>2 DEF Replaced
  <2>2. \A j \in 1..n, k \in 1..n : specs[j][2] = o /\ specs[j][1] = specs[k][1] => k <= j
    BY <1>0, <2>p
  <2>3. f \in Injection(K, Img)
    <3>1. \A j, k \in K : specs[j][1] = specs[k][1] => j = k
      BY <1>0, <2>2
    <3> QED BY <3>1 DEF Injection, IsInjective
  <2>4. Stored(o) \cap Img = {}
    BY <2>1 DEF Stored
  <2>5. Stored(o) \cup Img \subseteq Stored(o)'
    <3>1. ASSUME NEW s \in Stored(o) PROVE s \in Stored(o)'
      <4>1. s \in Slots /\ callbacks[s] = o /\ \A k \in 1..n : specs[k][1] # s
        BY <2>1 DEF Stored
      <4>2. StoredFrom(specs, n)[s] = callbacks[s]
        BY <4>1, LastSpecStored
      <4> QED BY <4>1, <4>2 DEF Stored
    <3>2. ASSUME NEW k \in K PROVE specs[k][1] \in Stored(o)'
      <4>1. k \in 1..n /\ specs[k][1] \in Slots /\ specs[k][2] = o
        BY <1>0
      <4>2. StoredFrom(specs, n)[specs[k][1]] = o
        <5>1. PICK j \in 1..n : /\ specs[j][1] = specs[k][1]
                                /\ StoredFrom(specs, n)[specs[k][1]] = specs[j][2]
                                /\ \A m \in 1..n : specs[m][1] = specs[k][1] => m <= j
          BY <4>1, LastSpecStored
        <5>2. j = k
          BY <1>0, <2>2, <4>1, <5>1
        <5> QED BY <4>1, <5>1, <5>2
      <4> QED BY <4>1, <4>2 DEF Stored
    <3> QED BY <3>1, <3>2
  <2>6. Stored(o)' = Stored(o) \cup Img
    BY <1>6, <2>5
  <2> HIDE DEF K, f, Img
  <2> QED BY <1>1, <1>3, <1>5, <2>3, <2>4, <2>6
<1> QED BY <1>1, <1>3, <1>4, <1>5, <1>7, <1>8

-----------------------------------------------------------------------------
(* The stack                                                               *)

\* What a change of the innermost frame does to the evaluations of an object.
LEMMA TopChanges ==
  ASSUME stack \in Seq(Frame), stack # <<>>, NEW f \in Frame, SetTop(f), NEW o
  PROVE  /\ stack' \in Seq(Frame) /\ DOMAIN stack' = DOMAIN stack
         /\ \A k \in DOMAIN stack : stack'[k] = IF k = Depth THEN f ELSE stack[k]
         /\ Evaluations(o)' = IF f.at = "eval" /\ f.obj = o
                              THEN Evaluations(o) \cup {Depth} ELSE Evaluations(o) \ {Depth}
<1>1. DOMAIN stack = 1..Len(stack) /\ Len(stack) \in Nat /\ Depth \in 1..Len(stack)
  BY LenProperties, EmptySeq DEF Depth
<1>2. /\ stack' \in Seq(Frame) /\ Len(stack') = Len(stack)
      /\ \A k \in 1..Len(stack) : stack'[k] = IF k = Depth THEN f ELSE stack[k]
  BY <1>1, ExceptSeq DEF SetTop
<1>3. DOMAIN stack' = DOMAIN stack
  BY <1>1, <1>2, LenProperties
<1>4. Evaluations(o)' = {k \in DOMAIN stack : stack'[k].at = "eval" /\ stack'[k].obj = o}
  BY <1>3 DEF Evaluations
<1> QED BY <1>1, <1>2, <1>3, <1>4 DEF Evaluations

\* The same when it goes.
LEMMA TopGoes ==
  ASSUME stack \in Seq(Frame), stack # <<>>, Pop, NEW o
  PROVE  /\ stack' \in Seq(Frame) /\ DOMAIN stack' = DOMAIN stack \ {Depth}
         /\ \A k \in DOMAIN stack' : stack'[k] = stack[k]
         /\ Evaluations(o)' = Evaluations(o) \ {Depth}
<1>1. DOMAIN stack = 1..Len(stack) /\ Len(stack) \in Nat /\ Len(stack) > 0
  BY LenProperties, EmptySeq
<1>2. \A k \in 1..(Len(stack) - 1) : stack[k] \in Frame
  BY <1>1, ElementOfSeq
<1>3. /\ stack' \in Seq(Frame) /\ Len(stack') = Len(stack) - 1
      /\ \A k \in 1..(Len(stack) - 1) : stack'[k] = stack[k]
  BY <1>1, <1>2, SubSeqProperties DEF Pop, Depth
<1>4. DOMAIN stack' = 1..(Len(stack) - 1)
  BY <1>3, LenProperties
<1>5. DOMAIN stack' = DOMAIN stack \ {Depth}
  BY <1>1, <1>4 DEF Depth
<1>6. Evaluations(o)' = {k \in DOMAIN stack \ {Depth} : stack'[k].at = "eval" /\ stack'[k].obj = o}
  BY <1>5 DEF Evaluations
<1> QED BY <1>3, <1>4, <1>5, <1>6 DEF Evaluations

\* The same when a frame comes that evaluates nothing.
LEMMA FrameComes ==
  ASSUME stack \in Seq(Frame), NEW f \in Frame, f.at # "eval", stack' = Append(stack, f), NEW o
  PROVE  /\ stack' \in Seq(Frame)
         /\ \A k \in DOMAIN stack' : stack'[k] = f \/ (k \in DOMAIN stack /\ stack'[k] = stack[k])
         /\ Evaluations(o)' = Evaluations(o)
<1>1. DOMAIN stack = 1..Len(stack) /\ Len(stack) \in Nat
  BY LenProperties
<1>2. /\ stack' \in Seq(Frame) /\ Len(stack') = Len(stack) + 1
      /\ \A k \in 1..Len(stack) : stack'[k] = stack[k]
      /\ stack'[Len(stack) + 1] = f
  BY AppendProperties
<1>3. DOMAIN stack' = 1..(Len(stack) + 1)
  BY <1>2, LenProperties
<1>4. \A k \in DOMAIN stack' : stack'[k] = f \/ (k \in DOMAIN stack /\ stack'[k] = stack[k])
  BY <1>1, <1>2, <1>3
<1>5. \A k \in DOMAIN stack : k \in DOMAIN stack' /\ stack'[k] = stack[k]
  BY <1>1, <1>2, <1>3
<1> QED BY <1>2, <1>4, <1>5 DEF Evaluations

-----------------------------------------------------------------------------
(* The steps                                                               *)

\* The numbers that the two properties about references compare.
LEMMA Counts ==
  ASSUME IInv
  PROVE  /\ stack \in Seq(Frame)
         /\ \A o \in Objs :
              /\ refs[o] \in Nat
              /\ IsFiniteSet(Stored(o)) /\ Cardinality(Stored(o)) \in Nat
              /\ IsFiniteSet(Evaluations(o)) /\ Cardinality(Evaluations(o)) \in Nat
              /\ refs[o] >= Cardinality(Stored(o)) + Cardinality(Evaluations(o))
              /\ o \notin lost => refs[o] = Cardinality(Stored(o)) + Cardinality(Evaluations(o))
<1>1. stack \in Seq(Frame)
  BY DEF IInv, TypeOK, Frame
<1>2. \A o \in Objs : refs[o] \in Nat
  BY DEF IInv, TypeOK
<1> QED
  BY <1>1, <1>2, StoredFinite, EvaluationsFinite
  DEF IInv, CallbacksReferenced, LeaksOnlyLost

LEMMA CountsKept ==
  ASSUME IInv, UNCHANGED <<callbacks, refs, lost>>,
         \A o \in Objs : Evaluations(o)' = Evaluations(o)
  PROVE  CallbacksReferenced' /\ LeaksOnlyLost'
<1>1. \A o : Stored(o)' = Stored(o)
  BY DEF Stored
<1> QED BY <1>1 DEF IInv, CallbacksReferenced, LeaksOnlyLost

LEMMA VectorKept ==
  ASSUME IInv, UNCHANGED <<hd, processes, proc_capacity, target>>
  PROVE  VectorHoldsAll' /\ HeldAreRemembered'
BY DEF IInv, VectorHoldsAll, HeldAreRemembered

\* A vector that was full has room for one more.
LEMMA GrownHasRoom ==
  ASSUME NEW capacity \in Nat, NEW count \in Nat, count <= capacity
  PROVE  Grown(capacity, count) \in Nat /\ count + 1 <= Grown(capacity, count)
<1>1. CASE count = capacity
  BY <1>1 DEF Grown
<1>2. CASE count < capacity
  BY <1>2 DEF Grown
<1> QED BY <1>1, <1>2

LEMMA OpenKeeps == ASSUME IInv, Open PROVE IInv'
<1>1. UNCHANGED <<callbacks, refs, lost, processes, proc_capacity, target, stack>>
      /\ hd' = "live" /\ lib' = "ready"
  BY DEF Open
<1>2. TypeOK' /\ EvaluatesObjects'
  BY <1>1 DEF IInv, TypeOK, EvaluatesObjects
<1>3. \A o \in Objs : Evaluations(o)' = Evaluations(o)
  BY <1>1 DEF Evaluations
<1>4. VectorHoldsAll' /\ HeldAreRemembered'
  BY <1>1 DEF IInv, VectorHoldsAll, HeldAreRemembered
<1> QED BY <1>1, <1>2, <1>3, <1>4, CountsKept DEF IInv

\* The references that go takes, also when it is refused half way.
LEMMA RegisterKeeps ==
  ASSUME IInv, NEW specs \in Specs, NEW n \in 0..Len(specs), Register(specs, n), UNCHANGED stack
  PROVE  /\ callbacks' \in [Slots -> Objs \cup {NULL}]
         /\ refs' \in [Objs -> Nat] /\ lost' \subseteq Objs
         /\ CallbacksReferenced' /\ LeaksOnlyLost'
<1>1. /\ callbacks' = StoredFrom(specs, n)
      /\ refs' = [o \in Objs |-> refs[o] + Named(specs, n, o)]
      /\ lost' = lost \cup Replaced(specs, n)
  BY DEF Register
<1>2. \A o \in Objs :
        /\ Named(specs, n, o) \in Nat
        /\ Cardinality(Stored(o)') <= Cardinality(Stored(o)) + Named(specs, n, o)
        /\ o \notin Replaced(specs, n) =>
             Cardinality(Stored(o)') = Cardinality(Stored(o)) + Named(specs, n, o)
  BY <1>1, StoringCounts DEF IInv
<1>3. \A o : Evaluations(o)' = Evaluations(o)
  BY DEF Evaluations
<1>4. \A o \in Objs : Cardinality(Stored(o)') \in Nat
  <2> SUFFICES ASSUME NEW o \in Objs PROVE Cardinality(Stored(o)') \in Nat
    OBVIOUS
  <2>1. Stored(o)' \in SUBSET Slots
    BY DEF Stored
  <2> QED BY <2>1, SlotsFinite, FS_Subset, FS_CardinalityType
<1>5. \A s \in Slots : StoredFrom(specs, n)[s] \in Objs \cup {NULL}
  <2> SUFFICES ASSUME NEW s \in Slots PROVE StoredFrom(specs, n)[s] \in Objs \cup {NULL}
    OBVIOUS
  <2>1. callbacks[s] \in Objs \cup {NULL} /\ n \in Nat
    BY SpecsAreSeqs DEF IInv, TypeOK
  <2>2. \A k \in 1..n : specs[k][2] \in Objs
    BY <2>1, SpecsAreSeqs
  <2> QED BY <2>1, <2>2, LastSpecStored
<1>6. callbacks' \in [Slots -> Objs \cup {NULL}]
  BY <1>1, <1>5 DEF StoredFrom
<1>7. lost' \subseteq Objs
  BY <1>1 DEF IInv, TypeOK, Replaced
<1>8. \A o \in Objs : o \notin lost' => o \notin lost /\ o \notin Replaced(specs, n)
  BY <1>1
<1>9. \A o \in Objs : refs'[o] = refs[o] + Named(specs, n, o)
  BY <1>1
<1>10. refs' \in [Objs -> Nat]
  BY <1>1, <1>2, Counts
<1>11. CallbacksReferenced'
  <2>1. \A o \in Objs : refs'[o] >= Cardinality(Stored(o)') + Cardinality(Evaluations(o)')
    BY <1>2, <1>3, <1>4, <1>9, Counts
  <2> QED BY <2>1 DEF CallbacksReferenced
<1>12. LeaksOnlyLost'
  <2>1. \A o \in Objs : o \notin lost' =>
          refs'[o] = Cardinality(Stored(o)') + Cardinality(Evaluations(o)')
    BY <1>2, <1>3, <1>4, <1>8, <1>9, Counts
  <2> QED BY <2>1 DEF LeaksOnlyLost
<1> QED BY <1>6, <1>7, <1>10, <1>11, <1>12

LEMMA GoKeeps == ASSUME IInv, Go PROVE IInv' /\ \A p \in Pids : target'[p] # "held"
<1>1. PICK specs \in Specs : Register(specs, Len(specs)) /\ lib' = "active" /\ Continue(processes)
  BY DEF Go
<1>2. UNCHANGED <<hd, processes, proc_capacity, stack>>
  BY DEF Go
<1>3. Len(specs) \in 0..Len(specs)
  BY SpecsAreSeqs
<1>4. /\ target' \in [Pids -> {"free", "held", "continued"}]
      /\ \A p \in Pids : target'[p] # "held"
  BY <1>1 DEF Continue, IInv, TypeOK, HeldAreRemembered
<1>5. /\ callbacks' \in [Slots -> Objs \cup {NULL}]
      /\ refs' \in [Objs -> Nat] /\ lost' \subseteq Objs
      /\ CallbacksReferenced' /\ LeaksOnlyLost'
  BY <1>1, <1>2, <1>3, RegisterKeeps
<1>6. TypeOK' /\ EvaluatesObjects'
  BY <1>1, <1>2, <1>4, <1>5 DEF IInv, TypeOK, EvaluatesObjects
<1>7. VectorHoldsAll' /\ HeldAreRemembered'
  BY <1>2, <1>4 DEF IInv, VectorHoldsAll, HeldAreRemembered
<1> QED BY <1>4, <1>5, <1>6, <1>7 DEF IInv

LEMMA GoFailsKeeps == ASSUME IInv, GoFails PROVE IInv'
<1>1. PICK specs \in Specs : \E n \in 0..Len(specs) : Register(specs, n)
  BY DEF GoFails
<1>2. UNCHANGED <<hd, lib, processes, proc_capacity, target, stack>>
  BY DEF GoFails
<1>3. /\ callbacks' \in [Slots -> Objs \cup {NULL}]
      /\ refs' \in [Objs -> Nat] /\ lost' \subseteq Objs
      /\ CallbacksReferenced' /\ LeaksOnlyLost'
  BY <1>1, <1>2, RegisterKeeps
<1>4. TypeOK' /\ EvaluatesObjects'
  BY <1>2, <1>3 DEF IInv, TypeOK, EvaluatesObjects
<1> QED BY <1>2, <1>3, <1>4, VectorKept DEF IInv

LEMMA StopKeeps == ASSUME IInv, Stop PROVE IInv'
<1>1. UNCHANGED <<hd, callbacks, refs, lost, processes, proc_capacity, target, stack>>
      /\ lib' = "stopped"
  BY DEF Stop
<1>2. TypeOK' /\ EvaluatesObjects'
  BY <1>1 DEF IInv, TypeOK, EvaluatesObjects
<1>3. \A o \in Objs : Evaluations(o)' = Evaluations(o)
  BY <1>1 DEF Evaluations
<1> QED BY <1>1, <1>2, <1>3, CountsKept, VectorKept DEF IInv

\* There is room for the process, and the vector remembers it.
LEMMA GrabKeeps == ASSUME IInv, Grab PROVE IInv'
<1>1. PICK p \in Pids : /\ target' = [target EXCEPT ![p] = "held"]
                        /\ processes' = Append(processes, p)
  BY DEF Grab
<1>2. /\ hd = "live" /\ proc_capacity' = Grown(proc_capacity, Len(processes))
      /\ UNCHANGED <<hd, lib, callbacks, refs, lost, stack>>
  BY DEF Grab, Usable
<1>3. /\ processes \in Seq(Pids) /\ Len(processes) \in Nat /\ DOMAIN processes = 1..Len(processes)
      /\ proc_capacity \in Nat /\ Len(processes) <= proc_capacity
  BY LenProperties DEF IInv, TypeOK, VectorHoldsAll
<1>4. /\ processes' \in Seq(Pids) /\ Len(processes') = Len(processes) + 1
      /\ \A k \in 1..Len(processes) : processes'[k] = processes[k]
      /\ processes'[Len(processes) + 1] = p
  BY <1>1, <1>3, AppendProperties
<1>5. DOMAIN processes' = 1..(Len(processes) + 1)
  BY <1>4, LenProperties
<1>6. proc_capacity' \in Nat /\ Len(processes') <= proc_capacity'
  <2>1. Len(processes) + 1 <= Grown(proc_capacity, Len(processes))
        /\ Grown(proc_capacity, Len(processes)) \in Nat
    BY <1>3, GrownHasRoom
  <2> QED BY <1>2, <1>4, <2>1
<1>7. target' \in [Pids -> {"free", "held", "continued"}]
      /\ \A q \in Pids : q # p => target'[q] = target[q]
  BY <1>1 DEF IInv, TypeOK
<1>8. HeldAreRemembered'
  <2> SUFFICES ASSUME NEW q \in Pids, target'[q] = "held"
               PROVE  hd' = "live" /\ \E k \in DOMAIN processes' : processes'[k] = q
    BY DEF HeldAreRemembered
  <2>1. CASE q = p
    BY <1>2, <1>3, <1>4, <1>5, <2>1
  <2>2. CASE q # p
    <3>1. PICK k \in DOMAIN processes : processes[k] = q
      BY <1>7, <2>2 DEF IInv, HeldAreRemembered
    <3> QED BY <1>2, <1>3, <1>4, <1>5, <3>1
  <2> QED BY <2>1, <2>2
<1>9. TypeOK' /\ EvaluatesObjects' /\ VectorHoldsAll'
  BY <1>2, <1>4, <1>6, <1>7 DEF IInv, TypeOK, EvaluatesObjects, VectorHoldsAll
<1>10. \A o \in Objs : Evaluations(o)' = Evaluations(o)
  BY <1>2 DEF Evaluations
<1> QED BY <1>2, <1>8, <1>9, <1>10, CountsKept DEF IInv

\* Close releases what is stored, and nothing that is being evaluated.
LEMMA CloseKeeps == ASSUME IInv, Close PROVE IInv'
<1>1. /\ hd' = "freed" /\ lib' = "closed"
      /\ refs' = [o \in Objs |-> refs[o] - Cardinality(Stored(o))]
      /\ callbacks' = [s \in Slots |-> NULL]
      /\ target' = [p \in Pids |-> IF target[p] = "held" THEN "continued" ELSE target[p]]
      /\ processes' = <<>> /\ proc_capacity' = 0
      /\ UNCHANGED <<lost, stack>>
  BY DEF Close
<1>2. \A o \in Objs : Stored(o)' = {} /\ Evaluations(o)' = Evaluations(o)
  BY <1>1, SessionAssumption DEF Stored, Evaluations
<1>3. Cardinality({}) = 0
  BY FS_EmptySet
<1>4. \A o \in Objs : refs'[o] \in Nat /\ refs'[o] = refs[o] - Cardinality(Stored(o))
  BY <1>1, Counts
<1>c. \A o \in Objs : /\ Cardinality(Stored(o)') = 0
                      /\ Cardinality(Evaluations(o)') = Cardinality(Evaluations(o))
  BY <1>2, <1>3
<1>n. \A o \in Objs : /\ Cardinality(Evaluations(o)) \in Nat /\ Cardinality(Stored(o)) \in Nat
                      /\ refs[o] \in Nat
                      /\ refs[o] >= Cardinality(Stored(o)) + Cardinality(Evaluations(o))
  BY Counts
<1>5. CallbacksReferenced'
  <2>1. \A o \in Objs : refs'[o] >= Cardinality(Stored(o)') + Cardinality(Evaluations(o)')
    BY <1>c, <1>n, <1>4
  <2> QED BY <2>1 DEF CallbacksReferenced
<1>6. LeaksOnlyLost'
  <2>1. \A o \in Objs : o \notin lost' =>
          refs'[o] = Cardinality(Stored(o)') + Cardinality(Evaluations(o)')
    BY <1>1, <1>c, <1>n, <1>4, Counts
  <2> QED BY <2>1 DEF LeaksOnlyLost
<1>7. /\ target' \in [Pids -> {"free", "held", "continued"}]
      /\ \A p \in Pids : target'[p] # "held"
  BY <1>1 DEF IInv, TypeOK
<1>8. VectorHoldsAll' /\ HeldAreRemembered'
  <2>1. Len(processes') = 0
    BY <1>1, EmptySeq
  <2> QED BY <1>1, <1>7, <2>1 DEF VectorHoldsAll, HeldAreRemembered
<1>9. TypeOK' /\ EvaluatesObjects'
  <2>1. processes' \in Seq(Pids)
    BY <1>1, EmptySeq
  <2> QED BY <1>1, <1>4, <1>7, <2>1 DEF IInv, TypeOK, EvaluatesObjects
<1> QED BY <1>5, <1>6, <1>8, <1>9 DEF IInv

\* Dtrace_DeInit leaves behind the references on what it frees, and the stack is
\* gone.
LEMMA DeInitKeeps == ASSUME IInv, DeInit PROVE IInv'
<1>1. /\ hd' = "freed" /\ lib' = "closed"
      /\ lost' = lost \cup {o \in Objs : Stored(o) # {} \/ Evaluations(o) # {}}
      /\ callbacks' = [s \in Slots |-> NULL]
      /\ target' = [p \in Pids |-> IF target[p] = "held" THEN "continued" ELSE target[p]]
      /\ processes' = <<>> /\ proc_capacity' = 0 /\ stack' = <<>> /\ UNCHANGED refs
  BY DEF DeInit
<1>2. \A o \in Objs : Stored(o)' = {} /\ Evaluations(o)' = {}
  BY <1>1, SessionAssumption DEF Stored, Evaluations
<1>3. \A o \in Objs : Cardinality(Stored(o)') = 0 /\ Cardinality(Evaluations(o)') = 0
  BY <1>2, FS_EmptySet
<1>4. \A o \in Objs : refs'[o] = refs[o] /\ refs[o] \in Nat
  BY <1>1, Counts
<1>5. CallbacksReferenced'
  <2>1. \A o \in Objs : refs'[o] >= Cardinality(Stored(o)') + Cardinality(Evaluations(o)')
    BY <1>3, <1>4
  <2> QED BY <2>1 DEF CallbacksReferenced
<1>6. LeaksOnlyLost'
  <2>1. ASSUME NEW o \in Objs, o \notin lost'
        PROVE  refs'[o] = Cardinality(Stored(o)') + Cardinality(Evaluations(o)')
    <3>1. o \notin lost /\ Stored(o) = {} /\ Evaluations(o) = {}
      BY <1>1, <2>1
    <3>2. Cardinality(Stored(o)) = 0 /\ Cardinality(Evaluations(o)) = 0
      BY <3>1, FS_EmptySet
    <3>r. refs[o] = Cardinality(Stored(o)) + Cardinality(Evaluations(o))
      BY <3>1, Counts
    <3>3. refs[o] = 0
      BY <3>2, <3>r
    <3> QED BY <1>3, <1>4, <3>3
  <2> QED BY <2>1 DEF LeaksOnlyLost
<1>7. /\ target' \in [Pids -> {"free", "held", "continued"}]
      /\ \A p \in Pids : target'[p] # "held"
  BY <1>1 DEF IInv, TypeOK
<1>8. VectorHoldsAll' /\ HeldAreRemembered'
  <2>1. Len(processes') = 0
    BY <1>1, EmptySeq
  <2> QED BY <1>1, <1>7, <2>1 DEF VectorHoldsAll, HeldAreRemembered
<1>9. TypeOK' /\ EvaluatesObjects'
  <2>1. processes' \in Seq(Pids) /\ stack' \in Seq(Frame)
    BY <1>1, EmptySeq
  <2>2. lost' \subseteq Objs
    BY <1>1 DEF IInv, TypeOK
  <2> QED BY <1>1, <1>7, <2>1, <2>2 DEF IInv, TypeOK, EvaluatesObjects, Frame
<1> QED BY <1>5, <1>6, <1>8, <1>9 DEF IInv

LEMMA ProcessBeginKeeps == ASSUME IInv, ProcessBegin PROVE IInv'
<1>1. PICK phase \in {"sleep", "work"} :
        stack' = Append(stack, [at |-> phase, slot |-> NULL, obj |-> NULL])
  BY DEF ProcessBegin
<1>2. UNCHANGED <<hd, lib, callbacks, refs, lost, processes, proc_capacity, target>>
  BY DEF ProcessBegin
<1> DEFINE f == [at |-> phase, slot |-> NULL, obj |-> NULL]
<1>3. f \in Frame /\ f.at # "eval"
  BY DEF Frame, Phases
<1>4. /\ stack' \in Seq(Frame)
      /\ \A k \in DOMAIN stack' : stack'[k] = f \/ (k \in DOMAIN stack /\ stack'[k] = stack[k])
      /\ \A o \in Objs : Evaluations(o)' = Evaluations(o)
  <2> HIDE DEF f
  <2>1. stack' = Append(stack, f)
    BY <1>1 DEF f
  <2>2. ASSUME NEW o
        PROVE /\ stack' \in Seq(Frame)
              /\ \A k \in DOMAIN stack' : stack'[k] = f \/ (k \in DOMAIN stack /\ stack'[k] = stack[k])
              /\ Evaluations(o)' = Evaluations(o)
    BY <1>3, <2>1, Counts, FrameComes
  <2> QED BY <2>2
<1>5. TypeOK' /\ EvaluatesObjects'
  BY <1>2, <1>3, <1>4 DEF IInv, TypeOK, EvaluatesObjects, Frame
<1> QED BY <1>2, <1>4, <1>5, CountsKept, VectorKept DEF IInv

\* A frame on top of the stack that evaluates nothing leaves the counts alone, and
\* so does what takes its place, or its going.
LEMMA TopEvaluates ==
  ASSUME IInv, stack # <<>>
  PROVE  /\ Depth \in DOMAIN stack /\ Top \in Frame
         /\ \A o : Depth \in Evaluations(o) <=> Top.at = "eval" /\ Top.obj = o
         /\ Top.at = "eval" => Top.obj \in Objs
<1>1. stack \in Seq(Frame)
  BY Counts
<1>2. Depth \in 1..Len(stack) /\ DOMAIN stack = 1..Len(stack)
  BY <1>1, LenProperties, EmptySeq DEF Depth
<1>3. Top \in Frame
  BY <1>1, <1>2, ElementOfSeq DEF Top
<1> QED BY <1>2, <1>3 DEF Evaluations, Top, IInv, EvaluatesObjects

LEMMA DeliverKeeps == ASSUME IInv, Deliver PROVE IInv'
<1>1. PICK s \in Slots :
        /\ callbacks[s] # NULL
        /\ refs' = [refs EXCEPT ![callbacks[s]] = @ + 1]
        /\ SetTop([at |-> "eval", slot |-> s, obj |-> callbacks[s]])
  BY DEF Deliver
<1>2. /\ UNCHANGED <<hd, lib, callbacks, lost, processes, proc_capacity, target>>
      /\ stack # <<>> /\ Top.at \in {"sleep", "work"}
  BY DEF Deliver
<1> DEFINE c == callbacks[s]
           f == [at |-> "eval", slot |-> s, obj |-> c]
<1>3. c \in Objs /\ f \in Frame /\ f.at = "eval" /\ f.obj = c
  BY <1>1 DEF IInv, TypeOK, Frame, Phases
<1>4. SetTop(f) /\ stack \in Seq(Frame)
  BY <1>1, Counts
<1> HIDE DEF f, c
<1>5. /\ stack' \in Seq(Frame) /\ DOMAIN stack' = DOMAIN stack
      /\ \A k \in DOMAIN stack : stack'[k] = IF k = Depth THEN f ELSE stack[k]
  BY <1>2, <1>3, <1>4, TopChanges
<1>6. \A o : Evaluations(o)' = IF c = o THEN Evaluations(o) \cup {Depth}
                                     ELSE Evaluations(o) \ {Depth}
  BY <1>2, <1>3, <1>4, TopChanges
<1>7. \A o : Depth \notin Evaluations(o)
  BY <1>2, TopEvaluates
<1>8. \A o \in Objs : Cardinality(Evaluations(o)') =
        IF o = c THEN Cardinality(Evaluations(o)) + 1 ELSE Cardinality(Evaluations(o))
  <2> SUFFICES ASSUME NEW o \in Objs PROVE Cardinality(Evaluations(o)') =
        IF o = c THEN Cardinality(Evaluations(o)) + 1 ELSE Cardinality(Evaluations(o))
    OBVIOUS
  <2>1. IsFiniteSet(Evaluations(o))
    BY Counts
  <2>2. CASE o = c
    BY <1>6, <1>7, <2>1, <2>2, FS_AddElement
  <2>3. CASE o # c
    <3>1. Evaluations(o)' = Evaluations(o)
      BY <1>6, <1>7, <2>3
    <3> QED BY <2>3, <3>1
  <2> QED BY <2>2, <2>3
<1>9. /\ refs' \in [Objs -> Nat]
      /\ \A o \in Objs : refs'[o] = IF o = c THEN refs[o] + 1 ELSE refs[o]
  BY <1>1, <1>3 DEF IInv, TypeOK, c
<1>10. \A o \in Objs : Cardinality(Stored(o)') = Cardinality(Stored(o))
  BY <1>2 DEF Stored
<1>n. \A o \in Objs : /\ Cardinality(Evaluations(o)) \in Nat /\ Cardinality(Stored(o)) \in Nat
                      /\ refs[o] \in Nat
                      /\ refs[o] >= Cardinality(Stored(o)) + Cardinality(Evaluations(o))
  BY Counts
<1>11. CallbacksReferenced'
  <2>1. \A o \in Objs : refs'[o] >= Cardinality(Stored(o)') + Cardinality(Evaluations(o)')
    BY <1>n, <1>8, <1>9, <1>10
  <2> QED BY <2>1 DEF CallbacksReferenced
<1>12. LeaksOnlyLost'
  <2>1. \A o \in Objs : o \notin lost' =>
          refs'[o] = Cardinality(Stored(o)') + Cardinality(Evaluations(o)')
    BY <1>2, <1>n, <1>8, <1>9, <1>10, Counts
  <2> QED BY <2>1 DEF LeaksOnlyLost
<1>13. EvaluatesObjects'
  BY <1>3, <1>5 DEF IInv, EvaluatesObjects
<1>14. TypeOK'
  BY <1>2, <1>5, <1>9 DEF IInv, TypeOK, Frame
<1> QED BY <1>2, <1>11, <1>12, <1>13, <1>14, VectorKept DEF IInv

\* The evaluation on top of the stack ends, and with it the reference it held.
LEMMA EvaluationEnds ==
  ASSUME IInv, stack # <<>>, Top.at = "eval",
         refs' = [refs EXCEPT ![Top.obj] = @ - 1], UNCHANGED <<callbacks, lost>>,
         \A o : Evaluations(o)' = Evaluations(o) \ {Depth}
  PROVE  refs' \in [Objs -> Nat] /\ CallbacksReferenced' /\ LeaksOnlyLost'
<1> DEFINE c == Top.obj
<1>1. c \in Objs /\ \A o : Depth \in Evaluations(o) <=> c = o
  BY TopEvaluates
<1> HIDE DEF c
<1>2. \A o \in Objs :
        /\ Cardinality(Evaluations(o)') =
             IF o = c THEN Cardinality(Evaluations(o)) - 1 ELSE Cardinality(Evaluations(o))
        /\ Cardinality(Evaluations(o)') \in Nat
  <2> SUFFICES ASSUME NEW o \in Objs
               PROVE  /\ Cardinality(Evaluations(o)') =
                           IF o = c THEN Cardinality(Evaluations(o)) - 1 ELSE Cardinality(Evaluations(o))
                      /\ Cardinality(Evaluations(o)') \in Nat
    OBVIOUS
  <2>1. IsFiniteSet(Evaluations(o))
    BY Counts
  <2> QED BY <1>1, <2>1, FS_RemoveElement, FS_CardinalityType
<1>3. \A o \in Objs : refs'[o] = IF o = c THEN refs[o] - 1 ELSE refs[o]
  BY <1>1 DEF IInv, TypeOK, c
<1>4. \A o \in Objs : Cardinality(Stored(o)') = Cardinality(Stored(o))
  BY DEF Stored
<1>n. \A o \in Objs : /\ Cardinality(Evaluations(o)) \in Nat /\ Cardinality(Stored(o)) \in Nat
                      /\ refs[o] \in Nat
                      /\ refs[o] >= Cardinality(Stored(o)) + Cardinality(Evaluations(o))
  BY Counts
<1>5. \A o \in Objs : refs'[o] >= Cardinality(Stored(o)') + Cardinality(Evaluations(o)')
  BY <1>n, <1>2, <1>3, <1>4
<1>6. refs' \in [Objs -> Nat]
  <2>1. \A o \in Objs : refs'[o] \in Nat
    BY <1>n, <1>2, <1>3, <1>4, <1>5
  <2> QED BY <2>1 DEF IInv, TypeOK
<1>7. LeaksOnlyLost'
  <2>1. \A o \in Objs : o \notin lost' =>
          refs'[o] = Cardinality(Stored(o)') + Cardinality(Evaluations(o)')
    BY <1>n, <1>2, <1>3, <1>4, Counts
  <2> QED BY <2>1 DEF LeaksOnlyLost
<1> QED BY <1>5, <1>6, <1>7 DEF CallbacksReferenced

\* What lies on the stack once the innermost frame was popped, or turned into one
\* that evaluates nothing.
LEMMA TopSettles ==
  ASSUME IInv, stack # <<>>,
         Pop \/ \E f \in Frame : f.at # "eval" /\ SetTop(f)
  PROVE  /\ stack' \in Seq(Frame) /\ EvaluatesObjects'
         /\ \A o : Evaluations(o)' = Evaluations(o) \ {Depth}
<1>1. stack \in Seq(Frame)
  BY Counts
<1>2. CASE Pop
  <2>1. /\ stack' \in Seq(Frame) /\ DOMAIN stack' = DOMAIN stack \ {Depth}
        /\ \A k \in DOMAIN stack' : stack'[k] = stack[k]
    BY <1>1, <1>2, TopGoes
  <2>2. \A o : Evaluations(o)' = Evaluations(o) \ {Depth}
    BY <1>1, <1>2, TopGoes
  <2> QED BY <2>1, <2>2 DEF IInv, EvaluatesObjects
<1>3. ASSUME NEW f \in Frame, f.at # "eval", SetTop(f)
      PROVE  /\ stack' \in Seq(Frame) /\ EvaluatesObjects'
             /\ \A o : Evaluations(o)' = Evaluations(o) \ {Depth}
  <2>1. /\ stack' \in Seq(Frame) /\ DOMAIN stack' = DOMAIN stack
        /\ \A k \in DOMAIN stack : stack'[k] = IF k = Depth THEN f ELSE stack[k]
    BY <1>1, <1>3, TopChanges
  <2>2. \A o : Evaluations(o)' = Evaluations(o) \ {Depth}
    BY <1>1, <1>3, TopChanges
  <2> QED BY <1>3, <2>1, <2>2 DEF IInv, EvaluatesObjects
<1> QED BY <1>2, <1>3

LEMMA CallbackReturnsKeeps == ASSUME IInv, CallbackReturns PROVE IInv'
<1>1. /\ stack # <<>> /\ Top.at = "eval"
      /\ refs' = [refs EXCEPT ![Top.obj] = @ - 1]
      /\ UNCHANGED <<hd, lib, callbacks, lost, processes, proc_capacity, target>>
  BY DEF CallbackReturns
<1>2. \E f \in Frame : f.at # "eval" /\ SetTop(f)
  <2> DEFINE f == [at |-> IF hd = "freed" THEN "undefined"
                          ELSE IF Top.slot = "proc" THEN "sleep" ELSE "work",
                   slot |-> NULL, obj |-> NULL]
  <2>1. f \in Frame /\ f.at # "eval"
    BY DEF Frame, Phases
  <2>2. SetTop(f)
    BY DEF CallbackReturns
  <2> HIDE DEF f
  <2> QED BY <2>1, <2>2
<1>3. /\ stack' \in Seq(Frame) /\ EvaluatesObjects'
      /\ \A o : Evaluations(o)' = Evaluations(o) \ {Depth}
  BY <1>1, <1>2, TopSettles
<1>4. refs' \in [Objs -> Nat] /\ CallbacksReferenced' /\ LeaksOnlyLost'
  BY <1>1, <1>3, EvaluationEnds
<1>5. TypeOK'
  BY <1>1, <1>3, <1>4 DEF IInv, TypeOK, Frame
<1> QED BY <1>1, <1>3, <1>4, <1>5, VectorKept DEF IInv

LEMMA CallbackFailsKeeps == ASSUME IInv, CallbackFails PROVE IInv'
<1>1. /\ stack # <<>> /\ Top.at = "eval"
      /\ refs' = [refs EXCEPT ![Top.obj] = @ - 1]
      /\ UNCHANGED <<hd, lib, callbacks, lost, processes, proc_capacity, target>>
  BY DEF CallbackFails
<1>2. Pop \/ \E f \in Frame : f.at # "eval" /\ SetTop(f)
  <2> DEFINE f == [at |-> "undefined", slot |-> NULL, obj |-> NULL]
  <2>1. f \in Frame /\ f.at # "eval"
    BY DEF Frame, Phases
  <2>2. Pop \/ SetTop(f)
    BY DEF CallbackFails
  <2> HIDE DEF f
  <2> QED BY <2>1, <2>2
<1>3. /\ stack' \in Seq(Frame) /\ EvaluatesObjects'
      /\ \A o : Evaluations(o)' = Evaluations(o) \ {Depth}
  BY <1>1, <1>2, TopSettles
<1>4. refs' \in [Objs -> Nat] /\ CallbacksReferenced' /\ LeaksOnlyLost'
  BY <1>1, <1>3, EvaluationEnds
<1>5. TypeOK'
  BY <1>1, <1>3, <1>4 DEF IInv, TypeOK, Frame
<1> QED BY <1>1, <1>3, <1>4, <1>5, VectorKept DEF IInv

\* Process goes on, or is done, without a callback.
LEMMA ProcessKeeps == ASSUME IInv, SleepEnds \/ WorkEnds PROVE IInv'
<1>1. /\ stack # <<>> /\ Top.at \in {"sleep", "work"}
      /\ UNCHANGED <<hd, lib, callbacks, refs, lost, processes, proc_capacity, target>>
  BY DEF SleepEnds, WorkEnds
<1>2. Pop \/ \E f \in Frame : f.at # "eval" /\ SetTop(f)
  <2>1. Top \in Frame
    BY <1>1, TopEvaluates
  <2>2. CASE SleepEnds
    <3> DEFINE f == [Top EXCEPT !.at = "work"]
    <3>1. f \in Frame /\ f.at # "eval"
      BY <2>1 DEF Frame, Phases
    <3>2. SetTop(f)
      BY <2>2 DEF SleepEnds
    <3> HIDE DEF f
    <3> QED BY <3>1, <3>2
  <2>3. CASE WorkEnds
    BY <2>3 DEF WorkEnds
  <2> QED BY <2>2, <2>3
<1>3. /\ stack' \in Seq(Frame) /\ EvaluatesObjects'
      /\ \A o : Evaluations(o)' = Evaluations(o) \ {Depth}
  BY <1>1, <1>2, TopSettles
<1>4. \A o \in Objs : Evaluations(o)' = Evaluations(o)
  BY <1>1, <1>3, TopEvaluates
<1>5. TypeOK'
  BY <1>1, <1>3 DEF IInv, TypeOK, Frame
<1> QED BY <1>1, <1>3, <1>4, <1>5, CountsKept, VectorKept DEF IInv

-----------------------------------------------------------------------------
(* The theorems                                                            *)

LEMMA StartsCounted == Init => IInv
<1> SUFFICES ASSUME Init PROVE IInv
  OBVIOUS
<1>1. \A o \in Objs : Stored(o) = {} /\ Evaluations(o) = {}
  BY SessionAssumption DEF Init, Stored, Evaluations
<1>2. TypeOK /\ EvaluatesObjects /\ VectorHoldsAll /\ HeldAreRemembered
  <2>1. <<>> \in Seq(Pids) /\ <<>> \in Seq(Frame)
    BY EmptySeq
  <2>2. TypeOK
    BY <2>1 DEF Init, TypeOK, Frame
  <2>3. VectorHoldsAll
    BY DEF Init, VectorHoldsAll
  <2> QED BY <2>2, <2>3 DEF Init, EvaluatesObjects, HeldAreRemembered
<1>3. Cardinality({}) = 0
  BY FS_EmptySet
<1>4. \A o \in Objs : refs[o] = 0 /\ Cardinality(Stored(o)) = 0 /\ Cardinality(Evaluations(o)) = 0
  BY <1>1, <1>3 DEF Init
<1>5. CallbacksReferenced /\ LeaksOnlyLost
  BY <1>4 DEF CallbacksReferenced, LeaksOnlyLost
<1> QED BY <1>2, <1>5 DEF IInv

LEMMA StepKeeps == IInv /\ [Next]_vars => IInv'
<1> SUFFICES ASSUME IInv, [Next]_vars PROVE IInv'
  OBVIOUS
<1>1. CASE UNCHANGED vars
  <2>1. \A o \in Objs : Evaluations(o)' = Evaluations(o)
    BY <1>1 DEF Evaluations, vars
  <2>2. TypeOK' /\ EvaluatesObjects'
    BY <1>1 DEF IInv, TypeOK, EvaluatesObjects, vars
  <2> QED BY <1>1, <2>1, <2>2, CountsKept, VectorKept DEF IInv, vars
<1>2. CASE Next
  BY <1>2, OpenKeeps, GoKeeps, GoFailsKeeps, StopKeeps, GrabKeeps, CloseKeeps,
     DeInitKeeps, ProcessBeginKeeps, DeliverKeeps, CallbackReturnsKeeps, CallbackFailsKeeps,
     ProcessKeeps DEF Next
<1> QED BY <1>1, <1>2

LEMMA SessionInvariant == Spec => []IInv
BY StartsCounted, StepKeeps, PTL DEF Spec

\* The variables of a session keep their types; in particular no reference count
\* ever goes below zero.
THEOREM SessionTypeCorrect == Spec => []TypeOK
BY SessionInvariant, PTL DEF IInv

\* No object is let go of while it is registered or being evaluated, whatever
\* callbacks do to their own handle (dtrace.c:58-73, 1077-1082, 1386-1389).
THEOREM CallbacksStayReferenced == Spec => []CallbacksReferenced
BY SessionInvariant, PTL DEF IInv

\* Where no callback is lost, references are neither lost nor leaked.
THEOREM OnlyLostLeak == Spec => []LeaksOnlyLost
BY SessionInvariant, PTL DEF IInv

\* The vector of grabbed processes is never written past its end, from whatever
\* capacity it has grown (dtrace.c:1611-1615, 1666-1670).
THEOREM VectorNeverOverrun == Spec => []VectorHoldsAll
BY SessionInvariant, PTL DEF IInv

\* A process that is held stopped is in the vector of a live handle.
THEOREM NoProcessLost == Spec => []HeldAreRemembered
BY SessionInvariant, PTL DEF IInv

\* When tracing starts, no grabbed process stays stopped (dtrace.c:1402-1403).
THEOREM GoContinues == Spec => GoContinuesAll
<1>1. ASSUME IInv, Next, lib # "active", lib' = "active"
      PROVE  \A p \in Pids : target'[p] # "held"
  <2>1. Go
    BY <1>1 DEF Next, Open, GoFails, Stop, Grab, Close, DeInit, ProcessBegin, Deliver,
       CallbackReturns, CallbackFails, SleepEnds, WorkEnds
  <2> QED BY <1>1, <2>1, GoKeeps
<1>2. IInv /\ [Next]_vars =>
        [lib # "active" /\ lib' = "active" => \A p \in Pids : target'[p] # "held"]_vars
  BY <1>1
<1> QED BY <1>2, SessionInvariant, PTL DEF Spec, GoContinuesAll

-----------------------------------------------------------------------------
(* The refinement: shapes of the stack                                     *)

\* Only the innermost process command can be at work: those around it wait for the
\* callback that they called.
Nested == \A k \in 1..(Depth - 1) : stack[k].at = "eval"

\* A cell that is there has a libdtrace handle that is open.
LiveIsOpen == hd = "live" => lib # "closed"

LEMMA LiveStaysOpen == (Init => LiveIsOpen) /\ (LiveIsOpen /\ [Next]_vars => LiveIsOpen')
BY DEF LiveIsOpen, Init, Next, Open, Go, GoFails, Stop, Grab, Close, DeInit, ProcessBegin, Deliver,
       CallbackReturns, CallbackFails, SleepEnds, WorkEnds, vars

\* The service sees the callbacks of the first n frames.
EvalsTo(frames, n) == [k \in 1..n |-> [slot |-> frames[k].slot, obj |-> frames[k].obj]]

LEMMA EvalsAreTo ==
  /\ ScriptRuns => Evals = EvalsTo(stack, Depth)
  /\ ~ ScriptRuns => Evals = EvalsTo(stack, Depth - 1)
BY DEF Evals, EvalsTo

LEMMA SameEvals ==
  ASSUME NEW old, NEW new, NEW n \in Nat, \A k \in 1..n : new[k] = old[k]
  PROVE  EvalsTo(new, n) = EvalsTo(old, n)
BY DEF EvalsTo

\* One frame more is one callback more, at the end.
LEMMA EvalsGrow ==
  ASSUME NEW frames, NEW n \in Nat
  PROVE  /\ EvalsTo(frames, n + 1) =
              Append(EvalsTo(frames, n), [slot |-> frames[n + 1].slot, obj |-> frames[n + 1].obj])
         /\ EvalsTo(frames, n) =
              SubSeq(EvalsTo(frames, n + 1), 1, Len(EvalsTo(frames, n + 1)) - 1)
         /\ Len(EvalsTo(frames, n + 1)) = n + 1
         /\ EvalsTo(frames, n + 1) # <<>>
         /\ EvalsTo(frames, n + 1)[n + 1].slot = frames[n + 1].slot
<1> DEFINE e(k) == [slot |-> frames[k].slot, obj |-> frames[k].obj]
           E == {e(k) : k \in 1..(n + 1)}
           less == EvalsTo(frames, n)
           more == EvalsTo(frames, n + 1)
<1>1. /\ less = [k \in 1..n |-> e(k)] /\ more = [k \in 1..(n + 1) |-> e(k)]
      /\ \A k \in 1..(n + 1) : e(k) \in E
  BY DEF EvalsTo
<1>2. e(n + 1).slot = frames[n + 1].slot
  OBVIOUS
<1>3. e(n + 1) = [slot |-> frames[n + 1].slot, obj |-> frames[n + 1].obj]
  OBVIOUS
<1> HIDE DEF e, E, less, more
<1>4. less \in Seq(E) /\ Len(less) = n /\ more \in Seq(E) /\ Len(more) = n + 1
  BY <1>1
<1>5. more = Append(less, e(n + 1))
  BY <1>1, <1>4
<1>6. less = SubSeq(more, 1, n)
  BY <1>1, <1>4
<1>7. more # <<>> /\ more[n + 1] = e(n + 1)
  BY <1>1, <1>4
<1>8. Len(more) - 1 = n
  BY <1>4
<1> QED BY <1>2, <1>3, <1>4, <1>5, <1>6, <1>7, <1>8 DEF less, more

\* A change of the innermost frame.
LEMMA TopSet ==
  ASSUME IInv, stack # <<>>, NEW f \in Frame, SetTop(f)
  PROVE  /\ Depth \in Nat /\ Depth - 1 \in Nat /\ Depth' = Depth
         /\ \A k \in 1..(Depth - 1) : stack'[k] = stack[k]
         /\ stack'[Depth] = f /\ stack' # <<>> /\ Top' = f
<1>1. stack \in Seq(Frame)
  BY Counts
<1>2. Len(stack) \in Nat /\ Len(stack) > 0 /\ Depth = Len(stack)
  BY <1>1, LenProperties, EmptySeq DEF Depth
<1>3. /\ Len(stack') = Len(stack)
      /\ \A k \in 1..Len(stack) : stack'[k] = IF k = Depth THEN f ELSE stack[k]
  BY <1>1, <1>2, ExceptSeq DEF SetTop
<1>4. stack' # <<>>
  BY <1>2, <1>3
<1> QED BY <1>2, <1>3, <1>4 DEF Depth, Top

\* The innermost frame goes: unless it was the last one, the script of the frame
\* around it runs.
LEMMA TopPopped ==
  ASSUME IInv, Nested, stack # <<>>, Pop
  PROVE  /\ Depth \in Nat /\ Depth - 1 \in Nat /\ Depth' = Depth - 1
         /\ \A k \in 1..(Depth - 1) : stack'[k] = stack[k]
         /\ ScriptRuns'
<1>1. stack \in Seq(Frame)
  BY Counts
<1>2. Len(stack) \in Nat /\ Len(stack) > 0 /\ Depth = Len(stack)
  BY <1>1, LenProperties, EmptySeq DEF Depth
<1>3. \A k \in 1..(Len(stack) - 1) : stack[k] \in Frame
  BY <1>1, <1>2, ElementOfSeq
<1>4. /\ stack' \in Seq(Frame) /\ Len(stack') = Len(stack) - 1
      /\ \A k \in 1..(Len(stack) - 1) : stack'[k] = stack[k]
  <2>1. stack' = SubSeq(stack, 1, Len(stack) - 1)
    BY <1>2 DEF Pop
  <2> QED BY <1>1, <1>2, <1>3, <2>1, SubSeqProperties
<1>5. ASSUME stack' # <<>> PROVE Top'.at = "eval"
  <2>1. Len(stack') > 0
    BY <1>4, <1>5, LenProperties, EmptySeq
  <2>2. Top' = stack[Len(stack) - 1]
    BY <1>2, <1>4, <2>1 DEF Top, Depth
  <2> QED BY <1>2, <1>4, <2>1, <2>2 DEF Nested
<1> QED BY <1>2, <1>4, <1>5 DEF Depth, ScriptRuns

\* A process command begins.
LEMMA FramePushed ==
  ASSUME IInv, NEW f \in Frame, stack' = Append(stack, f)
  PROVE  /\ Depth \in Nat /\ Depth' = Depth + 1
         /\ \A k \in 1..Depth : stack'[k] = stack[k]
         /\ stack' # <<>> /\ Top' = f
<1>1. stack \in Seq(Frame)
  BY Counts
<1>2. Len(stack) \in Nat /\ Depth = Len(stack)
  BY <1>1, LenProperties DEF Depth
<1>3. /\ Len(stack') = Len(stack) + 1
      /\ \A k \in 1..Len(stack) : stack'[k] = stack[k]
      /\ stack'[Len(stack) + 1] = f
  BY <1>1, AppendProperties
<1>4. stack' # <<>>
  BY <1>2, <1>3
<1> QED BY <1>2, <1>3, <1>4 DEF Depth, Top

\* What each step of process makes of the innermost frame.
LEMMA DeliverSets ==
  ASSUME IInv, Deliver
  PROVE  /\ stack # <<>> /\ ~ ScriptRuns
         /\ \E s \in Slots : \E f \in Frame :
              /\ callbacks[s] \in Objs /\ callbacks[s] # NULL
              /\ refs' = [refs EXCEPT ![callbacks[s]] = @ + 1]
              /\ f = [at |-> "eval", slot |-> s, obj |-> callbacks[s]]
              /\ SetTop(f)
<1>1. PICK s \in Slots :
        /\ callbacks[s] # NULL
        /\ refs' = [refs EXCEPT ![callbacks[s]] = @ + 1]
        /\ SetTop([at |-> "eval", slot |-> s, obj |-> callbacks[s]])
  BY DEF Deliver
<1>2. callbacks[s] \in Objs
  BY <1>1 DEF IInv, TypeOK
<1>3. [at |-> "eval", slot |-> s, obj |-> callbacks[s]] \in Frame
  BY <1>2 DEF Frame, Phases
<1>4. stack # <<>> /\ ~ ScriptRuns
  BY DEF Deliver, ScriptRuns
<1> QED BY <1>1, <1>2, <1>3, <1>4

LEMMA ReturnSets ==
  ASSUME IInv, CallbackReturns
  PROVE  stack # <<>> /\ Top.at = "eval" /\ \E f \in Frame : f.at # "eval" /\ SetTop(f)
<1> DEFINE f == [at |-> IF hd = "freed" THEN "undefined"
                        ELSE IF Top.slot = "proc" THEN "sleep" ELSE "work",
                 slot |-> NULL, obj |-> NULL]
<1>1. f \in Frame /\ f.at # "eval"
  BY DEF Frame, Phases
<1>2. SetTop(f) /\ stack # <<>> /\ Top.at = "eval"
  BY DEF CallbackReturns
<1> HIDE DEF f
<1> QED BY <1>1, <1>2

LEMMA FailsSets ==
  ASSUME IInv, CallbackFails
  PROVE  /\ stack # <<>> /\ Top.at = "eval" /\ Top.slot # "proc"
         /\ \/ hd # "freed" /\ Pop
            \/ \E f \in Frame : f.at # "eval" /\ SetTop(f)
<1> DEFINE f == [at |-> "undefined", slot |-> NULL, obj |-> NULL]
<1>1. f \in Frame /\ f.at # "eval"
  BY DEF Frame, Phases
<1>2. /\ stack # <<>> /\ Top.at = "eval" /\ Top.slot # "proc"
      /\ (hd # "freed" /\ Pop) \/ SetTop(f)
  BY DEF CallbackFails
<1> HIDE DEF f
<1> QED BY <1>1, <1>2

LEMMA SleepSets ==
  ASSUME IInv, SleepEnds
  PROVE  /\ stack # <<>> /\ ~ ScriptRuns
         /\ \E f \in Frame : f.at # "eval" /\ SetTop(f)
<1> DEFINE f == [Top EXCEPT !.at = "work"]
<1>1. stack # <<>> /\ Top.at = "sleep" /\ SetTop(f)
  BY DEF SleepEnds
<1>2. Top \in Frame
  BY <1>1, TopEvaluates
<1>3. f \in Frame /\ f.at # "eval"
  BY <1>2 DEF Frame, Phases
<1>4. ~ ScriptRuns
  BY <1>1 DEF ScriptRuns
<1> HIDE DEF f
<1> QED BY <1>1, <1>3, <1>4

LEMMA NestedStarts == Init => Nested
<1> SUFFICES ASSUME Init PROVE Nested
  OBVIOUS
<1>1. Depth = 0
  BY EmptySeq DEF Init, Depth
<1> QED BY <1>1 DEF Nested

LEMMA NestedKeeps == IInv /\ Nested /\ [Next]_vars => Nested'
<1> SUFFICES ASSUME IInv, Nested, [Next]_vars PROVE Nested'
  OBVIOUS
<1>1. CASE UNCHANGED stack
  BY <1>1 DEF Nested, Depth
<1>2. ASSUME stack # <<>>, NEW f \in Frame, SetTop(f) PROVE Nested'
  BY <1>2, TopSet DEF Nested
<1>3. CASE stack # <<>> /\ Pop
  BY <1>3, TopPopped DEF Nested
<1>d. CASE DeInit
  <2>1. Depth' = 0
    BY <1>d, EmptySeq DEF DeInit, Depth
  <2> QED BY <2>1 DEF Nested
<1>4. CASE ProcessBegin
  <2>1. PICK phase \in {"sleep", "work"} :
          stack' = Append(stack, [at |-> phase, slot |-> NULL, obj |-> NULL])
    BY <1>4 DEF ProcessBegin
  <2> DEFINE f == [at |-> phase, slot |-> NULL, obj |-> NULL]
  <2>2. f \in Frame /\ stack' = Append(stack, f)
    BY <2>1 DEF Frame, Phases
  <2> HIDE DEF f
  <2>3. Depth \in Nat /\ Depth' = Depth + 1 /\ \A k \in 1..Depth : stack'[k] = stack[k]
    BY <2>2, FramePushed
  <2>4. stack # <<>> => Depth \in 1..Depth /\ stack[Depth].at = "eval"
    <3>1. stack # <<>> => Depth \in DOMAIN stack
      BY TopEvaluates
    <3>2. DOMAIN stack = 1..Depth
      BY Counts, LenProperties DEF Depth
    <3> QED BY <1>4, <3>1, <3>2 DEF ProcessBegin, Usable, ScriptRuns, Top
  <2>5. stack = <<>> => Depth = 0
    BY EmptySeq DEF Depth
  <2> QED BY <2>3, <2>4, <2>5 DEF Nested
<1>5. CASE Deliver
  BY <1>2, <1>5, DeliverSets
<1>6. CASE CallbackReturns
  BY <1>2, <1>6, ReturnSets
<1>7. CASE CallbackFails
  BY <1>2, <1>3, <1>7, FailsSets
<1>8. CASE SleepEnds
  BY <1>2, <1>8, SleepSets
<1>9. CASE WorkEnds
  BY <1>3, <1>9 DEF WorkEnds
<1> QED BY <1>1, <1>d, <1>4, <1>5, <1>6, <1>7, <1>8, <1>9
        DEF Next, Open, Go, GoFails, Stop, Grab, Close, vars

-----------------------------------------------------------------------------
(* The refinement: each step                                               *)

\* What the service needs, the references keep.
NeededLive == Service!Needed \subseteq Alive

LEMMA NeededIsLive == IInv /\ Nested => NeededLive
<1> SUFFICES ASSUME IInv, Nested PROVE NeededLive
  OBVIOUS
<1>1. ASSUME NEW s \in Slots, callbacks[s] # NULL PROVE callbacks[s] \in Alive
  <2> DEFINE o == callbacks[s]
  <2>1. o \in Objs /\ s \in Stored(o)
    BY <1>1 DEF IInv, TypeOK, Stored
  <2> HIDE DEF o
  <2>2. Cardinality(Stored(o)) > 0
    BY <2>1, Counts, FS_EmptySet
  <2>3. refs[o] > 0
    BY <2>1, <2>2, Counts
  <2> QED BY <2>1, <2>3 DEF Alive, o
<1>2. ASSUME NEW k \in DOMAIN Evals PROVE Evals[k].obj \in Alive
  <2> DEFINE o == stack[k].obj
  <2>1. DOMAIN stack = 1..Depth /\ Depth \in Nat /\ (stack # <<>> => Depth > 0)
    BY Counts, LenProperties, EmptySeq DEF Depth
  <2>2. k \in DOMAIN stack /\ stack[k].at = "eval" /\ Evals[k].obj = o
    BY <2>1 DEF Evals, ScriptRuns, Nested, Top
  <2>3. o \in Objs /\ k \in Evaluations(o)
    BY <2>2 DEF IInv, EvaluatesObjects, Evaluations
  <2> HIDE DEF o
  <2>4. Cardinality(Evaluations(o)) > 0
    BY <2>3, Counts, FS_EmptySet
  <2>5. refs[o] > 0
    BY <2>3, <2>4, Counts
  <2> QED BY <2>2, <2>3, <2>5 DEF Alive
<1> QED BY <1>1, <1>2 DEF NeededLive, Service!Needed

LEMMA FirstMaps == Init => Service!AInit
<1> SUFFICES ASSUME Init PROVE Service!AInit
  OBVIOUS
<1>1. Depth = 0 /\ ScriptRuns
  BY EmptySeq DEF Init, Depth, ScriptRuns
<1>2. Evals = <<>>
  BY <1>1 DEF Evals
<1>3. Held = {} /\ Alive = {}
  BY DEF Init, Held, Alive
<1> QED BY <1>1, <1>2, <1>3 DEF Init, Service!AInit, Phase

\* The script that gives a command sees an open handle, which go, stop and grab
\* leave open.
LEMMA UsableIsCommanded ==
  ASSUME IInv, Usable
  PROVE  Service!Commanded /\ Phase = lib /\ ScriptRuns
BY DEF Usable, Service!Commanded, Phase, IInv, TypeOK

LEMMA StackKept ==
  ASSUME UNCHANGED stack
  PROVE  UNCHANGED <<ScriptRuns, Evals>>
BY DEF ScriptRuns, Evals, Depth, Top

LEMMA OpenMaps == ASSUME IInv, Open PROVE Service!AOpen
BY StackKept DEF Open, Service!AOpen, Phase, Held, Alive

\* Storing callbacks takes none away, and no reference either.
LEMMA RegisterMaps ==
  ASSUME IInv, NEW specs \in Specs, NEW n \in 0..Len(specs), Register(specs, n), UNCHANGED stack
  PROVE  Service!Registers
<1>1. /\ callbacks' = StoredFrom(specs, n)
      /\ refs' = [o \in Objs |-> refs[o] + Named(specs, n, o)]
  BY DEF Register
<1>2. callbacks' \in [Slots -> Objs \cup {NULL}]
  BY RegisterKeeps
<1>3. ASSUME NEW s \in Slots PROVE callbacks'[s] # NULL \/ callbacks'[s] = callbacks[s]
  <2>1. \A k \in 1..n : specs[k][2] \in Objs
    BY SpecsAreSeqs
  <2> QED BY <1>1, <2>1, LastSpecStored, SessionAssumption
<1>4. Alive \subseteq Alive'
  <2>1. \A o \in Objs : Named(specs, n, o) \in Nat
    BY <1>1, StoringCounts DEF IInv
  <2> QED BY <1>1, <2>1, Counts DEF Alive
<1> QED BY <1>2, <1>3, <1>4 DEF Service!Registers

LEMMA GoMaps == ASSUME IInv, Go PROVE Service!AGo
<1>1. PICK specs \in Specs : Register(specs, Len(specs))
  BY DEF Go
<1>2. UNCHANGED <<hd, stack>> /\ lib' = "active" /\ Usable
  BY DEF Go
<1>3. Len(specs) \in 0..Len(specs)
  BY SpecsAreSeqs
<1>4. Service!Registers
  BY <1>1, <1>2, <1>3, RegisterMaps
<1>5. Held' = {}
  BY GoKeeps DEF Held
<1>6. Phase' = "active"
  BY <1>2 DEF Phase, Usable
<1> QED BY <1>2, <1>4, <1>5, <1>6, UsableIsCommanded, StackKept DEF Service!AGo

LEMMA GoFailsMaps == ASSUME IInv, GoFails PROVE Service!AGoFails
<1>1. PICK specs \in Specs : \E n \in 0..Len(specs) : Register(specs, n)
  BY DEF GoFails
<1>2. UNCHANGED <<hd, lib, target, stack>> /\ Usable
  BY DEF GoFails
<1>3. Service!Registers
  BY <1>1, <1>2, RegisterMaps
<1>4. UNCHANGED <<Phase, Held>>
  BY <1>2 DEF Phase, Held
<1> QED BY <1>2, <1>3, <1>4, UsableIsCommanded, StackKept DEF Service!AGoFails

LEMMA StopMaps == ASSUME IInv, Stop PROVE Service!AStop
<1>1. UNCHANGED <<hd, callbacks, refs, target, stack>> /\ lib' = "stopped" /\ Usable
  BY DEF Stop
<1>2. Phase' = "stopped" /\ UNCHANGED <<Held, Alive>>
  BY <1>1 DEF Phase, Held, Alive, Usable
<1> QED BY <1>1, <1>2, UsableIsCommanded, StackKept DEF Service!AStop

LEMMA GrabMaps == ASSUME IInv, Grab PROVE Service!AGrab
<1>1. PICK p \in Pids : target' = [target EXCEPT ![p] = "held"]
  BY DEF Grab
<1>2. UNCHANGED <<hd, lib, callbacks, refs, stack>> /\ Usable
  BY DEF Grab
<1>3. Held' = Held \cup {p}
  BY <1>1 DEF Held, IInv, TypeOK
<1>4. UNCHANGED <<Phase, Alive>>
  BY <1>2 DEF Phase, Alive
<1> QED BY <1>2, <1>3, <1>4, UsableIsCommanded, StackKept DEF Service!AGrab

LEMMA CloseMaps == ASSUME IInv, Close PROVE Service!AClose
<1>1. /\ hd' = "freed" /\ callbacks' = [s \in Slots |-> NULL]
      /\ refs' = [o \in Objs |-> refs[o] - Cardinality(Stored(o))]
      /\ target' = [p \in Pids |-> IF target[p] = "held" THEN "continued" ELSE target[p]]
      /\ UNCHANGED stack /\ Usable
  BY DEF Close
<1>2. Held' = {} /\ Phase' = "closed"
  BY <1>1 DEF Held, Phase
<1>3. Alive' \subseteq Alive
  BY <1>1, Counts DEF Alive
<1> QED BY <1>1, <1>2, <1>3, UsableIsCommanded, StackKept DEF Service!AClose

LEMMA DeInitMaps == ASSUME IInv, LiveIsOpen, DeInit PROVE Service!AEnds
<1>1. /\ hd' = "freed" /\ callbacks' = [s \in Slots |-> NULL]
      /\ target' = [p \in Pids |-> IF target[p] = "held" THEN "continued" ELSE target[p]]
      /\ stack' = <<>> /\ UNCHANGED refs /\ Usable
  BY DEF DeInit, Usable, LiveIsOpen
<1>2. Held' = {} /\ Phase' = "closed" /\ Alive' = Alive
  BY <1>1 DEF Held, Phase, Alive
<1>3. Depth' = 0 /\ ScriptRuns'
  BY <1>1, EmptySeq DEF Depth, ScriptRuns
<1>4. Evals' = <<>>
  BY <1>3 DEF Evals
<1> QED BY <1>1, <1>2, <1>3, <1>4, UsableIsCommanded DEF Service!AEnds

LEMMA ProcessBeginMaps == ASSUME IInv, ProcessBegin PROVE Service!AProcess
<1>1. PICK phase \in {"sleep", "work"} :
        stack' = Append(stack, [at |-> phase, slot |-> NULL, obj |-> NULL])
  BY DEF ProcessBegin
<1>2. UNCHANGED <<hd, lib, callbacks, refs, target>> /\ Usable
  BY DEF ProcessBegin
<1> DEFINE f == [at |-> phase, slot |-> NULL, obj |-> NULL]
<1>3. f \in Frame /\ f.at # "eval" /\ stack' = Append(stack, f)
  BY <1>1 DEF Frame, Phases
<1> HIDE DEF f
<1>4. /\ Depth \in Nat /\ Depth' = Depth + 1
      /\ \A k \in 1..Depth : stack'[k] = stack[k]
      /\ stack' # <<>> /\ Top' = f
  BY <1>3, FramePushed
<1>s. ~ ScriptRuns' /\ Depth' - 1 = Depth
  BY <1>3, <1>4 DEF ScriptRuns
<1>5. Evals' = EvalsTo(stack', Depth)
  BY <1>s DEF Evals, EvalsTo
<1>6. Evals' = Evals
  BY <1>2, <1>4, <1>5, EvalsAreTo, SameEvals, UsableIsCommanded
<1>7. UNCHANGED <<Phase, Held, Alive>>
  BY <1>2 DEF Phase, Held, Alive
<1> QED BY <1>2, <1>s, <1>6, <1>7, UsableIsCommanded DEF Service!AProcess

LEMMA DeliverMaps == ASSUME IInv, Nested, Deliver PROVE Service!ADeliver
<1>1. PICK s \in Slots : \E f \in Frame :
        /\ callbacks[s] \in Objs /\ callbacks[s] # NULL
        /\ refs' = [refs EXCEPT ![callbacks[s]] = @ + 1]
        /\ f = [at |-> "eval", slot |-> s, obj |-> callbacks[s]]
        /\ SetTop(f)
  BY DeliverSets
<1>2. stack # <<>> /\ ~ ScriptRuns
  BY DeliverSets
<1>3. PICK f \in Frame : /\ f = [at |-> "eval", slot |-> s, obj |-> callbacks[s]]
                         /\ SetTop(f)
  BY <1>1
<1>f. f.at = "eval" /\ f.slot = s /\ f.obj = callbacks[s]
  BY <1>3
<1> DEFINE n == Depth - 1
<1>4. /\ n \in Nat /\ n + 1 = Depth /\ Depth' = Depth
      /\ \A k \in 1..n : stack'[k] = stack[k]
      /\ stack'[n + 1] = f /\ Top' = f
  BY <1>2, <1>3, TopSet
<1>5. ScriptRuns'
  BY <1>4, <1>f DEF ScriptRuns
<1>6. Evals = EvalsTo(stack, n)
  BY <1>2, EvalsAreTo
<1>7. Evals' = EvalsTo(stack', n + 1)
  BY <1>4, <1>5 DEF Evals, EvalsTo
<1> HIDE DEF n
<1>8. EvalsTo(stack', n) = EvalsTo(stack, n)
  BY <1>4, SameEvals
<1>9. Evals' = Append(Evals, [slot |-> s, obj |-> callbacks[s]])
  BY <1>4, <1>6, <1>7, <1>8, <1>f, EvalsGrow
<1>10. UNCHANGED <<Phase, callbacks, Held>>
  BY DEF Deliver, Phase, Held
<1>11. Alive' = Alive
  <2> DEFINE c == callbacks[s]
  <2>1. c \in Objs /\ refs' = [refs EXCEPT ![c] = @ + 1] /\ c \in Service!Needed
    BY <1>1 DEF Service!Needed
  <2>2. refs[c] > 0
    BY <2>1, NeededIsLive DEF NeededLive, Alive
  <2> HIDE DEF c
  <2>3. \A o \in Objs : refs[o] \in Nat /\ refs'[o] = IF o = c THEN refs[o] + 1 ELSE refs[o]
    BY <2>1 DEF IInv, TypeOK
  <2> QED BY <2>1, <2>2, <2>3 DEF Alive
<1> QED BY <1>1, <1>2, <1>5, <1>9, <1>10, <1>11 DEF Service!ADeliver

\* The callback of the innermost frame is over, whichever way.
LEMMA EndMaps ==
  ASSUME IInv, stack # <<>>, Top.at = "eval",
         refs' = [refs EXCEPT ![Top.obj] = @ - 1],
         UNCHANGED <<hd, lib, callbacks, target>>,
         Evals' = EvalsTo(stack, Depth - 1)
  PROVE  Service!Ends /\ Evals[Len(Evals)].slot = Top.slot
<1> DEFINE n == Depth - 1
<1>1. n \in Nat /\ n + 1 = Depth
  <2>1. Depth \in Nat /\ Depth > 0
    BY Counts, LenProperties, EmptySeq DEF Depth
  <2> QED BY <2>1
<1>2. ScriptRuns
  BY DEF ScriptRuns
<1>3. Evals = EvalsTo(stack, n + 1) /\ Evals' = EvalsTo(stack, n)
  BY <1>1, <1>2, EvalsAreTo
<1>c. Top = stack[n + 1]
  BY <1>1 DEF Top
<1> HIDE DEF n
<1>4. /\ Evals # <<>> /\ Evals' = SubSeq(Evals, 1, Len(Evals) - 1)
      /\ Evals[Len(Evals)].slot = Top.slot
  BY <1>1, <1>3, <1>c, EvalsGrow
<1>5. UNCHANGED <<Phase, Held>>
  BY DEF Phase, Held
<1>6. Alive' \subseteq Alive
  <2> DEFINE c == Top.obj
  <2>1. c \in Objs /\ refs' = [refs EXCEPT ![c] = @ - 1]
    BY TopEvaluates
  <2> HIDE DEF c
  <2>2. \A o \in Objs : refs[o] \in Nat /\ refs'[o] = IF o = c THEN refs[o] - 1 ELSE refs[o]
    BY <2>1 DEF IInv, TypeOK
  <2> QED BY <2>2 DEF Alive
<1> QED BY <1>2, <1>4, <1>5, <1>6 DEF Service!Ends

\* Libdtrace goes on when the innermost frame no longer evaluates.
LEMMA SetToWork ==
  ASSUME IInv, stack # <<>>, NEW f \in Frame, f.at # "eval", SetTop(f)
  PROVE  ~ ScriptRuns' /\ Evals' = EvalsTo(stack, Depth - 1)
<1> DEFINE n == Depth - 1
<1>1. /\ n \in Nat /\ Depth' = Depth /\ \A k \in 1..n : stack'[k] = stack[k]
      /\ stack' # <<>> /\ Top' = f
  BY TopSet
<1>2. ~ ScriptRuns'
  BY <1>1 DEF ScriptRuns
<1>3. Evals' = EvalsTo(stack', n)
  BY <1>1, <1>2 DEF Evals, EvalsTo
<1> HIDE DEF n
<1>4. EvalsTo(stack', n) = EvalsTo(stack, n)
  BY <1>1, SameEvals
<1> QED BY <1>2, <1>3, <1>4 DEF n

\* The script goes on when the innermost process command is over.
LEMMA PopToScript ==
  ASSUME IInv, Nested, stack # <<>>, Pop
  PROVE  ScriptRuns' /\ Evals' = EvalsTo(stack, Depth - 1)
<1> DEFINE n == Depth - 1
<1>1. n \in Nat /\ Depth' = n /\ ScriptRuns' /\ \A k \in 1..n : stack'[k] = stack[k]
  BY TopPopped
<1>2. Evals' = EvalsTo(stack', n)
  BY <1>1 DEF Evals, EvalsTo
<1> HIDE DEF n
<1>3. EvalsTo(stack', n) = EvalsTo(stack, n)
  BY <1>1, SameEvals
<1> QED BY <1>1, <1>2, <1>3 DEF n

LEMMA CallbackReturnsMaps == ASSUME IInv, CallbackReturns PROVE Service!AReturns
<1>1. /\ refs' = [refs EXCEPT ![Top.obj] = @ - 1]
      /\ UNCHANGED <<hd, lib, callbacks, target>>
  BY DEF CallbackReturns
<1>2. stack # <<>> /\ Top.at = "eval" /\ \E f \in Frame : f.at # "eval" /\ SetTop(f)
  BY ReturnSets
<1>3. ~ ScriptRuns' /\ Evals' = EvalsTo(stack, Depth - 1)
  BY <1>2, SetToWork
<1> QED BY <1>1, <1>2, <1>3, EndMaps DEF Service!AReturns

LEMMA CallbackFailsMaps ==
  ASSUME IInv, Nested, LiveIsOpen, CallbackFails
  PROVE  Service!AReturns \/ Service!AFails
<1>1. /\ refs' = [refs EXCEPT ![Top.obj] = @ - 1]
      /\ UNCHANGED <<hd, lib, callbacks, target>>
  BY DEF CallbackFails
<1>2. /\ stack # <<>> /\ Top.at = "eval" /\ Top.slot # "proc"
      /\ \/ hd # "freed" /\ Pop
         \/ \E f \in Frame : f.at # "eval" /\ SetTop(f)
  BY FailsSets
<1>3. CASE hd # "freed" /\ Pop
  <2>1. ScriptRuns' /\ Evals' = EvalsTo(stack, Depth - 1)
    BY <1>2, <1>3, PopToScript
  <2>2. Service!Ends /\ Evals[Len(Evals)].slot # "proc"
    BY <1>1, <1>2, <2>1, EndMaps
  <2>3. Phase # "closed"
    BY <1>3 DEF Phase, LiveIsOpen, IInv, TypeOK
  <2> QED BY <2>1, <2>2, <2>3 DEF Service!AFails
<1>4. CASE \E f \in Frame : f.at # "eval" /\ SetTop(f)
  <2>1. ~ ScriptRuns' /\ Evals' = EvalsTo(stack, Depth - 1)
    BY <1>2, <1>4, SetToWork
  <2> QED BY <1>1, <1>2, <2>1, EndMaps DEF Service!AReturns
<1> QED BY <1>2, <1>3, <1>4

LEMMA SleepEndsStutters == ASSUME IInv, SleepEnds PROVE UNCHANGED Service!avars
<1>1. /\ stack # <<>> /\ ~ ScriptRuns
      /\ \E f \in Frame : f.at # "eval" /\ SetTop(f)
  BY SleepSets
<1>2. ~ ScriptRuns' /\ Evals' = Evals
  BY <1>1, SetToWork, EvalsAreTo
<1>3. UNCHANGED <<callbacks, Phase, Held, Alive>>
  BY DEF SleepEnds, Phase, Held, Alive
<1> QED BY <1>1, <1>2, <1>3 DEF Service!avars

LEMMA WorkEndsMaps == ASSUME IInv, Nested, WorkEnds PROVE Service!ADone
<1>1. stack # <<>> /\ Top.at = "work" /\ Pop
  BY DEF WorkEnds
<1>2. ~ ScriptRuns
  BY <1>1 DEF ScriptRuns
<1>3. ScriptRuns' /\ Evals' = Evals
  BY <1>1, <1>2, PopToScript, EvalsAreTo
<1>4. UNCHANGED <<callbacks, Phase, Held, Alive>>
  BY DEF WorkEnds, Phase, Held, Alive
<1> QED BY <1>2, <1>3, <1>4 DEF Service!ADone

\* Every step of a session is one step of the service, or none.
LEMMA SessionStepMaps ==
  ASSUME IInv, Nested, LiveIsOpen, NeededLive', [Next]_vars
  PROVE  [Service!ANext]_(Service!avars)
<1>n. (Service!Needed)' \subseteq Alive'
  BY DEF NeededLive
<1>1. CASE UNCHANGED vars
  BY <1>1, StackKept DEF vars, Service!avars, Phase, Held, Alive
<1>2. CASE Open
  BY <1>n, <1>2, OpenMaps DEF Service!ANext
<1>3. CASE Go
  BY <1>n, <1>3, GoMaps DEF Service!ANext
<1>4. CASE GoFails
  BY <1>n, <1>4, GoFailsMaps DEF Service!ANext
<1>5. CASE Stop
  BY <1>n, <1>5, StopMaps DEF Service!ANext
<1>6. CASE Grab
  BY <1>n, <1>6, GrabMaps DEF Service!ANext
<1>7. CASE Close
  BY <1>n, <1>7, CloseMaps DEF Service!ANext
<1>d. CASE DeInit
  BY <1>n, <1>d, DeInitMaps DEF Service!ANext
<1>8. CASE ProcessBegin
  BY <1>n, <1>8, ProcessBeginMaps DEF Service!ANext
<1>9. CASE Deliver
  BY <1>n, <1>9, DeliverMaps DEF Service!ANext
<1>10. CASE CallbackReturns
  BY <1>n, <1>10, CallbackReturnsMaps DEF Service!ANext
<1>11. CASE CallbackFails
  BY <1>n, <1>11, CallbackFailsMaps DEF Service!ANext
<1>12. CASE SleepEnds
  BY <1>12, SleepEndsStutters
<1>13. CASE WorkEnds
  BY <1>n, <1>13, WorkEndsMaps DEF Service!ANext
<1> QED
  BY <1>1, <1>2, <1>3, <1>4, <1>5, <1>6, <1>7, <1>d, <1>8, <1>9, <1>10, <1>11, <1>12, <1>13
  DEF Next

\* The commands on a handle and the callbacks they run, with their reference counts,
\* the vector of processes and the C stack of nested process commands, keep what
\* TraceService promises to scripts (dtrace.c:58-73, 1062-1087, 1348-1484).
THEOREM SessionRefinement == Spec => ImplementsTraceService
<1>1. Spec => []Nested
  BY NestedStarts, NestedKeeps, SessionInvariant, PTL DEF Spec
<1>2. Spec => []NeededLive
  BY <1>1, SessionInvariant, NeededIsLive, PTL
<1>l. Spec => []LiveIsOpen
  BY LiveStaysOpen, PTL DEF Spec
<1>3. IInv /\ Nested /\ LiveIsOpen /\ NeededLive' /\ [Next]_vars => [Service!ANext]_(Service!avars)
  BY SessionStepMaps
<1> QED BY <1>1, <1>2, <1>l, <1>3, FirstMaps, SessionInvariant, PTL
     DEF Spec, ImplementsTraceService, Service!ASpec
=============================================================================
