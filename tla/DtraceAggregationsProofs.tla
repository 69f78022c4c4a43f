------------------------ MODULE DtraceAggregationsProofs ----------------------
(***************************************************************************)
(* Proofs about DtraceAggregations, for all tables libdtrace may print and *)
(* every size of the buffer.  Two things carry them: the loops of          *)
(* cutWhiteSpace have the invariant Loop, and what that says when they end *)
(* is what Shown says of the text, with its CHOOSE of a first and a last   *)
(* letter; and the buffers still to come are in order (Orderly).  That     *)
(* order is one of PrintedAll, which FlattenSeq puts together; what holds  *)
(* of its pieces is shown to hold of the whole by FlattenSeqIn.  What has  *)
(* been put into the list by then is the second invariant, GInv, which     *)
(* knows the record that each buffer came from.                            *)
(***************************************************************************)
EXTENDS DtraceAggregations, Inductions

-----------------------------------------------------------------------------
(* cutWhiteSpace                                                           *)

\* The m-th character after those skipped is a letter.
LetterAt(m) == csource[source + m] # Blank

\* Where the loops are in the text.
Loop ==
  /\ \A k \in 1..source : csource[k] = Blank
  /\ at \in {"idle", "skip"} => i = 0 /\ size = UNSET /\ writes = <<>>
  /\ at = "idle" => source = 0
  /\ at \in {"copy", "return", "undefined"} =>
       /\ source < Len(csource) => LetterAt(1)
       /\ source + i <= Len(csource)
  /\ at \in {"copy", "undefined"} =>
       /\ \A k \in DOMAIN writes : writes[k] < TUPLE_STRLEN
       /\ size = UNSET => i = 0
       /\ size # UNSET => /\ size < i /\ LetterAt(size + 1)
                          /\ \A m \in 1..i : m > size + 1 => ~ LetterAt(m)
  /\ at = "undefined" => source = Len(csource)
  /\ at = "return" =>
       /\ source + i = Len(csource) \/ i = TUPLE_STRLEN
       /\ size # UNSET /\ 1 <= size /\ size <= i /\ LetterAt(size)
       /\ \A m \in 1..i : m > size => ~ LetterAt(m)
       /\ OverrunByOne

CutInv == CutTypeOK /\ Loop

-----------------------------------------------------------------------------
LEMMA TextsAreWords ==
  ASSUME NEW text \in Texts \cup {<<>>}
  PROVE  text \in Seq(Letters \cup {Blank}) /\ Len(text) \in Nat
<1>1. CASE text \in Texts
  <2>1. text \in Seq(Letters \cup {Blank})
    BY <1>1, CutAssumption
  <2> QED
    BY <2>1
<1>2. CASE text = <<>>
  BY <1>2
<1> QED
  BY <1>1, <1>2

\* A character is NUL only at the end of the text.
LEMMA CharIsNul ==
  ASSUME CutTypeOK, NEW k \in Nat
  PROVE  Char(k) = NUL <=> source + k >= Len(csource)
<1>1. csource \in Seq(Letters \cup {Blank}) /\ NUL \notin Letters \cup {Blank}
  BY CutAssumption, TextsAreWords DEF CutTypeOK
<1>2. source \in Nat /\ Len(csource) \in Nat
  BY <1>1 DEF CutTypeOK
<1>3. CASE source + k < Len(csource)
  <2>1. source + k + 1 \in 1..Len(csource)
    BY <1>2, <1>3
  <2>2. csource[source + k + 1] \in Letters \cup {Blank}
    BY <1>1, <2>1
  <2> QED
    BY <1>1, <1>2, <1>3, <2>2 DEF Char
<1>4. CASE ~ (source + k < Len(csource))
  BY <1>2, <1>4 DEF Char
<1> QED
  BY <1>2, <1>3, <1>4

LEMMA CallKeeps ==
  ASSUME CutInv, NEW text \in Texts \cup {<<>>}, Call(text)
  PROVE  CutInv'
<1>1. text \in Seq(Letters \cup {Blank}) /\ Len(text) \in Nat
  BY TextsAreWords
<1>2. source = 0 /\ i = 0 /\ size = UNSET /\ writes = <<>>
  BY DEF CutInv, Loop, Call
<1>3. CutTypeOK'
  BY <1>1, <1>2 DEF CutInv, CutTypeOK, Call
<1>4. Loop'
  BY <1>2 DEF Loop, Call
<1> QED
  BY <1>3, <1>4 DEF CutInv

LEMMA ReturnKeeps ==
  ASSUME CutInv, Return
  PROVE  CutInv'
<1>1. CutTypeOK'
  BY CutAssumption DEF CutInv, CutTypeOK, Return
<1>2. Loop'
  BY DEF Loop, Return
<1> QED
  BY <1>1, <1>2 DEF CutInv

LEMMA SkipBlankKeeps ==
  ASSUME CutInv, SkipBlank
  PROVE  CutInv'
<1>1. /\ csource \in Seq(Letters \cup {Blank}) /\ Len(csource) \in Nat /\ source \in Nat
      /\ source <= Len(csource) /\ TUPLE_STRLEN \in Nat
      /\ i = 0 /\ size = UNSET /\ writes = <<>> /\ at = "skip"
      /\ NUL # Blank
  BY CutAssumption DEF CutInv, CutTypeOK, Loop, SkipBlank
<1>2. Char(0) = NUL <=> source >= Len(csource)
  BY <1>1, CharIsNul DEF CutInv
<1>3. source < Len(csource) => Char(0) = csource[source + 1]
  BY <1>1 DEF Char
<1>4. CASE Char(0) = Blank
  <2>1. source < Len(csource) /\ csource[source + 1] = Blank
    BY <1>1, <1>2, <1>3, <1>4
  <2>2. source' = source + 1 /\ at' = at /\ csource' = csource /\ i' = i /\ size' = size
        /\ writes' = writes
    BY <1>4 DEF SkipBlank
  <2>3. CutTypeOK'
    BY <1>1, <2>1, <2>2 DEF CutInv, CutTypeOK
  <2>4. Loop'
    BY <1>1, <2>1, <2>2 DEF CutInv, Loop
  <2> QED
    BY <2>3, <2>4 DEF CutInv
<1>5. CASE Char(0) # Blank
  <2>1. source' = source /\ at' = "copy" /\ csource' = csource /\ i' = i /\ size' = size
        /\ writes' = writes
    BY <1>5 DEF SkipBlank
  <2>2. CutTypeOK'
    BY <1>1, <2>1 DEF CutInv, CutTypeOK
  <2>3. Loop'
    BY <1>1, <1>3, <1>5, <2>1 DEF CutInv, Loop, LetterAt
  <2> QED
    BY <2>2, <2>3 DEF CutInv
<1> QED
  BY <1>4, <1>5

\* What is known of the locals while the second loop runs.
LEMMA CopyState ==
  ASSUME CutInv, at = "copy"
  PROVE  /\ csource \in Seq(Letters \cup {Blank}) /\ Len(csource) \in Nat
         /\ source \in Nat /\ i \in Nat /\ i <= TUPLE_STRLEN /\ TUPLE_STRLEN \in Nat \ {0}
         /\ source + i <= Len(csource)
         /\ size # UNSET => size \in Nat
         /\ UNSET \notin Int
         /\ Char(i) = NUL <=> source + i >= Len(csource)
         /\ source + i < Len(csource) => Char(i) = csource[source + i + 1]
<1>1. csource \in Seq(Letters \cup {Blank}) /\ Len(csource) \in Nat
  BY TextsAreWords DEF CutInv, CutTypeOK
<1>2. /\ source \in Nat /\ i \in Nat /\ i <= TUPLE_STRLEN /\ TUPLE_STRLEN \in Nat \ {0}
      /\ size # UNSET => size \in Nat
  BY <1>1, CutAssumption DEF CutInv, CutTypeOK
<1>3. source + i <= Len(csource) /\ UNSET \notin Int
  BY CutAssumption DEF CutInv, Loop
<1>4. Char(i) = NUL <=> source + i >= Len(csource)
  BY <1>2, CharIsNul DEF CutInv
<1>5. source + i < Len(csource) => Char(i) = csource[source + i + 1]
  BY DEF Char
<1> QED
  BY <1>1, <1>2, <1>3, <1>4, <1>5

LEMMA CopyCharKeeps ==
  ASSUME CutInv, CopyChar
  PROVE  CutInv'
<1>1. /\ at = "copy" /\ Char(i) # NUL /\ i < TUPLE_STRLEN
      /\ i' = i + 1 /\ writes' = Append(writes, i)
      /\ size' = IF Char(i) # Blank THEN i ELSE size
      /\ csource' = csource /\ source' = source /\ at' = at
  BY DEF CopyChar
<1>2. /\ i \in Nat /\ source \in Nat /\ TUPLE_STRLEN \in Nat /\ Len(csource) \in Nat
      /\ source + i < Len(csource) /\ Char(i) = csource[source + i + 1]
      /\ size # UNSET => size \in Nat
      /\ UNSET \notin Int
  BY <1>1, CopyState
<1>a. size # UNSET => /\ size < i /\ LetterAt(size + 1)
                      /\ \A m \in 1..i : m > size + 1 => ~ LetterAt(m)
  BY <1>1 DEF CutInv, Loop
<1>3. CutTypeOK'
  <2>1. i' \in 0..TUPLE_STRLEN /\ size' \in (0..TUPLE_STRLEN) \cup {UNSET}
    BY <1>1, <1>2 DEF CutInv, CutTypeOK
  <2>2. writes' \in Seq(0..TUPLE_STRLEN)
    BY <1>1, <1>2 DEF CutInv, CutTypeOK
  <2> QED
    BY <1>1, <2>1, <2>2 DEF CutInv, CutTypeOK
<1>4. \A k \in DOMAIN writes' : writes'[k] < TUPLE_STRLEN
  <2>1. writes \in Seq(0..TUPLE_STRLEN) /\ \A k \in DOMAIN writes : writes[k] < TUPLE_STRLEN
    BY <1>1 DEF CutInv, CutTypeOK, Loop
  <2> QED
    BY <1>1, <1>2, <2>1
<1>5. size' # UNSET
  <2>1. CASE i = 0
    BY <1>1, <1>2, <2>1 DEF CutInv, Loop, LetterAt
  <2>2. CASE i # 0
    BY <1>1, <1>2, <2>2 DEF CutInv, Loop
  <2> QED
    BY <2>1, <2>2
<1>6. /\ size' < i' /\ LetterAt(size' + 1)
      /\ \A m \in 1..i' : m > size' + 1 => ~ LetterAt(m)
  <2>1. CASE Char(i) # Blank
    BY <1>1, <1>2, <2>1 DEF LetterAt
  <2>2. CASE Char(i) = Blank
    <3>1. size' = size /\ size \in Nat /\ ~ LetterAt(i + 1)
      <4>1. size' = size
        BY <1>1, <2>2
      <4>2. size \in Nat
        BY <1>2, <1>5, <4>1
      <4>3. source + (i + 1) = source + i + 1
        BY <1>2
      <4> QED
        BY <1>2, <2>2, <4>1, <4>2, <4>3 DEF LetterAt
    <3>2. size < i /\ LetterAt(size + 1) /\ \A m \in 1..i : m > size + 1 => ~ LetterAt(m)
      BY <1>5, <1>a, <3>1
    <3>3. ASSUME NEW m \in 1..i', m > size' + 1
          PROVE  ~ LetterAt(m)
      <4>1. m = i + 1 \/ m \in 1..i
        BY <1>1, <1>2
      <4> QED
        BY <3>1, <3>2, <3>3, <4>1
    <3>4. size' < i' /\ LetterAt(size' + 1)
      BY <1>1, <1>2, <3>1, <3>2
    <3> QED
      BY <3>3, <3>4
  <2> QED
    BY <2>1, <2>2
<1>7. Loop'
  <2>1. /\ \A k \in 1..source : csource[k] = Blank
        /\ source < Len(csource) => LetterAt(1)
    BY <1>1 DEF CutInv, Loop
  <2>2. \A m : LetterAt(m)' <=> LetterAt(m)
    BY <1>1 DEF LetterAt
  <2>3. source' + i' <= Len(csource')
    BY <1>1, <1>2
  <2> QED
    BY <1>1, <1>4, <1>5, <1>6, <2>1, <2>2, <2>3 DEF Loop
<1> QED
  BY <1>3, <1>7 DEF CutInv

LEMMA TerminateKeeps ==
  ASSUME CutInv, Terminate
  PROVE  CutInv'
<1>1. /\ at = "copy" /\ ~ (Char(i) # NUL /\ i < TUPLE_STRLEN) /\ size # UNSET
      /\ size' = size + 1 /\ writes' = Append(writes, size + 1) /\ at' = "return"
      /\ csource' = csource /\ source' = source /\ i' = i
  BY DEF Terminate
<1>2. /\ i \in Nat /\ source \in Nat /\ TUPLE_STRLEN \in Nat /\ Len(csource) \in Nat
      /\ i <= TUPLE_STRLEN /\ source + i <= Len(csource) /\ size \in Nat /\ UNSET \notin Int
      /\ Char(i) = NUL <=> source + i >= Len(csource)
  BY <1>1, CopyState
<1>3. /\ size < i /\ LetterAt(size + 1) /\ \A m \in 1..i : m > size + 1 => ~ LetterAt(m)
      /\ \A k \in DOMAIN writes : writes[k] < TUPLE_STRLEN
      /\ writes \in Seq(0..TUPLE_STRLEN)
  BY <1>1 DEF CutInv, Loop, CutTypeOK
<1>4. writes' \in Seq(0..TUPLE_STRLEN)
  BY <1>1, <1>2, <1>3
<1>5. CutTypeOK'
  BY <1>1, <1>2, <1>3, <1>4 DEF CutInv, CutTypeOK
<1>6. OverrunByOne'
  <2>1. DOMAIN writes' = 1..(Len(writes) + 1) /\ Len(writes') = Len(writes) + 1
        /\ Len(writes) \in Nat /\ DOMAIN writes = 1..Len(writes)
    BY <1>1, <1>2, <1>3
  <2>2. \A k \in DOMAIN writes : writes'[k] = writes[k]
    BY <1>1, <1>2, <1>3
  <2>3. writes'[Len(writes) + 1] = size + 1
    BY <1>1, <1>2, <1>3
  <2> QED
    BY <1>1, <1>2, <1>3, <2>1, <2>2, <2>3 DEF OverrunByOne
<1>7. source' + i' = Len(csource') \/ i' = TUPLE_STRLEN
  BY <1>1, <1>2
<1>8. size' # UNSET /\ 1 <= size' /\ size' <= i' /\ LetterAt(size)'
      /\ \A m \in 1..i' : m > size' => ~ LetterAt(m)'
  BY <1>1, <1>2, <1>3 DEF LetterAt
<1>9. Loop'
  <2>1. /\ \A k \in 1..source : csource[k] = Blank
        /\ source < Len(csource) => LetterAt(1)
        /\ source + i <= Len(csource)
    BY <1>1 DEF CutInv, Loop
  <2>2. \A m : LetterAt(m)' <=> LetterAt(m)
    BY <1>1 DEF LetterAt
  <2> QED
    BY <1>1, <1>6, <1>7, <1>8, <2>1, <2>2 DEF Loop
<1> QED
  BY <1>5, <1>9 DEF CutInv

LEMMA TerminateUnsetKeeps ==
  ASSUME CutInv, TerminateUnset
  PROVE  CutInv'
<1>1. /\ at = "copy" /\ ~ (Char(i) # NUL /\ i < TUPLE_STRLEN) /\ size = UNSET
      /\ at' = "undefined" /\ size' = size /\ writes' = writes
      /\ csource' = csource /\ source' = source /\ i' = i
  BY DEF TerminateUnset
<1>2. source = Len(csource)
  BY <1>1, CopyState DEF CutInv, Loop
<1>3. CutTypeOK'
  BY <1>1 DEF CutInv, CutTypeOK
<1>4. Loop'
  BY <1>1, <1>2 DEF CutInv, Loop, LetterAt
<1> QED
  BY <1>3, <1>4 DEF CutInv

LEMMA RunKeeps ==
  ASSUME CutInv, Run
  PROVE  CutInv'
<1> QED
  BY SkipBlankKeeps, CopyCharKeeps, TerminateKeeps, TerminateUnsetKeeps DEF Run

-----------------------------------------------------------------------------
(* What the loop invariant says of the result                              *)

\* Everything skipped is blank, and so is everything between the last character
\* counted and where the loop ended.
LEMMA ReturnState ==
  ASSUME CutInv, at = "return"
  PROVE  /\ csource \in Seq(Letters \cup {Blank}) /\ Len(csource) \in Nat
         /\ source \in Nat /\ i \in Nat /\ size \in Nat /\ TUPLE_STRLEN \in Nat \ {0}
         /\ 1 <= size /\ size <= i /\ i <= TUPLE_STRLEN /\ source + i <= Len(csource)
         /\ source + i = Len(csource) \/ i = TUPLE_STRLEN
         /\ \A k \in 1..source : csource[k] = Blank
         /\ csource[source + 1] # Blank /\ csource[source + size] # Blank
         /\ \A k \in 1..Len(csource) :
              source + size < k /\ k <= source + i => csource[k] = Blank
<1>1. csource \in Seq(Letters \cup {Blank}) /\ Len(csource) \in Nat
  BY TextsAreWords DEF CutInv, CutTypeOK
<1>2. source \in Nat /\ i \in Nat /\ i <= TUPLE_STRLEN /\ TUPLE_STRLEN \in Nat \ {0}
  BY <1>1, CutAssumption DEF CutInv, CutTypeOK
<1>3. size # UNSET /\ 1 <= size /\ size <= i
  BY DEF CutInv, Loop
<1>4. size \in Nat
  BY <1>2, <1>3, CutAssumption DEF CutInv, CutTypeOK
<1>5. /\ source + i <= Len(csource)
      /\ source + i = Len(csource) \/ i = TUPLE_STRLEN
      /\ \A k \in 1..source : csource[k] = Blank
      /\ source < Len(csource) => LetterAt(1)
      /\ LetterAt(size)
      /\ \A m \in 1..i : m > size => ~ LetterAt(m)
  BY DEF CutInv, Loop
<1>6. csource[source + 1] # Blank /\ csource[source + size] # Blank
  BY <1>1, <1>2, <1>3, <1>4, <1>5 DEF LetterAt
<1>7. ASSUME NEW k \in 1..Len(csource), source + size < k, k <= source + i
      PROVE  csource[k] = Blank
  <2>1. k - source \in 1..i /\ k - source > size /\ source + (k - source) = k
    BY <1>1, <1>2, <1>4, <1>7
  <2> QED
    BY <1>5, <2>1 DEF LetterAt
<1> QED
  BY <1>1, <1>2, <1>3, <1>4, <1>5, <1>6, <1>7

\* The text between its first and its last letter, when those are known.
LEMMA TrimmedIs ==
  ASSUME NEW S, NEW t \in Seq(S), NEW first \in DOMAIN t, NEW last \in DOMAIN t,
         t[first] # Blank, t[last] # Blank,
         \A k \in DOMAIN t : t[k] # Blank => first <= k /\ k <= last
  PROVE  Trimmed(t) = SubSeq(t, first, last)
<1>1. first \in LettersOf(t) /\ last \in LettersOf(t)
  BY DEF LettersOf
<1>2. DOMAIN t = 1..Len(t) /\ Len(t) \in Nat
  OBVIOUS
<1>3. \A k \in LettersOf(t) : k \in Nat /\ first <= k /\ k <= last
  BY <1>2 DEF LettersOf
<1>4. (CHOOSE k \in LettersOf(t) : \A m \in LettersOf(t) : k <= m) = first
  BY <1>1, <1>3
<1>5. (CHOOSE k \in LettersOf(t) : \A m \in LettersOf(t) : m <= k) = last
  BY <1>1, <1>3
<1> QED
  BY <1>4, <1>5 DEF Trimmed

LEMMA LastLetter ==
  ASSUME NEW S, NEW t \in Seq(S), LettersOf(t) # {}
  PROVE  \E last \in LettersOf(t) : \A k \in LettersOf(t) : k <= last
<1> DEFINE T == {Len(t) - k : k \in LettersOf(t)}
<1>1. Len(t) \in Nat /\ DOMAIN t = 1..Len(t)
  OBVIOUS
<1>2. T \in SUBSET Nat /\ T # {}
  BY <1>1 DEF LettersOf
<1>3. PICK n \in T : \A m \in T : n <= m
  BY <1>2, Smallest
<1>4. PICK last \in LettersOf(t) : n = Len(t) - last
  BY <1>3
<1>5. ASSUME NEW k \in LettersOf(t)
      PROVE  k <= last
  <2>1. n <= Len(t) - k
    BY <1>3, <1>5
  <2>2. k \in Int /\ last \in Int
    BY <1>1 DEF LettersOf
  <2> QED
    BY <1>1, <1>4, <2>1, <2>2
<1> QED
  BY <1>5

LEMMA LoopCuts ==
  ASSUME CutInv
  PROVE  CutsWhiteSpace
<1> SUFFICES ASSUME at = "return"
             PROVE  Result = Shown(csource)
  BY DEF CutsWhiteSpace
<1> DEFINE t == csource
           S == Letters \cup {Blank}
<1>1. /\ t \in Seq(S) /\ Len(t) \in Nat
      /\ source \in Nat /\ i \in Nat /\ size \in Nat /\ TUPLE_STRLEN \in Nat \ {0}
      /\ 1 <= size /\ size <= i /\ i <= TUPLE_STRLEN /\ source + i <= Len(t)
      /\ source + i = Len(t) \/ i = TUPLE_STRLEN
      /\ \A k \in 1..source : t[k] = Blank
      /\ t[source + 1] # Blank /\ t[source + size] # Blank
      /\ \A k \in 1..Len(t) : source + size < k /\ k <= source + i => t[k] = Blank
  BY ReturnState
<1>2. \A k \in 1..size : Char(k - 1) = t[source + k]
  BY <1>1 DEF Char
<1>3. Result = [k \in 1..size |-> t[source + k]]
  BY <1>2 DEF Result
<1> HIDE DEF t
<1>4. CASE \A k \in 1..Len(t) : source + i < k => t[k] = Blank
  <2>1. \A k \in 1..Len(t) : t[k] # Blank => source + 1 <= k /\ k <= source + size
    BY <1>1, <1>4
  <2>2. source + 1 \in DOMAIN t /\ source + size \in DOMAIN t /\ DOMAIN t = 1..Len(t)
    BY <1>1
  <2>3. Trimmed(t) = SubSeq(t, source + 1, source + size)
    BY <1>1, <2>1, <2>2, TrimmedIs
  <2>4. Len(SubSeq(t, source + 1, source + size)) = size
        /\ SubSeq(t, source + 1, source + size) = [k \in 1..size |-> t[source + k]]
    BY <1>1
  <2>5. Shown(t) = [k \in 1..size |-> t[source + k]]
    BY <1>1, <2>3, <2>4 DEF Shown
  <2> QED
    BY <1>3, <2>5 DEF t
<1>5. CASE ~ \A k \in 1..Len(t) : source + i < k => t[k] = Blank
  <2>1. PICK b \in 1..Len(t) : source + i < b /\ t[b] # Blank
    BY <1>5
  <2>2. i = TUPLE_STRLEN
    BY <1>1, <2>1
  <2>3. DOMAIN t = 1..Len(t) /\ b \in LettersOf(t)
    BY <1>1, <2>1 DEF LettersOf
  <2>4. PICK last \in LettersOf(t) : \A k \in LettersOf(t) : k <= last
    BY <1>1, <2>3, LastLetter
  <2>5. last \in 1..Len(t) /\ t[last] # Blank /\ source + TUPLE_STRLEN < last
    BY <1>1, <2>1, <2>2, <2>3, <2>4 DEF LettersOf
  <2>6. ASSUME NEW k \in DOMAIN t, t[k] # Blank
        PROVE  source + 1 <= k /\ k <= last
    <3>1. k \in LettersOf(t) /\ k \in 1..Len(t)
      BY <1>1, <2>6 DEF LettersOf
    <3>2. k <= last
      BY <2>4, <3>1
    <3>3. ~ k \in 1..source
      BY <1>1, <2>6
    <3> QED
      BY <1>1, <3>1, <3>2, <3>3
  <2> DEFINE u == SubSeq(t, source + 1, last)
             v == SubSeq(u, 1, TUPLE_STRLEN)
  <2>7. Trimmed(t) = u
    <3>0. source + 1 \in 1..Len(t)
      BY <1>1
    <3>1. source + 1 \in DOMAIN t /\ last \in DOMAIN t
      BY <2>3, <2>5, <3>0, Zenon
    <3>2. t[source + 1] # Blank /\ t[last] # Blank /\ t \in Seq(S)
      BY <1>1, <2>5
    <3>3. PICK m : m = source + 1
      OBVIOUS
    <3>4. \A k \in DOMAIN t : t[k] # Blank => m <= k /\ k <= last
      BY <2>6, <3>3
    <3>5. Trimmed(t) = SubSeq(t, m, last)
      BY <3>1, <3>2, <3>3, <3>4, TrimmedIs
    <3> QED
      BY <3>3, <3>5
  <2>8. /\ u \in Seq(S) /\ Len(u) = last - source
        /\ \A k \in 1..(last - source) : u[k] = t[source + k]
    BY <1>1, <2>5
  <2> HIDE DEF u
  <2>9. Shown(t) = Trimmed(v)
    BY <1>1, <2>5, <2>7, <2>8 DEF Shown
  <2>10. /\ v \in Seq(S) /\ Len(v) = TUPLE_STRLEN /\ DOMAIN v = 1..TUPLE_STRLEN
         /\ \A k \in 1..TUPLE_STRLEN : v[k] = t[source + k]
    <3>1. v \in Seq(S) /\ Len(v) = TUPLE_STRLEN /\ \A k \in 1..TUPLE_STRLEN : v[k] = u[k]
      BY <1>1, <2>5, <2>8
    <3> QED
      BY <1>1, <2>5, <2>8, <3>1
  <2> HIDE DEF v
  <2>11. \A k \in DOMAIN v : v[k] # Blank => 1 <= k /\ k <= size
    <3> SUFFICES ASSUME NEW k \in 1..TUPLE_STRLEN, t[source + k] # Blank
                 PROVE  1 <= k /\ k <= size
      BY <2>10
    <3>1. source + k \in 1..Len(t) /\ source + k <= source + i
      BY <1>1, <2>2, <2>5
    <3>2. ~ source + size < source + k
      BY <1>1, <3>1
    <3> QED
      BY <1>1, <3>2
  <2>12. Trimmed(v) = SubSeq(v, 1, size)
    <3>0. 1 \in 1..TUPLE_STRLEN /\ size \in 1..TUPLE_STRLEN
      BY <1>1, <2>2
    <3>1. 1 \in DOMAIN v /\ size \in DOMAIN v /\ v[1] # Blank /\ v[size] # Blank
      BY <1>1, <2>10, <3>0
    <3> QED
      BY <2>10, <2>11, <3>1, TrimmedIs
  <2>13. SubSeq(v, 1, size) = [k \in 1..size |-> t[source + k]]
    BY <1>1, <2>2, <2>10
  <2> QED
    BY <1>3, <2>9, <2>12, <2>13 DEF t
<1> QED
  BY <1>4, <1>5

LEMMA LoopUnset ==
  ASSUME CutInv
  PROVE  UnsetOnBlankOnly
<1>1. csource \in Seq(Letters \cup {Blank}) /\ DOMAIN csource = 1..Len(csource)
  BY TextsAreWords DEF CutInv, CutTypeOK
<1>2. CASE at = "return"
  <2>1. source + 1 \in DOMAIN csource /\ csource[source + 1] # Blank
    BY <1>1, <1>2, ReturnState
  <2> QED
    BY <1>2, <2>1 DEF UnsetOnBlankOnly, LettersOf
<1>3. CASE at = "undefined"
  <2>1. \A k \in DOMAIN csource : csource[k] = Blank
    BY <1>1, <1>3 DEF CutInv, Loop
  <2> QED
    BY <1>3, <2>1 DEF UnsetOnBlankOnly, LettersOf
<1> QED
  BY <1>2, <1>3 DEF UnsetOnBlankOnly

LEMMA LoopOverrun ==
  ASSUME CutInv
  PROVE  OverrunByOne
<1>1. CASE at \in {"idle", "skip"}
  BY <1>1 DEF CutInv, Loop, OverrunByOne
<1>2. CASE at \in {"copy", "undefined"}
  BY <1>2 DEF CutInv, Loop, OverrunByOne
<1>3. CASE at = "return"
  BY <1>3 DEF CutInv, Loop
<1> QED
  BY <1>1, <1>2, <1>3 DEF CutInv, CutTypeOK

\* What is handed back is a text again.
LEMMA ResultIsText ==
  ASSUME CutInv, at = "return"
  PROVE  Result \in Seq(Letters \cup {Blank})
<1>1. /\ csource \in Seq(Letters \cup {Blank}) /\ Len(csource) \in Nat
      /\ source \in Nat /\ size \in Nat /\ source + size <= Len(csource)
  BY ReturnState
<1>2. \A k \in 1..size : Char(k - 1) \in Letters \cup {Blank}
  BY <1>1 DEF Char
<1> QED
  BY <1>1, <1>2 DEF Result

-----------------------------------------------------------------------------
(* The buffers libdtrace hands out                                         *)

Buffers == [kind : {"member", "value", "space"}, text : Texts \cup {<<>>}]

\* Every member has a value somewhere behind it.
MembersLead(s) == \A k \in DOMAIN s : s[k].kind = "member" =>
  \E j \in DOMAIN s : j > k /\ s[j].kind = "value"

\* A value follows a member.
ValuesFollow(s) == \A k \in DOMAIN s : s[k].kind = "value" =>
  k > 1 /\ s[k - 1].kind = "member"

LEMMA Joined ==
  ASSUME NEW s \in Seq(Buffers), NEW r \in Seq(Buffers)
  PROVE  /\ s \o r \in Seq(Buffers)
         /\ DOMAIN s = 1..Len(s) /\ Len(s) \in Nat
         /\ DOMAIN r = 1..Len(r) /\ Len(r) \in Nat
         /\ DOMAIN (s \o r) = 1..(Len(s) + Len(r))
         /\ \A k \in 1..(Len(s) + Len(r)) :
              (s \o r)[k] = IF k <= Len(s) THEN s[k] ELSE r[k - Len(s)]
<1> HIDE DEF Buffers
<1> QED
  BY ConcatProperties

LEMMA PrintedIs ==
  ASSUME NEW r \in [key : Seq(Texts), value : Texts]
  PROVE  /\ Printed(r) \in Seq(Buffers) /\ MembersLead(Printed(r))
         /\ r.key # <<>> => ValuesFollow(Printed(r))
<1> DEFINE members == [k \in DOMAIN r.key |-> Buffer("member", r.key[k])]
           ends == <<Buffer("value", r.value), Buffer("space", <<>>)>>
           n == Len(r.key)
           p == Printed(r)
<1>1. n \in Nat /\ DOMAIN r.key = 1..n /\ \A k \in 1..n : r.key[k] \in Texts
  OBVIOUS
<1>2. /\ members \in Seq(Buffers) /\ Len(members) = n
      /\ \A k \in 1..n : members[k].kind = "member"
  BY <1>1 DEF Buffers, Buffer
<1>3. /\ ends \in Seq(Buffers) /\ Len(ends) = 2
      /\ ends[1].kind = "value" /\ ends[2].kind = "space"
  BY DEF Buffers, Buffer
<1>4. p = members \o ends
  BY DEF Printed
<1>5. r.key # <<>> => n # 0
  OBVIOUS
<1> HIDE DEF members, ends, n, p
<1>6. /\ p \in Seq(Buffers) /\ DOMAIN p = 1..(n + 2)
      /\ \A k \in 1..(n + 2) : p[k] = IF k <= n THEN members[k] ELSE ends[k - n]
  <2>1. /\ members \o ends \in Seq(Buffers)
        /\ DOMAIN (members \o ends) = 1..(Len(members) + Len(ends))
        /\ \A k \in 1..(Len(members) + Len(ends)) :
             (members \o ends)[k] = IF k <= Len(members) THEN members[k] ELSE ends[k - Len(members)]
    <3>1. members \in Seq(Buffers) /\ ends \in Seq(Buffers)
      BY <1>2, <1>3
    <3> HIDE DEF Buffers
    <3> QED
      BY <3>1, Joined
  <2> QED
    BY <1>1, <1>2, <1>3, <1>4, <2>1
<1>7. /\ \A k \in 1..n : p[k].kind = "member"
      /\ p[n + 1].kind = "value" /\ p[n + 2].kind = "space"
  <2>1. \A k \in 1..n : p[k] = members[k]
    BY <1>1, <1>6
  <2>2. p[n + 1] = ends[1] /\ p[n + 2] = ends[2]
    BY <1>1, <1>6
  <2> QED
    BY <1>2, <1>3, <2>1, <2>2
<1>8. MembersLead(p)
  <2> SUFFICES ASSUME NEW k \in 1..(n + 2), p[k].kind = "member"
               PROVE  n + 1 \in 1..(n + 2) /\ n + 1 > k /\ p[n + 1].kind = "value"
    BY <1>6 DEF MembersLead
  <2>1. k # n + 1 /\ k # n + 2
    BY <1>7
  <2> QED
    BY <1>1, <1>7, <2>1
<1>9. ASSUME r.key # <<>>
       PROVE  ValuesFollow(p)
  BY <1>1, <1>5, <1>6, <1>7, <1>9 DEF ValuesFollow
<1> QED
  BY <1>6, <1>8, <1>9 DEF p

LEMMA PrintedAllIs ==
  ASSUME NEW t \in Tables
  PROVE  /\ PrintedAll(t) \in Seq(Buffers) /\ MembersLead(PrintedAll(t))
         /\ (\A k \in DOMAIN t : t[k].key # <<>>) => ValuesFollow(PrintedAll(t))
<1> DEFINE R == [key : Seq(Texts), value : Texts]
           ss == [k \in DOMAIN t |-> Printed(t[k])]
           V == {s \in Seq(Buffers) : MembersLead(s)}
           W == {s \in Seq(Buffers) : ValuesFollow(s)}
<1>0. Tables \subseteq Seq(R)
  BY AggregationsAssumption
<1> HIDE DEF R
<1>1. t \in Seq(R) /\ Len(t) \in Nat /\ DOMAIN t = 1..Len(t)
  BY <1>0
<1>2. \A k \in DOMAIN t : t[k] \in R
  BY <1>1
<1>3. CASE Len(t) = 0
  <2>1. ss = <<>>
    BY <1>1, <1>3
  <2>2. PrintedAll(t) = <<>>
    BY <2>1 DEF PrintedAll, FlattenSeq
  <2> QED
    BY <2>2 DEF MembersLead, ValuesFollow
<1>4. CASE Len(t) # 0
  <2>1. ss \in Seq(V)
    BY <1>1, <1>2, PrintedIs DEF R
  <2>2. ASSUME \A k \in DOMAIN t : t[k].key # <<>>
        PROVE  ss \in Seq(W)
    BY <1>1, <1>2, <2>2, PrintedIs DEF R
  <2>3. Len(ss) # 0
    BY <1>1, <1>4
  <2>4. ASSUME NEW s \in V, NEW r \in V
        PROVE  s \o r \in V
    <3> DEFINE q == s \o r
    <3>1. /\ q \in Seq(Buffers) /\ Len(s) \in Nat /\ Len(r) \in Nat
          /\ DOMAIN s = 1..Len(s) /\ DOMAIN r = 1..Len(r)
          /\ DOMAIN q = 1..(Len(s) + Len(r))
          /\ \A k \in 1..(Len(s) + Len(r)) : q[k] = IF k <= Len(s) THEN s[k] ELSE r[k - Len(s)]
      BY <2>4, Joined
    <3> HIDE DEF q
    <3>2. ASSUME NEW k \in DOMAIN q, q[k].kind = "member"
          PROVE  \E j \in DOMAIN q : j > k /\ q[j].kind = "value"
      <4>1. CASE k <= Len(s)
        <5>1. k \in DOMAIN s /\ q[k] = s[k]
          BY <3>1, <4>1
        <5>2. PICK j \in DOMAIN s : j > k /\ s[j].kind = "value"
          BY <2>4, <3>2, <5>1 DEF MembersLead
        <5>3. j \in DOMAIN q /\ q[j] = s[j]
          BY <3>1
        <5> QED
          BY <5>2, <5>3
      <4>2. CASE k > Len(s)
        <5> DEFINE m == k - Len(s)
        <5>1. m \in DOMAIN r /\ q[k] = r[m]
          BY <3>1, <4>2
        <5>2. PICK j \in DOMAIN r : j > m /\ r[j].kind = "value"
          BY <2>4, <3>2, <5>1 DEF MembersLead
        <5>3. /\ j + Len(s) \in 1..(Len(s) + Len(r)) /\ j + Len(s) > k
              /\ (j + Len(s)) - Len(s) = j /\ ~ j + Len(s) <= Len(s)
          BY <3>1, <4>2, <5>2
        <5>4. q[j + Len(s)].kind = "value" /\ j + Len(s) \in DOMAIN q
          BY <3>1, <5>2, <5>3
        <5> QED
          BY <5>3, <5>4
      <4> QED
        BY <3>1, <4>1, <4>2
    <3>3. MembersLead(q)
      BY <3>2 DEF MembersLead
    <3> QED
      BY <3>1, <3>3 DEF q
  <2>5. ASSUME NEW s \in W, NEW r \in W
        PROVE  s \o r \in W
    <3> DEFINE q == s \o r
    <3>1. /\ q \in Seq(Buffers) /\ Len(s) \in Nat /\ Len(r) \in Nat
          /\ DOMAIN s = 1..Len(s) /\ DOMAIN r = 1..Len(r)
          /\ DOMAIN q = 1..(Len(s) + Len(r))
          /\ \A k \in 1..(Len(s) + Len(r)) : q[k] = IF k <= Len(s) THEN s[k] ELSE r[k - Len(s)]
      BY <2>5, Joined
    <3> HIDE DEF q
    <3>2. ASSUME NEW k \in DOMAIN q, q[k].kind = "value"
          PROVE  k > 1 /\ q[k - 1].kind = "member"
      <4>1. CASE k <= Len(s)
        <5>1. k \in DOMAIN s /\ q[k] = s[k]
          BY <3>1, <4>1
        <5>2. k > 1 /\ s[k - 1].kind = "member"
          BY <2>5, <3>2, <5>1 DEF ValuesFollow
        <5>3. k - 1 \in 1..(Len(s) + Len(r)) /\ k - 1 <= Len(s)
          BY <3>1, <4>1, <5>2
        <5> QED
          BY <3>1, <5>2, <5>3
      <4>2. CASE k > Len(s)
        <5> DEFINE m == k - Len(s)
        <5>1. m \in DOMAIN r /\ q[k] = r[m]
          BY <3>1, <4>2
        <5>2. m > 1 /\ r[m - 1].kind = "member"
          BY <2>5, <3>2, <5>1 DEF ValuesFollow
        <5>3. /\ k > 1 /\ k - 1 \in 1..(Len(s) + Len(r)) /\ ~ k - 1 <= Len(s)
              /\ (k - 1) - Len(s) = m - 1
          BY <3>1, <4>2, <5>2
        <5> QED
          BY <3>1, <5>2, <5>3
      <4> QED
        BY <3>1, <4>1, <4>2
    <3>3. ValuesFollow(q)
      BY <3>2 DEF ValuesFollow
    <3> QED
      BY <3>1, <3>3 DEF q
  <2> HIDE DEF ss, V, W
  <2>6. FlattenSeq(ss) \in V
    BY <2>1, <2>3, <2>4, FlattenSeqIn
  <2>7. ASSUME \A k \in DOMAIN t : t[k].key # <<>>
        PROVE  FlattenSeq(ss) \in W
    BY <2>2, <2>3, <2>5, <2>7, FlattenSeqIn
  <2>8. PrintedAll(t) = FlattenSeq(ss)
    BY DEF PrintedAll, ss
  <2> QED
    BY <2>6, <2>7, <2>8 DEF V, W
<1> QED
  BY <1>1, <1>3, <1>4

\* What a printa with a format hands out are buffers as well.
LEMMA FormattedAllIs ==
  ASSUME NEW t \in Tables, NEW f \in Formats, Fits(f, t)
  PROVE  FormattedAll(f, t) \in Seq(Buffers)
<1> DEFINE ss == [k \in DOMAIN t |-> Formatted(f, t[k])]
<1>1. /\ Len(t) \in Nat /\ DOMAIN t = 1..Len(t)
      /\ \A k \in DOMAIN t : t[k].key \in Seq(Texts) /\ t[k].value \in Texts
  <2> DEFINE R == [key : Seq(Texts), value : Texts]
  <2>0. t \in Seq(R)
    BY AggregationsAssumption
  <2> HIDE DEF R
  <2>1. Len(t) \in Nat /\ DOMAIN t = 1..Len(t) /\ \A k \in DOMAIN t : t[k] \in R
    BY <2>0
  <2> QED
    BY <2>1 DEF R
<1>2. f \in Seq(Nat)
  BY AggregationsAssumption
<1>3. ASSUME NEW k \in DOMAIN t
      PROVE  Formatted(f, t[k]) \in Seq(Buffers)
  <2> DEFINE g == [n \in DOMAIN f |-> IF f[n] = 0 THEN Buffer("value", t[k].value)
                                               ELSE Buffer("member", t[k].key[f[n]])]
             e == Buffer("space", <<>>)
             z == <<e>>
  <2>1. ASSUME NEW n \in DOMAIN f, f[n] # 0
        PROVE  t[k].key[f[n]] \in Texts
    <3>1. f[n] \in Nat /\ f[n] <= Len(t[k].key)
      BY <1>2 DEF Fits
    <3>2. f[n] \in 1..Len(t[k].key) /\ t[k].key \in Seq(Texts)
      BY <1>1, <2>1, <3>1
    <3> QED
      BY <3>2, ElementOfSeq
  <2>2. \A n \in DOMAIN f : g[n] \in Buffers
    BY <1>1, <2>1 DEF Buffers, Buffer
  <2>3. e \in Buffers
    BY DEF Buffers, Buffer
  <2>4. DOMAIN f = 1..Len(f) /\ Len(f) \in Nat
    BY <1>2
  <2>5. g \in Seq(Buffers)
    <3> HIDE DEF Buffers
    <3> QED
      BY <2>2, <2>4
  <2> HIDE DEF e, Buffers
  <2>6. z \in Seq(Buffers)
    BY <2>3
  <2> HIDE DEF g, z
  <2>7. g \o z \in Seq(Buffers)
    BY <2>5, <2>6
  <2> QED
    BY <2>7 DEF Formatted, g, z, e
<1>4. CASE Len(t) = 0
  <2>1. ss \in [1..0 -> {}]
    BY <1>1, <1>4
  <2>2. FlattenSeq(ss) = <<>>
    BY <2>1, FlattenSeqEmpty
  <2> QED
    BY <2>2 DEF FormattedAll
<1>5. CASE Len(t) # 0
  <2> DEFINE V == Seq(Buffers)
  <2>1. ss \in Seq(V) /\ Len(ss) # 0
    <3> HIDE DEF V
    <3>1. \A k \in 1..Len(t) : ss[k] \in V
      BY <1>1, <1>3 DEF V
    <3> QED
      BY <1>1, <1>5, <3>1
  <2>2. \A x, y \in V : x \o y \in V
    <3> HIDE DEF Buffers
    <3> QED
      OBVIOUS
  <2> HIDE DEF ss, V
  <2>3. FlattenSeq(ss) \in V
    BY <2>1, <2>2, FlattenSeqIn
  <2> QED
    BY <2>3 DEF V, FormattedAll, ss
<1> QED
  BY <1>1, <1>4, <1>5

-----------------------------------------------------------------------------
(* The inductive invariant                                                 *)

\* Where agghandler is in the buffers.  Unless a printing was broken off or ended in
\* members, a value is still to come behind every member, and for a tuple that was
\* begun; where every key has members, aggregations has a tuple for every value; and
\* the routine runs only for the buffer at hand.
Orderly ==
  /\ pc = "idle" => todo = <<>>
  /\ pc = "collect" \/ cuts = 0 => MembersLead(todo)
  /\ cuts = 0 /\ tuple # NULL => \E j \in DOMAIN todo : todo[j].kind = "value"
  /\ pc = "collect" /\ (\A k \in DOMAIN table : table[k].key # <<>>) =>
       \A k \in DOMAIN todo : todo[k].kind = "value" =>
         (k = 1 /\ tuple # NULL) \/ (k > 1 /\ todo[k - 1].kind = "member")
  /\ pc = "panic" => \E k \in DOMAIN table : table[k].key = <<>>
  /\ at # "idle" => /\ pc \in {"collect", "work"}
                    /\ todo # <<>> /\ Head(todo).kind \in {"member", "value"}
                    /\ Head(todo).kind = "value" => tuple # NULL /\ holder = "hd"

AInv == TypeOK /\ CutInv /\ Orderly


LEMMA TailIs ==
  ASSUME NEW s \in Seq(Buffers), s # <<>>
  PROVE  /\ Head(s) = s[1] /\ Head(s) \in Buffers /\ 1 \in DOMAIN s
         /\ Tail(s) \in Seq(Buffers) /\ Len(s) \in Nat
         /\ DOMAIN s = 1..Len(s) /\ DOMAIN Tail(s) = 1..(Len(s) - 1)
         /\ \A k \in 1..(Len(s) - 1) : Tail(s)[k] = s[k + 1]
         /\ Tail(s) # <<>> => 2 \in DOMAIN s /\ Head(Tail(s)) = s[2]
         /\ 2 \in DOMAIN s => Tail(s) # <<>>
<1> HIDE DEF Buffers
<1>1. /\ Head(s) = s[1] /\ Head(s) \in Buffers /\ Tail(s) \in Seq(Buffers)
      /\ Len(s) \in Nat \ {0} /\ DOMAIN s = 1..Len(s)
      /\ Len(Tail(s)) = Len(s) - 1
      /\ \A k \in 1..(Len(s) - 1) : Tail(s)[k] = s[k + 1]
  BY HeadTailProperties
<1>2. DOMAIN Tail(s) = 1..(Len(s) - 1)
  BY <1>1
<1>3. Tail(s) # <<>> <=> Len(s) - 1 # 0
  BY <1>1
<1>4. Tail(s) # <<>> => Head(Tail(s)) = Tail(s)[1]
  OBVIOUS
<1> QED
  BY <1>1, <1>2, <1>3, <1>4

\* What handing out a buffer leaves of the order of the rest: the tuple is begun
\* if the buffer was a member, and gone if it was a value.
LEMMA TailKeeps ==
  ASSUME TypeOK, Orderly, todo # <<>>, todo' = Tail(todo),
         UNCHANGED <<table, cuts>>, pc' = pc, pc # "idle", at' = "idle",
         Head(todo).kind = "member" => tuple' # NULL,
         Head(todo).kind = "value" => tuple' = NULL,
         Head(todo).kind = "space" => tuple' = tuple
  PROVE  Orderly'
<1> DEFINE s == todo
           q == Tail(todo)
<1>1. /\ s \in Seq(Buffers) /\ s # <<>> /\ todo' = q
  BY DEF TypeOK, Buffers
<1>2. /\ Head(s) = s[1] /\ 1 \in DOMAIN s /\ Head(s).kind \in {"member", "value", "space"}
      /\ Len(s) \in Nat /\ DOMAIN s = 1..Len(s) /\ DOMAIN q = 1..(Len(s) - 1)
      /\ \A k \in 1..(Len(s) - 1) : q[k] = s[k + 1]
      /\ q # <<>> => 2 \in DOMAIN s /\ Head(q) = s[2]
      /\ 2 \in DOMAIN s => q # <<>>
  BY <1>1, TailIs DEF Buffers
<1> HIDE DEF q
<1>3. ASSUME pc = "collect" \/ cuts = 0
      PROVE  MembersLead(q)
  <2> SUFFICES ASSUME NEW k \in DOMAIN q, q[k].kind = "member"
               PROVE  \E j \in DOMAIN q : j > k /\ q[j].kind = "value"
    BY DEF MembersLead
  <2>1. k \in 1..(Len(s) - 1) /\ k + 1 \in DOMAIN s /\ q[k] = s[k + 1]
    BY <1>2
  <2>2. PICK j \in DOMAIN s : j > k + 1 /\ s[j].kind = "value"
    BY <1>3, <2>1 DEF Orderly, MembersLead
  <2>3. j - 1 \in 1..(Len(s) - 1) /\ j - 1 > k /\ (j - 1) + 1 = j
    BY <1>2, <2>1, <2>2
  <2> QED
    BY <1>2, <2>2, <2>3
<1>4. ASSUME cuts = 0, tuple' # NULL
      PROVE  \E j \in DOMAIN q : q[j].kind = "value"
  <2>1. \E j \in DOMAIN s : s[j].kind = "value" /\ j # 1
    <3>1. CASE Head(s).kind = "member"
      <4>1. 1 \in DOMAIN s /\ s[1].kind = "member" /\ MembersLead(s)
        BY <1>2, <1>4, <3>1 DEF Orderly
      <4>2. PICK j \in DOMAIN s : j > 1 /\ s[j].kind = "value"
        BY <4>1 DEF MembersLead
      <4> QED
        BY <4>2
    <3>2. CASE Head(s).kind = "space"
      <4>1. PICK j \in DOMAIN s : s[j].kind = "value"
        BY <1>4, <3>2 DEF Orderly
      <4> QED
        BY <1>2, <3>2, <4>1
    <3> QED
      BY <1>2, <1>4, <3>1, <3>2
  <2>2. PICK j \in DOMAIN s : s[j].kind = "value" /\ j # 1
    BY <2>1
  <2>3. j - 1 \in 1..(Len(s) - 1) /\ (j - 1) + 1 = j
    BY <1>2, <2>2
  <2> QED
    BY <1>2, <2>2, <2>3
<1>5. ASSUME pc = "collect", \A k \in DOMAIN table : table[k].key # <<>>,
             NEW k \in DOMAIN q, q[k].kind = "value"
      PROVE  (k = 1 /\ tuple' # NULL) \/ (k > 1 /\ q[k - 1].kind = "member")
  <2>1. k \in 1..(Len(s) - 1) /\ k + 1 \in DOMAIN s /\ s[k + 1].kind = "value"
    BY <1>2, <1>5
  <2>2. s[k].kind = "member"
    <3>1. k + 1 # 1 /\ (k + 1) - 1 = k
      BY <2>1
    <3> QED
      BY <1>5, <2>1, <3>1 DEF Orderly
  <2>3. CASE k = 1
    BY <1>2, <2>2, <2>3
  <2>4. CASE k # 1
    <3>1. k > 1 /\ k - 1 \in 1..(Len(s) - 1) /\ (k - 1) + 1 = k
      BY <1>2, <2>1, <2>4
    <3> QED
      BY <1>2, <2>2, <3>1
  <2> QED
    BY <2>3, <2>4
<1> QED
  BY <1>1, <1>3, <1>4, <1>5 DEF Orderly


LEMMA EmptyIsSeq ==
  ASSUME NEW S
  PROVE  <<>> \in Seq(S)
  OBVIOUS

LEMMA AInit ==
  ASSUME Init
  PROVE  AInv
<1>1. CutTypeOK /\ Loop
  BY CutAssumption DEF Init, NoFrame, CutTypeOK, Loop, LetterAt, OverrunByOne
<1>2. TypeOK
  BY <1>1, AggregationsAssumption DEF Init, TypeOK
<1>3. Orderly
  BY DEF Init, NoFrame, Orderly, MembersLead
<1> QED
  BY <1>1, <1>2, <1>3 DEF AInv, CutInv

\* What agghandler is handed is a text, and what it makes of it is one too.
LEMMA HandedText ==
  ASSUME AInv, todo # <<>>
  PROVE  Head(todo).text \in Texts \cup {<<>>} /\ Head(todo) \in Buffers
<1>1. Head(todo) \in Buffers
  BY TailIs DEF AInv, TypeOK, Buffers
<1> QED
  BY <1>1 DEF Buffers

\* The frame of cutWhiteSpace, while the variables of this module stand still.
LEMMA CutSteps ==
  ASSUME AInv, cutWhiteSpace
  PROVE  AInv'
<1>1. CutInv'
  BY RunKeeps DEF AInv, cutWhiteSpace
<1>2. TypeOK'
  BY <1>1 DEF AInv, TypeOK, CutInv, cutWhiteSpace, aggVars
<1>3. at # "idle"
  BY DEF cutWhiteSpace, Run, SkipBlank, CopyChar, Terminate, TerminateUnset
<1>4. Orderly'
  BY <1>3 DEF AInv, Orderly, MembersLead, cutWhiteSpace, aggVars
<1> QED
  BY <1>1, <1>2, <1>4 DEF AInv

\* A command that begins to print: aggregations in the order of PrintedAll, process
\* in any.
LEMMA BeginKeeps ==
  ASSUME AInv, pc = "idle", table' \in Tables, todo' \in Seq(Buffers),
         \/ pc' = "collect" /\ todo' = PrintedAll(table')
         \/ pc' = "work" /\ (cuts' = 0 => cuts = 0 /\ ~ EndsInMembers(todo')),
         UNCHANGED <<tuple, cutVars>>, cuts' \in 0..MaxCuts, pc' = "collect" => cuts' = cuts,
         list' \in {list, <<>>}, holder' \in {holder, "hd"}
  PROVE  AInv'
<1>1. /\ pc' = "collect" \/ cuts' = 0 => MembersLead(todo')
      /\ pc' = "collect" /\ (\A k \in DOMAIN table' : table'[k].key # <<>>)
           => ValuesFollow(todo')
      /\ cuts' = 0 => cuts = 0
  <2>1. CASE pc' = "collect"
    BY <2>1, PrintedAllIs
  <2>2. ASSUME ~ EndsInMembers(todo')
        PROVE  MembersLead(todo')
    BY <2>2, Zenon DEF EndsInMembers, MembersLead
  <2> QED
    BY <2>1, <2>2
<1>2. todo = <<>> /\ at = "idle" /\ (cuts = 0 => tuple = NULL)
  BY DEF AInv, Orderly
<1>3. CutInv'
  BY DEF AInv, CutInv, CutTypeOK, Loop, LetterAt, OverrunByOne, cutVars
<1>4. TypeOK'
  <2>1. list' \in Seq(Seq(Words) \cup Words) /\ holder' \in {"none", "hd", "script"}
    BY Zenon, EmptyIsSeq DEF AInv, TypeOK
  <2>2. tuple' = tuple /\ cuts' \in 0..MaxCuts /\ pc' \in {"collect", "work"}
    OBVIOUS
  <2> QED
    BY <1>3, <2>1, <2>2 DEF AInv, TypeOK, CutInv, Buffers
<1>5. Orderly'
  BY <1>1, <1>2 DEF Orderly, MembersLead, ValuesFollow, cutVars
<1> QED
  BY <1>3, <1>4, <1>5 DEF AInv

\* A command that ends, and leaves nothing to print.
LEMMA EndKeeps ==
  ASSUME AInv, at = "idle", todo' = <<>>, table' = <<>>, pc' = "idle",
         UNCHANGED <<tuple, cutVars>>,
         list' \in {list, <<>>}, holder' \in {holder, "script"},
         cuts' \in 0..MaxCuts, cuts' = 0 => tuple = NULL
  PROVE  AInv'
<1>1. CutInv'
  BY DEF AInv, CutInv, CutTypeOK, Loop, LetterAt, OverrunByOne, cutVars
<1>2. TypeOK'
  <2>1. list' \in Seq(Seq(Words) \cup Words) /\ holder' \in {"none", "hd", "script"}
    BY Zenon, EmptyIsSeq DEF AInv, TypeOK
  <2>2. tuple' = tuple /\ <<>> \in Seq(Buffers)
    BY EmptyIsSeq
  <2> QED
    BY <1>1, <2>1, <2>2 DEF AInv, TypeOK, CutInv, Buffers
<1>3. Orderly'
  BY DEF Orderly, MembersLead, cutVars
<1> QED
  BY <1>1, <1>2, <1>3 DEF AInv

LEMMA CutsKeep ==
  ASSUME AInv, MemberCuts \/ ValueCuts
  PROVE  AInv'
<1>1. /\ pc \in {"collect", "work"} /\ todo # <<>>
      /\ Head(todo).kind \in {"member", "value"}
      /\ Head(todo).kind = "value" => tuple # NULL /\ holder = "hd"
      /\ Call(Head(todo).text)
      /\ UNCHANGED <<tuple, list, todo, pc, holder, table, cuts>>
  BY DEF MemberCuts, ValueCuts, Handed
<1>2. CutInv'
  BY <1>1, HandedText, CallKeeps DEF AInv
<1>3. TypeOK'
  BY <1>1, <1>2 DEF AInv, TypeOK, CutInv
<1>4. Orderly'
  BY <1>1 DEF AInv, Orderly, MembersLead
<1> QED
  BY <1>2, <1>3, <1>4 DEF AInv

LEMMA MemberKeeps ==
  ASSUME AInv, Member
  PROVE  AInv'
<1> DEFINE r == Result
<1>1. /\ pc \in {"collect", "work"} /\ todo # <<>> /\ Head(todo).kind = "member"
      /\ at = "return" /\ Return
      /\ tuple' = IF tuple = NULL THEN <<r>> ELSE Append(tuple, r)
      /\ todo' = Tail(todo)
      /\ UNCHANGED <<list, pc, holder, table, cuts>>
  BY DEF Member, Handed, Return
<1>2. r \in Words
  BY <1>1, ResultIsText DEF AInv, Words
<1> HIDE DEF r
<1>3. tuple' \in Seq(Words)
  <2>1. CASE tuple = NULL
    <3>1. PICK x : x = <<r>>
      OBVIOUS
    <3>2. x \in Seq(Words)
      BY <1>2, <3>1
    <3> QED
      BY <1>1, <2>1, <3>1, <3>2
  <2>2. CASE tuple # NULL
    <3>1. tuple \in Seq(Words)
      BY <2>2 DEF AInv, TypeOK
    <3>2. Append(tuple, r) \in Seq(Words)
      BY <1>2, <3>1
    <3> QED
      BY <1>1, <2>2, <3>2
  <2> QED
    BY <2>1, <2>2
<1>4. tuple' # NULL
  BY <1>3, AggregationsAssumption DEF Words
<1>5. CutInv' /\ at' = "idle"
  BY <1>1, ReturnKeeps DEF AInv, Return
<1>6. todo' \in Seq(Buffers)
  BY <1>1, TailIs DEF AInv, TypeOK, Buffers
<1>7. TypeOK'
  BY <1>1, <1>3, <1>5, <1>6 DEF AInv, TypeOK, CutInv, Buffers
<1>8. Orderly'
  BY <1>1, <1>4, <1>5, TailKeeps DEF AInv
<1> QED
  BY <1>5, <1>7, <1>8 DEF AInv

LEMMA ValueKeeps ==
  ASSUME AInv, Value
  PROVE  AInv'
<1> DEFINE r == Result
           E == Seq(Words) \cup Words
<1>1. /\ pc \in {"collect", "work"} /\ todo # <<>> /\ Head(todo).kind = "value"
      /\ at = "return" /\ Return
      /\ list' = IF pc = "collect" THEN list \o <<tuple, r>> ELSE list
      /\ tuple' = NULL
      /\ todo' = Tail(todo)
      /\ UNCHANGED <<pc, holder, table, cuts>>
  BY DEF Value, Handed, Return
<1>2. r \in Words
  BY <1>1, ResultIsText DEF AInv, Words
<1>3. tuple \in Seq(Words)
  BY <1>1 DEF AInv, TypeOK, Orderly
<1>4. list \in Seq(E)
  BY DEF AInv, TypeOK
<1>5. r \in E /\ tuple \in E
  BY <1>2, <1>3
<1> HIDE DEF r, E
<1>6. list' \in Seq(E)
  <2>1. PICK x : x = <<tuple, r>>
    OBVIOUS
  <2>2. x \in Seq(E)
    BY <1>5, <2>1
  <2>3. list \o x \in Seq(E)
    BY <1>4, <2>2
  <2> QED
    BY <1>1, <1>4, <2>1, <2>3
<1>7. CutInv' /\ at' = "idle"
  BY <1>1, ReturnKeeps DEF AInv, Return
<1>8. todo' \in Seq(Buffers)
  BY <1>1, TailIs DEF AInv, TypeOK, Buffers
<1>9. TypeOK'
  BY <1>1, <1>6, <1>7, <1>8 DEF AInv, TypeOK, CutInv, Buffers, E
<1>10. Orderly'
  BY <1>1, <1>7, TailKeeps DEF AInv
<1> QED
  BY <1>7, <1>9, <1>10 DEF AInv

LEMMA SpaceKeeps ==
  ASSUME AInv, Space
  PROVE  AInv'
<1>1. /\ pc \in {"collect", "work"} /\ todo # <<>> /\ Head(todo).kind = "space"
      /\ todo' = Tail(todo)
      /\ UNCHANGED <<tuple, list, pc, holder, table, cuts, cutVars>>
  BY DEF Space, Handed
<1>2. at = "idle"
  BY <1>1 DEF AInv, Orderly
<1>3. CutInv' /\ at' = "idle"
  BY <1>1, <1>2 DEF AInv, CutInv, CutTypeOK, Loop, LetterAt, OverrunByOne, cutVars
<1>4. todo' \in Seq(Buffers)
  BY <1>1, TailIs DEF AInv, TypeOK, Buffers
<1>5. TypeOK'
  BY <1>1, <1>3, <1>4 DEF AInv, TypeOK, CutInv, Buffers
<1>6. Orderly'
  BY <1>1, <1>3, TailKeeps DEF AInv
<1> QED
  BY <1>3, <1>5, <1>6 DEF AInv

\* A value without a tuple, or without a list to go to.
LEMMA StopKeeps ==
  ASSUME AInv, ValuePanics \/ ValueHasNoList
  PROVE  AInv'
<1>1. /\ todo # <<>> /\ Head(todo).kind = "value"
      /\ tuple = NULL \/ holder # "hd"
      /\ pc' \in {"panic", "printa panic", "undefined"}
      /\ pc' = "panic" => tuple = NULL /\ pc = "collect"
      /\ UNCHANGED <<tuple, list, todo, holder, table, cuts, cutVars>>
  BY DEF ValuePanics, ValueHasNoList, Handed
<1>2. at = "idle" /\ at' = "idle"
  BY <1>1 DEF AInv, Orderly, cutVars
<1>3. CutInv'
  BY <1>1, <1>2 DEF AInv, CutInv, CutTypeOK, Loop, LetterAt, OverrunByOne, cutVars
<1>4. TypeOK'
  BY <1>1, <1>3 DEF AInv, TypeOK, CutInv
<1>5. ASSUME pc' = "panic"
      PROVE  \E k \in DOMAIN table : table[k].key = <<>>
  <2>1. 1 \in DOMAIN todo /\ todo[1].kind = "value"
    BY <1>1, TailIs DEF AInv, TypeOK, Buffers
  <2>2. tuple = NULL /\ pc = "collect" /\ ~ (1 > 1)
    BY <1>1, <1>5
  <2> QED
    BY <2>1, <2>2, Zenon DEF AInv, Orderly
<1>6. Orderly'
  BY <1>1, <1>2, <1>5 DEF AInv, Orderly, MembersLead
<1> QED
  BY <1>3, <1>4, <1>6 DEF AInv

LEMMA AggregationsInductive ==
  ASSUME AInv, [Next]_vars
  PROVE  AInv'
<1>1. CASE UNCHANGED vars
  <2>1. CutInv'
    BY <1>1 DEF vars, cutVars, AInv, CutInv, CutTypeOK, Loop, LetterAt, OverrunByOne
  <2>2. TypeOK'
    BY <1>1, <2>1 DEF vars, aggVars, AInv, CutInv, TypeOK
  <2>3. Orderly'
    BY <1>1 DEF vars, aggVars, cutVars, AInv, Orderly, MembersLead
  <2> QED
    BY <2>1, <2>2, <2>3 DEF AInv
<1>2. CASE AggregationsBegin
  <2>1. cuts' \in 0..MaxCuts
    BY <1>2 DEF AggregationsBegin, AInv, TypeOK
  <2>2. todo' \in Seq(Buffers)
    BY <1>2, PrintedAllIs DEF AggregationsBegin
  <2> QED
    BY <1>2, <2>1, <2>2, BeginKeeps DEF AggregationsBegin
<1>3. CASE AggregationsDone
  <2>1. at = "idle" /\ (cuts = 0 => tuple = NULL) /\ cuts \in 0..MaxCuts
    BY <1>3 DEF AInv, Orderly, TypeOK, AggregationsDone
  <2> QED
    BY <1>3, <2>1, EndKeeps DEF AggregationsDone
<1>4. CASE AggregationsFails
  <2>1. cuts + 1 \in 0..MaxCuts /\ cuts + 1 # 0
    BY <1>4, AggregationsAssumption DEF AInv, TypeOK, AggregationsFails
  <2> QED
    BY <1>4, <2>1, EndKeeps DEF AggregationsFails
<1>5. CASE ProcessPrinta
  <2>1. /\ table' \in Tables /\ pc = "idle" /\ pc' = "work"
        /\ cuts' = IF EndsInMembers(todo') THEN cuts + 1 ELSE cuts
        /\ cuts' <= MaxCuts /\ UNCHANGED <<tuple, list, holder, cutVars>>
    BY <1>5 DEF ProcessPrinta
  <2>2. todo' \in Seq(Buffers)
    <3>1. CASE todo' = PrintedAll(table')
      BY <2>1, <3>1, PrintedAllIs
    <3>2. CASE \E f \in Formats : Fits(f, table') /\ todo' = FormattedAll(f, table')
      BY <2>1, <3>2, FormattedAllIs
    <3> QED
      BY <1>5, <3>1, <3>2 DEF ProcessPrinta
  <2>3. cuts \in 0..MaxCuts /\ MaxCuts \in Nat
    BY AggregationsAssumption DEF AInv, TypeOK
  <2>4. cuts' \in 0..MaxCuts /\ (cuts' = 0 => cuts = 0 /\ ~ EndsInMembers(todo'))
    BY <2>1, <2>3
  <2> QED
    BY <2>1, <2>2, <2>4, BeginKeeps
<1>6. CASE ProcessDone
  <2>1. at = "idle" /\ (cuts = 0 => tuple = NULL) /\ cuts \in 0..MaxCuts
    BY <1>6 DEF AInv, Orderly, TypeOK, ProcessDone
  <2> QED
    BY <1>6, <2>1, EndKeeps DEF ProcessDone
<1>p. CASE ProcessFails
  <2>1. cuts + 1 \in 0..MaxCuts /\ cuts + 1 # 0
    BY <1>p, AggregationsAssumption DEF AInv, TypeOK, ProcessFails
  <2> QED
    BY <1>p, <2>1, EndKeeps DEF ProcessFails
<1>7. CASE MemberCuts \/ ValueCuts
  BY <1>7, CutsKeep
<1>8. CASE Member
  BY <1>8, MemberKeeps
<1>9. CASE Value
  BY <1>9, ValueKeeps
<1>10. CASE ValuePanics \/ ValueHasNoList
  BY <1>10, StopKeeps
<1>11. CASE Space
  BY <1>11, SpaceKeeps
<1>12. CASE cutWhiteSpace
  BY <1>12, CutSteps
<1> QED
  BY <1>1, <1>2, <1>3, <1>4, <1>5, <1>6, <1>p, <1>7, <1>8, <1>9, <1>10, <1>11, <1>12 DEF Next

-----------------------------------------------------------------------------
(* Where a buffer is in what is handed out, and a record in the result.    *)

Records == [key : Seq(Texts), value : Texts]

LEMMA TableIs ==
  ASSUME NEW t \in Tables
  PROVE  /\ Len(t) \in Nat /\ DOMAIN t = 1..Len(t)
         /\ \A r \in 1..Len(t) : /\ t[r] \in Records
                                 /\ t[r].key \in Seq(Texts) /\ Len(t[r].key) \in Nat
                                 /\ DOMAIN t[r].key = 1..Len(t[r].key)
<1>1. t \in Seq(Records)
  BY AggregationsAssumption DEF Records
<1>2. Len(t) \in Nat /\ DOMAIN t = 1..Len(t) /\ \A r \in 1..Len(t) : t[r] \in Records
  BY <1>1
<1>3. ASSUME NEW x \in Records
      PROVE  x.key \in Seq(Texts) /\ Len(x.key) \in Nat /\ DOMAIN x.key = 1..Len(x.key)
  BY DEF Records
<1> QED
  BY <1>2, <1>3

\* The buffers of one record, one by one.
LEMMA PrintedOne ==
  ASSUME NEW r \in Records
  PROVE  /\ Printed(r) \in Seq(Buffers) /\ Len(Printed(r)) = Len(r.key) + 2
         /\ \A m \in 1..Len(r.key) : Printed(r)[m] = Buffer("member", r.key[m])
         /\ Printed(r)[Len(r.key) + 1] = Buffer("value", r.value)
         /\ Printed(r)[Len(r.key) + 2] = Buffer("space", <<>>)
<1> DEFINE members == [k \in DOMAIN r.key |-> Buffer("member", r.key[k])]
           ends == <<Buffer("value", r.value), Buffer("space", <<>>)>>
           n == Len(r.key)
           p == members \o ends
<1>1. n \in Nat /\ DOMAIN r.key = 1..n /\ \A k \in 1..n : r.key[k] \in Texts
  BY DEF Records
<1>2. /\ members \in Seq(Buffers) /\ Len(members) = n
      /\ \A k \in 1..n : members[k] = Buffer("member", r.key[k])
  BY <1>1 DEF Buffers, Buffer
<1>3. /\ ends \in Seq(Buffers) /\ Len(ends) = 2
      /\ ends[1] = Buffer("value", r.value) /\ ends[2] = Buffer("space", <<>>)
  BY DEF Buffers, Buffer, Records
<1>4. Printed(r) = p
  BY DEF Printed
<1> HIDE DEF members, ends, n
<1>5. /\ p \in Seq(Buffers) /\ Len(p) = n + 2
      /\ \A k \in 1..(n + 2) : p[k] = IF k <= n THEN members[k] ELSE ends[k - n]
  <2>1. /\ members \o ends \in Seq(Buffers)
        /\ DOMAIN (members \o ends) = 1..(Len(members) + Len(ends))
        /\ \A k \in 1..(Len(members) + Len(ends)) :
             (members \o ends)[k] = IF k <= Len(members) THEN members[k] ELSE ends[k - Len(members)]
    <3>1. members \in Seq(Buffers) /\ ends \in Seq(Buffers)
      BY <1>2, <1>3
    <3> HIDE DEF Buffers
    <3> QED
      BY <3>1, Joined
  <2>2. Len(members \o ends) = Len(members) + Len(ends)
    BY <1>2, <1>3, ConcatProperties
  <2> QED
    BY <1>1, <1>2, <1>3, <2>1, <2>2
<1> HIDE DEF p
<1>6. \A k \in 1..n : p[k] = Buffer("member", r.key[k])
  BY <1>1, <1>2, <1>5
<1>7. p[n + 1] = ends[1] /\ p[n + 2] = ends[2]
  BY <1>1, <1>5
<1> QED
  BY <1>3, <1>4, <1>5, <1>6, <1>7 DEF n

\* What is handed out for the first k records of t.
UpTo(t, k) == FlattenSeq([j \in 1..k |-> Printed(t[j])])

LEMMA PrintedAt ==
  ASSUME NEW t \in Tables, NEW r \in 1..Len(t)
  PROVE  /\ Len(UpTo(t, r - 1)) \in Nat
         /\ Len(UpTo(t, r)) = Len(UpTo(t, r - 1)) + Len(Printed(t[r]))
         /\ LiesAt(Printed(t[r]), Len(UpTo(t, r - 1)), PrintedAll(t))
<1> DEFINE n == Len(t)
           ss == [j \in 1..n |-> Printed(t[j])]
           k == r - 1
<1>1. n \in Nat /\ k \in Nat /\ k < n /\ k + 1 = r /\ DOMAIN t = 1..n
  BY TableIs
<1>2. ss \in [1..n -> Seq(Buffers)]
  BY TableIs, PrintedOne
<1>3. ss[k + 1] = Printed(t[r]) /\ Len(ss[k + 1]) = Len(t[r].key) + 2
  BY <1>1, TableIs, PrintedOne
<1>4. [j \in 1..k |-> Printed(t[j])] = [j \in 1..k |-> ss[j]]
  BY <1>1
<1>5. [j \in 1..r |-> Printed(t[j])] = [j \in 1..r |-> ss[j]]
  BY <1>1
<1>6. [j \in 1..n |-> Printed(t[j])] = [j \in 1..n |-> ss[j]]
  OBVIOUS
<1>7. /\ UpTo(t, k) = Joint(ss, k) /\ UpTo(t, r) = Joint(ss, k + 1)
      /\ PrintedAll(t) = Joint(ss, n)
  BY <1>1, <1>4, <1>5, <1>6 DEF UpTo, PrintedAll, Joint
<1> HIDE DEF ss, n, k
<1>8. /\ Len(Joint(ss, k)) \in Nat
      /\ Len(Joint(ss, k + 1)) = Len(Joint(ss, k)) + Len(ss[k + 1])
      /\ LiesAt(ss[k + 1], Len(Joint(ss, k)), Joint(ss, n))
  BY <1>1, <1>2, JointAt
<1>9. /\ Len(UpTo(t, k)) \in Nat
      /\ Len(UpTo(t, r)) = Len(UpTo(t, k)) + Len(Printed(t[r]))
      /\ LiesAt(Printed(t[r]), Len(UpTo(t, k)), PrintedAll(t))
  BY <1>3, <1>7, <1>8
<1> QED
  BY <1>9 DEF k

LEMMA PrintedEnds ==
  ASSUME NEW t \in Tables
  PROVE  /\ UpTo(t, 0) = <<>> /\ UpTo(t, Len(t)) = PrintedAll(t)
         /\ Len(PrintedAll(t)) \in Nat
<1>1. [j \in 1..0 |-> Printed(t[j])] \in [1..0 -> {}]
  OBVIOUS
<1>2. UpTo(t, 0) = <<>>
  BY <1>1, FlattenSeqEmpty DEF UpTo
<1>3. UpTo(t, Len(t)) = PrintedAll(t)
  BY TableIs DEF UpTo, PrintedAll
<1> QED
  BY <1>2, <1>3, PrintedAllIs

LEMMA PairsAre ==
  ASSUME NEW t \in Tables
  PROVE  /\ Len(Pairs(t)) = 2 * Len(t)
         /\ \E W : Pairs(t) \in Seq(W)
         /\ \A r \in 1..Len(t) : /\ Pairs(t)[2 * r - 1] = ShownKey(t[r])
                                 /\ Pairs(t)[2 * r] = Shown(t[r].value)
<1> DEFINE n == Len(t)
           W == {ShownKey(t[j]) : j \in 1..n} \cup {Shown(t[j].value) : j \in 1..n}
           ss == [j \in 1..n |-> <<ShownKey(t[j]), Shown(t[j].value)>>]
           S == {k \in Nat : k <= n => Len(Joint(ss, k)) = 2 * k}
<1>1. n \in Nat /\ DOMAIN t = 1..n
  BY TableIs
<1>2. ASSUME NEW j \in 1..n
      PROVE  /\ ss[j] \in Seq(W) /\ Len(ss[j]) = 2
             /\ ss[j][1] = ShownKey(t[j]) /\ ss[j][2] = Shown(t[j].value)
  <2>1. PICK x, y : x = ShownKey(t[j]) /\ y = Shown(t[j].value)
    OBVIOUS
  <2>2. x \in W /\ y \in W
    BY <2>1
  <2>3. ss[j] = <<x, y>>
    BY <2>1
  <2> HIDE DEF W, ss
  <2> QED
    BY <2>1, <2>2, <2>3
<1>3. Pairs(t) = Joint(ss, n)
  <2>1. [k \in DOMAIN t |-> <<ShownKey(t[k]), Shown(t[k].value)>>] = [j \in 1..n |-> ss[j]]
    BY <1>1
  <2> QED
    BY <2>1 DEF Pairs, Joint
<1>4. ss \in [1..n -> Seq(W)]
  <2>1. ss = [j \in 1..n |-> ss[j]]
    OBVIOUS
  <2> HIDE DEF ss, W
  <2> QED
    BY <1>2, <2>1
<1> HIDE DEF W, ss, n
<1>5. 0 \in S
  <2>1. Len(Joint(ss, 0)) = 0
    BY JointEmpty
  <2> QED
    BY <2>1
<1>6. ASSUME NEW k \in Nat, k \in S
      PROVE  k + 1 \in S
  <2> SUFFICES ASSUME k + 1 <= n
               PROVE  Len(Joint(ss, k + 1)) = 2 * (k + 1)
    OBVIOUS
  <2>1. k < n /\ k <= n /\ k + 1 \in 1..n
    BY <1>1
  <2>2. Len(Joint(ss, k + 1)) = Len(Joint(ss, k)) + Len(ss[k + 1])
    <3>1. n \in Nat /\ k < n
      BY <1>1, <2>1
    <3> QED
      BY <1>4, <3>1, JointAt, Zenon
  <2>3. Len(Joint(ss, k)) = 2 * k /\ Len(ss[k + 1]) = 2
    BY <1>2, <1>6, <2>1
  <2> QED
    BY <2>2, <2>3
<1>7. Nat \subseteq S
  BY <1>5, <1>6, SetInduction
<1>8. \A k \in 0..n : Len(Joint(ss, k)) = 2 * k
  BY <1>1, <1>7
<1>9. ASSUME NEW r \in 1..n
      PROVE  Pairs(t)[2 * r - 1] = ShownKey(t[r]) /\ Pairs(t)[2 * r] = Shown(t[r].value)
  <2>1. r - 1 \in Nat /\ r - 1 < n /\ (r - 1) + 1 = r /\ r - 1 \in 0..n
    BY <1>1
  <2>2. LiesAt(ss[(r - 1) + 1], Len(Joint(ss, r - 1)), Joint(ss, n))
    <3>1. n \in Nat /\ r - 1 \in Nat /\ r - 1 < n
      BY <1>1, <2>1
    <3> QED
      BY <1>4, <3>1, JointAt, Zenon
  <2>3. Len(ss[r]) = 2 /\ Len(Joint(ss, r - 1)) = 2 * (r - 1)
    BY <1>2, <1>8, <2>1
  <2>4. \A m \in 1..2 : Joint(ss, n)[2 * (r - 1) + m] = ss[r][m]
    BY <2>1, <2>2, <2>3 DEF LiesAt
  <2>5. 2 * (r - 1) + 1 = 2 * r - 1 /\ 2 * (r - 1) + 2 = 2 * r
    BY <1>1
  <2>6. Joint(ss, n)[2 * (r - 1) + 1] = ss[r][1] /\ Joint(ss, n)[2 * (r - 1) + 2] = ss[r][2]
    BY <2>4
  <2> QED
    BY <1>2, <1>3, <2>5, <2>6
<1>10. Joint(ss, n) \in Seq(W) /\ Len(Joint(ss, n)) = 2 * n
  <2>1. n \in 0..n
    BY <1>1
  <2> QED
    BY <1>1, <1>4, <1>8, <2>1, JointType
<1> QED
  BY <1>3, <1>9, <1>10 DEF n

-----------------------------------------------------------------------------
(* What was gathered: the second invariant, for a list that is being made. *)
(* The buffers to come are the rest of PrintedAll(table); where they begin *)
(* says how far the tuple and the list are.                                *)

KeyLen(r) == Len(table[r].key)

\* Of t, m buffers of record r were handed out, and none of a later record: the
\* rest is s.
RestIs(t, s, r, m) ==
  LET c == Len(UpTo(t, r - 1)) + m
  IN /\ Len(PrintedAll(t)) = c + Len(s)
     /\ \A j \in 1..Len(s) : s[j] = PrintedAll(t)[c + j]

HandedOut(r, m) == RestIs(table, todo, r, m)

\* The tuple e ends in the first m members of the key of record r.  It has no
\* others, except what earlier printings left behind for the first record.
EndsIn(e, r, m) ==
  /\ e \in Seq(Words)
  /\ Len(e) >= m
  /\ \A j \in 1..m : e[(Len(e) - m) + j] = Shown(table[r].key[j])
  /\ r > 1 \/ cuts = 0 => Len(e) = m

\* The list has the tuples and the values of the first r records.
Gathered(r) ==
  /\ Len(list) = 2 * r
  /\ \A k \in 1..r : /\ list[2 * k] = Shown(table[k].value)
                     /\ EndsIn(list[2 * k - 1], k, KeyLen(k))

\* m members of record r were handed out, and not its value.
Begun(r, m) ==
  /\ HandedOut(r, m) /\ m <= KeyLen(r)
  /\ tuple = NULL => m = 0
  /\ tuple # NULL => EndsIn(tuple, r, m)
  /\ Gathered(r - 1)

\* The value of record r was handed out, and not the white space behind it.
Ended(r) ==
  /\ HandedOut(r, KeyLen(r) + 1)
  /\ tuple = NULL
  /\ Gathered(r)

AllGathered == todo = <<>> /\ Gathered(Len(table))

\* cutWhiteSpace works on the buffer at hand.
OfTheBuffer == at # "idle" => csource = Head(todo).text

Collecting == pc = "collect" =>
  \/ AllGathered
  \/ \E r \in DOMAIN table : Ended(r) \/ \E m \in Nat : Begun(r, m)

GInv == AInv /\ OfTheBuffer /\ Collecting

LEMMA RecordIs ==
  ASSUME AInv, NEW r \in DOMAIN table
  PROVE  /\ table \in Tables /\ r \in 1..Len(table) /\ Len(table) \in Nat
         /\ table[r] \in Records /\ KeyLen(r) \in Nat /\ DOMAIN table[r].key = 1..KeyLen(r)
<1>1. table \in Tables
  <2>1. DOMAIN (<<>>) = {}
    OBVIOUS
  <2> QED
    BY <2>1 DEF AInv, TypeOK
<1> QED
  BY <1>1, TableIs DEF KeyLen

\* What is handed out next, when it is not yet all of record r.
LEMMA HeadIs ==
  ASSUME AInv, NEW r \in DOMAIN table, NEW m \in 0..(KeyLen(r) + 1), HandedOut(r, m)
  PROVE  /\ todo # <<>>
         /\ m < KeyLen(r) => Head(todo) = Buffer("member", table[r].key[m + 1])
         /\ m = KeyLen(r) => Head(todo) = Buffer("value", table[r].value)
         /\ m = KeyLen(r) + 1 => Head(todo) = Buffer("space", <<>>)
<1> DEFINE c == Len(UpTo(table, r - 1))
           p == Printed(table[r])
           all == PrintedAll(table)
           n == KeyLen(r)
<1>1. table \in Tables /\ r \in 1..Len(table) /\ table[r] \in Records /\ n \in Nat
  BY RecordIs
<1>2. /\ Len(p) = n + 2
      /\ \A k \in 1..n : p[k] = Buffer("member", table[r].key[k])
      /\ p[n + 1] = Buffer("value", table[r].value)
      /\ p[n + 2] = Buffer("space", <<>>)
  BY <1>1, PrintedOne DEF KeyLen
<1>3. c \in Nat /\ LiesAt(p, c, all)
  BY <1>1, PrintedAt
<1>4. /\ Len(all) = c + m + Len(todo)
      /\ \A j \in 1..Len(todo) : todo[j] = all[c + m + j]
  BY DEF HandedOut, RestIs
<1>5. todo \in Seq(Buffers) /\ Len(todo) \in Nat
  <2>1. todo \in Seq(Buffers)
    BY Zenon DEF AInv, TypeOK, Buffers
  <2> HIDE DEF Buffers
  <2> QED
    BY <2>1
<1>6. c + Len(p) <= Len(all) /\ \A k \in 1..Len(p) : all[c + k] = p[k]
  BY <1>3 DEF LiesAt
<1> HIDE DEF c, p, all, n
<1>7. m \in Nat /\ m <= n + 1
  BY <1>1 DEF n
<1>8. Len(todo) >= 1
  BY <1>1, <1>2, <1>3, <1>4, <1>5, <1>6, <1>7
<1>9. todo[1] = p[m + 1]
  <2>1. c + m + 1 = c + (m + 1) /\ m + 1 \in 1..Len(p)
    BY <1>1, <1>2, <1>3, <1>7
  <2> QED
    BY <1>4, <1>5, <1>6, <1>8, <2>1
<1>10. todo # <<>> /\ Head(todo) = todo[1]
  BY <1>5, <1>8, TailIs
<1>11. m < n => m + 1 \in 1..n
  BY <1>1, <1>7
<1>12. m = n + 1 => m + 1 = n + 2
  BY <1>1
<1>13. /\ m < n => p[m + 1] = Buffer("member", table[r].key[m + 1])
       /\ m = n => p[m + 1] = Buffer("value", table[r].value)
       /\ m = n + 1 => p[m + 1] = Buffer("space", <<>>)
  BY <1>2, <1>11, <1>12
<1> QED
  BY <1>9, <1>10, <1>13 DEF n

LEMMA NextBuffer ==
  ASSUME NEW t, NEW s \in Seq(Buffers), s # <<>>, NEW r, NEW m \in Nat,
         Len(UpTo(t, r - 1)) \in Nat, RestIs(t, s, r, m)
  PROVE  RestIs(t, Tail(s), r, m + 1)
<1> DEFINE c == Len(UpTo(t, r - 1))
           all == PrintedAll(t)
           q == Tail(s)
<1>1. /\ Len(all) = c + m + Len(s)
      /\ \A j \in 1..Len(s) : s[j] = all[c + m + j]
  BY DEF RestIs
<1>2. /\ Len(s) \in Nat \ {0} /\ Len(q) = Len(s) - 1
      /\ \A j \in 1..(Len(s) - 1) : q[j] = s[j + 1]
  BY HeadTailProperties
<1> HIDE DEF q, all
<1>3. c \in Nat
  OBVIOUS
<1> HIDE DEF c
<1>4. Len(all) = c + (m + 1) + Len(q)
  BY <1>1, <1>2, <1>3
<1>5. ASSUME NEW j \in 1..Len(q)
      PROVE  q[j] = all[c + (m + 1) + j]
  <2>1. j \in 1..(Len(s) - 1) /\ j + 1 \in 1..Len(s) /\ c + m + (j + 1) = c + (m + 1) + j
    BY <1>2, <1>3
  <2> QED
    BY <1>1, <1>2, <2>1
<1> QED
  BY <1>4, <1>5 DEF RestIs, c, all, q

\* The white space was the last buffer of a record.
LEMMA NextRecord ==
  ASSUME NEW t \in Tables, NEW s \in Seq(Buffers), NEW r \in 1..Len(t),
         RestIs(t, s, r, Len(t[r].key) + 2)
  PROVE  /\ r = Len(t) => s = <<>>
         /\ r # Len(t) => r + 1 \in DOMAIN t /\ RestIs(t, s, r + 1, 0)
<1> DEFINE c == Len(UpTo(t, r - 1))
           d == Len(UpTo(t, r))
           all == PrintedAll(t)
           n == Len(t[r].key)
<1>1. Len(t) \in Nat /\ t[r] \in Records /\ n \in Nat
  BY TableIs
<1>2. Len(Printed(t[r])) = n + 2
  BY <1>1, PrintedOne
<1>3. c \in Nat /\ d = c + Len(Printed(t[r]))
  BY PrintedAt
<1>4. /\ Len(all) = c + (n + 2) + Len(s)
      /\ \A j \in 1..Len(s) : s[j] = all[c + (n + 2) + j]
  BY DEF RestIs
<1>5. Len(s) \in Nat
  OBVIOUS
<1>6. d = c + (n + 2) /\ d \in Nat
  <2>1. PICK p : p = Len(Printed(t[r]))
    OBVIOUS
  <2>2. d = c + p /\ p = n + 2
    BY <1>2, <1>3, <2>1
  <2> HIDE DEF c, d, n
  <2> QED
    BY <1>1, <1>3, <2>2
<1>7. ASSUME r = Len(t)
      PROVE  s = <<>>
  <2>1. d = Len(all)
    BY <1>7, PrintedEnds
  <2>2. Len(s) = 0
    <3> HIDE DEF c, d, n, all
    <3> QED
      BY <1>1, <1>3, <1>4, <1>5, <1>6, <2>1
  <2> QED
    BY <2>2
<1>8. ASSUME r # Len(t)
      PROVE  r + 1 \in DOMAIN t /\ RestIs(t, s, r + 1, 0)
  <2>1. r + 1 \in 1..Len(t) /\ (r + 1) - 1 = r
    BY <1>1, <1>8
  <2>2. r + 1 \in DOMAIN t
    BY <2>1, TableIs
  <2>3. d + 0 = d
    BY <1>6
  <2>4. /\ Len(all) = (d + 0) + Len(s)
        /\ \A j \in 1..Len(s) : s[j] = all[(d + 0) + j]
    BY <1>4, <1>6, <2>3
  <2> QED
    BY <2>1, <2>2, <2>4 DEF RestIs
<1> QED
  BY <1>7, <1>8

\* What cutWhiteSpace returns is what the buffer at hand shows.
LEMMA ResultShown ==
  ASSUME AInv, OfTheBuffer, at = "return"
  PROVE  Result \in Words /\ Result = Shown(Head(todo).text)
<1>1. Result \in Words
  BY ResultIsText DEF AInv, Words
<1>2. csource = Head(todo).text
  BY DEF OfTheBuffer
<1>3. Result = Shown(csource)
  BY LoopCuts DEF AInv, CutsWhiteSpace
<1> QED
  BY <1>1, <1>2, <1>3

\* One more member for a tuple.
LEMMA EndsInMore ==
  ASSUME NEW e, NEW r, NEW m \in Nat, EndsIn(e, r, m),
         NEW w \in Words, w = Shown(table[r].key[m + 1])
  PROVE  EndsIn(Append(e, w), r, m + 1)
<1> DEFINE f == Append(e, w)
<1>1. /\ e \in Seq(Words) /\ Len(e) >= m
      /\ \A j \in 1..m : e[(Len(e) - m) + j] = Shown(table[r].key[j])
      /\ r > 1 \/ cuts = 0 => Len(e) = m
  BY DEF EndsIn
<1>2. /\ f \in Seq(Words) /\ Len(f) = Len(e) + 1 /\ Len(e) \in Nat
      /\ f[Len(e) + 1] = w /\ \A k \in 1..Len(e) : f[k] = e[k]
  BY <1>1, AppendProperties, LenProperties
<1> HIDE DEF f
<1>3. ASSUME NEW j \in 1..(m + 1)
      PROVE  f[(Len(f) - (m + 1)) + j] = Shown(table[r].key[j])
  <2>1. (Len(f) - (m + 1)) + j = (Len(e) - m) + j
    BY <1>2
  <2>2. CASE j = m + 1
    <3>1. (Len(e) - m) + j = Len(e) + 1
      BY <1>2, <2>2
    <3> QED
      BY <1>2, <2>1, <2>2, <3>1
  <2>3. CASE j # m + 1
    <3>1. j \in 1..m /\ (Len(e) - m) + j \in 1..Len(e)
      BY <1>1, <1>2, <2>3
    <3> QED
      BY <1>1, <1>2, <2>1, <3>1
  <2> QED
    BY <2>2, <2>3
<1>4. Len(f) >= m + 1 /\ (r > 1 \/ cuts = 0 => Len(f) = m + 1)
  BY <1>1, <1>2
<1> QED
  BY <1>2, <1>3, <1>4 DEF EndsIn, f

\* Where agghandler is in the table, by the kind of the buffer at hand.
LEMMA MemberIsAt ==
  ASSUME AInv, Collecting, pc = "collect", todo # <<>>, Head(todo).kind = "member"
  PROVE  \E r \in DOMAIN table, m \in Nat :
           /\ Begun(r, m) /\ m + 1 <= KeyLen(r)
           /\ Head(todo).text = table[r].key[m + 1]
<1>1. PICK r \in DOMAIN table : Ended(r) \/ \E m \in Nat : Begun(r, m)
  BY DEF Collecting, AllGathered
<1>2. KeyLen(r) \in Nat
  BY RecordIs
<1>3. ASSUME Ended(r)
      PROVE  FALSE
  <2>1. HandedOut(r, KeyLen(r) + 1) /\ KeyLen(r) + 1 \in 0..(KeyLen(r) + 1)
    BY <1>2, <1>3 DEF Ended
  <2>2. Head(todo) = Buffer("space", <<>>)
    BY <2>1, HeadIs
  <2> QED
    BY <2>2 DEF Buffer
<1>4. PICK m \in Nat : Begun(r, m)
  BY <1>1, <1>3
<1>5. HandedOut(r, m) /\ m \in 0..(KeyLen(r) + 1) /\ m <= KeyLen(r)
  BY <1>2, <1>4 DEF Begun
<1>6. /\ m < KeyLen(r) => Head(todo) = Buffer("member", table[r].key[m + 1])
      /\ m = KeyLen(r) => Head(todo) = Buffer("value", table[r].value)
  BY <1>5, HeadIs
<1>7. m # KeyLen(r)
  BY <1>6 DEF Buffer
<1>8. m < KeyLen(r) /\ m + 1 <= KeyLen(r)
  BY <1>2, <1>5, <1>7
<1>9. Head(todo).text = table[r].key[m + 1]
  BY <1>6, <1>8 DEF Buffer
<1> QED
  BY <1>4, <1>8, <1>9

LEMMA ValueIsAt ==
  ASSUME AInv, Collecting, pc = "collect", todo # <<>>, Head(todo).kind = "value"
  PROVE  \E r \in DOMAIN table : Begun(r, KeyLen(r)) /\ Head(todo).text = table[r].value
<1>1. PICK r \in DOMAIN table : Ended(r) \/ \E m \in Nat : Begun(r, m)
  BY DEF Collecting, AllGathered
<1>2. KeyLen(r) \in Nat
  BY RecordIs
<1>3. ASSUME Ended(r)
      PROVE  FALSE
  <2>1. HandedOut(r, KeyLen(r) + 1) /\ KeyLen(r) + 1 \in 0..(KeyLen(r) + 1)
    BY <1>2, <1>3 DEF Ended
  <2>2. Head(todo) = Buffer("space", <<>>)
    BY <2>1, HeadIs
  <2> QED
    BY <2>2 DEF Buffer
<1>4. PICK m \in Nat : Begun(r, m)
  BY <1>1, <1>3
<1>5. HandedOut(r, m) /\ m \in 0..(KeyLen(r) + 1) /\ m <= KeyLen(r)
  BY <1>2, <1>4 DEF Begun
<1>6. /\ m < KeyLen(r) => Head(todo) = Buffer("member", table[r].key[m + 1])
      /\ m = KeyLen(r) => Head(todo) = Buffer("value", table[r].value)
  BY <1>5, HeadIs
<1>7. ~ m < KeyLen(r)
  BY <1>6 DEF Buffer
<1>8. m = KeyLen(r)
  BY <1>2, <1>5, <1>7
<1>9. Head(todo).text = table[r].value
  BY <1>6, <1>8 DEF Buffer
<1> QED
  BY <1>4, <1>8, <1>9

LEMMA SpaceIsAt ==
  ASSUME AInv, Collecting, pc = "collect", todo # <<>>, Head(todo).kind = "space"
  PROVE  \E r \in DOMAIN table : Ended(r)
<1>1. PICK r \in DOMAIN table : Ended(r) \/ \E m \in Nat : Begun(r, m)
  BY DEF Collecting, AllGathered
<1>2. KeyLen(r) \in Nat
  BY RecordIs
<1>3. ASSUME NEW m \in Nat, Begun(r, m)
      PROVE  FALSE
  <2>1. HandedOut(r, m) /\ m \in 0..(KeyLen(r) + 1) /\ m <= KeyLen(r)
    BY <1>2, <1>3 DEF Begun
  <2>2. /\ m < KeyLen(r) => Head(todo) = Buffer("member", table[r].key[m + 1])
        /\ m = KeyLen(r) => Head(todo) = Buffer("value", table[r].value)
    BY <2>1, HeadIs
  <2>3. m < KeyLen(r) \/ m = KeyLen(r)
    BY <1>2, <2>1
  <2> QED
    BY <2>2, <2>3 DEF Buffer
<1> QED
  BY <1>1, <1>3

\* The list is what it was.
LEMMA GatheredStays ==
  ASSUME NEW r, Gathered(r), UNCHANGED <<list, table, cuts>>
  PROVE  Gathered(r)'
BY DEF Gathered, EndsIn, KeyLen

LEMMA CollectingStays ==
  ASSUME Collecting, UNCHANGED <<tuple, list, table, todo, cuts, pc>>
  PROVE  Collecting'
<1>1. \A r \in DOMAIN table : /\ KeyLen(r)' = KeyLen(r)
                               /\ \A m \in Nat : HandedOut(r, m)' = HandedOut(r, m)
  BY DEF KeyLen, HandedOut
<1>2. \A e, r, m : EndsIn(e, r, m)' = EndsIn(e, r, m)
  BY DEF EndsIn
<1>3. \A r : Gathered(r)' = Gathered(r)
  BY DEF Gathered, EndsIn, KeyLen
<1>4. \A r \in DOMAIN table : Ended(r)' = Ended(r)
  BY <1>3 DEF Ended, HandedOut, KeyLen
<1>5. \A r \in DOMAIN table, m \in Nat : Begun(r, m)' = Begun(r, m)
  BY <1>3 DEF Begun, HandedOut, EndsIn, KeyLen
<1> QED
  BY <1>3, <1>4, <1>5 DEF Collecting, AllGathered

LEMMA MemberCollects ==
  ASSUME AInv, OfTheBuffer, Collecting, Member, pc = "collect"
  PROVE  Collecting'
<1> DEFINE e == IF tuple = NULL THEN <<>> ELSE tuple
<1>1. /\ todo # <<>> /\ Head(todo).kind = "member" /\ at = "return"
      /\ todo' = Tail(todo) /\ table' = table /\ cuts' = cuts /\ list' = list
      /\ tuple' = IF tuple = NULL THEN <<Result>> ELSE Append(tuple, Result)
  BY DEF Member, Handed, Return
<1>2. PICK r \in DOMAIN table, m \in Nat :
        /\ Begun(r, m) /\ m + 1 <= KeyLen(r)
        /\ Head(todo).text = table[r].key[m + 1]
  BY <1>1, MemberIsAt
<1>3. PICK w \in Words : w = Result /\ w = Shown(table[r].key[m + 1])
  BY <1>1, <1>2, ResultShown
<1>4. EndsIn(e, r, m)
  <2>1. CASE tuple = NULL
    <3>1. m = 0 /\ e = <<>>
      BY <1>2, <2>1 DEF Begun
    <3> HIDE DEF e
    <3>2. e \in Seq(Words) /\ Len(e) = 0
      BY <3>1, EmptyIsSeq
    <3> QED
      BY <3>1, <3>2, 0 >= 0 DEF EndsIn
  <2>2. CASE tuple # NULL
    BY <1>2, <2>2 DEF Begun
  <2> QED
    BY <2>1, <2>2
<1>5. EndsIn(Append(e, w), r, m + 1)
  BY <1>3, <1>4, EndsInMore
<1>6. tuple' = Append(e, w)
  <2>1. Append(<<>>, w) = <<w>>
    OBVIOUS
  <2> QED
    BY <1>1, <1>3, <2>1
<1>7. EndsIn(tuple, r, m + 1)'
  BY <1>1, <1>5, <1>6 DEF EndsIn
<1>8. tuple' # NULL
  BY <1>7, AggregationsAssumption DEF EndsIn, Words
<1>9. Gathered(r - 1)'
  BY <1>1, <1>2, GatheredStays DEF Begun
<1>10. Len(UpTo(table, r - 1)) \in Nat
  BY RecordIs, PrintedAt
<1>11. HandedOut(r, m + 1)'
  <2>1. todo \in Seq(Buffers)
    BY DEF AInv, TypeOK, Buffers
  <2>2. RestIs(table, Tail(todo), r, m + 1)
    BY <1>1, <1>2, <1>10, <2>1, NextBuffer DEF Begun, HandedOut
  <2> QED
    BY <1>1, <2>2 DEF HandedOut
<1>12. Begun(r, m + 1)'
  BY <1>1, <1>2, <1>7, <1>8, <1>9, <1>11 DEF Begun, KeyLen
<1>13. r \in DOMAIN table' /\ m + 1 \in Nat
  BY <1>1
<1> QED
  BY <1>12, <1>13 DEF Collecting

LEMMA ValueCollects ==
  ASSUME AInv, OfTheBuffer, Collecting, Value, pc = "collect"
  PROVE  Collecting'
<1> DEFINE E == Seq(Words) \cup Words
           R == Result
<1>1. /\ todo # <<>> /\ Head(todo).kind = "value" /\ at = "return"
      /\ todo' = Tail(todo) /\ table' = table /\ cuts' = cuts
      /\ list' = list \o <<tuple, R>> /\ tuple' = NULL
  BY DEF Value, Handed, Return
<1>2. PICK r \in DOMAIN table : Begun(r, KeyLen(r)) /\ Head(todo).text = table[r].value
  BY <1>1, ValueIsAt
<1>3. R \in Words /\ R = Shown(table[r].value)
  BY <1>1, <1>2, ResultShown
<1>4. tuple # NULL /\ tuple \in Seq(Words)
  BY <1>1 DEF AInv, Orderly, TypeOK
<1>5. EndsIn(tuple, r, KeyLen(r)) /\ Gathered(r - 1) /\ HandedOut(r, KeyLen(r))
  BY <1>2, <1>4 DEF Begun
<1>6. KeyLen(r) \in Nat /\ r \in Nat \ {0} /\ Len(UpTo(table, r - 1)) \in Nat
  <2>1. table \in Tables /\ r \in 1..Len(table) /\ Len(table) \in Nat /\ KeyLen(r) \in Nat
    BY RecordIs
  <2> QED
    BY <2>1, PrintedAt
<1>7. HandedOut(r, KeyLen(r) + 1)'
  <2>1. todo \in Seq(Buffers)
    BY DEF AInv, TypeOK, Buffers
  <2>2. RestIs(table, Tail(todo), r, KeyLen(r) + 1)
    BY <1>1, <1>5, <1>6, <2>1, NextBuffer DEF HandedOut
  <2> QED
    BY <1>1, <2>2 DEF HandedOut, KeyLen
<1>8. /\ list' \in Seq(E) /\ Len(list') = 2 * r
      /\ \A k \in 1..(2 * r - 2) : list'[k] = list[k]
      /\ list'[2 * r - 1] = tuple /\ list'[2 * r] = R
  <2>1. list \in Seq(E) /\ Len(list) = 2 * (r - 1)
    BY <1>5 DEF AInv, TypeOK, Gathered
  <2>2. PICK x \in E, y \in E : x = tuple /\ y = R
    BY <1>3, <1>4
  <2> HIDE DEF E, R
  <2>3. PICK l \in Seq(E) : l = list
    BY <2>1
  <2>4. /\ l \o <<x, y>> \in Seq(E) /\ Len(l \o <<x, y>>) = Len(l) + 2
        /\ \A k \in 1..Len(l) : (l \o <<x, y>>)[k] = l[k]
        /\ (l \o <<x, y>>)[Len(l) + 1] = x /\ (l \o <<x, y>>)[Len(l) + 2] = y
    OBVIOUS
  <2>5. /\ Len(l) = 2 * r - 2 /\ Len(l) + 2 = 2 * r /\ Len(l) + 1 = 2 * r - 1
    BY <1>6, <2>1, <2>3
  <2> QED
    BY <1>1, <2>2, <2>3, <2>4, <2>5
<1> HIDE DEF R
<1>9. ASSUME NEW k \in 1..r
      PROVE  /\ list'[2 * k] = Shown(table[k].value)
             /\ EndsIn(list'[2 * k - 1], k, KeyLen(k))
  <2>1. CASE k = r
    BY <1>3, <1>5, <1>8, <2>1
  <2>2. CASE k # r
    <3>1. k \in 1..(r - 1) /\ 2 * k \in 1..(2 * r - 2) /\ 2 * k - 1 \in 1..(2 * r - 2)
      BY <1>6, <2>2
    <3> QED
      BY <1>5, <1>8, <3>1 DEF Gathered
  <2> QED
    BY <2>1, <2>2
<1>10. Gathered(r)'
  BY <1>1, <1>8, <1>9 DEF Gathered, EndsIn, KeyLen
<1>11. Ended(r)'
  BY <1>1, <1>7, <1>10 DEF Ended, KeyLen
<1>12. r \in DOMAIN table'
  BY <1>1
<1> QED
  BY <1>11, <1>12 DEF Collecting

LEMMA SpaceCollects ==
  ASSUME AInv, Collecting, Space, pc = "collect"
  PROVE  Collecting'
<1>1. /\ todo # <<>> /\ Head(todo).kind = "space" /\ todo' = Tail(todo)
      /\ UNCHANGED <<tuple, list, table, cuts, pc>>
  BY DEF Space, Handed
<1>2. PICK r \in DOMAIN table : Ended(r)
  BY <1>1, SpaceIsAt
<1>3. /\ r \in 1..Len(table) /\ Len(table) \in Nat /\ KeyLen(r) \in Nat
      /\ Len(UpTo(table, r - 1)) \in Nat
  BY RecordIs, PrintedAt
<1>4. todo \in Seq(Buffers) /\ Tail(todo) \in Seq(Buffers)
  <2>1. todo \in Seq(Buffers)
    BY DEF AInv, TypeOK, Buffers
  <2> QED
    BY <1>1, <2>1, TailIs
<1>5. RestIs(table, Tail(todo), r, (KeyLen(r) + 1) + 1)
  <2>1. RestIs(table, todo, r, KeyLen(r) + 1)
    BY <1>2 DEF Ended, HandedOut
  <2>2. KeyLen(r) + 1 \in Nat
    BY <1>3
  <2> QED
    BY <1>1, <1>3, <1>4, <2>1, <2>2, NextBuffer
<1>6. (KeyLen(r) + 1) + 1 = Len(table[r].key) + 2
  BY <1>3 DEF KeyLen
<1>7. /\ r = Len(table) => todo' = <<>>
      /\ r # Len(table) => r + 1 \in DOMAIN table /\ RestIs(table, todo', r + 1, 0)
  BY <1>1, <1>3, <1>4, <1>5, <1>6, RecordIs, NextRecord
<1>8. r # Len(table) => r + 1 \in DOMAIN table' /\ HandedOut(r + 1, 0)'
  BY <1>1, <1>7 DEF HandedOut
<1>9. Gathered(r)'
  BY <1>1, <1>2, GatheredStays DEF Ended
<1>10. CASE r = Len(table)
  BY <1>1, <1>7, <1>9, <1>10 DEF Collecting, AllGathered
<1>11. CASE r # Len(table)
  <2>1. r + 1 \in DOMAIN table' /\ HandedOut(r + 1, 0)'
    BY <1>8, <1>11
  <2>2. KeyLen(r + 1)' \in Nat
    BY <1>1, <2>1, RecordIs DEF KeyLen
  <2>3. (r + 1) - 1 = r
    BY <1>3
  <2>4. tuple' = NULL
    BY <1>1, <1>2 DEF Ended
  <2>5. Begun(r + 1, 0)'
    BY <1>9, <2>1, <2>2, <2>3, <2>4 DEF Begun
  <2> QED
    BY <2>1, <2>5 DEF Collecting
<1> QED
  BY <1>10, <1>11

LEMMA BeginCollects ==
  ASSUME AInv, AggregationsBegin
  PROVE  Collecting'
<1>1. /\ pc = "idle" /\ table' \in Tables /\ todo' = PrintedAll(table')
      /\ list' = <<>> /\ tuple' = tuple /\ cuts' = cuts
  BY DEF AggregationsBegin
<1>2. PICK t \in Tables : t = table'
  BY <1>1
<1>3. UpTo(t, 0) = <<>> /\ UpTo(t, Len(t)) = PrintedAll(t) /\ Len(PrintedAll(t)) \in Nat
  BY PrintedEnds
<1>4. Len(t) \in Nat /\ DOMAIN t = 1..Len(t)
  BY TableIs
<1>5. Gathered(0)'
  BY <1>1 DEF Gathered
<1>6. CASE Len(t) = 0
  BY <1>1, <1>2, <1>3, <1>5, <1>6 DEF Collecting, AllGathered
<1>7. CASE Len(t) # 0
  <2>1. 1 \in DOMAIN t /\ 1 - 1 = 0 /\ 1 \in 1..Len(t)
    BY <1>4, <1>7
  <2>2. RestIs(t, PrintedAll(t), 1, 0)
    <3> DEFINE all == PrintedAll(t)
    <3>1. Len(UpTo(t, 1 - 1)) = 0 /\ Len(all) \in Nat
      BY <1>3, <2>1
    <3> HIDE DEF all
    <3>2. Len(all) = (0 + 0) + Len(all) /\ \A j \in 1..Len(all) : all[j] = all[(0 + 0) + j]
      BY <3>1
    <3> QED
      BY <3>1, <3>2 DEF RestIs, all
  <2>3. HandedOut(1, 0)'
    BY <1>1, <1>2, <2>2 DEF HandedOut
  <2>4. 0 <= KeyLen(1)'
    <3>1. Len(t[1].key) \in Nat
      BY <2>1, TableIs
    <3> QED
      BY <1>2, <3>1 DEF KeyLen
  <2>5. ASSUME tuple # NULL
        PROVE  EndsIn(tuple, 1, 0)'
    <3>1. cuts # 0
      BY <1>1, <2>5 DEF AInv, Orderly
    <3>t. tuple \in Seq(Words)
      BY <2>5 DEF AInv, TypeOK
    <3>2. tuple \in Seq(Words) /\ Len(tuple) >= 0
      BY <3>t, LenProperties
    <3> QED
      BY <1>1, <3>1, <3>2 DEF EndsIn
  <2>6. Begun(1, 0)'
    BY <1>1, <1>5, <2>1, <2>3, <2>4, <2>5 DEF Begun
  <2> QED
    BY <1>2, <2>1, <2>6 DEF Collecting
<1> QED
  BY <1>6, <1>7

LEMMA BufferKeeps ==
  ASSUME AInv, OfTheBuffer, [Next]_vars
  PROVE  OfTheBuffer'
<1>1. CASE MemberCuts \/ ValueCuts
  BY <1>1 DEF MemberCuts, ValueCuts, Handed, Call, OfTheBuffer
<1>2. CASE Member \/ Value
  BY <1>2 DEF Member, Value, Return, OfTheBuffer
<1>3. CASE cutWhiteSpace
  <2>1. at # "idle" /\ csource' = csource /\ todo' = todo
    BY <1>3 DEF cutWhiteSpace, Run, SkipBlank, CopyChar, Terminate, TerminateUnset, aggVars
  <2> QED
    BY <2>1 DEF OfTheBuffer
<1>4. CASE AggregationsBegin \/ AggregationsDone \/ AggregationsFails \/ ProcessPrinta \/ ProcessDone
           \/ ProcessFails
  <2>1. at = "idle"
    BY <1>4 DEF AInv, Orderly, AggregationsBegin, AggregationsDone, AggregationsFails,
       ProcessPrinta, ProcessDone, ProcessFails
  <2>2. at' = at
    BY <1>4 DEF AggregationsBegin, AggregationsDone, AggregationsFails,
       ProcessPrinta, ProcessDone, ProcessFails, cutVars
  <2> QED
    BY <2>1, <2>2 DEF OfTheBuffer
<1>5. CASE ValuePanics \/ ValueHasNoList \/ Space
  <2>1. at = "idle"
    BY <1>5 DEF AInv, Orderly, ValuePanics, ValueHasNoList, Space, Handed
  <2>2. at' = at
    BY <1>5 DEF ValuePanics, ValueHasNoList, Space, cutVars
  <2> QED
    BY <2>1, <2>2 DEF OfTheBuffer
<1>6. CASE UNCHANGED vars
  BY <1>6 DEF vars, aggVars, cutVars, OfTheBuffer
<1> QED
  BY <1>1, <1>2, <1>3, <1>4, <1>5, <1>6 DEF Next

LEMMA CollectingKeeps ==
  ASSUME GInv, [Next]_vars
  PROVE  Collecting'
<1>0. AInv /\ OfTheBuffer /\ Collecting
  BY DEF GInv
<1>1. CASE AggregationsBegin
  BY <1>0, <1>1, BeginCollects
<1>2. CASE AggregationsDone \/ AggregationsFails \/ ProcessPrinta \/ ProcessDone
           \/ ProcessFails \/ ValuePanics \/ ValueHasNoList
  <2>1. pc' # "collect"
    BY <1>2 DEF AggregationsDone, AggregationsFails, ProcessPrinta, ProcessDone, ProcessFails,
       ValuePanics, ValueHasNoList
  <2> QED
    BY <2>1 DEF Collecting
<1>3. CASE MemberCuts \/ ValueCuts \/ cutWhiteSpace \/ UNCHANGED vars
  <2>1. UNCHANGED <<tuple, list, table, todo, cuts, pc>>
    BY <1>3 DEF MemberCuts, ValueCuts, Handed, cutWhiteSpace, vars, aggVars
  <2> QED
    BY <1>0, <2>1, CollectingStays
<1>4. CASE Member \/ Value \/ Space
  <2>1. pc' = pc
    BY <1>4 DEF Member, Value, Space
  <2>2. CASE pc = "collect"
    BY <1>0, <1>4, <2>2, MemberCollects, ValueCollects, SpaceCollects
  <2>3. CASE pc # "collect"
    BY <2>1, <2>3 DEF Collecting
  <2> QED
    BY <2>2, <2>3
<1> QED
  BY <1>1, <1>2, <1>3, <1>4 DEF Next

\* When nothing is left to hand out, everything was gathered.
LEMMA CollectedIs ==
  ASSUME GInv, pc = "collect", todo = <<>>
  PROVE  Gathered(Len(table))
<1>0. AInv /\ Collecting
  BY DEF GInv
<1> SUFFICES ASSUME NEW r \in DOMAIN table, Ended(r) \/ \E m \in Nat : Begun(r, m)
             PROVE  FALSE
  BY <1>0 DEF Collecting, AllGathered
<1>1. KeyLen(r) \in Nat
  BY <1>0, RecordIs
<1>2. PICK m \in 0..(KeyLen(r) + 1) : HandedOut(r, m)
  <2>1. CASE Ended(r)
    <3>1. KeyLen(r) + 1 \in 0..(KeyLen(r) + 1)
      BY <1>1
    <3> QED
      BY <2>1, <3>1 DEF Ended
  <2>2. ASSUME NEW m \in Nat, Begun(r, m)
        PROVE  m \in 0..(KeyLen(r) + 1) /\ HandedOut(r, m)
    BY <1>1, <2>2 DEF Begun
  <2> QED
    BY <2>1, <2>2
<1> QED
  BY <1>0, <1>2, HeadIs

\* A tuple that has nothing but the members of the key is that key.
LEMMA KeyIs ==
  ASSUME NEW t \in Tables, t = table, NEW r \in 1..Len(t), NEW e,
         EndsIn(e, r, KeyLen(r)), Len(e) = KeyLen(r)
  PROVE  e = ShownKey(t[r])
<1> DEFINE n == Len(t[r].key)
<1>1. n \in Nat /\ DOMAIN t[r].key = 1..n /\ KeyLen(r) = n
  BY TableIs DEF KeyLen
<1>2. e \in Seq(Words) /\ Len(e) = n /\ \A j \in 1..n : e[(n - n) + j] = Shown(t[r].key[j])
  BY <1>1 DEF EndsIn
<1>3. ShownKey(t[r]) = [m \in 1..n |-> Shown(t[r].key[m])]
  BY <1>1 DEF ShownKey
<1> HIDE DEF n
<1>4. \A j \in 1..n : e[j] = Shown(t[r].key[j])
  <2>1. \A j \in 1..n : (n - n) + j = j
    BY <1>1
  <2> QED
    BY <1>2, <2>1
<1>5. e = [m \in 1..n |-> e[m]]
  BY <1>2
<1> QED
  BY <1>3, <1>4, <1>5

LEMMA KeyIsSuffix ==
  ASSUME NEW t \in Tables, t = table, NEW r \in 1..Len(t), NEW e, EndsIn(e, r, KeyLen(r))
  PROVE  IsSuffix(ShownKey(t[r]), e)
<1> DEFINE n == Len(t[r].key)
           s == ShownKey(t[r])
           V == {Shown(t[r].key[j]) : j \in 1..n}
<1>1. n \in Nat /\ DOMAIN t[r].key = 1..n /\ KeyLen(r) = n
  BY TableIs DEF KeyLen
<1>2. /\ e \in Seq(Words) /\ Len(e) \in Nat /\ Len(e) >= n
      /\ \A j \in 1..n : e[(Len(e) - n) + j] = Shown(t[r].key[j])
  <2>1. /\ e \in Seq(Words) /\ Len(e) >= KeyLen(r)
        /\ \A j \in 1..KeyLen(r) : e[(Len(e) - KeyLen(r)) + j] = Shown(t[r].key[j])
    BY DEF EndsIn
  <2> QED
    BY <1>1, <2>1, LenProperties
<1>3. s = [m \in 1..n |-> Shown(t[r].key[m])]
  BY <1>1 DEF ShownKey
<1>4. s \in Seq(V) /\ Len(s) = n
  BY <1>1, <1>3
<1>5. \A j \in 1..n : s[j] = Shown(t[r].key[j])
  BY <1>3
<1> HIDE DEF s, n, V
<1> DEFINE x == Reverse(s)
           y == Reverse(e)
<1>6. x = [k \in 1..n |-> s[(n - k) + 1]]
  BY <1>4 DEF Reverse
<1>7. y = [k \in 1..Len(e) |-> e[(Len(e) - k) + 1]]
  BY DEF Reverse
<1>8. ASSUME NEW k \in 1..n
      PROVE  x[k] = y[k]
  <2>1. k \in 1..Len(e) /\ (n - k) + 1 \in 1..n
        /\ (Len(e) - n) + ((n - k) + 1) = (Len(e) - k) + 1
    BY <1>1, <1>2
  <2>2. e[(Len(e) - n) + ((n - k) + 1)] = s[(n - k) + 1]
    BY <1>2, <1>5, <2>1
  <2> QED
    BY <1>6, <1>7, <2>1, <2>2
<1>9. x \in Seq(V) /\ Len(x) = n
  <2>1. \A k \in 1..n : s[(n - k) + 1] \in V
    BY <1>1, <1>4
  <2> QED
    BY <1>1, <1>6, <2>1
<1>10. y \in Seq(Words) /\ Len(y) = Len(e)
  <2>1. \A k \in 1..Len(e) : e[(Len(e) - k) + 1] \in Words
    BY <1>2
  <2> HIDE DEF y
  <2> QED
    BY <1>2, <1>7, <2>1
<1> HIDE DEF x, y
<1>11. SubSeq(x, 1, n) = [k \in 1..n |-> x[k]] /\ SubSeq(y, 1, n) = [k \in 1..n |-> y[k]]
  BY <1>1, <1>2, <1>9, <1>10
<1>12. SubSeq(x, 1, n) = SubSeq(y, 1, n)
  BY <1>8, <1>11
<1>13. Len(x) <= Len(y) /\ SubSeq(x, 1, Len(x)) = SubSeq(y, 1, Len(x))
  BY <1>2, <1>9, <1>10, <1>12
<1>14. IsPrefix(x, y)
  BY <1>13 DEF IsPrefix
<1> QED
  BY <1>14 DEF IsSuffix, x, y, s

LEMMA PairedIs ==
  ASSUME GInv
  PROVE  ResultIsPaired
<1> SUFFICES ASSUME pc = "collect", todo = <<>>
             PROVE  /\ Len(list) = 2 * Len(table)
                    /\ \A k \in DOMAIN table :
                         /\ list[2 * k] = Shown(table[k].value)
                         /\ IsSuffix(ShownKey(table[k]), list[2 * k - 1])
                         /\ k > 1 => list[2 * k - 1] = ShownKey(table[k])
  BY DEF ResultIsPaired
<1>1. Gathered(Len(table))
  BY CollectedIs
<1>2. Len(list) = 2 * Len(table)
  BY <1>1 DEF Gathered
<1>3. ASSUME NEW k \in DOMAIN table
      PROVE  /\ list[2 * k] = Shown(table[k].value)
             /\ IsSuffix(ShownKey(table[k]), list[2 * k - 1])
             /\ k > 1 => list[2 * k - 1] = ShownKey(table[k])
  <2>1. table \in Tables /\ k \in 1..Len(table)
    BY RecordIs DEF GInv
  <2>2. list[2 * k] = Shown(table[k].value) /\ EndsIn(list[2 * k - 1], k, KeyLen(k))
    BY <1>1, <2>1 DEF Gathered
  <2>3. IsSuffix(ShownKey(table[k]), list[2 * k - 1])
    BY <2>1, <2>2, KeyIsSuffix
  <2>4. k > 1 => Len(list[2 * k - 1]) = KeyLen(k)
    BY <2>2 DEF EndsIn
  <2>5. k > 1 => list[2 * k - 1] = ShownKey(table[k])
    BY <2>1, <2>2, <2>4, KeyIs
  <2> QED
    BY <2>2, <2>3, <2>5
<1> QED
  BY <1>2, <1>3

LEMMA TableIsResult ==
  ASSUME GInv
  PROVE  ResultIsTable
<1> SUFFICES ASSUME pc = "collect", todo = <<>>, cuts = 0
             PROVE  list = Pairs(table)
  BY DEF ResultIsTable
<1> DEFINE n == Len(table)
<1>1. Gathered(n)
  BY CollectedIs
<1>2. list \in Seq(Seq(Words) \cup Words) /\ Len(list) = 2 * n
  BY <1>1 DEF GInv, AInv, TypeOK, Gathered
<1>3. CASE table = <<>>
  <2>1. Len(list) = 0
    BY <1>2, <1>3
  <2>2. list = <<>>
    BY <1>2, <2>1
  <2>3. [k \in DOMAIN table |-> <<ShownKey(table[k]), Shown(table[k].value)>>] \in [1..0 -> {}]
    BY <1>3
  <2>4. Pairs(table) = <<>>
    BY <2>3, FlattenSeqEmpty DEF Pairs
  <2> QED
    BY <2>2, <2>4
<1>4. CASE table # <<>>
  <2>1. PICK t \in Tables : t = table
    BY <1>4 DEF GInv, AInv, TypeOK
  <2>2. n \in Nat
    BY <2>1, TableIs
  <2>3. /\ Len(Pairs(t)) = 2 * n
        /\ \A r \in 1..n : /\ Pairs(t)[2 * r - 1] = ShownKey(t[r])
                           /\ Pairs(t)[2 * r] = Shown(t[r].value)
    BY <2>1, PairsAre
  <2>4. PICK W : Pairs(t) \in Seq(W)
    BY PairsAre
  <2> HIDE DEF n
  <2>5. ASSUME NEW r \in 1..n
        PROVE  list[2 * r - 1] = Pairs(t)[2 * r - 1] /\ list[2 * r] = Pairs(t)[2 * r]
    <3>1. list[2 * r] = Shown(t[r].value) /\ EndsIn(list[2 * r - 1], r, KeyLen(r))
      BY <1>1, <2>1 DEF Gathered
    <3>2. Len(list[2 * r - 1]) = KeyLen(r) /\ r \in 1..Len(t)
      BY <2>1, <3>1 DEF EndsIn, n
    <3>3. list[2 * r - 1] = ShownKey(t[r])
      BY <2>1, <3>1, <3>2, KeyIs
    <3> QED
      BY <2>3, <3>1, <3>3
  <2>6. ASSUME NEW k \in 1..(2 * n)
        PROVE  list[k] = Pairs(t)[k]
    <3>1. \E r \in 1..n : k = 2 * r \/ k = 2 * r - 1
      <4>1. CASE k % 2 = 0
        <5>1. k = 2 * (k \div 2) /\ k \div 2 \in 1..n
          BY <2>2, <4>1
        <5> QED
          BY <5>1
      <4>2. CASE k % 2 = 1
        <5>1. k = 2 * ((k + 1) \div 2) - 1 /\ (k + 1) \div 2 \in 1..n
          BY <2>2, <4>2
        <5> QED
          BY <5>1
      <4> QED
        BY <2>2, <4>1, <4>2
    <3> QED
      BY <2>5, <3>1
  <2>7. list = [k \in 1..(2 * n) |-> list[k]]
    BY <1>2
  <2>8. Pairs(t) = [k \in 1..(2 * n) |-> Pairs(t)[k]]
    <3>1. PICK p \in Seq(W) : p = Pairs(t)
      BY <2>4
    <3>2. p = [k \in 1..(2 * n) |-> p[k]]
      BY <2>3, <3>1
    <3> QED
      BY <3>1, <3>2
  <2> QED
    BY <2>1, <2>6, <2>7, <2>8
<1> QED
  BY <1>3, <1>4

-----------------------------------------------------------------------------
(* The theorems                                                            *)

\* In every state of every run the variables hold what the C variables can, and
\* the buffers to come are in the order libdtrace hands them out.
THEOREM AggregationsInvariant == Spec => []AInv
<1>1. Init => AInv
  BY AInit
<1>2. AInv /\ [Next]_vars => AInv'
  BY AggregationsInductive
<1> QED
  BY <1>1, <1>2, PTL DEF Spec

\* The variables of agghandler and cutWhiteSpace keep their types: what the two
\* hand each other is always a text.
THEOREM AggregationsTypeCorrect == Spec => []TypeOK
<1>1. AInv => TypeOK
  BY DEF AInv
<1> QED
  BY <1>1, AggregationsInvariant, PTL

\* cutWhiteSpace trims every text that has a letter, and cuts it to the buffer,
\* whatever the text and the size of the buffer.
THEOREM TextsAreTrimmed == Spec => []CutsWhiteSpace
<1>1. AInv => CutsWhiteSpace
  BY LoopCuts DEF AInv
<1> QED
  BY <1>1, AggregationsInvariant, PTL

\* size is used before anything was stored in it exactly on the texts that have
\* no letter.
THEOREM UnsetExactlyOnBlank == Spec => []UnsetOnBlankOnly
<1>1. AInv => UnsetOnBlankOnly
  BY LoopUnset DEF AInv
<1> QED
  BY <1>1, AggregationsInvariant, PTL

\* The terminating NUL is the only byte that may land behind the buffer, and it
\* lands on the first byte behind it.
THEOREM OverrunIsOneByte == Spec => []OverrunByOne
<1>1. AInv => OverrunByOne
  BY LoopOverrun DEF AInv
<1> QED
  BY <1>1, AggregationsInvariant, PTL

\* No tuple is left half made when a printing has come to its end, unless one was
\* broken off or its format ends in members.
THEOREM TuplesAreFinished == Spec => []NoHalfTuple
<1>1. AInv => NoHalfTuple
  BY DEF AInv, Orderly, NoHalfTuple
<1> QED
  BY <1>1, AggregationsInvariant, PTL

\* The aggregations command panics on an aggregation without keys, and on nothing
\* that a printing before it left behind (dtrace.c:700-704).
THEOREM PanicNeedsKeyless == Spec => []PanicsOnlyKeyless
<1>1. AInv => PanicsOnlyKeyless
  BY DEF AInv, Orderly, PanicsOnlyKeyless
<1> QED
  BY <1>1, AggregationsInvariant, PTL

\* While aggregations gathers its result, the list and the tuple have exactly what
\* was handed out: the shown texts of the records so far, each in its place.
THEOREM GatheringInvariant == Spec => []GInv
<1>1. Init => GInv
  BY AInit DEF GInv, Init, NoFrame, OfTheBuffer, Collecting
<1>2. GInv /\ [Next]_vars => GInv'
  BY AggregationsInductive, BufferKeeps, CollectingKeeps DEF GInv
<1> QED
  BY <1>1, <1>2, PTL DEF Spec

\* The result of aggregations is the content of the buffer, tuple and value in
\* turn, as long as no printing was broken off or ended in members.
THEOREM ResultIsTheTable == Spec => []ResultIsTable
<1>1. GInv => ResultIsTable
  BY TableIsResult
<1> QED
  BY <1>1, GatheringInvariant, PTL

\* Whatever printings left behind, the result pairs every tuple with its value; what
\* is left of them can only stand before the members of the first.
THEOREM OneTupleIsSpoiled == Spec => []ResultIsPaired
<1>1. GInv => ResultIsPaired
  BY PairedIs
<1> QED
  BY <1>1, GatheringInvariant, PTL

=============================================================================
