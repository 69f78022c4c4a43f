--------------------------- MODULE DtraceOptionsProofs ------------------------
(***************************************************************************)
(* Proofs about DtraceOptions: for every number of threads, every option   *)
(* and every text a command sets its options up to the first one refused,  *)
(* and the static array gives one thread what it asked for, if it fits.    *)
(***************************************************************************)
EXTENDS DtraceOptions, Inductions

Values == [Settable -> Numerals]
Given == Seq((Settable \cup Refused) \X Numerals)

-----------------------------------------------------------------------------
(* Lemmas about the operators                                              *)

LEMMA StoredIs ==
  ASSUME NEW option \in Settable, NEW v \in Numerals
  PROVE  Stored(option, v) \in Numerals
  BY OptionsAssumption DEF Stored

LEMMA PairsAre ==
  ASSUME NEW pairs \in Pairs
  PROVE  pairs \in Given
<1>1. PICK n \in 1..MaxPairs : pairs \in [1..n -> (Settable \cup Refused) \X Numerals]
  BY DEF Pairs
<1>2. n \in Nat
  BY OptionsAssumption
<1> QED
  BY <1>1, <1>2 DEF Given

LEMMA BasicIs == Basic \in Seq(Settable) /\ Len(Basic) # 0
<1>1. IsFiniteSet(Settable) /\ Settable # {}
  BY OptionsAssumption, FS_AddElement, FS_Union, FS_Singleton DEF Settable
<1>2. /\ Cardinality(Settable) \in Nat /\ Cardinality(Settable) # 0
      /\ \E f : f \in Bijection(1..Cardinality(Settable), Settable)
  BY <1>1, FS_CardinalityType, FS_EmptySet DEF ExistsBijection
<1>3. \E f \in [1..Cardinality(Settable) -> Settable] : IsInjective(f)
  BY <1>2 DEF Bijection, Injection, Surjection, IsInjective
<1>4. Basic \in [1..Cardinality(Settable) -> Settable]
  BY <1>3 DEF Basic, SetToSeq
<1> QED
  BY <1>2, <1>4

LEMMA FormattedIs ==
  ASSUME NEW v \in Seq(Digits)
  PROVE  Formatted(v) \in Seq(Digits) /\ Len(Formatted(v)) \in 0..Room
<1> DEFINE m == IF Len(v) <= Room THEN Len(v) ELSE Room
<1>1. m \in 0..Room /\ m <= Len(v) /\ Room \in Nat
  BY OptionsAssumption
<1>2. Formatted(v) = SubSeq(v, 1, m)
  BY DEF Formatted
<1> HIDE DEF m
<1>3. SubSeq(v, 1, m) = [k \in 1..m |-> v[k]]
  BY <1>1
<1>4. \A k \in 1..m : v[k] \in Digits
  BY <1>1
<1> QED
  BY <1>1, <1>2, <1>3, <1>4

\* What is asked next has a value, and what of it fits the array is digits.
LEMMA TextIs ==
  ASSUME TypeOK, NEW t \in Threads, Len(answers[t]) < Len(asked[t])
  PROVE  Text(t) \in Seq(Digits) /\ Len(Text(t)) \in 0..Room
<1> DEFINE o == asked[t][Len(answers[t]) + 1]
<1>1. o \in Settable
  BY DEF TypeOK
<1>2. opts[t][o] \in Seq(Digits)
  BY <1>1, OptionsAssumption DEF TypeOK
<1> HIDE DEF o
<1>3. Text(t) = Formatted(opts[t][o])
  BY DEF Text, o
<1> QED
  BY <1>2, <1>3, FormattedIs

\* The C string in the array is digits, ...
LEMMA UpToNulIs ==
  ASSUME TypeOK
  PROVE  /\ UpToNul \in Seq(Digits)
         /\ \A x \in Seq(Digits) :
              /\ Len(x) <= Room
              /\ \A k \in 1..Len(x) : value[k] = x[k]
              /\ value[Len(x) + 1] = NUL
              => UpToNul = x
<1> DEFINE nuls == {k \in 1..(Room + 1) : value[k] = NUL}
           end == CHOOSE k \in DOMAIN value :
                    value[k] = NUL /\ \A m \in 1..(k - 1) : value[m] # NUL
<1>1. /\ Room \in Nat /\ DOMAIN value = 1..(Room + 1) /\ NUL \notin Digits
      /\ \A k \in 1..(Room + 1) : value[k] \in Digits \cup {NUL}
      /\ value[Room + 1] = NUL
  BY OptionsAssumption DEF TypeOK
<1>2. nuls \in SUBSET Nat /\ nuls # {}
  BY <1>1
<1>3. PICK n \in nuls : \A m \in nuls : n <= m
  BY <1>2, Smallest
<1>4. n \in DOMAIN value /\ value[n] = NUL /\ \A m \in 1..(n - 1) : value[m] # NUL
  BY <1>1, <1>3
<1>5. end \in DOMAIN value /\ value[end] = NUL /\ \A m \in 1..(end - 1) : value[m] # NUL
  BY <1>4
<1>6. UpToNul = SubSeq(value, 1, end - 1)
  BY DEF UpToNul
<1> HIDE DEF end, nuls
<1>7. SubSeq(value, 1, end - 1) = [k \in 1..(end - 1) |-> value[k]]
  BY <1>1, <1>5
<1>8. \A k \in 1..(end - 1) : value[k] \in Digits
  BY <1>1, <1>5
<1>9. UpToNul \in Seq(Digits)
  BY <1>1, <1>5, <1>6, <1>7, <1>8
<1>10. ASSUME NEW x \in Seq(Digits), Len(x) <= Room,
              \A k \in 1..Len(x) : value[k] = x[k], value[Len(x) + 1] = NUL
       PROVE  UpToNul = x
  <2>1. Len(x) \in Nat /\ \A k \in 1..Len(x) : value[k] # NUL
    BY <1>1, <1>10
  <2>2. ~ (end <= Len(x))
    BY <1>1, <1>5, <2>1
  <2>3. ~ (end > Len(x) + 1)
    <3> SUFFICES ASSUME end > Len(x) + 1
                 PROVE  FALSE
      OBVIOUS
    <3>1. Len(x) + 1 \in 1..(end - 1)
      BY <1>1, <1>5, <2>1
    <3> QED
      BY <1>5, <1>10, <3>1
  <2>4. end - 1 = Len(x)
    BY <1>1, <1>5, <2>1, <2>2, <2>3
  <2>5. UpToNul = [k \in 1..Len(x) |-> x[k]]
    BY <1>6, <1>7, <1>10, <2>4
  <2> QED
    BY <2>5
<1> QED
  BY <1>9, <1>10

-----------------------------------------------------------------------------
(* The inductive invariant                                                 *)

\* A thread that formats or answers is asked for something yet, and a thread
\* without a handle for nothing.
Busy ==
  \A t \in Threads :
    /\ pc[t] \in {"format", "answer"} => t \in opened /\ Len(answers[t]) < Len(asked[t])
    /\ pc[t] = "set" \/ t \notin opened => answers[t] = <<>>
    /\ pc[t] = "format" => written[t] <= Len(Text(t))
    /\ pc[t] # "format" => written[t] = 0

\* The pairs set so far were not refused, and the options are what they make of
\* those the command began with.
SetSoFar(t) ==
  /\ \A k \in 1..set[t] : given[t][k][1] \notin Refused
  /\ \A o \in Settable :
       /\ (\A k \in 1..set[t] : given[t][k][1] # o) => opts[t][o] = before[t][o]
       /\ \A k \in 1..set[t] :
            given[t][k][1] = o /\ (\A m \in (k + 1)..set[t] : given[t][m][1] # o)
            => opts[t][o] = Stored(o, given[t][k][2])

Over(t) == pc[t] # "set" => set[t] = Len(given[t]) \/ AtRefused(t)

SetOnly == \A t \in Threads : SetSoFar(t) /\ Over(t)

OInv == TypeOK /\ Busy /\ SetOnly

LEMMA OInit ==
  ASSUME Init
  PROVE  OInv
<1>1. Zero \in Numerals
  BY OptionsAssumption
<1>2. value \in Seq(Digits \cup {NUL}) /\ Len(value) = Room + 1 /\ value[Room + 1] = NUL
  BY OptionsAssumption DEF Init
<1>3. TypeOK
  BY <1>1, <1>2, OptionsAssumption DEF Init, TypeOK
<1>4. ASSUME NEW t \in Threads
      PROVE  SetSoFar(t) /\ Over(t)
  <2>1. set[t] = 0 /\ given[t] = <<>> /\ before[t] = opts[t]
    BY DEF Init
  <2> QED
    BY <2>1 DEF SetSoFar, Over
<1> QED
  BY <1>3, <1>4 DEF Init, OInv, Busy, SetOnly

\* A step of t that leaves the answers and the options of the others alone.
LEMMA OthersBusy ==
  ASSUME OInv, NEW t \in Threads, NEW s \in Threads,
         opts'[s] = opts[s], s \in opened <=> s \in opened',
         pc'[s] = pc[s], asked'[s] = asked[s], answers'[s] = answers[s],
         written'[s] = written[s]
  PROVE  /\ pc'[s] \in {"format", "answer"} => s \in opened' /\ Len(answers'[s]) < Len(asked'[s])
         /\ pc'[s] = "set" \/ s \notin opened' => answers'[s] = <<>>
         /\ pc'[s] = "format" => written'[s] <= Len(Text(s)')
         /\ pc'[s] # "format" => written'[s] = 0
<1>1. Text(s)' = Text(s)
  BY DEF Text
<1> QED
  BY <1>1 DEF OInv, Busy

LEMMA SettingAlone ==
  ASSUME OInv, NEW s \in Threads,
         opts'[s] = opts[s], before'[s] = before[s], given'[s] = given[s],
         set'[s] = set[s], pc'[s] # "set" => pc[s] # "set"
  PROVE  SetSoFar(s)' /\ Over(s)'
  BY DEF OInv, SetOnly, SetSoFar, Over, AtRefused

LEMMA BeginKeeps ==
  ASSUME OInv, NEW t \in Threads, pc[t] = "idle", NEW o \in Values, NEW pairs \in Given,
         Begin(t, o, pairs)
  PROVE  OInv'
<1>1. /\ opts' = [opts EXCEPT ![t] = o] /\ before' = [before EXCEPT ![t] = o]
      /\ given' = [given EXCEPT ![t] = pairs] /\ set' = [set EXCEPT ![t] = 0]
      /\ asked' = [asked EXCEPT ![t] = <<>>] /\ answers' = [answers EXCEPT ![t] = <<>>]
      /\ pc' = [pc EXCEPT ![t] = "set"]
      /\ UNCHANGED <<opened, value, written>>
  BY DEF Begin
<1>2. /\ opts \in [Threads -> Values] /\ before \in [Threads -> Values]
      /\ given \in [Threads -> Given] /\ set \in [Threads -> Nat]
      /\ pc \in [Threads -> {"idle", "set", "format", "answer"}]
      /\ asked \in [Threads -> Seq(Settable)] /\ answers \in [Threads -> Seq(Seq(Digits))]
  BY DEF OInv, TypeOK, Values, Given
<1>3. \A s \in Threads :
        /\ Len(answers[s]) <= Len(asked[s]) /\ set[s] <= Len(given[s])
        /\ pairs \in Given /\ Len(pairs) \in Nat
  BY DEF OInv, TypeOK, Given
<1>4. /\ opts' \in [Threads -> Values] /\ before' \in [Threads -> Values]
      /\ given' \in [Threads -> Given] /\ set' \in [Threads -> Nat]
      /\ pc' \in [Threads -> {"idle", "set", "format", "answer"}]
  BY <1>1, <1>2
<1>5. /\ asked' \in [Threads -> Seq(Settable)] /\ answers' \in [Threads -> Seq(Seq(Digits))]
      /\ \A s \in Threads : Len(answers'[s]) <= Len(asked'[s]) /\ set'[s] <= Len(given'[s])
  BY <1>1, <1>2, <1>3
<1>6. TypeOK'
  BY <1>1, <1>4, <1>5 DEF OInv, TypeOK, Values, Given
<1>7. ASSUME NEW s \in Threads, s # t
      PROVE  /\ opts'[s] = opts[s] /\ before'[s] = before[s] /\ given'[s] = given[s]
             /\ set'[s] = set[s] /\ pc'[s] = pc[s] /\ asked'[s] = asked[s]
             /\ answers'[s] = answers[s]
  BY <1>1, <1>2, <1>7
<1>8. /\ opts'[t] = o /\ before'[t] = o /\ given'[t] = pairs /\ set'[t] = 0
      /\ pc'[t] = "set" /\ answers'[t] = <<>> /\ written'[t] = 0
  BY <1>1, <1>2 DEF OInv, Busy
<1>9. Busy'
  BY <1>1, <1>7, <1>8, OthersBusy DEF Busy
<1>10. SetSoFar(t)' /\ Over(t)'
  BY <1>8 DEF SetSoFar, Over
<1>11. SetOnly'
  BY <1>7, <1>10, SettingAlone DEF SetOnly
<1> QED
  BY <1>6, <1>9, <1>11 DEF OInv

LEMMA OpenKeeps ==
  ASSUME OInv, NEW t \in Threads, Open(t)
  PROVE  OInv'
<1>1. PICK o \in [Settable -> Numerals], pairs \in Pairs \cup {<<>>} : Begin(t, o, pairs)
  BY DEF Open
<1>2. pairs \in Given
  <2>1. CASE pairs \in Pairs
    BY <2>1, PairsAre
  <2>2. CASE pairs = <<>>
    BY <2>2 DEF Given
  <2> QED
    BY <2>1, <2>2
<1> QED
  BY <1>1, <1>2, BeginKeeps DEF Open, Values

LEMMA ConfigureKeeps ==
  ASSUME OInv, NEW t \in Threads, Configure(t)
  PROVE  OInv'
<1>1. PICK pairs \in Pairs : Begin(t, opts[t], pairs)
  BY DEF Configure
<1>2. opts[t] \in Values
  BY DEF OInv, TypeOK, Values
<1> QED
  BY <1>1, <1>2, PairsAre, BeginKeeps DEF Configure, Idle

LEMMA SetOptionKeeps ==
  ASSUME OInv, NEW t \in Threads, SetOption(t)
  PROVE  OInv'
<1> DEFINE n == set[t] + 1
           option == given[t][n][1]
           x == Stored(option, given[t][n][2])
<1>1. /\ pc[t] = "set" /\ set[t] < Len(given[t]) /\ ~ AtRefused(t)
      /\ opts' = [opts EXCEPT ![t][option] = x]
      /\ set' = [set EXCEPT ![t] = n]
      /\ UNCHANGED <<opened, given, before, value, asked, answers, written, pc>>
  BY DEF SetOption
<1>2. /\ opts \in [Threads -> Values] /\ set \in [Threads -> Nat] /\ given[t] \in Given
  BY DEF OInv, TypeOK, Values, Given
<1>3. n \in Nat /\ n \in 1..Len(given[t]) /\ n <= Len(given[t])
  BY <1>1, <1>2 DEF Given
<1>4. given[t][n] \in (Settable \cup Refused) \X Numerals
  BY <1>2, <1>3 DEF Given
<1>5. option \notin Refused
  BY <1>1, <1>3 DEF AtRefused
<1>6. option \in Settable /\ x \in Numerals
  BY <1>4, <1>5, StoredIs
<1> HIDE DEF x, option, n
<1>7. /\ opts' \in [Threads -> Values]
      /\ \A s \in Threads : s # t => opts'[s] = opts[s] /\ set'[s] = set[s]
      /\ \A o \in Settable : opts'[t][o] = IF o = option THEN x ELSE opts[t][o]
      /\ set' \in [Threads -> Nat] /\ set'[t] = n
  BY <1>1, <1>2, <1>3, <1>6 DEF Values
<1>8. \A s \in Threads : set'[s] <= Len(given'[s])
  BY <1>1, <1>3, <1>7 DEF OInv, TypeOK
<1>9. TypeOK'
  BY <1>1, <1>7, <1>8 DEF OInv, TypeOK, Values
<1>10. Busy'
  <2>1. ASSUME NEW s \in Threads, s # t
        PROVE  Text(s)' = Text(s)
    BY <1>1, <1>7, <2>1 DEF Text
  <2> QED
    BY <1>1, <2>1 DEF OInv, Busy
<1>11. SetSoFar(t)'
  <2>1. /\ n - 1 = set[t] /\ given'[t] = given[t] /\ before'[t] = before[t]
        /\ 1..n = (1..set[t]) \cup {n} /\ n \in 1..n
    BY <1>1, <1>2, <1>3 DEF n
  <2>2. \A k \in 1..set[t] : given[t][k][1] \notin Refused
    BY DEF OInv, SetOnly, SetSoFar
  <2>3. \A k \in 1..n : given[t][k][1] \notin Refused
    BY <1>5, <2>1, <2>2 DEF option
  <2>4. ASSUME NEW o \in Settable, \A k \in 1..n : given[t][k][1] # o
        PROVE  opts'[t][o] = before[t][o]
    <3>1. o # option /\ \A k \in 1..set[t] : given[t][k][1] # o
      BY <2>1, <2>4 DEF option
    <3> QED
      BY <1>7, <3>1 DEF OInv, SetOnly, SetSoFar
  <2>5. ASSUME NEW o \in Settable, NEW k \in 1..n, given[t][k][1] = o,
               \A m \in (k + 1)..n : given[t][m][1] # o
        PROVE  opts'[t][o] = Stored(o, given[t][k][2])
    <3>1. CASE k = n
      BY <1>7, <2>5, <3>1 DEF option, x
    <3>2. CASE k # n
      <4>1. k \in 1..set[t] /\ n \in (k + 1)..n
        BY <1>2, <1>3, <2>1, <3>2
      <4>2. o # option
        BY <2>5, <4>1 DEF option
      <4>3. \A m \in (k + 1)..set[t] : given[t][m][1] # o
        BY <1>2, <2>1, <2>5
      <4> QED
        BY <1>7, <2>5, <4>1, <4>2, <4>3 DEF OInv, SetOnly, SetSoFar
    <3> QED
      BY <3>1, <3>2
  <2> QED
    BY <1>7, <2>1, <2>3, <2>4, <2>5 DEF SetSoFar
<1>12. Over(t)'
  BY <1>1 DEF Over
<1>13. ASSUME NEW s \in Threads, s # t
       PROVE  SetSoFar(s)' /\ Over(s)'
  BY <1>1, <1>7, <1>13, SettingAlone
<1>14. SetOnly'
  BY <1>11, <1>12, <1>13 DEF SetOnly
<1> QED
  BY <1>9, <1>10, <1>14 DEF OInv

LEMMA SetEndsKeeps ==
  ASSUME OInv, NEW t \in Threads, SetEnds(t)
  PROVE  OInv'
<1>1. /\ pc[t] = "set" /\ (set[t] = Len(given[t]) \/ AtRefused(t))
      /\ pc' = [pc EXCEPT ![t] = "idle"]
      /\ opened' = IF AtRefused(t) THEN opened ELSE opened \cup {t}
      /\ UNCHANGED <<opts, given, set, before, value, asked, answers, written>>
  BY DEF SetEnds, setting
<1>2. /\ pc' \in [Threads -> {"idle", "set", "format", "answer"}]
      /\ \A s \in Threads : pc'[s] = IF s = t THEN "idle" ELSE pc[s]
  BY <1>1 DEF OInv, TypeOK
<1>3. TypeOK'
  BY <1>1, <1>2 DEF OInv, TypeOK
<1>4. answers[t] = <<>> /\ written[t] = 0
  BY <1>1 DEF OInv, Busy
<1>5. \A s \in Threads : Text(s)' = Text(s)
  BY <1>1 DEF Text
<1>6. Busy'
  BY <1>1, <1>2, <1>4, <1>5 DEF OInv, Busy
<1>7. ASSUME NEW s \in Threads
      PROVE  SetSoFar(s)' /\ Over(s)'
  BY <1>1, <1>2 DEF OInv, SetOnly, SetSoFar, Over, AtRefused
<1>8. SetOnly'
  BY <1>7 DEF SetOnly
<1> QED
  BY <1>3, <1>6, <1>8 DEF OInv

LEMMA AskKeeps ==
  ASSUME OInv, NEW t \in Threads, NEW options \in Seq(Settable), Len(options) # 0,
         Ask(t, options)
  PROVE  OInv'
<1>1. /\ t \in opened /\ pc[t] = "idle"
      /\ asked' = [asked EXCEPT ![t] = options] /\ answers' = [answers EXCEPT ![t] = <<>>]
      /\ given' = [given EXCEPT ![t] = <<>>] /\ set' = [set EXCEPT ![t] = 0]
      /\ before' = [before EXCEPT ![t] = opts[t]]
      /\ pc' = [pc EXCEPT ![t] = "format"]
      /\ UNCHANGED <<opened, opts, value, written>>
  BY DEF Ask, Idle
<1>2. /\ asked' \in [Threads -> Seq(Settable)] /\ answers' \in [Threads -> Seq(Seq(Digits))]
      /\ \A s \in Threads : Len(answers'[s]) <= Len(asked'[s])
      /\ Len(answers'[t]) < Len(asked'[t])
  BY <1>1 DEF OInv, TypeOK
<1>3. TypeOK'
  <2>1. /\ given' \in [Threads -> Given] /\ set' \in [Threads -> Nat]
        /\ before' \in [Threads -> Values]
        /\ \A s \in Threads : set'[s] <= Len(given'[s])
    BY <1>1 DEF OInv, TypeOK, Values, Given
  <2> QED
    BY <1>1, <1>2, <2>1 DEF OInv, TypeOK, Values, Given
<1>4. ASSUME NEW s \in Threads, s # t
      PROVE  asked'[s] = asked[s] /\ answers'[s] = answers[s] /\ Text(s)' = Text(s)
  BY <1>1, <1>4 DEF OInv, TypeOK, Text
<1>5. Len(Text(t)') \in 0..Room
  <2> DEFINE o == options[1]
  <2>1. o \in Settable
    OBVIOUS
  <2>2. opts[t][o] \in Seq(Digits)
    BY <2>1, OptionsAssumption DEF OInv, TypeOK
  <2>3. asked'[t] = options /\ Len(answers'[t]) + 1 = 1
    BY <1>1 DEF OInv, TypeOK
  <2>4. opts'[t][asked'[t][Len(answers'[t]) + 1]] = opts[t][o]
    BY <1>1, <2>3
  <2> HIDE DEF o
  <2>5. Text(t)' = Formatted(opts[t][o])
    BY <2>4 DEF Text, Formatted
  <2> QED
    BY <2>2, <2>5, FormattedIs
<1>6. \A s \in Threads : pc'[s] = IF s = t THEN "format" ELSE pc[s]
  BY <1>1 DEF OInv, TypeOK
<1>7. written[t] = 0
  BY <1>1 DEF OInv, Busy
<1>8. ASSUME NEW s \in Threads
      PROVE  /\ pc'[s] \in {"format", "answer"} => s \in opened' /\ Len(answers'[s]) < Len(asked'[s])
             /\ pc'[s] = "set" \/ s \notin opened' => answers'[s] = <<>>
             /\ pc'[s] = "format" => written'[s] <= Len(Text(s)')
             /\ pc'[s] # "format" => written'[s] = 0
  <2>1. CASE s = t
    BY <1>1, <1>2, <1>5, <1>6, <1>7, <2>1
  <2>2. CASE s # t
    BY <1>1, <1>4, <1>6, <2>2 DEF OInv, Busy
  <2> QED
    BY <2>1, <2>2
<1>9. Busy'
  BY <1>8 DEF Busy
<1>10. SetSoFar(t)' /\ Over(t)'
  <2>1. set'[t] = 0 /\ given'[t] = <<>> /\ before'[t] = opts'[t]
    BY <1>1 DEF OInv, TypeOK
  <2> QED
    BY <2>1 DEF SetSoFar, Over
<1>11. ASSUME NEW s \in Threads, s # t
       PROVE  SetSoFar(s)' /\ Over(s)'
  <2>1. /\ opts'[s] = opts[s] /\ before'[s] = before[s] /\ given'[s] = given[s]
        /\ set'[s] = set[s] /\ pc'[s] = pc[s]
    BY <1>1, <1>11 DEF OInv, TypeOK
  <2> QED
    BY <2>1, SettingAlone
<1>12. SetOnly'
  BY <1>10, <1>11 DEF SetOnly
<1> QED
  BY <1>3, <1>9, <1>12 DEF OInv

LEMMA WriteCharKeeps ==
  ASSUME OInv, NEW t \in Threads, WriteChar(t)
  PROVE  OInv'
<1> DEFINE k == written[t] + 1
           x == Text(t)
<1>1. /\ pc[t] = "format" /\ k <= Len(x)
      /\ value' = [value EXCEPT ![k] = x[k]] /\ written' = [written EXCEPT ![t] = k]
      /\ UNCHANGED <<opened, opts, given, set, before, asked, answers, pc>>
  BY DEF WriteChar, setting
<1>2. x \in Seq(Digits) /\ Len(x) \in 0..Room /\ Room \in Nat /\ written[t] \in Nat
  <2>1. x \in Seq(Digits) /\ Len(x) \in 0..Room
    BY <1>1, TextIs DEF OInv, Busy
  <2>2. Room \in Nat /\ written[t] \in Nat
    BY OptionsAssumption DEF OInv, TypeOK
  <2> QED
    BY <2>1, <2>2
<1> HIDE DEF x
<1>3. k \in 1..Room /\ k \in 1..Len(x) /\ x[k] \in Digits
  BY <1>1, <1>2
<1> HIDE DEF k
<1>4. value' \in Seq(Digits \cup {NUL}) /\ Len(value') = Room + 1 /\ value'[Room + 1] = NUL
  BY <1>1, <1>2, <1>3 DEF OInv, TypeOK
<1>5. written' \in [Threads -> 0..Room]
      /\ \A s \in Threads : written'[s] = IF s = t THEN k ELSE written[s]
  BY <1>1, <1>2, <1>3 DEF OInv, TypeOK
<1>6. TypeOK'
  BY <1>1, <1>4, <1>5 DEF OInv, TypeOK
<1>7. \A s \in Threads : Text(s)' = Text(s)
  BY <1>1 DEF Text
<1>8. Busy'
  BY <1>1, <1>3, <1>5, <1>7 DEF OInv, Busy, x
<1>9. SetOnly'
  <2>1. ASSUME NEW s \in Threads
        PROVE  /\ pc'[s] # "set" => pc[s] # "set"
               /\ opts'[s] = opts[s] /\ before'[s] = before[s] /\ given'[s] = given[s]
               /\ set'[s] = set[s]
    BY <1>1
  <2> QED
    BY <2>1, SettingAlone DEF SetOnly
<1> QED
  BY <1>1, <1>6, <1>8, <1>9 DEF OInv

LEMMA WriteNulKeeps ==
  ASSUME OInv, NEW t \in Threads, WriteNul(t)
  PROVE  OInv'
<1>1. /\ pc[t] = "format" /\ written[t] = Len(Text(t))
      /\ value' = [value EXCEPT ![written[t] + 1] = NUL]
      /\ written' = [written EXCEPT ![t] = 0]
      /\ pc' = [pc EXCEPT ![t] = "answer"]
      /\ UNCHANGED <<opened, opts, given, set, before, asked, answers>>
  BY DEF WriteNul, setting
<1>2. written[t] + 1 \in 1..(Room + 1) /\ Room \in Nat
  BY OptionsAssumption DEF OInv, TypeOK
<1>3. value' \in Seq(Digits \cup {NUL}) /\ Len(value') = Room + 1 /\ value'[Room + 1] = NUL
  BY <1>1, <1>2 DEF OInv, TypeOK
<1>4. /\ written' \in [Threads -> 0..Room]
      /\ \A s \in Threads : written'[s] = IF s = t THEN 0 ELSE written[s]
  BY <1>1, <1>2 DEF OInv, TypeOK
<1>5. /\ pc' \in [Threads -> {"idle", "set", "format", "answer"}]
      /\ \A s \in Threads : pc'[s] = IF s = t THEN "answer" ELSE pc[s]
  BY <1>1 DEF OInv, TypeOK
<1>6. TypeOK'
  BY <1>1, <1>3, <1>4, <1>5 DEF OInv, TypeOK
<1>7. \A s \in Threads : Text(s)' = Text(s)
  BY <1>1 DEF Text
<1>8. Busy'
  BY <1>1, <1>4, <1>5, <1>7 DEF OInv, Busy
<1>9. SetOnly'
  <2>1. ASSUME NEW s \in Threads
        PROVE  /\ pc'[s] # "set" => pc[s] # "set"
               /\ opts'[s] = opts[s] /\ before'[s] = before[s] /\ given'[s] = given[s]
               /\ set'[s] = set[s]
    BY <1>1, <1>5
  <2> QED
    BY <2>1, SettingAlone DEF SetOnly
<1> QED
  BY <1>1, <1>6, <1>8, <1>9 DEF OInv

LEMMA AnswerKeeps ==
  ASSUME OInv, NEW t \in Threads, Answer(t)
  PROVE  OInv'
<1>1. /\ pc[t] = "answer"
      /\ answers' = [answers EXCEPT ![t] = Append(@, UpToNul)]
      /\ pc' = [pc EXCEPT ![t] = IF Len(answers'[t]) < Len(asked[t]) THEN "format" ELSE "idle"]
      /\ UNCHANGED <<opened, opts, given, set, before, value, asked, written>>
  BY DEF Answer, setting
<1>2. UpToNul \in Seq(Digits)
  BY UpToNulIs DEF OInv
<1>3. /\ answers[t] \in Seq(Seq(Digits)) /\ Len(answers[t]) < Len(asked[t])
      /\ asked[t] \in Seq(Settable) /\ written[t] = 0
  BY <1>1 DEF OInv, TypeOK, Busy
<1>4. /\ answers' \in [Threads -> Seq(Seq(Digits))]
      /\ \A s \in Threads : answers'[s] = IF s = t THEN Append(answers[t], UpToNul)
                                                    ELSE answers[s]
  BY <1>1, <1>2, <1>3 DEF OInv, TypeOK
<1>5. Len(answers'[t]) <= Len(asked[t])
  BY <1>3, <1>4
<1>6. /\ pc' \in [Threads -> {"idle", "set", "format", "answer"}]
      /\ \A s \in Threads : s # t => pc'[s] = pc[s]
      /\ pc'[t] \in {"format", "idle"} /\ (pc'[t] = "format" => Len(answers'[t]) < Len(asked[t]))
  BY <1>1 DEF OInv, TypeOK
<1>7. TypeOK'
  BY <1>1, <1>4, <1>5, <1>6 DEF OInv, TypeOK
<1>8. ASSUME NEW s \in Threads
      PROVE  /\ pc'[s] \in {"format", "answer"} => s \in opened' /\ Len(answers'[s]) < Len(asked'[s])
             /\ pc'[s] = "set" \/ s \notin opened' => answers'[s] = <<>>
             /\ pc'[s] = "format" => written'[s] <= Len(Text(s)')
             /\ pc'[s] # "format" => written'[s] = 0
  <2>1. CASE s = t
    <3>1. ASSUME pc'[t] = "format"
          PROVE  Len(Text(t)') \in 0..Room
      <4> DEFINE o == asked[t][Len(answers'[t]) + 1]
      <4>1. o \in Settable
        BY <1>3, <1>4, <1>6, <3>1
      <4>2. opts[t][o] \in Seq(Digits)
        <5>1. opts \in [Threads -> [Settable -> Numerals]]
          BY DEF OInv, TypeOK
        <5> HIDE DEF o
        <5>2. opts[t][o] \in Numerals
          BY <4>1, <5>1
        <5> QED
          BY <5>2, OptionsAssumption
      <4> HIDE DEF o
      <4>3. Text(t)' = Formatted(opts[t][o])
        BY <1>1 DEF Text, o, Formatted
      <4> QED
        BY <4>2, <4>3, FormattedIs
    <3> QED
      BY <1>1, <1>3, <1>6, <2>1, <3>1 DEF OInv, Busy
  <2>2. CASE s # t
    <3>1. Text(s)' = Text(s)
      BY <1>1, <1>4, <2>2 DEF Text
    <3> QED
      BY <1>1, <1>4, <1>6, <2>2, <3>1 DEF OInv, Busy
  <2> QED
    BY <2>1, <2>2
<1>9. Busy'
  BY <1>8 DEF Busy
<1>10. SetOnly'
  <2>1. ASSUME NEW s \in Threads
        PROVE  /\ pc'[s] # "set" => pc[s] # "set"
               /\ opts'[s] = opts[s] /\ before'[s] = before[s] /\ given'[s] = given[s]
               /\ set'[s] = set[s]
    BY <1>1, <1>6
  <2> QED
    BY <2>1, SettingAlone DEF SetOnly
<1> QED
  BY <1>1, <1>7, <1>9, <1>10 DEF OInv

LEMMA AsksAre ==
  ASSUME NEW t \in Threads, (\E o \in Settable : Ask(t, <<o>>)) \/ Ask(t, Basic)
  PROVE  \E options \in Seq(Settable) : Len(options) # 0 /\ Ask(t, options)
<1>1. CASE Ask(t, Basic)
  BY <1>1, BasicIs
<1>2. CASE \E o \in Settable : Ask(t, <<o>>)
  <2>1. PICK o \in Settable : Ask(t, <<o>>)
    BY <1>2
  <2>2. PICK x : x = <<o>>
    OBVIOUS
  <2>3. x \in Seq(Settable) /\ Len(x) # 0
    BY <2>2
  <2> QED
    BY <2>1, <2>2, <2>3
<1> QED
  BY <1>1, <1>2

LEMMA OptionsInductive ==
  ASSUME OInv, [Next]_vars
  PROVE  OInv'
<1>1. CASE UNCHANGED vars
  BY <1>1 DEF vars, setting, OInv, TypeOK, Busy, Text, SetOnly, SetSoFar, Over, AtRefused
<1>2. ASSUME NEW t \in Threads, Open(t)
      PROVE  OInv'
  BY <1>2, OpenKeeps
<1>3. ASSUME NEW t \in Threads, Configure(t)
      PROVE  OInv'
  BY <1>3, ConfigureKeeps
<1>8. ASSUME NEW t \in Threads, SetOption(t)
      PROVE  OInv'
  BY <1>8, SetOptionKeeps
<1>9. ASSUME NEW t \in Threads, SetEnds(t)
      PROVE  OInv'
  BY <1>9, SetEndsKeeps
<1>4. ASSUME NEW t \in Threads, (\E o \in Settable : Ask(t, <<o>>)) \/ Ask(t, Basic)
      PROVE  OInv'
  BY <1>4, AsksAre, AskKeeps
<1>5. ASSUME NEW t \in Threads, WriteChar(t)
      PROVE  OInv'
  BY <1>5, WriteCharKeeps
<1>6. ASSUME NEW t \in Threads, WriteNul(t)
      PROVE  OInv'
  BY <1>6, WriteNulKeeps
<1>7. ASSUME NEW t \in Threads, Answer(t)
      PROVE  OInv'
  BY <1>7, AnswerKeeps
<1> QED
  BY <1>1, <1>2, <1>3, <1>4, <1>5, <1>6, <1>7, <1>8, <1>9 DEF Next

-----------------------------------------------------------------------------
(* One thread                                                              *)

\* There is no other thread to write the array.
Alone == \A s, t \in Threads : s = t

\* What was answered is right, and what is in the array is what was asked for.
AloneWith(t) ==
  /\ \A k \in DOMAIN answers[t] : answers[t][k] = Formatted(opts[t][asked[t][k]])
  /\ pc[t] = "format" => \A k \in 1..written[t] : value[k] = Text(t)[k]
  /\ pc[t] = "answer" => /\ \A k \in 1..Len(Text(t)) : value[k] = Text(t)[k]
                         /\ value[Len(Text(t)) + 1] = NUL

LEMMA AloneInit ==
  ASSUME Init, NEW t \in Threads
  PROVE  AloneWith(t)
  BY DEF Init, AloneWith

LEMMA AloneSets ==
  ASSUME OInv, NEW t \in Threads,
         Open(t) \/ Configure(t) \/ SetOption(t) \/ SetEnds(t)
  PROVE  AloneWith(t)'
<1>1. CASE Open(t) \/ Configure(t)
  <2>1. \E o, pairs : Begin(t, o, pairs)
    BY <1>1 DEF Open, Configure
  <2>2. pc'[t] = "set" /\ answers'[t] = <<>>
    BY <2>1 DEF Begin, OInv, TypeOK
  <2> QED
    BY <2>2 DEF AloneWith
<1>2. CASE SetOption(t) \/ SetEnds(t)
  <2>1. pc'[t] \in {"set", "idle"} /\ answers'[t] = <<>>
    BY <1>2 DEF SetOption, SetEnds, OInv, TypeOK, Busy
  <2> QED
    BY <2>1 DEF AloneWith
<1> QED
  BY <1>1, <1>2

LEMMA AloneAsks ==
  ASSUME OInv, NEW t \in Threads, AloneWith(t), NEW options, Ask(t, options)
  PROVE  AloneWith(t)'
<1>1. pc'[t] = "format" /\ answers'[t] = <<>> /\ written'[t] = 0 /\ t \in opened'
  BY DEF Ask, Idle, OInv, TypeOK, Busy
<1> QED
  BY <1>1 DEF AloneWith

LEMMA AloneWritesChar ==
  ASSUME OInv, NEW t \in Threads, AloneWith(t), WriteChar(t)
  PROVE  AloneWith(t)'
<1> DEFINE n == written[t] + 1
           x == Text(t)
<1>1. /\ pc[t] = "format" /\ n <= Len(x)
      /\ value' = [value EXCEPT ![n] = x[n]] /\ written' = [written EXCEPT ![t] = n]
      /\ UNCHANGED <<opened, opts, given, set, before, asked, answers, pc>>
  BY DEF WriteChar, setting
<1>2. Text(t)' = x
  BY <1>1 DEF Text
<1>3. /\ Len(x) \in 0..Room /\ Room \in Nat /\ written[t] \in Nat
      /\ DOMAIN value = 1..(Room + 1)
  <2>1. Len(x) \in 0..Room
    BY <1>1, TextIs DEF OInv, Busy
  <2>2. Room \in Nat /\ written[t] \in Nat /\ DOMAIN value = 1..(Room + 1)
    BY OptionsAssumption DEF OInv, TypeOK
  <2> HIDE DEF x
  <2> QED
    BY <2>1, <2>2
<1>4. \A k \in 1..written[t] : value[k] = x[k]
  BY <1>1 DEF AloneWith
<1>5. written'[t] = n
  BY <1>1 DEF OInv, TypeOK
<1> HIDE DEF x
<1>6. \A k \in 1..n : value'[k] = x[k]
  BY <1>1, <1>3, <1>4
<1> HIDE DEF n
<1>7. \A k \in 1..written'[t] : value'[k] = Text(t)'[k]
  BY <1>2, <1>5, <1>6
<1> QED
  BY <1>1, <1>7 DEF AloneWith

LEMMA AloneWritesNul ==
  ASSUME OInv, NEW t \in Threads, AloneWith(t), WriteNul(t)
  PROVE  AloneWith(t)'
<1> DEFINE n == written[t] + 1
           x == Text(t)
<1>1. /\ pc[t] = "format" /\ written[t] = Len(x)
      /\ value' = [value EXCEPT ![n] = NUL]
      /\ pc' = [pc EXCEPT ![t] = "answer"]
      /\ UNCHANGED <<opened, opts, given, set, before, asked, answers>>
  BY DEF WriteNul, setting
<1>2. Text(t)' = x
  BY <1>1 DEF Text
<1>3. /\ Len(x) \in 0..Room /\ Room \in Nat
      /\ DOMAIN value = 1..(Room + 1) /\ pc'[t] = "answer"
  <2>1. Len(x) \in 0..Room
    BY <1>1, TextIs DEF OInv, Busy
  <2>2. Room \in Nat /\ DOMAIN value = 1..(Room + 1)
    BY OptionsAssumption DEF OInv, TypeOK
  <2>3. pc'[t] = "answer"
    BY <1>1 DEF OInv, TypeOK
  <2> HIDE DEF x
  <2> QED
    BY <2>1, <2>2, <2>3
<1>4. \A k \in 1..Len(x) : value[k] = x[k]
  BY <1>1 DEF AloneWith
<1> HIDE DEF x
<1>5. (\A k \in 1..Len(x) : value'[k] = x[k]) /\ value'[Len(x) + 1] = NUL
  BY <1>1, <1>3, <1>4
<1> QED
  BY <1>1, <1>2, <1>3, <1>5 DEF AloneWith

LEMMA AloneAnswers ==
  ASSUME OInv, NEW t \in Threads, AloneWith(t), Answer(t)
  PROVE  AloneWith(t)'
<1> DEFINE x == Text(t)
           n == Len(answers[t]) + 1
<1>1. /\ pc[t] = "answer"
      /\ answers' = [answers EXCEPT ![t] = Append(@, UpToNul)]
      /\ pc' = [pc EXCEPT ![t] = IF Len(answers'[t]) < Len(asked[t]) THEN "format" ELSE "idle"]
      /\ UNCHANGED <<opened, opts, given, set, before, value, asked, written>>
  BY DEF Answer, setting
<1>2. /\ x \in Seq(Digits) /\ Len(x) \in 0..Room /\ t \in opened /\ written[t] = 0
  BY <1>1, TextIs DEF OInv, Busy
<1>3. /\ \A k \in 1..Len(x) : value[k] = x[k]
      /\ value[Len(x) + 1] = NUL
  BY <1>1 DEF AloneWith
<1>4. UpToNul = x
  BY <1>2, <1>3, UpToNulIs, OptionsAssumption DEF OInv
<1>5. x = Formatted(opts[t][asked[t][n]])
  BY DEF Text
<1>6. /\ answers'[t] = Append(answers[t], UpToNul) /\ answers[t] \in Seq(Seq(Digits))
      /\ pc'[t] # "answer" /\ t \in opened'
  BY <1>1, <1>2 DEF OInv, TypeOK
<1> HIDE DEF x
<1>7. ASSUME NEW k \in DOMAIN answers'[t]
      PROVE  answers'[t][k] = Formatted(opts[t][asked[t][k]])
  <2>1. CASE k = n
    <3>1. answers'[t][n] = UpToNul
      BY <1>6
    <3> QED
      BY <1>4, <1>5, <2>1, <3>1
  <2>2. CASE k # n
    <3>1. k \in DOMAIN answers[t] /\ answers'[t][k] = answers[t][k]
      BY <1>6, <2>2
    <3> QED
      BY <3>1 DEF AloneWith
  <2> QED
    BY <2>1, <2>2
<1>8. \A k \in DOMAIN answers'[t] : answers'[t][k] = Formatted(opts'[t][asked'[t][k]])
  BY <1>1, <1>7
<1>9. pc'[t] = "format" => \A k \in 1..written'[t] : value'[k] = Text(t)'[k]
  BY <1>1, <1>2
<1> QED
  BY <1>6, <1>8, <1>9 DEF AloneWith, Formatted

LEMMA AloneStep ==
  ASSUME OInv, Alone, [Next]_vars, NEW t \in Threads, AloneWith(t)
  PROVE  AloneWith(t)'
<1>1. CASE UNCHANGED vars
  BY <1>1 DEF vars, AloneWith, Text
<1>2. CASE Next
  <2>1. PICK s \in Threads :
          \/ Open(s) \/ Configure(s) \/ SetOption(s) \/ SetEnds(s)
          \/ (\E o \in Settable : Ask(s, <<o>>)) \/ Ask(s, Basic)
          \/ WriteChar(s) \/ WriteNul(s) \/ Answer(s)
    BY <1>2 DEF Next
  <2>2. s = t
    BY DEF Alone
  <2> QED
    BY <2>1, <2>2, AsksAre, AloneSets, AloneAsks, AloneWritesChar, AloneWritesNul, AloneAnswers
<1> QED
  BY <1>1, <1>2

-----------------------------------------------------------------------------
(* The theorems                                                            *)

\* In every state of every run the options are what set_option can make of
\* them, and a thread with an answer to come has asked for it.
THEOREM OptionsInvariant == Spec => []OInv
<1>1. Init => OInv
  BY OInit
<1>2. OInv /\ [Next]_vars => OInv'
  BY OptionsInductive
<1> QED
  BY <1>1, <1>2, PTL DEF Spec

\* The static array always ends in a NUL, and no write leaves it, whatever
\* values are formatted and however the threads take turns.
THEOREM OptionsTypeCorrect == Spec => []TypeOK
<1>1. OInv => TypeOK
  BY DEF OInv
<1> QED
  BY <1>1, OptionsInvariant, PTL

\* For every command of every thread, whatever pairs it is given and wherever
\* the one is that is refused, the options are those of the pairs before it.
THEOREM PairsAreSetUpToRefused == Spec => []SetUpToRefused
<1>1. ASSUME OInv, NEW t \in Threads, pc[t] # "set", NEW o \in Settable
      PROVE  LET naming == {k \in Kept(t) : given[t][k][1] = o} IN
             /\ naming = {} => opts[t][o] = before[t][o]
             /\ \A k \in naming :
                  (\A m \in naming : m <= k) => opts[t][o] = Stored(o, given[t][k][2])
  <2>1. SetSoFar(t) /\ (set[t] = Len(given[t]) \/ AtRefused(t))
    BY <1>1 DEF OInv, SetOnly, Over
  <2>2. /\ set[t] \in Nat /\ Len(given[t]) \in Nat /\ set[t] <= Len(given[t])
        /\ DOMAIN given[t] = 1..Len(given[t])
    BY <1>1 DEF OInv, TypeOK
  <2>3. \A k \in 1..set[t] : given[t][k][1] \notin Refused
    BY <2>1 DEF SetSoFar
  <2>4. Kept(t) = 1..set[t]
    <3>1. 1..set[t] \subseteq Kept(t)
      BY <2>2, <2>3 DEF Kept
    <3>2. ASSUME NEW k \in Kept(t), k \notin 1..set[t]
          PROVE  FALSE
      <4>1. k \in 1..Len(given[t]) /\ set[t] < Len(given[t]) /\ set[t] + 1 \in 1..k
        BY <2>2, <3>2 DEF Kept
      <4>2. given[t][set[t] + 1][1] \in Refused
        BY <2>1, <4>1 DEF AtRefused
      <4> QED
        BY <3>2, <4>1, <4>2 DEF Kept
    <3> QED
      BY <3>1, <3>2
  <2>5. (\A k \in 1..set[t] : given[t][k][1] # o) => opts[t][o] = before[t][o]
    BY <2>1 DEF SetSoFar
  <2>6. ASSUME NEW k \in 1..set[t], given[t][k][1] = o,
               \A m \in 1..set[t] : given[t][m][1] = o => m <= k
        PROVE  opts[t][o] = Stored(o, given[t][k][2])
    <3>1. \A m \in (k + 1)..set[t] : given[t][m][1] # o
      BY <2>2, <2>6
    <3> QED
      BY <2>1, <2>6, <3>1 DEF SetSoFar
  <2> QED
    BY <2>4, <2>5, <2>6
<1>2. OInv => SetUpToRefused
  BY <1>1 DEF SetUpToRefused
<1> QED
  BY <1>2, OptionsInvariant, PTL

LEMMA ShortIsWhole ==
  ASSUME NEW v \in Seq(Digits), Len(v) <= Room
  PROVE  Formatted(v) = v
  BY DEF Formatted

\* In a process of one thread, configure gives back the values the handle has,
\* if they fit the static array: only longer ones are not what the manual says.
THEOREM OneThreadReadsItsValues == ASSUME Alone PROVE Spec => []ShortAnswersAreValues
<1> DEFINE I == OInv /\ \A t \in Threads : AloneWith(t)
<1>1. Init => I
  BY OInit, AloneInit
<1>2. I /\ [Next]_vars => I'
  BY OptionsInductive, AloneStep
<1>3. ASSUME I, NEW t \in Threads, NEW k \in DOMAIN answers[t],
             Len(opts[t][asked[t][k]]) <= Room
      PROVE  answers[t][k] = opts[t][asked[t][k]]
  <2>1. k \in 1..Len(asked[t]) /\ asked[t][k] \in Settable
    <3>1. /\ asked[t] \in Seq(Settable) /\ answers[t] \in Seq(Seq(Digits))
          /\ Len(answers[t]) <= Len(asked[t])
      BY <1>3 DEF OInv, TypeOK
    <3>2. k \in 1..Len(answers[t])
      BY <1>3, <3>1
    <3> HIDE DEF I
    <3> QED
      BY <3>1, <3>2
  <2>2. opts[t][asked[t][k]] \in Seq(Digits)
    <3>1. opts[t] \in [Settable -> Numerals]
      BY <1>3 DEF OInv, TypeOK
    <3> QED
      BY <2>1, <3>1, OptionsAssumption
  <2> QED
    BY <1>3, <2>2, ShortIsWhole DEF AloneWith
<1>4. I => ShortAnswersAreValues
  BY <1>3 DEF ShortAnswersAreValues
<1> QED
  BY <1>1, <1>2, <1>4, PTL DEF Spec

=============================================================================
