----------------------------- MODULE DtraceOptions ----------------------------
(***************************************************************************)
(* The configure command: options of a handle are set in the order given,  *)
(* up to the first one refused, and read back as text.  Every thread works *)
(* on a handle of its own, but get_option formats every answer in the same *)
(* static array, value, which configure reads after get_option returned.   *)
(*                                                                         *)
(* A value is the sequence of its decimal digits, so that what does not    *)
(* fit the array is cut where snprintf cuts it.                            *)
(***************************************************************************)
EXTENDS Integers, FiniteSets, SequencesExt

CONSTANTS Threads,
          LibOptions,  \* options of libdtrace that a script names
          Refused,     \* options libdtrace does not know
          Digits,      \* Digits: the digits values are written with
          Numerals,    \* values a script sets: sequences of digits
          Room,        \* characters that fit the static array, NUL aside
          MaxPairs     \* bound: options set or values asked for at once

FOLD == "-foldpdesc"
NUL == "NUL"
Zero == <<"0">>
One == <<"1">>
Settable == LibOptions \cup {FOLD}
Basic == SetToSeq(Settable)   \* basic_options, in some order

ASSUME OptionsAssumption ==
  /\ IsFiniteSet(LibOptions)
  /\ FOLD \notin LibOptions \cup Refused /\ LibOptions \cap Refused = {}
  /\ {"0", "1"} \subseteq Digits /\ NUL \notin Digits
  /\ Numerals \subseteq Seq(Digits) /\ {Zero, One} \subseteq Numerals
  /\ Room \in Nat \ {0} /\ MaxPairs \in Nat

VARIABLES
  opened,    \* threads that have a handle
  opts,      \* opts[t]: the options of the handle of t, foldpdesc among them
  given,     \* given[t]: the pairs of the command of t, or of its last one
  set,       \* set[t]: how many of them are set
  before,    \* history. before[t]: the options when that command began
  value,     \* the static array
  asked,     \* asked[t]: the options the last query of t is about
  answers,   \* answers[t]: the answers given to it so far
  written,   \* written[t]: characters written of the answer being formatted
  pc         \* pc[t]: "idle", "set", "format" or "answer"

setting == <<given, set, before>>
vars == <<opened, opts, setting, value, asked, answers, written, pc>>

TypeOK ==
  /\ opened \subseteq Threads
  /\ opts \in [Threads -> [Settable -> Numerals]]
  /\ before \in [Threads -> [Settable -> Numerals]]
  /\ given \in [Threads -> Seq((Settable \cup Refused) \X Numerals)]
  /\ set \in [Threads -> Nat]
  /\ value \in Seq(Digits \cup {NUL}) /\ Len(value) = Room + 1
  /\ value[Room + 1] = NUL
  /\ pc \in [Threads -> {"idle", "set", "format", "answer"}]
  /\ asked \in [Threads -> Seq(Settable)]
  /\ answers \in [Threads -> Seq(Seq(Digits))]
  /\ written \in [Threads -> 0..Room]
  /\ \A t \in Threads : Len(answers[t]) <= Len(asked[t]) /\ set[t] <= Len(given[t])

Init ==
  /\ opened = {}
  /\ opts = [t \in Threads |-> [o \in Settable |-> Zero]]
  /\ given = [t \in Threads |-> <<>>] /\ set = [t \in Threads |-> 0]
  /\ before = opts
  /\ value = [k \in 1..(Room + 1) |-> NUL]
  /\ asked = [t \in Threads |-> <<>>] /\ answers = [t \in Threads |-> <<>>]
  /\ written = [t \in Threads |-> 0]
  /\ pc = [t \in Threads |-> "idle"]

-----------------------------------------------------------------------------
\* set_option: foldpdesc takes every text but "0" for true.
Stored(option, v) == IF option = FOLD /\ v # Zero THEN One ELSE v

Pairs == UNION {[1..n -> (Settable \cup Refused) \X Numerals] : n \in 1..MaxPairs}

\* A command with pairs begins, on the options o.
Begin(t, o, pairs) ==
  /\ opts' = [opts EXCEPT ![t] = o] /\ before' = [before EXCEPT ![t] = o]
  /\ given' = [given EXCEPT ![t] = pairs] /\ set' = [set EXCEPT ![t] = 0]
  /\ asked' = [asked EXCEPT ![t] = <<>>] /\ answers' = [answers EXCEPT ![t] = <<>>]
  /\ pc' = [pc EXCEPT ![t] = "set"]
  /\ UNCHANGED <<opened, value, written>>

\* memset clears foldpdesc; the options of libdtrace have defaults, its own or
\* Open's.
Open(t) ==
  /\ t \notin opened /\ pc[t] = "idle"
  /\ \E o \in [Settable -> Numerals], pairs \in Pairs \cup {<<>>} :
       o[FOLD] = Zero /\ Begin(t, o, pairs)

Idle(t) == t \in opened /\ pc[t] = "idle"

Configure(t) ==
  /\ Idle(t)
  /\ \E pairs \in Pairs : Begin(t, opts[t], pairs)

\* The next pair is one that set_option refuses.
AtRefused(t) == set[t] < Len(given[t]) /\ given[t][set[t] + 1][1] \in Refused

\* Mutant of SetOption: a pair that is refused is passed over.
SetOptionOn(t) ==
  /\ pc[t] = "set" /\ set[t] < Len(given[t])
  /\ LET pair == given[t][set[t] + 1] IN
     opts' = IF pair[1] \in Refused THEN opts
             ELSE [opts EXCEPT ![t][pair[1]] = Stored(pair[1], pair[2])]
  /\ set' = [set EXCEPT ![t] = @ + 1]
  /\ UNCHANGED <<opened, given, before, value, asked, answers, written, pc>>

\* One round of the loop of Open and Configure.
SetOption(t) ==
  /\ pc[t] = "set" /\ set[t] < Len(given[t]) /\ ~ AtRefused(t)
  /\ LET pair == given[t][set[t] + 1] IN
     opts' = [opts EXCEPT ![t][pair[1]] = Stored(pair[1], pair[2])]
  /\ set' = [set EXCEPT ![t] = @ + 1]
  /\ UNCHANGED <<opened, given, before, value, asked, answers, written, pc>>

\* The command ends after the last pair or with an error at the first one that
\* is refused: of an open there is no handle then.
SetEnds(t) ==
  /\ pc[t] = "set" /\ (set[t] = Len(given[t]) \/ AtRefused(t))
  /\ pc' = [pc EXCEPT ![t] = "idle"]
  /\ opened' = IF AtRefused(t) THEN opened ELSE opened \cup {t}
  /\ UNCHANGED <<opts, setting, value, asked, answers, written>>

-----------------------------------------------------------------------------
\* What get_option formats: the next option asked for, cut to the array.  (The
\* handle's options cannot change before it is answered.)
Formatted(v) == SubSeq(v, 1, IF Len(v) <= Room THEN Len(v) ELSE Room)
Text(t) == Formatted(opts[t][asked[t][Len(answers[t]) + 1]])

Ask(t, options) ==
  /\ Idle(t)
  /\ asked' = [asked EXCEPT ![t] = options]
  /\ answers' = [answers EXCEPT ![t] = <<>>]
  /\ given' = [given EXCEPT ![t] = <<>>] /\ set' = [set EXCEPT ![t] = 0]
  /\ before' = [before EXCEPT ![t] = opts[t]]
  /\ pc' = [pc EXCEPT ![t] = "format"]
  /\ UNCHANGED <<opened, opts, value, written>>

\* snprintf writes the characters one by one, at last the NUL.
WriteChar(t) ==
  LET k == written[t] + 1 IN
  /\ pc[t] = "format" /\ k <= Len(Text(t))
  /\ value' = [value EXCEPT ![k] = Text(t)[k]]
  /\ written' = [written EXCEPT ![t] = k]
  /\ UNCHANGED <<opened, opts, setting, asked, answers, pc>>

\* Mutant of WriteNul: a copy that does not terminate the string.
WriteNulNot(t) ==
  /\ pc[t] = "format" /\ written[t] = Len(Text(t))
  /\ written' = [written EXCEPT ![t] = 0]
  /\ pc' = [pc EXCEPT ![t] = "answer"]
  /\ UNCHANGED <<opened, opts, setting, value, asked, answers>>

WriteNul(t) ==
  /\ pc[t] = "format" /\ written[t] = Len(Text(t))
  /\ value' = [value EXCEPT ![written[t] + 1] = NUL]
  /\ written' = [written EXCEPT ![t] = 0]
  /\ pc' = [pc EXCEPT ![t] = "answer"]
  /\ UNCHANGED <<opened, opts, setting, asked, answers>>

\* The array as a C string.
UpToNul ==
  LET end == CHOOSE k \in DOMAIN value :
               value[k] = NUL /\ \A m \in 1..(k - 1) : value[m] # NUL
  IN SubSeq(value, 1, end - 1)

\* Configure copies the array; a query of all options then goes on.
Answer(t) ==
  /\ pc[t] = "answer"
  /\ answers' = [answers EXCEPT ![t] = Append(@, UpToNul)]
  /\ pc' = [pc EXCEPT ![t] =
              IF Len(answers'[t]) < Len(asked[t]) THEN "format" ELSE "idle"]
  /\ UNCHANGED <<opened, opts, setting, value, asked, written>>

Next == \E t \in Threads :
  \/ Open(t)
  \/ Configure(t)
  \/ SetOption(t)
  \/ SetEnds(t)
  \/ \E o \in Settable : Ask(t, <<o>>)
  \/ Ask(t, Basic)
  \/ WriteChar(t) \/ WriteNul(t) \/ Answer(t)

Spec == Init /\ [][Next]_vars

-----------------------------------------------------------------------------
\* The pairs a command sets are those before the first one refused.
Kept(t) == {k \in DOMAIN given[t] : \A m \in 1..k : given[t][m][1] \notin Refused}

\* A refused pair is no rollback and no reset: once a command is over, each
\* option has the value of the last pair that names it before the first refused
\* one, and an option no such pair names is as it was.  A query, or a command
\* of another thread, sets nothing.
SetUpToRefused ==
  \A t \in Threads : pc[t] # "set" =>
    \A o \in Settable :
      LET naming == {k \in Kept(t) : given[t][k][1] = o} IN
      /\ naming = {} => opts[t][o] = before[t][o]
      /\ \A k \in naming :
           (\A m \in naming : m <= k) => opts[t][o] = Stored(o, given[t][k][2])

\* The manual: "the command returns the current value of the given option".
\* The code breaks it for two threads, and for a value longer than the static
\* array.
AnswersAreValues ==
  \A t \in Threads : \A k \in DOMAIN answers[t] :
    answers[t][k] = opts[t][asked[t][k]]

\* What is left of it for one thread: a value that fits the array is returned
\* as it is, whatever an answer before it left there.
ShortAnswersAreValues ==
  \A t \in Threads : \A k \in DOMAIN answers[t] :
    LET v == opts[t][asked[t][k]] IN Len(v) <= Room => answers[t][k] = v
=============================================================================
