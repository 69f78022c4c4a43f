------------------------------ MODULE CutWhiteSpace -----------------------------
(***************************************************************************)
(* The helper cutWhiteSpace, which trims every text libdtrace prints for   *)
(* an aggregation: two loops over a C string and a buffer of TUPLE_STRLEN  *)
(* bytes on the stack.  One step per turn of a loop, so that the index of  *)
(* every write and the use of size before it is set can be seen.  The      *)
(* variables are its frame; a call makes it, the return drops it.          *)
(***************************************************************************)
EXTENDS Integers, Sequences

CONSTANTS TUPLE_STRLEN,   \* size of the buffer
          Texts,          \* what may be printed: sequences over Letters and Blank
          Letters, Blank,
          UNSET           \* a local variable nothing was stored in yet

NUL == "NUL"

ASSUME CutAssumption ==
  /\ TUPLE_STRLEN \in Nat \ {0}
  /\ Blank \notin Letters /\ UNSET \notin Int
  /\ NUL \notin Letters \cup {Blank}
  /\ Texts \subseteq Seq(Letters \cup {Blank})

VARIABLES csource,  \* the argument
          source,   \* how many leading characters were skipped
          i, size,  \* the locals of that name
          writes,   \* the index of every byte written to buf, in order
          at        \* "idle" when it is not called, "skip" and "copy" in the
                    \* loops, "return", or "undefined" with an unset size

cutVars == <<csource, source, i, size, writes, at>>

\* The character source[k] of C, or NUL at its end.
Char(k) == IF source + k < Len(csource) THEN csource[source + k + 1] ELSE NUL

NoFrame ==
  /\ csource = <<>> /\ source = 0 /\ i = 0
  /\ size = UNSET /\ writes = <<>> /\ at = "idle"

Call(text) ==
  /\ at = "idle"
  /\ csource' = text
  /\ at' = "skip"
  /\ UNCHANGED <<source, i, size, writes>>

\* Mutant of SkipBlank: the loop compares with a character that does not occur.
SkipBlankNever ==
  /\ at = "skip" /\ at' = "copy"
  /\ UNCHANGED <<csource, source, i, size, writes>>

SkipBlank ==
  /\ at = "skip"
  /\ IF Char(0) = Blank THEN source' = source + 1 /\ UNCHANGED at
                        ELSE at' = "copy" /\ UNCHANGED source
  /\ UNCHANGED <<csource, i, size, writes>>

\* Mutant of CopyChar: <= for <.
CopyCharTooFar ==
  /\ at = "copy"
  /\ Char(i) # NUL /\ i <= TUPLE_STRLEN
  /\ writes' = Append(writes, i)
  /\ size' = IF Char(i) # Blank THEN i ELSE size
  /\ i' = i + 1
  /\ UNCHANGED <<csource, source, at>>

\* Mutant of CopyChar: blanks count for the size.
CopyCharAlwaysSizes ==
  /\ at = "copy"
  /\ Char(i) # NUL /\ i < TUPLE_STRLEN
  /\ writes' = Append(writes, i)
  /\ size' = i
  /\ i' = i + 1
  /\ UNCHANGED <<csource, source, at>>

CopyChar ==
  /\ at = "copy"
  /\ Char(i) # NUL /\ i < TUPLE_STRLEN
  /\ writes' = Append(writes, i)
  /\ size' = IF Char(i) # Blank THEN i ELSE size
  /\ i' = i + 1
  /\ UNCHANGED <<csource, source, at>>

\* buf[++size] = 0; an unset size may be any number.
Terminate ==
  /\ at = "copy"
  /\ ~ (Char(i) # NUL /\ i < TUPLE_STRLEN)
  /\ size # UNSET
  /\ size' = size + 1
  /\ writes' = Append(writes, size + 1)
  /\ at' = "return"
  /\ UNCHANGED <<csource, source, i>>

TerminateUnset ==
  /\ at = "copy"
  /\ ~ (Char(i) # NUL /\ i < TUPLE_STRLEN)
  /\ size = UNSET
  /\ at' = "undefined"
  /\ UNCHANGED <<csource, source, i, size, writes>>

\* What buf holds when the function returns: the bytes 0 .. size - 1.
Result == [k \in 1..size |-> Char(k - 1)]

Return ==
  /\ at = "return"
  /\ csource' = <<>> /\ source' = 0 /\ i' = 0
  /\ size' = UNSET /\ writes' = <<>> /\ at' = "idle"

Run == SkipBlank \/ CopyChar \/ Terminate \/ TerminateUnset

-----------------------------------------------------------------------------
CutTypeOK ==
  /\ csource \in Texts \cup {<<>>}
  /\ source \in 0..Len(csource)
  /\ i \in 0..TUPLE_STRLEN
  /\ size \in (0..TUPLE_STRLEN) \cup {UNSET}
  /\ writes \in Seq(0..TUPLE_STRLEN)
  /\ at \in {"idle", "skip", "copy", "return", "undefined"}

\* Trimming, without loops: the text between its first and its last letter.
LettersOf(t) == {k \in DOMAIN t : t[k] # Blank}
Trimmed(t) ==
  LET first == CHOOSE k \in LettersOf(t) : \A m \in LettersOf(t) : k <= m
      last == CHOOSE k \in LettersOf(t) : \A m \in LettersOf(t) : m <= k
  IN SubSeq(t, first, last)

\* The text without the blanks around it, cut to the buffer, and rid of the blanks
\* that are now at its end.
Shown(t) ==
  IF Len(Trimmed(t)) <= TUPLE_STRLEN THEN Trimmed(t)
                                     ELSE Trimmed(SubSeq(Trimmed(t), 1, TUPLE_STRLEN))

\* A text that has a letter comes back as Shown says.
CutsWhiteSpace == at = "return" => Result = Shown(csource)

\* size is used unset on a text that has no letter, and on no other.
UnsetOnBlankOnly == at \in {"return", "undefined"} =>
  (at = "undefined" <=> LettersOf(csource) = {})

\* The buffer is overrun by the terminating NUL alone, and only by one byte.
OverrunByOne ==
  \A k \in DOMAIN writes :
    writes[k] < TUPLE_STRLEN \/ (writes[k] = TUPLE_STRLEN /\ at = "return" /\ k = Len(writes))
=============================================================================
