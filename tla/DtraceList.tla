------------------------------ MODULE DtraceList ------------------------------
(***************************************************************************)
(* The list command: libdtrace walks the statements of a compiled program  *)
(* and calls listStatement for each; that walks the probes the statement   *)
(* matches, and listProbe runs the script's callback on each probe.        *)
(* Several statements of one clause share the clause's ecb description and *)
(* follow one another; list must not repeat the probes for each.           *)
(*                                                                         *)
(* The callback is a script: it may set -foldpdesc, which listProbe reads  *)
(* again for every probe, and it may close the very handle that is being   *)
(* walked.                                                                 *)
(***************************************************************************)
EXTENDS DtraceNames, SequencesExt

CONSTANTS Ecbs,      \* ecb descriptions, one for each clause and probe pattern
          Probes,    \* descriptions of probes
          Matches,   \* Matches[e]: the probes that the pattern of e matches
          Programs,  \* programs: the ecb of each statement, in order
          NULL

\* The D compiler emits the statements of a clause next to each other.
Grouped(prog) ==
  \A j, k \in DOMAIN prog : j < k /\ prog[j] = prog[k] =>
    \A m \in j..k : prog[m] = prog[j]

ASSUME ListAssumption ==
  /\ Probes \subseteq Descriptions
  /\ Matches \in [Ecbs -> Seq(Probes)]
  /\ Programs \subseteq Seq(Ecbs)
  /\ \A prog \in Programs : Grouped(prog)
  /\ NULL \notin Ecbs

VARIABLES
  hd,         \* the handle of the program: "live" or "freed"
  foldpdesc,  \* hd->options.foldpdesc
  program,    \* the program being listed
  stmt,       \* statements walked so far
  last,       \* arg.last
  left,       \* probes of the present statement still to be walked
  called,     \* probes the callback was run on, and the names it got for them
  pc          \* "idle", "walk", "callback", or the end of the Tcl process:
              \* "unmatched" when libdtrace cannot walk the probes, "panic" after
              \* an error, "undefined" in memory that was freed

vars == <<hd, foldpdesc, program, stmt, last, left, called, pc>>

Calls == {[probe |-> p, name |-> formatProbeDesc(fold, p)] : p \in Probes, fold \in BOOLEAN}

TypeOK ==
  /\ hd \in {"live", "freed"} /\ foldpdesc \in BOOLEAN
  /\ program \in Programs \cup {<<>>}
  /\ stmt \in 0..Len(program)
  /\ last \in Ecbs \cup {NULL}
  /\ left \in Seq(Probes)
  /\ called \in Seq(Calls)
  /\ pc \in {"idle", "walk", "callback", "unmatched", "panic", "undefined"}

Init ==
  /\ hd = "live" /\ foldpdesc = FALSE
  /\ program = <<>> /\ stmt = 0 /\ last = NULL
  /\ left = <<>> /\ called = <<>> /\ pc = "idle"

-----------------------------------------------------------------------------
(* List and listStatement                                                  *)

\* Mutants of ListBegin: the list_arg survives from the last list, with the
\* ecb or with the position reached.
ListBeginKeepsLast ==
  /\ pc = "idle" /\ hd = "live"
  /\ program' \in Programs
  /\ stmt' = 0 /\ left' = <<>> /\ called' = <<>>
  /\ pc' = "walk"
  /\ UNCHANGED <<hd, foldpdesc, last>>

ListBegin ==
  /\ pc = "idle" /\ hd = "live"
  /\ program' \in Programs
  /\ stmt' = 0 /\ last' = NULL /\ left' = <<>> /\ called' = <<>>
  /\ pc' = "walk"
  /\ UNCHANGED <<hd, foldpdesc>>

ListEnds ==
  /\ pc = "walk" /\ left = <<>> /\ stmt = Len(program)
  /\ pc' = "idle"
  /\ UNCHANGED <<hd, foldpdesc, program, stmt, last, left, called>>

\* listStatement, when the previous statement had another ecb, ...
NewStatement ==
  LET enabled == program[stmt + 1] IN
  /\ pc = "walk" /\ left = <<>> /\ stmt < Len(program)
  /\ enabled # last
  /\ last' = enabled
  /\ stmt' = stmt + 1
  /\ \/ left' = Matches[enabled] /\ UNCHANGED pc
     \/ pc' = "unmatched" /\ UNCHANGED left
  /\ UNCHANGED <<hd, foldpdesc, program, called>>

\* Mutant of RepeatedStatement: the iteration stays at a repeated statement.
RepeatedStatementStays ==
  /\ pc = "walk" /\ left = <<>> /\ stmt < Len(program)
  /\ program[stmt + 1] = last
  /\ UNCHANGED vars

\* ... and when it had the same.
RepeatedStatement ==
  /\ pc = "walk" /\ left = <<>> /\ stmt < Len(program)
  /\ program[stmt + 1] = last
  /\ stmt' = stmt + 1
  /\ UNCHANGED <<hd, foldpdesc, program, last, left, called, pc>>

-----------------------------------------------------------------------------
(* listProbe: the callback, what it may do to the handle, how it ends      *)

ListProbe ==
  /\ pc = "walk" /\ left # <<>>
  /\ called' = Append(called, [probe |-> Head(left),
                               name |-> formatProbeDesc(foldpdesc, Head(left))])
  /\ left' = Tail(left)
  /\ pc' = "callback"
  /\ UNCHANGED <<hd, foldpdesc, program, stmt, last>>

\* configure -foldpdesc, by the callback or between two commands.
Configure ==
  /\ pc \in {"idle", "callback"} /\ hd = "live"
  /\ foldpdesc' = ~ foldpdesc
  /\ UNCHANGED <<hd, program, stmt, last, left, called, pc>>

\* close, by the callback.
CallbackCloses ==
  /\ pc = "callback" /\ hd = "live"
  /\ hd' = "freed"
  /\ UNCHANGED <<foldpdesc, program, stmt, last, left, called, pc>>

\* libdtrace walks on in the handle it was given.
CallbackReturns ==
  /\ pc = "callback"
  /\ pc' = IF hd = "live" THEN "walk" ELSE "undefined"
  /\ UNCHANGED <<hd, foldpdesc, program, stmt, last, left, called>>

\* DTRACE_HANDLE_ABORT ends dtrace_probe_iter with a value other than 0, which
\* listStatement takes for a statement that matches nothing; its message asks
\* the handle for the error.
CallbackFails ==
  /\ pc = "callback"
  /\ pc' = IF hd = "live" THEN "panic" ELSE "undefined"
  /\ UNCHANGED <<hd, foldpdesc, program, stmt, last, left, called>>

List ==
  \/ ListEnds \/ NewStatement \/ RepeatedStatement \/ ListProbe
  \/ CallbackReturns \/ CallbackFails

Next == ListBegin \/ List \/ Configure \/ CallbackCloses

Spec == Init /\ [][Next]_vars
FairSpec == Spec /\ WF_vars(List)

-----------------------------------------------------------------------------
\* The probes of a statement, unless the statement before it is of the same clause.
Added(prog, k) == IF k > 1 /\ prog[k - 1] = prog[k] THEN <<>> ELSE Matches[prog[k]]

\* "for each of the probes matched by the compiled program", without iteration: what
\* the first n statements list, and what all do.
Walked(prog, n) == FlattenSeq([k \in 1..n |-> Added(prog, k)])
Listing(prog) == Walked(prog, Len(prog))

\* The callback is run on each probe of each clause, once and in order, when list
\* is done; when an error, a close or libdtrace broke it off, and at any time
\* before, it was run on those that come first.
ListsEachProbeOnce ==
  LET probes == [k \in DOMAIN called |-> called[k].probe] IN
  /\ IsPrefix(probes, Listing(program))
  /\ pc = "idle" => probes = Listing(program)

\* The callback can tell any two probes apart by their names, also when it sets
\* -foldpdesc in between: the same name for two of them means that one of them,
\* folded, was cut or has a colon within a field.
NamesTellApart ==
  \A j, k \in DOMAIN called :
    /\ called[j].name = called[k].name
    /\ called[j].probe # called[k].probe
    => ~ Legible(called[j].probe) \/ ~ Legible(called[k].probe)

\* List comes to an end, one way or another, whatever its callbacks do.
ListReturns ==
  pc \in {"walk", "callback"} ~> pc \in {"idle", "unmatched", "panic", "undefined"}
=============================================================================
