--------------------------- MODULE DtraceAggregations -------------------------
(***************************************************************************)
(* How the aggregations command gathers its result.  libdtrace prints an   *)
(* aggregation buffer by buffer, and every buffer comes to the handler     *)
(* buf_or_agg in a call of its own: first the members of the tuple, then   *)
(* the value, then white space.  The action printa() of a D program prints *)
(* aggregations too, during process, and with a format it does so in the   *)
(* order of the format.  agghandler puts them together in hd->agg, which   *)
(* outlives the command: whatever interrupts the printing, or prints       *)
(* aggregations at another time, finds the state of the last one.  Every   *)
(* text is trimmed by cutWhiteSpace, whose steps are steps of this module. *)
(***************************************************************************)
EXTENDS CutWhiteSpace, SequencesExt

CONSTANTS Tables,   \* contents libdtrace may find in the aggregation buffer:
                    \* the members of a key and the value, as it prints them
          Formats,  \* formats of printa: for every conversion the number of
                    \* the member it prints, or 0 for the value
          MaxCuts,  \* bound: printings that may leave a tuple half made
          NULL

ASSUME AggregationsAssumption ==
  /\ Tables \subseteq Seq([key : Seq(Texts), value : Texts])
  /\ Formats \subseteq Seq(Nat)
  /\ MaxCuts \in Nat
  /\ NULL \notin Seq(Seq(Letters \cup {Blank}))

VARIABLES
  tuple,    \* hd->agg.tuple: NULL or the members gathered so far
  list,     \* elements of hd->agg.list while aggregations gathers them
  holder,   \* who that list belongs to: "none" if hd->agg.list is NULL, "hd",
            \* or "script" once it was the result of a command
  table,    \* what libdtrace is printing
  todo,     \* buffers of it that were not handed to buf_or_agg yet
  cuts,     \* history: printings that were broken off, or whose format has
            \* members that no value follows
  pc        \* "idle", "collect" in aggregations, "work" in process, or the end:
            \* in Tcl_Panic, "panic" of aggregations and "printa panic" of
            \* process, or "undefined" on a list that is not its own

aggVars == <<tuple, list, holder, table, todo, cuts, pc>>
vars == <<aggVars, cutVars>>

\* What libdtrace hands out for one record: no member for a tuple of none.
Buffer(kind, text) == [kind |-> kind, text |-> text]
Printed(r) ==
  [k \in DOMAIN r.key |-> Buffer("member", r.key[k])]
    \o <<Buffer("value", r.value), Buffer("space", <<>>)>>
PrintedAll(t) == FlattenSeq([k \in DOMAIN t |-> Printed(t[k])])

\* The same for a printa with a format, for records that have all its members.
Fits(f, t) == \A k \in DOMAIN t : \A n \in DOMAIN f : f[n] <= Len(t[k].key)
Formatted(f, r) ==
  [n \in DOMAIN f |-> IF f[n] = 0 THEN Buffer("value", r.value)
                                 ELSE Buffer("member", r.key[f[n]])]
    \o <<Buffer("space", <<>>)>>
FormattedAll(f, t) == FlattenSeq([k \in DOMAIN t |-> Formatted(f, t[k])])

\* No value comes behind the last members.
EndsInMembers(s) ==
  \E k \in DOMAIN s : /\ s[k].kind = "member"
                      /\ \A j \in DOMAIN s : j > k => s[j].kind # "value"

\* The result the manual promises: tuples and values, in turn.
ShownKey(r) == [m \in DOMAIN r.key |-> Shown(r.key[m])]
Pairs(t) == FlattenSeq([k \in DOMAIN t |-> <<ShownKey(t[k]), Shown(t[k].value)>>])

Words == Seq(Letters \cup {Blank})

TypeOK ==
  /\ CutTypeOK
  /\ tuple # NULL => tuple \in Seq(Words)
  /\ list \in Seq(Seq(Words) \cup Words)
  /\ holder \in {"none", "hd", "script"}
  /\ cuts \in 0..MaxCuts
  /\ table \in Tables \cup {<<>>}
  /\ todo \in Seq([kind : {"member", "value", "space"}, text : Texts \cup {<<>>}])
  /\ pc \in {"idle", "collect", "work", "panic", "printa panic", "undefined"}

Init ==
  /\ NoFrame
  /\ tuple = NULL /\ list = <<>> /\ holder = "none"
  /\ table = <<>> /\ todo = <<>>
  /\ cuts = 0 /\ pc = "idle"

-----------------------------------------------------------------------------
(* Aggregations, and the printing action printa() of a D program, whose    *)
(* output libdtrace hands out during process.                              *)

AggregationsBegin ==
  /\ pc = "idle"
  /\ table' \in Tables
  /\ todo' = PrintedAll(table')
  /\ list' = <<>> /\ holder' = "hd"
  /\ pc' = "collect"
  /\ UNCHANGED <<tuple, cuts, cutVars>>

\* The list object lives on with the script; its elements matter no more.
AggregationsDone ==
  /\ pc = "collect" /\ todo = <<>>
  /\ holder' = "script"
  /\ list' = <<>> /\ table' = <<>>
  /\ pc' = "idle"
  /\ UNCHANGED <<tuple, todo, cuts, cutVars>>

\* dtrace_aggregate_print fails, perhaps half way; the list is abandoned.
AggregationsFails ==
  /\ pc = "collect" /\ at = "idle"
  /\ cuts < MaxCuts /\ cuts' = cuts + 1
  /\ list' = <<>> /\ table' = <<>> /\ todo' = <<>>
  /\ pc' = "idle"
  /\ UNCHANGED <<tuple, holder, cutVars>>

ProcessPrinta ==
  /\ pc = "idle"
  /\ table' \in Tables
  /\ \/ todo' = PrintedAll(table')
     \/ \E f \in Formats : Fits(f, table') /\ todo' = FormattedAll(f, table')
  /\ cuts' = IF EndsInMembers(todo') THEN cuts + 1 ELSE cuts
  /\ cuts' <= MaxCuts
  /\ pc' = "work"
  /\ UNCHANGED <<tuple, list, holder, cutVars>>

ProcessDone ==
  /\ pc = "work" /\ todo = <<>>
  /\ table' = <<>> /\ pc' = "idle"
  /\ UNCHANGED <<tuple, list, holder, todo, cuts, cutVars>>

\* dtrace_work fails, perhaps in the middle of a printa.
ProcessFails ==
  /\ pc = "work" /\ at = "idle"
  /\ cuts < MaxCuts /\ cuts' = cuts + 1
  /\ table' = <<>> /\ todo' = <<>>
  /\ pc' = "idle"
  /\ UNCHANGED <<tuple, list, holder, cutVars>>

-----------------------------------------------------------------------------
(* agghandler, by the kind of buffer it is given.  A member or a value is  *)
(* handed to cutWhiteSpace, and used when that returns.                    *)

Handed(kind) ==
  /\ pc \in {"collect", "work"}
  /\ todo # <<>> /\ Head(todo).kind = kind
  /\ UNCHANGED <<holder, table, cuts>>

MemberCuts ==
  /\ Handed("member")
  /\ Call(Head(todo).text)
  /\ UNCHANGED <<tuple, list, todo, pc>>

ValueCuts ==
  /\ Handed("value")
  /\ tuple # NULL /\ holder = "hd"
  /\ Call(Head(todo).text)
  /\ UNCHANGED <<tuple, list, todo, pc>>

\* Mutant of Member: a tuple is appended to, but never begun.
MemberNeverBegins ==
  /\ Handed("member") /\ Return
  /\ tuple' = IF tuple = NULL THEN NULL ELSE Append(tuple, Result)
  /\ todo' = Tail(todo)
  /\ UNCHANGED <<list, pc>>

\* Mutant of Member: every member starts a tuple of its own.
MemberReplaces ==
  /\ Handed("member") /\ Return
  /\ tuple' = <<Result>>
  /\ todo' = Tail(todo)
  /\ UNCHANGED <<list, pc>>

Member ==
  /\ Handed("member") /\ Return
  /\ tuple' = IF tuple = NULL THEN <<Result>> ELSE Append(tuple, Result)
  /\ todo' = Tail(todo)
  /\ UNCHANGED <<list, pc>>

\* Mutant of Value: the value before its tuple.
ValueFirst ==
  /\ Handed("value") /\ Return
  /\ list' = IF pc = "collect" THEN list \o <<Result, tuple>> ELSE list
  /\ tuple' = NULL
  /\ todo' = Tail(todo)
  /\ UNCHANGED pc

\* Mutant of Value: agg->tuple = NULL left out.
ValueKeepsTuple ==
  /\ Handed("value") /\ Return
  /\ list' = IF pc = "collect" THEN list \o <<tuple, Result>> ELSE list
  /\ todo' = Tail(todo)
  /\ UNCHANGED <<tuple, pc>>

\* What process appends to a list that aggregations abandoned is never seen.
Value ==
  /\ Handed("value") /\ Return
  /\ list' = IF pc = "collect" THEN list \o <<tuple, Result>> ELSE list
  /\ tuple' = NULL
  /\ todo' = Tail(todo)
  /\ UNCHANGED pc

\* "empty aggregation tuple"
ValuePanics ==
  /\ Handed("value")
  /\ tuple = NULL
  /\ pc' = IF pc = "collect" THEN "panic" ELSE "printa panic"
  /\ UNCHANGED <<tuple, list, todo, cutVars>>

\* There is no list, or it is the script's by now: freed, shared or in use.
ValueHasNoList ==
  /\ Handed("value")
  /\ tuple # NULL /\ holder # "hd"
  /\ pc' = "undefined"
  /\ UNCHANGED <<tuple, list, todo, cutVars>>

Space ==
  /\ Handed("space")
  /\ todo' = Tail(todo)
  /\ UNCHANGED <<tuple, list, pc, cutVars>>

cutWhiteSpace == Run /\ UNCHANGED aggVars

Next ==
  \/ AggregationsBegin \/ AggregationsDone \/ AggregationsFails
  \/ ProcessPrinta \/ ProcessDone \/ ProcessFails
  \/ MemberCuts \/ ValueCuts \/ Member \/ Value
  \/ ValuePanics \/ ValueHasNoList \/ Space \/ cutWhiteSpace

Spec == Init /\ [][Next]_vars

-----------------------------------------------------------------------------
(* Safety                                                                  *)

\* The result of an aggregations command is exactly the buffer's content,
\* tuple and value in turn, nothing from an earlier printing in it, as long as
\* none was broken off or ended in members, in whatever order formats print.
ResultIsTable ==
  pc = "collect" /\ todo = <<>> /\ cuts = 0 => list = Pairs(table)

\* When a printing has come to its end, and none was broken off or ended in
\* members, no tuple is left half made for the next one.
NoHalfTuple == pc = "idle" /\ cuts = 0 => tuple = NULL

\* Whatever earlier printings left behind spoils at most one tuple: the result
\* still has a tuple and a value in turn, and every record printed since is in it.
ResultIsPaired ==
  pc = "collect" /\ todo = <<>> =>
    /\ Len(list) = 2 * Len(table)
    /\ \A k \in DOMAIN table :
         /\ list[2 * k] = Shown(table[k].value)
         /\ IsSuffix(ShownKey(table[k]), list[2 * k - 1])
         /\ k > 1 => list[2 * k - 1] = ShownKey(table[k])

\* Nothing but an aggregation without keys makes the aggregations command panic:
\* in particular nothing that an earlier printing left behind, not even a printa
\* that was broken off or had a format of its own.
PanicsOnlyKeyless == pc = "panic" => \E k \in DOMAIN table : table[k].key = <<>>

(* What the manual promises, and the code does not do.                     *)

\* aggregations returns the tuple-value pairs of every aggregation, those
\* without a tuple included.
EveryTableIsReturned == pc # "panic"
=============================================================================
