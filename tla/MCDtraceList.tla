----------------------------- MODULE MCDtraceList -----------------------------
(* DtraceList on all programs of up to three statements and three clauses, *)
(* with probes whose folded names fit, do not fit, and have a colon more.  *)
EXTENDS DtraceList

CONSTANTS e1, e2, e3, a, b

Desc(mod, func, name) ==
  [dtpd_provider |-> <<a>>, dtpd_mod |-> mod, dtpd_func |-> func, dtpd_name |-> name]

\* Nine bytes take a name of eight characters.
MCProbes == {Desc(<<a>>, <<a>>, <<a>>),             \* fits: a:a:a:a
             Desc(<<a>>, <<b>>, <<a>>),             \* fits: a:b:a:a
             Desc(<<a>>, <<a, b>>, <<a>>),          \* just fits: a:a:ab:a
             Desc(<<a>>, <<a, b>>, <<a, a>>),       \* cut, to the same
             Desc(<<a, Colon, a>>, <<>>, <<a>>),    \* a colon of its own ...
             Desc(<<a>>, <<a, Colon>>, <<a>>)}      \* ... and the same name
MCMatches ==
  [e \in {e1, e2, e3} |->
     CASE e = e1 -> <<Desc(<<a>>, <<a>>, <<a>>), Desc(<<a>>, <<a, b>>, <<a>>)>>
       [] e = e2 -> <<Desc(<<a>>, <<b>>, <<a>>), Desc(<<a>>, <<a, b>>, <<a, a>>),
                      Desc(<<a, Colon, a>>, <<>>, <<a>>)>>
       [] e = e3 -> <<Desc(<<a>>, <<a, Colon>>, <<a>>)>>]
MCPrograms == {prog \in UNION {[1..n -> {e1, e2, e3}] : n \in 0..3} : Grouped(prog)}

\* The name of an architecture, as Open gives it to libdtrace, can be told back, no
\* two architectures have one name, and swapping is needed from the one to the
\* other whenever it is needed the other way round.
ASSUME ArchitecturesAreToldApart ==
  /\ \A arch \in Intel \cup PowerPC : arch_for_string(string_for_arch(arch)) = arch
  /\ \A x, y \in Intel \cup PowerPC : needs_swapping(x, y) = needs_swapping(y, x)

\* A kind the extension does not know is never given the name of one it knows.
ASSUME UnknownKindsAreTold ==
  /\ bufType("SPECULATE") \notin KnownActions
  /\ dropKind("SPECULATE") \notin KnownDrops
=============================================================================
