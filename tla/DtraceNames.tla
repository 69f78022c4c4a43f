------------------------------- MODULE DtraceNames ------------------------------
(***************************************************************************)
(* What callbacks are told in words: probe descriptions, the kinds of      *)
(* records and drops, and, on a Mac, the architecture a handle is opened   *)
(* for.  These are functions of their arguments, without state.            *)
(***************************************************************************)
EXTENDS Integers, Sequences

CONSTANTS NameSize,   \* the array name of formatProbeDesc, its NUL included
          Chars,      \* the characters of the names
          Colon       \* the one between the fields of a folded name

ASSUME NamesAssumption == NameSize \in Nat \ {0} /\ Colon \in Chars

-----------------------------------------------------------------------------
(* Probe descriptions.  A field is a sequence of characters.               *)

Descriptions == [dtpd_provider : Seq(Chars), dtpd_mod : Seq(Chars),
                 dtpd_func : Seq(Chars), dtpd_name : Seq(Chars)]

Fields(pdesc) == <<pdesc.dtpd_provider, pdesc.dtpd_mod, pdesc.dtpd_func, pdesc.dtpd_name>>

Folded(pdesc) ==
  pdesc.dtpd_provider \o <<Colon>> \o pdesc.dtpd_mod \o <<Colon>>
    \o pdesc.dtpd_func \o <<Colon>> \o pdesc.dtpd_name

\* snprintf stores what there is room for.
Cut(text) == SubSeq(text, 1, IF Len(text) < NameSize THEN Len(text) ELSE NameSize - 1)

\* Mutant of formatProbeDesc: the function left out of the format.
FormatWithoutFunc(foldpdesc, pdesc) ==
  IF foldpdesc
    THEN [text |-> Cut(Folded([pdesc EXCEPT !.dtpd_func = <<>>]))]
    ELSE [elements |-> Fields(pdesc)]

formatProbeDesc(foldpdesc, pdesc) ==
  IF foldpdesc THEN [text |-> Cut(Folded(pdesc))]
               ELSE [elements |-> Fields(pdesc)]

\* A folded name from which the description can be told again: nothing of it was
\* cut, and no field has the separator in it.
Legible(pdesc) ==
  /\ Len(Folded(pdesc)) < NameSize
  /\ \A f \in 1..4 : \A k \in DOMAIN Fields(pdesc)[f] : Fields(pdesc)[f][k] # Colon

-----------------------------------------------------------------------------
(* Kinds                                                                   *)

KnownActions == {"DIFEXPR", "PRINTF", "PRINTA", "USTACK", "JSTACK", "STACK"}
bufType(number) == IF number \in KnownActions THEN number ELSE "UNKNOWN"

KnownDrops == {"PRINCIPAL", "AGGREGATION", "DYNAMIC", "DYNRINSE", "DYNDIRTY",
               "SPEC", "SPECBUSY", "SPECUNAVAIL", "STKSTROVERFLOW", "DBLERROR"}
dropKind(number) == IF number \in KnownDrops THEN number ELSE "UNKNOWN"

-----------------------------------------------------------------------------
(* Architectures.  0 is the cpu_type_t for a text that names none, NULL the *)
(* text for a type that has none.                                          *)

Intel == {"CPU_TYPE_I386", "CPU_TYPE_X86_64"}
PowerPC == {"CPU_TYPE_POWERPC", "CPU_TYPE_POWERPC64"}

string_for_arch(arch) ==
  CASE arch = "CPU_TYPE_I386"      -> "i386"
    [] arch = "CPU_TYPE_X86_64"    -> "x86_64"
    [] arch = "CPU_TYPE_POWERPC"   -> "ppc"
    [] arch = "CPU_TYPE_POWERPC64" -> "ppc64"
    [] OTHER                       -> "NULL"

arch_for_string(string) ==
  CASE string = "i386"   -> "CPU_TYPE_I386"
    [] string = "x86_64" -> "CPU_TYPE_X86_64"
    [] string = "ppc"    -> "CPU_TYPE_POWERPC"
    [] string = "ppc64"  -> "CPU_TYPE_POWERPC64"
    [] OTHER             -> "0"

needs_swapping(a, b) == (a \in Intel /\ b \in PowerPC) \/ (a \in PowerPC /\ b \in Intel)
=============================================================================
