-------------------------- MODULE MCDtraceAggregations ------------------------
(* Small instance of DtraceAggregations for TLC.  Values are all texts of  *)
(* up to one character more than the buffer; keys are made of texts that  *)
(* fit, do not fit, are blank, and end in a blank where they are cut.  The *)
(* formats print no value, the value first, two values, and no member.     *)
EXTENDS DtraceAggregations

CONSTANTS a, b

MCTexts == UNION {[1..n -> {a, b, Blank}] : n \in 0..(TUPLE_STRLEN + 1)}
MCKeys == {<<>>, <<<<Blank>>>>, <<<<Blank, a>>>>, <<<<b, a, Blank, b>>, <<a>>>>}
MCValue == <<Blank, b>>
MCTables ==
  {<<>>}
    \cup {<<[key |-> <<<<a>>>>, value |-> text]>> : text \in MCTexts}
    \cup [1..2 -> [key : MCKeys, value : {MCValue}]]
MCFormats == {<<1>>, <<0, 1>>, <<1, 0, 0>>, <<0>>}
=============================================================================
