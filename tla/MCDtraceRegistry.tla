--------------------------- MODULE MCDtraceRegistry ---------------------------
(* Small instance of DtraceRegistry for TLC.                               *)
EXTENDS DtraceRegistry, TLC

CONSTANTS i1, i2, a1, a2

MCSymmetry == Permutations({i1, i2}) \cup Permutations({a1, a2})
=============================================================================
