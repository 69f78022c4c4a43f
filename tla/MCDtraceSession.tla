---------------------------- MODULE MCDtraceSession ---------------------------
(* Small instance of DtraceSession for TLC.                                *)
EXTENDS DtraceSession, TLC

CONSTANTS o1, o2, p1, p2

MCSlots == {"probe_desc", "proc"}
MCSymmetry == Permutations({o1, o2}) \cup Permutations({p1, p2})
=============================================================================
