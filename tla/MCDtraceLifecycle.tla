--------------------------- MODULE MCDtraceLifecycle --------------------------
(* Small instance of DtraceLifecycle for TLC.                              *)
EXTENDS DtraceLifecycle

CONSTANTS i1, i2, h1, h2, h3
=============================================================================
