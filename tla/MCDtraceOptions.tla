---------------------------- MODULE MCDtraceOptions ---------------------------
(* Small instances of DtraceOptions for TLC: an array for two characters.  *)
EXTENDS DtraceOptions

MCDigits == {"0", "1", "4"}
MCShort == {<<"0">>, <<"1">>, <<"4", "1">>}
MCLong == MCShort \cup {<<"4", "1", "0">>}
=============================================================================
