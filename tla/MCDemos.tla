------------------------------- MODULE MCDemos -------------------------------
(* The three demos, of which a process runs one.                            *)
EXTENDS DtraceGui, NetDemo, DtraceDemo

CONSTANTS s1, s2
MCSocks == {s1, s2}

Init == GuiInit /\ NetInit /\ DemoInit

Next ==
  \/ GuiNext /\ UNCHANGED <<netVars, demoVars>>
  \/ NetNext /\ UNCHANGED <<guiVars, demoVars>>
  \/ DemoNext /\ UNCHANGED <<guiVars, netVars>>

Spec ==
  /\ Init
  /\ [][Next]_<<handleVars, guiVars, netVars, demoVars>>
  /\ GuiFairness /\ NetFairness
=============================================================================
