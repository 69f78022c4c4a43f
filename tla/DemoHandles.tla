----------------------------- MODULE DemoHandles -----------------------------
(***************************************************************************)
(* The extension as a demo script sees it: HandleService for one           *)
(* interpreter, without programs.  Ids count up and are never given again; *)
(* close succeeds on a live handle, and every command raises an error on   *)
(* one that was closed.                                                    *)
(***************************************************************************)
EXTENDS Integers, FiniteSets

CONSTANTS MaxOpens,  \* bound: handles opened in a run
          NULL

ASSUME DemoHandlesAssumption == MaxOpens \in Nat /\ NULL \notin 1..MaxOpens

VARIABLES
  script,  \* the demo that the process runs: "gui", "net" or "demo"
  live,    \* handles that are open
  opened   \* handles opened so far, the id of the last one

handleVars == <<script, live, opened>>

Handle == 1..MaxOpens

HandlesTypeOK ==
  /\ script \in {"gui", "net", "demo"}
  /\ opened \in 0..MaxOpens
  /\ live \subseteq 1..opened

HandlesInit == script \in {"gui", "net", "demo"} /\ live = {} /\ opened = 0

CanOpen == opened < MaxOpens
NewHandle == opened + 1
=============================================================================
