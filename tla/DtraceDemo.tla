------------------------------ MODULE DtraceDemo ------------------------------
(***************************************************************************)
(* The simple demo (demos/dtracedemo.tcl): one handle, an editor whose     *)
(* programs are enabled one by one, and GO, which takes the editor away    *)
(* and starts the loop that serves the handle.  An error of process or     *)
(* aggregations is not caught here: it goes to the event loop, and the     *)
(* timer is not set again.                                                 *)
(***************************************************************************)
EXTENDS DemoHandles

CONSTANTS MaxPrograms,  \* bound: programs enabled
          MaxTimers     \* bound: timers of dtraceLoop

ASSUME DemoAssumption == MaxPrograms \in Nat /\ MaxTimers \in Nat

VARIABLES
  editor,   \* the editor and its buttons are in the window
  enabled,  \* programs that exec has enabled
  tracing,  \* go has started the handle
  pending,  \* timers of dtraceLoop
  failed    \* loops that an error ended

demoVars == <<editor, enabled, tracing, pending, failed>>

DemoTypeOK ==
  /\ HandlesTypeOK
  /\ {editor, tracing} \subseteq BOOLEAN
  /\ enabled \in 0..MaxPrograms
  /\ {pending, failed} \subseteq 0..MaxTimers

DemoInit ==
  /\ HandlesInit
  /\ editor = FALSE /\ tracing = FALSE
  /\ enabled = 0 /\ pending = 0 /\ failed = 0

-----------------------------------------------------------------------------
\* The script opens its handle, or ends with open's error, and builds the window.
Start ==
  /\ opened = 0 /\ CanOpen
  /\ opened' = NewHandle /\ live' = {NewHandle}
  /\ editor' = TRUE
  /\ UNCHANGED <<script, enabled, tracing, pending, failed>>

\* enableProbe: compile or exec may fail, which leaves the text in the editor.
EnableProgram ==
  /\ editor
  /\ enabled < MaxPrograms /\ enabled' = enabled + 1
  /\ UNCHANGED <<handleVars, editor, tracing, pending, failed>>

\* dtraceLoop, with so many timers and failures from before.
Serve(timers, failures) ==
  \/ pending' = timers + 1 /\ failed' = failures
  \/ pending' = timers /\ failed' = failures + 1

\* Mutant of Go: grid forget .editor left out.
GoKeepsEditor ==
  /\ editor /\ pending + failed < MaxTimers
  /\ tracing' = TRUE
  /\ Serve(pending, failed)
  /\ UNCHANGED <<handleVars, editor, enabled>>

\* GO; when the command go fails it ends there, and the editor stays.
Go ==
  /\ editor /\ pending + failed < MaxTimers
  /\ tracing' = TRUE
  /\ editor' = FALSE
  /\ Serve(pending, failed)
  /\ UNCHANGED <<handleVars, enabled>>

TimerOfDemo ==
  /\ pending > 0
  /\ Serve(pending - 1, failed)
  /\ UNCHANGED <<handleVars, editor, enabled, tracing>>

DemoNext ==
  /\ script = "demo"
  /\ Start \/ EnableProgram \/ Go \/ TimerOfDemo

DemoSpec == DemoInit /\ [][DemoNext]_<<handleVars, demoVars>>

-----------------------------------------------------------------------------
\* One loop serves the handle from GO on, whatever buttons are pressed in between,
\* until an error ends it; and from GO on no program is enabled.
OneLoop == script = "demo" =>
  /\ pending + failed = IF tracing THEN 1 ELSE 0
  /\ tracing => ~ editor
=============================================================================
