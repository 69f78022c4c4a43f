------------------------------ MODULE DtraceGui ------------------------------
(***************************************************************************)
(* The graphical demo (demos/dtracegui.tcl).  Each probe that is enabled   *)
(* has a handle, a button that disables it and a timer that processes it;  *)
(* button and timer know the handle by what they were given, and either    *)
(* may close it first.  Tcl runs one event handler at a time, and none of  *)
(* these calls back into the event loop.                                   *)
(***************************************************************************)
EXTENDS DemoHandles

CONSTANT MaxIds  \* bound: times that "Enable" is pressed

ASSUME GuiAssumption == MaxIds \in Nat

VARIABLES
  topId,    \* number of the last probe
  buttons,  \* grid slaves .active: the arguments of each button's disableProbe
  timers    \* the arguments of each dtraceLoop that "after" has scheduled

guiVars == <<topId, buttons, timers>>

Probe == [id : 1..MaxIds, handle : Handle]

GuiTypeOK ==
  /\ HandlesTypeOK
  /\ topId \in 0..MaxIds
  /\ buttons \subseteq {p \in Probe : p.id <= topId /\ p.handle <= opened}
  /\ timers \subseteq {p \in Probe : p.id <= topId /\ p.handle <= opened}

GuiInit == HandlesInit /\ topId = 0 /\ buttons = {} /\ timers = {}

-----------------------------------------------------------------------------
\* Mutants of DtraceLoop: a button that stays; a timer whatever happened.
DtraceLoopKeepsButton(p, held, shown, waiting) ==
  \/ /\ p.handle \in held
     /\ live' = held /\ buttons' = shown
     /\ timers' \in {waiting, waiting \cup {p}}
  \/ live' = held \ {p.handle} /\ buttons' = shown /\ timers' = waiting

DtraceLoopGoesOn(p, held, shown, waiting) ==
  \/ /\ p.handle \in held
     /\ live' = held /\ buttons' = shown /\ timers' = waiting \cup {p}
  \/ /\ live' = held \ {p.handle}
     /\ buttons' = {b \in shown : b.id # p.id}
     /\ timers' = waiting \cup {p}

\* dtraceLoop: process and aggregations succeed, or process raises an error,
\* which it always does on a closed handle.  An error of aggregations is not
\* caught, and leaves the probe enabled and without a timer.
DtraceLoop(p, held, shown, waiting) ==
  \/ /\ p.handle \in held
     /\ live' = held /\ buttons' = shown
     /\ timers' \in {waiting, waiting \cup {p}}
  \/ /\ live' = held \ {p.handle}
     /\ buttons' = {b \in shown : b.id # p.id}
     /\ timers' = waiting

\* enableProbe, when open fails, ...
OpenRefused ==
  /\ topId < MaxIds
  /\ topId' = topId + 1
  /\ UNCHANGED <<script, live, opened, buttons, timers>>

\* Mutant of ProgramRefused: the error leaves the handle open.
ProgramRefusedLeaks ==
  /\ topId < MaxIds /\ CanOpen
  /\ topId' = topId + 1
  /\ opened' = NewHandle
  /\ live' = live \cup {NewHandle}
  /\ UNCHANGED <<script, buttons, timers>>

\* ... when compile or exec fails, ...
ProgramRefused ==
  /\ topId < MaxIds /\ CanOpen
  /\ topId' = topId + 1
  /\ opened' = NewHandle
  /\ UNCHANGED <<script, live, buttons, timers>>

\* ... and when the program is in the kernel: go may still fail, with the button
\* already there.
EnableProbe ==
  LET p == [id |-> topId + 1, handle |-> NewHandle]
      held == live \cup {NewHandle}
      shown == buttons \cup {p}
  IN
  /\ topId < MaxIds /\ CanOpen
  /\ topId' = p.id
  /\ opened' = NewHandle
  /\ UNCHANGED script
  /\ \/ live' = held /\ buttons' = shown /\ UNCHANGED timers
     \/ DtraceLoop(p, held, shown, timers)

Timer(p) ==
  /\ p \in timers
  /\ DtraceLoop(p, live, buttons, timers \ {p})
  /\ UNCHANGED <<script, topId, opened>>

\* disableProbe: close raises an error on a closed handle, and the button stays.
DisableProbe(p) ==
  /\ p \in buttons
  /\ live' = live \ {p.handle}
  /\ buttons' = IF p.handle \in live THEN {b \in buttons : b.id # p.id} ELSE buttons
  /\ UNCHANGED <<script, topId, opened, timers>>

\* armageddon invokes the buttons one after the other, up to the first error.
Armageddon ==
  /\ buttons # {}
  /\ \E done \in SUBSET {b \in buttons : b.handle \in live} :
       /\ done # buttons => \E b \in buttons \ done :
            b.handle \notin live \ {d.handle : d \in done}
       /\ live' = live \ {b.handle : b \in done}
       /\ buttons' = buttons \ done
  /\ UNCHANGED <<script, topId, opened, timers>>

GuiNext ==
  /\ script = "gui"
  /\ \/ OpenRefused \/ ProgramRefused \/ EnableProbe \/ Armageddon
     \/ \E p \in Probe : Timer(p) \/ DisableProbe(p)

\* Tcl's event loop serves a timer that is due, whatever else happens.
GuiFairness == \A p \in Probe : WF_<<handleVars, guiVars>>(Timer(p))

GuiSpec == GuiInit /\ [][GuiNext]_<<handleVars, guiVars>> /\ GuiFairness

-----------------------------------------------------------------------------
\* Every handle that is open has its one button, also when go or aggregations
\* failed, and no button is left for a handle that is closed.
ButtonsShowLive == script = "gui" =>
  /\ \A b \in buttons : b.handle \in live
  /\ \A h \in live : \E b \in buttons : b.handle = h
  /\ \A b, c \in buttons : b.id = c.id \/ b.handle = c.handle => b = c

\* "Disable all probes" does that, however the probes came to be.
ArmageddonDisables ==
  [][Armageddon => buttons' = {} /\ live' = {}]_<<handleVars, guiVars>>

\* The timer of a probe that was disabled finds its handle closed, and is the
\* last one.
TimersStop ==
  \A h \in Handle :
    h <= opened /\ h \notin live ~> ~ \E p \in timers : p.handle = h
=============================================================================
