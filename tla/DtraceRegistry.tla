---------------------------- MODULE DtraceRegistry ----------------------------
(***************************************************************************)
(* The tables that stand between the Tcl level of the extension and        *)
(* libdtrace: every interpreter keeps a table of handles (id ->            *)
(* handle_data) and a table of programs (id -> program_data); the ids come *)
(* from two counters shared by all threads, each behind its own mutex.     *)
(*                                                                         *)
(* Every interpreter is run by a thread of its own.  A thread is inside at *)
(* most one command of this module; frame[i] is that command's C frame.    *)
(* The only points where threads meet are the two counters, so a command   *)
(* is cut into steps there and at its calls of libdtrace, nowhere else.    *)
(***************************************************************************)
EXTENDS Integers, FiniteSets

CONSTANTS Interps,   \* interpreters that may load the package
          Nobody,    \* what a free mutex is held by
          Addr,      \* heap cells a handle_data may occupy; freed cells are reused
          MaxId,     \* bound: no open starts once next_free_id is above it
          MaxPid     \* bound: no compile starts once next_free_pid is above it

NULL == 0
Counters == {"id", "pid"}
Bound == [c \in Counters |-> IF c = "id" THEN MaxId ELSE MaxPid]

ASSUME RegistryAssumption ==
  /\ Nobody \notin Interps
  /\ NULL \notin Addr /\ IsFiniteSet(Addr)
  /\ MaxId \in Nat /\ MaxPid \in Nat

VARIABLES
  loaded,     \* interpreters that have the package data (dtrace_data) attached
  mutex,      \* mutex[c]: the interpreter whose thread holds the counter's mutex
  next_free,  \* next_free["id"] is next_free_id, next_free["pid"] next_free_pid
  handles,    \* all entries of all handle tables; e.in is the table's interpreter
  programs,   \* all entries of all program tables, with their program_data
  handle,     \* handle[a]: the field hd->handle of the cell a; survives free()
  lib_open,   \* open libdtrace handles, each named by the id it was opened for
  enabled,    \* programs exec'ed: where they were enabled, where compiled
  frame       \* frame[i]: the command that the thread of i is in

vars == <<loaded, mutex, next_free, handles, programs, handle, lib_open,
          enabled, frame>>
tables == <<handles, programs>>
libdtrace == <<lib_open, enabled>>

HandleEntry == [in : Interps, id : Nat, hd : Addr]
ProgramEntry == [in : Interps, id : Nat, hd : Addr, compiled : Nat]
Steps == {"idle", "lock", "take", "bump", "use", "opening", "configuring"}
Frame == [pc : Steps, counter : Counters, id : Nat,
          hd : Addr \cup {NULL}, compiled : Nat]
IdleFrame == [pc |-> "idle", counter |-> "id", id |-> 0, hd |-> NULL,
              compiled |-> 0]

TypeOK ==
  /\ loaded \subseteq Interps
  /\ mutex \in [Counters -> Interps \cup {Nobody}]
  /\ next_free \in [Counters -> Nat]
  /\ handles \subseteq HandleEntry
  /\ programs \subseteq ProgramEntry
  /\ handle \in [Addr -> Nat]
  /\ lib_open \subseteq Nat \ {NULL}
  /\ enabled \subseteq [lib : Nat, compiled : Nat]
  /\ frame \in [Interps -> Frame]

Init ==
  /\ loaded = {}
  /\ mutex = [c \in Counters |-> Nobody]
  /\ next_free = [c \in Counters |-> 1]
  /\ handles = {} /\ programs = {}
  /\ handle = [a \in Addr |-> NULL]
  /\ lib_open = {} /\ enabled = {}
  /\ frame = [i \in Interps |-> IdleFrame]

-----------------------------------------------------------------------------
Registered == {e.hd : e \in handles}
Idle(i) == i \in loaded /\ frame[i].pc = "idle"
At(i, step, c) == frame[i].pc = step /\ frame[i].counter = c
Goto(i, step) == frame' = [frame EXCEPT ![i].pc = step]
Return(i) == frame' = [frame EXCEPT ![i] = IdleFrame]

\* get_hd and handleCheck: the entry of i's table under an id, if it is usable.
Usable(i) == {e \in handles : e.in = i /\ handle[e.hd] # NULL}
\* get_pd, and handleCheck on the handle_data the program points to.
Runnable(i) == {p \in programs : p.in = i /\ handle[p.hd] # NULL}

\* Mutant of DelHd: the loop over the programs was forgotten.
DelHdKeepsPrograms(i, id) ==
  /\ handles' = {e \in handles : ~ (e.in = i /\ e.id = id)}
  /\ UNCHANGED programs

\* Mutant of DelHd: one program table for the process, as the counters are.
DelHdForAll(i, id) ==
  /\ handles' = {e \in handles : ~ (e.in = i /\ e.id = id)}
  /\ programs' = {}

\* del_hd: the entry and its memory go, and so do all the programs of i.
DelHd(i, id) ==
  /\ handles' = {e \in handles : ~ (e.in = i /\ e.id = id)}
  /\ programs' = {p \in programs : p.in # i}

\* dtrace_close: what the library handle had enabled is gone with it.
LibClose(libs) ==
  /\ lib_open' = lib_open \ libs
  /\ enabled' = {x \in enabled : x.lib \notin libs}

-----------------------------------------------------------------------------
(* Dtrace_Init, and Dtrace_DeInit as onDestroy runs it.                    *)

Load(i) ==
  /\ i \notin loaded
  /\ loaded' = loaded \cup {i}
  /\ UNCHANGED <<mutex, next_free, tables, handle, libdtrace, frame>>

Destroy(i) ==
  /\ Idle(i)
  /\ LibClose({handle[e.hd] : e \in {f \in handles : f.in = i}})
  /\ handles' = {e \in handles : e.in # i}
  /\ programs' = {p \in programs : p.in # i}
  /\ loaded' = loaded \ {i}
  /\ UNCHANGED <<mutex, next_free, handle, frame>>

-----------------------------------------------------------------------------
(* Taking a fresh id, the first half of new_hd and of register_pd.         *)

\* Mutant of Lock: Tcl_MutexLock left out, as in a build without threads.
LockIgnored(i) ==
  /\ frame[i].pc = "lock"
  /\ mutex' = [mutex EXCEPT ![frame[i].counter] = i]
  /\ Goto(i, "take")
  /\ UNCHANGED <<loaded, next_free, tables, handle, libdtrace>>

Lock(i) ==
  LET c == frame[i].counter IN
  /\ frame[i].pc = "lock"
  /\ mutex[c] = Nobody
  /\ mutex' = [mutex EXCEPT ![c] = i]
  /\ Goto(i, "take")
  /\ UNCHANGED <<loaded, next_free, tables, handle, libdtrace>>

TakeNext(i) ==
  /\ frame[i].pc = "take"
  /\ frame' = [frame EXCEPT ![i].pc = "bump",
                            ![i].id = next_free[frame[i].counter]]
  /\ UNCHANGED <<loaded, mutex, next_free, tables, handle, libdtrace>>

\* Mutant of BumpNext: the counter runs down instead of up.
BumpNextDown(i) ==
  LET c == frame[i].counter IN
  /\ frame[i].pc = "bump"
  /\ next_free' = [next_free EXCEPT ![c] = @ - 1]
  /\ mutex' = [mutex EXCEPT ![c] = Nobody]
  /\ Goto(i, "use")
  /\ UNCHANGED <<loaded, tables, handle, libdtrace>>

\* Mutant of BumpNext: Tcl_MutexUnlock left out.
BumpNextLocked(i) ==
  LET c == frame[i].counter IN
  /\ frame[i].pc = "bump"
  /\ next_free' = [next_free EXCEPT ![c] = @ + 1]
  /\ Goto(i, "use")
  /\ UNCHANGED <<loaded, mutex, tables, handle, libdtrace>>

BumpNext(i) ==
  LET c == frame[i].counter IN
  /\ frame[i].pc = "bump"
  /\ next_free' = [next_free EXCEPT ![c] = @ + 1]
  /\ mutex' = [mutex EXCEPT ![c] = Nobody]
  /\ Goto(i, "use")
  /\ UNCHANGED <<loaded, tables, handle, libdtrace>>

-----------------------------------------------------------------------------
(* Open                                                                    *)

\* Bound: an open starts only when a heap cell will be left for it.
Opening == {i \in Interps : frame[i].counter = "id"
                              /\ frame[i].pc \in {"lock", "take", "bump", "use"}}
RoomForHandle == Cardinality(Registered) + Cardinality(Opening) < Cardinality(Addr)

OpenBegin(i) ==
  /\ Idle(i)
  /\ next_free["id"] <= Bound["id"] /\ RoomForHandle
  /\ frame' = [frame EXCEPT ![i] = [IdleFrame EXCEPT !.pc = "lock"]]
  /\ UNCHANGED <<loaded, mutex, next_free, tables, handle, libdtrace>>

\* The rest of new_hd; memset makes the handle NULL.
NewHd(i) ==
  /\ At(i, "use", "id")
  /\ \E a \in Addr \ Registered :
       /\ handles' = handles \cup {[in |-> i, id |-> frame[i].id, hd |-> a]}
       /\ handle' = [handle EXCEPT ![a] = NULL]
       /\ frame' = [frame EXCEPT ![i].pc = "opening", ![i].hd = a]
  /\ UNCHANGED <<loaded, mutex, next_free, programs, libdtrace>>

OpenFails(i) ==
  /\ frame[i].pc = "opening"
  /\ DelHd(i, frame[i].id)
  /\ Return(i)
  /\ UNCHANGED <<loaded, mutex, next_free, handle, libdtrace>>

LibOpen(i) ==
  /\ frame[i].pc = "opening"
  /\ handle' = [handle EXCEPT ![frame[i].hd] = frame[i].id]
  /\ lib_open' = lib_open \cup {frame[i].id}
  /\ Goto(i, "configuring")
  /\ UNCHANGED <<loaded, mutex, next_free, tables, enabled>>

\* Mutant of OpenThrow: del_hd without dtrace_close.
OpenThrowLeaks(i) ==
  /\ frame[i].pc = "configuring"
  /\ DelHd(i, frame[i].id)
  /\ Return(i)
  /\ UNCHANGED <<loaded, mutex, next_free, handle, libdtrace>>

\* A default option, an initial option or a handler is refused.
OpenThrow(i) ==
  /\ frame[i].pc = "configuring"
  /\ LibClose({handle[frame[i].hd]})
  /\ DelHd(i, frame[i].id)
  /\ Return(i)
  /\ UNCHANGED <<loaded, mutex, next_free, handle>>

OpenDone(i) ==
  /\ frame[i].pc = "configuring"
  /\ Return(i)
  /\ UNCHANGED <<loaded, mutex, next_free, tables, handle, libdtrace>>

-----------------------------------------------------------------------------
(* Close, Compile and Exec                                                 *)

Close(i) ==
  /\ Idle(i)
  /\ \E e \in Usable(i) :
       /\ LibClose({handle[e.hd]})
       /\ handle' = [handle EXCEPT ![e.hd] = NULL]
       /\ DelHd(i, e.id)
  /\ UNCHANGED <<loaded, mutex, next_free, frame>>

\* dtrace_program_strcompile succeeded; register_pd is entered.
CompileBegin(i) ==
  /\ Idle(i)
  /\ next_free["pid"] <= Bound["pid"]
  /\ \E e \in Usable(i) :
       frame' = [frame EXCEPT ![i] = [pc |-> "lock", counter |-> "pid", id |-> 0,
                                      hd |-> e.hd, compiled |-> handle[e.hd]]]
  /\ UNCHANGED <<loaded, mutex, next_free, tables, handle, libdtrace>>

RegisterPd(i) ==
  /\ At(i, "use", "pid")
  /\ programs' = programs \cup {[in |-> i, id |-> frame[i].id, hd |-> frame[i].hd,
                                 compiled |-> frame[i].compiled]}
  /\ Return(i)
  /\ UNCHANGED <<loaded, mutex, next_free, handles, handle, libdtrace>>

Exec(i) ==
  /\ Idle(i)
  /\ \E p \in Runnable(i) :
       enabled' = enabled \cup {[lib |-> handle[p.hd], compiled |-> p.compiled]}
  /\ UNCHANGED <<loaded, mutex, next_free, tables, handle, lib_open, frame>>

-----------------------------------------------------------------------------
\* The steps of a command that has begun.
Proceed(i) ==
  \/ Lock(i) \/ TakeNext(i) \/ BumpNext(i)
  \/ NewHd(i) \/ OpenFails(i) \/ LibOpen(i) \/ OpenThrow(i) \/ OpenDone(i)
  \/ RegisterPd(i)

Next == \E i \in Interps :
  \/ Load(i) \/ Destroy(i)
  \/ OpenBegin(i) \/ Close(i) \/ CompileBegin(i) \/ Exec(i)
  \/ Proceed(i)

Spec == Init /\ [][Next]_vars

\* The operating system keeps running a thread that can go on.
Fairness == \A i \in Interps : WF_vars(Proceed(i))
FairSpec == Spec /\ Fairness

-----------------------------------------------------------------------------
(* Safety                                                                  *)

\* No two handles share an id, be they in the tables of two interpreters or
\* in one (where Tcl_CreateHashEntry would find the entry and new_hd panic):
\* the promise of the comment on next_free_id.
HandleIdsUnique == \A e, f \in handles : e.id = f.id => e = f

\* The same of programs, register_pd and next_free_pid.
ProgramIdsUnique == \A p, q \in programs : p.id = q.id => p = q

\* A program in a table points to a handle_data that is still registered in
\* the same interpreter, and whose libdtrace handle is the one the program was
\* compiled with: exec, info and list never follow pd->hd into freed memory,
\* nor into a cell that was reused for another handle.
NoDanglingProgram ==
  \A p \in programs : \E e \in handles :
     /\ e.in = p.in /\ e.hd = p.hd
     /\ handle[p.hd] = p.compiled /\ p.compiled # NULL

\* What exec enabled, it enabled in the library handle that compiled it.
RunsWhereCompiled == \A x \in enabled : x.lib = x.compiled /\ x.lib \in lib_open

\* Every open libdtrace handle is reachable from exactly one table entry, and
\* every entry that names one names an open one: nothing leaks on the error
\* paths of Open, nothing is closed twice.
LibHandlesOwned ==
  /\ \A lib \in lib_open : \E e \in handles : handle[e.hd] = lib
  /\ \A e \in handles : handle[e.hd] # NULL => handle[e.hd] \in lib_open
  /\ \A e, f \in handles :
       handle[e.hd] = handle[f.hd] /\ handle[e.hd] # NULL => e = f

\* Only the open that is still creating a handle may have it registered
\* without a libdtrace handle: a command never finds a half-made one, and
\* Dtrace_DeInit never passes NULL to dtrace_close.
NoHalfOpenHandle ==
  \A e \in handles : handle[e.hd] = NULL =>
     frame[e.in].pc = "opening" /\ frame[e.in].id = e.id

\* "A unique identifier for each handle", and for each program: neither new_hd nor
\* register_pd, which read and increment a counter that all threads share, ever
\* gives out an id twice.
IdsUnique == HandleIdsUnique /\ ProgramIdsUnique

\* Tables and libdtrace agree at every moment: each open library handle is in one
\* entry, and an entry without one belongs to an open under way.  So open leaks
\* nothing and leaves nothing behind, whichever of its steps fails.
HandlesAreWhole == LibHandlesOwned /\ NoHalfOpenHandle

(* The inductive invariant behind these: what else every state satisfies.  *)

\* The thread between reading and writing a counter holds its mutex.
MutexHeld ==
  \A i \in Interps : frame[i].pc \in {"take", "bump"} => mutex[frame[i].counter] = i

\* Ids are positive and below their counter; one being taken is the counter.
IdsBelowCounter ==
  /\ \A c \in Counters : next_free[c] > 0
  /\ \A e \in handles : e.id > 0 /\ e.id < next_free["id"]
  /\ \A p \in programs : p.id > 0 /\ p.id < next_free["pid"]
  /\ \A i \in Interps :
       /\ frame[i].pc = "bump" => frame[i].id = next_free[frame[i].counter]
       /\ frame[i].pc = "use" =>
            frame[i].id > 0 /\ frame[i].id < next_free[frame[i].counter]

\* An id that was taken but not yet entered into its table is nobody else's.
TakenIdsFresh ==
  \A i \in Interps : frame[i].pc = "use" =>
    /\ frame[i].counter = "id" => \A e \in handles : e.id # frame[i].id
    /\ frame[i].counter = "pid" => \A p \in programs : p.id # frame[i].id
    /\ \A j \in Interps :
         frame[j].pc = "use" /\ frame[j].counter = frame[i].counter
            /\ frame[j].id = frame[i].id => j = i

\* A cell belongs to one entry and holds NULL or that entry's library handle.
CellsOwned ==
  /\ \A e, f \in handles : e.hd = f.hd => e = f
  /\ \A e \in handles : handle[e.hd] \in {NULL, e.id}

\* What the frames of open and compile say of the table they work on.
FrameMatches(i) ==
  /\ frame[i].pc \in {"opening", "configuring"} =>
       /\ frame[i].counter = "id"
       /\ [in |-> i, id |-> frame[i].id, hd |-> frame[i].hd] \in handles
       /\ frame[i].pc = "opening" => handle[frame[i].hd] = NULL
       /\ frame[i].pc = "configuring" => handle[frame[i].hd] = frame[i].id
  /\ frame[i].pc # "idle" /\ frame[i].counter = "pid" =>
       \E e \in handles : /\ e.in = i /\ e.hd = frame[i].hd
                         /\ handle[e.hd] = frame[i].compiled
                         /\ handle[e.hd] # NULL
FramesMatchTables == \A i \in Interps : FrameMatches(i)

\* A handle whose open is under way is used by no program, and no program is
\* enabled in it: if the open fails after all, nothing else is lost.
NotYetUsed ==
  \A i \in Interps : frame[i].pc \in {"opening", "configuring"} =>
    /\ \A p \in programs : p.hd # frame[i].hd
    /\ \A x \in enabled : x.lib # frame[i].id

IInv ==
  /\ TypeOK
  /\ HandleIdsUnique /\ ProgramIdsUnique
  /\ NoDanglingProgram /\ RunsWhereCompiled
  /\ LibHandlesOwned /\ NoHalfOpenHandle
  /\ MutexHeld /\ IdsBelowCounter /\ TakenIdsFresh
  /\ CellsOwned /\ FramesMatchTables

(* Liveness                                                                *)

\* A command that has begun returns: no thread is left behind on a mutex.
CommandsReturn == \A i \in Interps : frame[i].pc # "idle" ~> frame[i].pc = "idle"

(* Refinement                                                              *)

\* Ids taken from counter c that no command has finished with yet.
InFlight(c) == {frame[i].id : i \in {j \in Interps :
                  frame[j].counter = c
                    /\ frame[j].pc \in {"bump", "use", "opening", "configuring"}}}

\* Entries whose open has returned.
Returned == {e \in handles : ~ (frame[e.in].pc \in {"opening", "configuring"}
                                   /\ frame[e.in].id = e.id)}

\* What HandleService would call live, usedIds and usedPids, progs and running.
Live == {[in |-> e.in, id |-> e.id] : e \in Returned}
Used(c) == {n \in 1..(next_free[c] - 1) : n \notin InFlight(c)}
Progs == {[in |-> p.in, id |-> p.id, of |-> p.compiled] : p \in programs}
Running == {x.lib : x \in enabled}

Service == INSTANCE HandleService WITH
  live <- Live, usedIds <- Used("id"), progs <- Progs, usedPids <- Used("pid"),
  running <- Running

\* The tables, counters and heap cells keep the promises of HandleService.
ImplementsHandleService == Service!ASpec

(* What the manual leads one to expect, and the code does not do.          *)

\* A program handle stays good as long as the handle it was compiled in is
\* open.
ProgramsSurviveOtherClose ==
  [][\A p \in programs : p \notin programs' => p.compiled \notin lib_open']_vars
=============================================================================
