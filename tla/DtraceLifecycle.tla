---------------------------- MODULE DtraceLifecycle ---------------------------
(***************************************************************************)
(* How the extension leaves: Dtrace_Init hands Dtrace_DeInit to Tcl twice, *)
(* as the delete procedure of the interpreter's data (onDestroy) and as an *)
(* exit handler of the Tcl process.  Interpreters come and go, several     *)
(* threads are inside commands, and any of them may call exit, which runs  *)
(* the exit handlers there and then while the others go on.                *)
(*                                                                         *)
(* A race of two threads on the same tables is undefined, and so is the    *)
(* use of a freed handle, a callback's close among its reasons: where that *)
(* shows, the process stops in this model.                                 *)
(***************************************************************************)
EXTENDS Integers, Sequences, FiniteSets

CONSTANTS Interps,    \* interpreters, each run by a thread of its own
          Handles,    \* handles that may be opened
          Nobody      \* no interpreter, no handle

ASSUME LifecycleAssumption == Nobody \notin Interps \cup Handles
ASSUME FinitelyManyInterps == IsFiniteSet(Interps)

VARIABLES
  data,       \* data[i]: the tables of i: "none", "attached", "freed" by an exit
              \* handler, or "deleted" together with the interpreter
  handlers,   \* exit handlers: whose tables they clean up, the next one first
  table,      \* table[i]: the handles in the table of i
  lib_open,   \* handles whose libdtrace handle is open
  used,       \* handles that were opened at some time: ids are not reused
  inside,     \* inside[t]: the handle that a command of thread t is working on
  cleaning,   \* cleaning[t]: whose tables a Dtrace_DeInit in t is working on
  left,       \* left[t]: handles that one has still to come to
  cell,       \* cell[t]: the handle_data it will read processes from, "freed"
              \* already, or "none"
  exiter,     \* the thread that called exit
  at_exit,    \* history: handles that were open when it did
  process     \* "running", "exiting", "exited", or undefined behaviour: tables
              \* or handles "freed twice", a command that "raced" on its tables
              \* with an exit, or a freed handle_data that was used ("used freed")

vars == <<data, handlers, table, lib_open, used, inside, cleaning, left, cell,
          exiter, at_exit, process>>
deinit == <<cleaning, left, cell>>
exit == <<exiter, at_exit, process>>

TypeOK ==
  /\ data \in [Interps -> {"none", "attached", "freed", "deleted"}]
  /\ handlers \in Seq(Interps)
  /\ table \in [Interps -> SUBSET Handles]
  /\ lib_open \subseteq used /\ used \subseteq Handles
  /\ inside \in [Interps -> Handles \cup {Nobody}]
  /\ cleaning \in [Interps -> Interps \cup {Nobody}]
  /\ left \in [Interps -> SUBSET Handles]
  /\ cell \in [Interps -> {"none", "freed"}]
  /\ exiter \in Interps \cup {Nobody}
  /\ at_exit \subseteq Handles
  /\ process \in {"running", "exiting", "exited", "freed twice", "raced", "used freed"}

Init ==
  /\ data = [i \in Interps |-> "none"]
  /\ handlers = <<>>
  /\ table = [i \in Interps |-> {}]
  /\ lib_open = {} /\ used = {}
  /\ inside = [t \in Interps |-> Nobody]
  /\ cleaning = [t \in Interps |-> Nobody]
  /\ left = [t \in Interps |-> {}]
  /\ cell = [t \in Interps |-> "none"]
  /\ exiter = Nobody /\ at_exit = {} /\ process = "running"

Alive == process \in {"running", "exiting"}

\* The thread of i runs a script: between two commands, or in a callback of the
\* command it is inside.
Scripting(i) ==
  /\ Alive /\ i # exiter
  /\ cleaning[i] = Nobody
  /\ data[i] \in {"attached", "freed"}

Ready(i) == Scripting(i) /\ inside[i] = Nobody

\* Nobody else is at the tables of i, and they are there.
Safe(i) == data[i] = "attached" /\ \A t \in Interps : cleaning[t] # i

-----------------------------------------------------------------------------
(* Commands                                                                *)

\* Mutant of Load: no exit handler.
LoadWithoutHandler(i) ==
  /\ Alive /\ i # exiter /\ data[i] = "none"
  /\ data' = [data EXCEPT ![i] = "attached"]
  /\ UNCHANGED <<handlers, table, lib_open, used, inside, deinit, exit>>

\* Mutant of Load: the exit handler is registered without the data.
LoadHandlerWithoutData(i) ==
  /\ Alive /\ i # exiter /\ data[i] = "none"
  /\ data' = [data EXCEPT ![i] = "attached"]
  /\ handlers' = <<Nobody>> \o handlers
  /\ UNCHANGED <<table, lib_open, used, inside, deinit, exit>>

Load(i) ==
  /\ Alive /\ i # exiter /\ data[i] = "none"
  /\ data' = [data EXCEPT ![i] = "attached"]
  /\ handlers' = <<i>> \o handlers
  /\ UNCHANGED <<table, lib_open, used, inside, deinit, exit>>

Open(i) ==
  /\ Scripting(i) /\ Safe(i)
  /\ \E h \in Handles \ used :
       /\ table' = [table EXCEPT ![i] = @ \cup {h}]
       /\ lib_open' = lib_open \cup {h} /\ used' = used \cup {h}
  /\ UNCHANGED <<data, handlers, inside, deinit, exit>>

\* Nothing keeps a callback from closing the handle its command works on.
Close(i) ==
  /\ Scripting(i) /\ Safe(i)
  /\ \E h \in table[i] :
       /\ table' = [table EXCEPT ![i] = @ \ {h}]
       /\ lib_open' = lib_open \ {h}
  /\ UNCHANGED <<data, handlers, used, inside, deinit, exit>>

\* open or close, on tables that an exit handler is walking or has freed.
Races(i) ==
  /\ Scripting(i) /\ ~ Safe(i)
  /\ process' = "raced"
  /\ UNCHANGED <<data, handlers, table, lib_open, used, inside, deinit, exiter, at_exit>>

\* A command finds its handle, and then spends its time in libdtrace.
Enter(i) ==
  /\ Ready(i) /\ data[i] = "attached"
  /\ \E h \in table[i] : inside' = [inside EXCEPT ![i] = h]
  /\ UNCHANGED <<data, handlers, table, lib_open, used, deinit, exit>>

\* Back from libdtrace, or from a callback, the command goes on with its handle.
Leave(i) ==
  /\ Alive /\ inside[i] # Nobody /\ i # exiter
  /\ inside' = [inside EXCEPT ![i] = Nobody]
  /\ process' = IF inside[i] \in lib_open THEN process ELSE "used freed"
  /\ UNCHANGED <<data, handlers, table, lib_open, used, deinit, exiter, at_exit>>

-----------------------------------------------------------------------------
(* Dtrace_DeInit, one handle at a time.                                    *)

Walk(t, i) ==
  /\ cleaning' = [cleaning EXCEPT ![t] = i]
  /\ left' = [left EXCEPT ![t] = table[i]]
  /\ UNCHANGED cell

\* Mutant of Delete: the clean-up hangs on a command of the package, whose deletion
\* in a callback does not wait.
DeleteAtOnce(i) ==
  /\ Scripting(i)
  /\ IF data[i] = "attached"
     THEN Walk(i, i) /\ UNCHANGED process
     ELSE process' = "freed twice" /\ UNCHANGED deinit
  /\ UNCHANGED <<data, handlers, table, lib_open, used, inside, exiter, at_exit>>

\* The interpreter is deleted: onDestroy.  Tcl keeps it until no command runs in
\* it; an exit handler in another thread may be at its tables already.
Delete(i) ==
  /\ Ready(i)
  /\ IF data[i] = "attached"
     THEN Walk(i, i) /\ UNCHANGED process
     ELSE process' = "freed twice" /\ UNCHANGED deinit
  /\ UNCHANGED <<data, handlers, table, lib_open, used, inside, exiter, at_exit>>

\* exit, perhaps in a callback: then the command it is inside never goes on.
Exit(t) ==
  /\ process = "running" /\ cleaning[t] = Nobody
  /\ process' = "exiting" /\ exiter' = t /\ at_exit' = lib_open
  /\ UNCHANGED <<data, handlers, table, lib_open, used, inside, deinit>>

Idle(t) == process = "exiting" /\ t = exiter /\ cleaning[t] = Nobody

\* Tcl takes the next exit handler; nobody ever removed one.
RunHandler(t) ==
  /\ Idle(t) /\ handlers # <<>>
  /\ handlers' = Tail(handlers)
  /\ IF data[Head(handlers)] = "attached"
     THEN Walk(t, Head(handlers)) /\ UNCHANGED process
     ELSE process' = "freed twice" /\ UNCHANGED deinit
  /\ UNCHANGED <<data, table, lib_open, used, inside, exiter, at_exit>>

Walking(t) == Alive /\ cleaning[t] # Nobody

\* dtrace_close and ckfree of the next handle's cell.  If another thread was there
\* first, the second close is on freed memory.
CleansUp(t, h) ==
  IF h \in lib_open /\ data[cleaning[t]] = "attached"
  THEN lib_open' = lib_open \ {h} /\ UNCHANGED process
  ELSE process' = "freed twice" /\ UNCHANGED lib_open

\* Mutant of CleanHandle: it walks the tables of all interpreters.
CleanHandleOfAny(t) ==
  /\ Walking(t) /\ cell[t] = "none"
  /\ \E i \in Interps : \E h \in table[i] \cap lib_open :
       /\ lib_open' = lib_open \ {h}
       /\ left' = [left EXCEPT ![t] = @ \ {h}]
  /\ UNCHANGED <<data, handlers, table, used, inside, cleaning, cell, exit>>

\* Mutants of CleanHandle: Tcl_NextHashEntry left out of the loop, and the same
\* with a test that a handle is closed once only.
CleanHandleRetries(t) ==
  /\ Walking(t) /\ cell[t] = "none"
  /\ \E h \in left[t] : lib_open' = lib_open \ {h}
  /\ UNCHANGED <<data, handlers, table, used, inside, cleaning, left, cell, exit>>
CleanHandleStays(t) ==
  /\ Walking(t) /\ cell[t] = "none"
  /\ \E h \in left[t] : CleansUp(t, h)
  /\ UNCHANGED <<data, handlers, table, used, inside, cleaning, left, cell, exiter, at_exit>>

CleanHandle(t) ==
  /\ Walking(t) /\ cell[t] = "none"
  /\ \E h \in left[t] : CleansUp(t, h) /\ left' = [left EXCEPT ![t] = @ \ {h}]
  /\ cell' = [cell EXCEPT ![t] = "freed"]
  /\ UNCHANGED <<data, handlers, table, used, inside, cleaning, exiter, at_exit>>

\* if (hd->processes), after hd was freed: the vector may still be there, or
\* anything else.
FreeVector(t) ==
  /\ Walking(t) /\ cell[t] = "freed"
  /\ cell' = [cell EXCEPT ![t] = "none"]
  /\ process' \in {process, "used freed"}
  /\ UNCHANGED <<data, handlers, table, lib_open, used, inside, cleaning, left, exiter, at_exit>>

\* Mutant of FreeTables: the tables are freed with handles left in them.
FreeTablesEarly(t) ==
  /\ Walking(t) /\ cell[t] = "none"
  /\ data' = [data EXCEPT ![cleaning[t]] = "freed"]
  /\ table' = [table EXCEPT ![cleaning[t]] = {}]
  /\ cleaning' = [cleaning EXCEPT ![t] = Nobody]
  /\ left' = [left EXCEPT ![t] = {}]
  /\ UNCHANGED <<handlers, lib_open, used, inside, cell, exit>>

FreeTables(t) ==
  /\ Walking(t) /\ cell[t] = "none" /\ left[t] = {}
  /\ IF data[cleaning[t]] = "attached"
     THEN /\ data' = [data EXCEPT ![cleaning[t]] = IF t = exiter THEN "freed" ELSE "deleted"]
          /\ table' = [table EXCEPT ![cleaning[t]] = {}]
          /\ UNCHANGED process
     ELSE process' = "freed twice" /\ UNCHANGED <<data, table>>
  /\ cleaning' = [cleaning EXCEPT ![t] = Nobody]
  /\ UNCHANGED <<handlers, lib_open, used, inside, left, cell, exiter, at_exit>>

Exited(t) ==
  /\ Idle(t) /\ handlers = <<>>
  /\ process' = "exited"
  /\ UNCHANGED <<data, handlers, table, lib_open, used, inside, deinit, exiter, at_exit>>

Cleanup(t) ==
  RunHandler(t) \/ CleanHandle(t) \/ FreeVector(t) \/ FreeTables(t) \/ Exited(t)

Command(i) ==
  Load(i) \/ Open(i) \/ Close(i) \/ Races(i) \/ Enter(i) \/ Leave(i) \/ Delete(i) \/ Exit(i)

Next == \E i \in Interps : Command(i) \/ Cleanup(i)

Spec == Init /\ [][Next]_vars
FairSpec == Spec /\ \A t \in Interps : WF_vars(Cleanup(t))

-----------------------------------------------------------------------------
\* An open libdtrace handle is always one that close, or the interpreter's end,
\* will find; tables that are gone leave none behind.
EveryHandleIsFound ==
  /\ \A h \in lib_open : \E i \in Interps : h \in table[i] /\ data[i] = "attached"
  /\ \A i, j \in Interps : i # j => table[i] \cap table[j] = {}

\* A library handle is closed by a close in the interpreter whose table it is in,
\* or by the clean-up of that table: never by another interpreter's end or close.
DeletionIsLocal ==
  [][\A h \in lib_open \ lib_open' : \E i \in Interps :
       h \in table[i] /\ (Close(i) \/ \E t \in Interps : cleaning[t] = i)]_vars

\* "If you forget to do it, it will be fired automatically on Tcl exit": when the
\* process has exited, every libdtrace handle that was open when exit was called
\* is closed, whatever other threads did meanwhile.
ExitClosesAll == process = "exited" => lib_open \cap at_exit = {}

\* Until exit is called, the handle a command works on is taken away by nothing but
\* a close in a callback of that very command: by no other thread, and by no
\* deletion of an interpreter.
OnlyCallbacksTakeHandles ==
  [][process = "running" =>
       \A i \in Interps :
         inside[i] \in lib_open /\ inside'[i] = inside[i] /\ inside[i] \notin lib_open'
         => Close(i)]_vars

\* Both registrations of Dtrace_DeInit are harmless to a process with one thread and
\* one interpreter that is not deleted before exit: nothing is closed or freed
\* twice, though its callbacks close handles and one of them may call exit.  (That a
\* freed handle is used is not excluded: after such a close, or in Dtrace_DeInit.)
OneThreadFreesOnce ==
  process \in {"freed twice", "raced"} =>
    \/ \E i \in Interps : data[i] = "deleted" \/ (cleaning[i] = i /\ i # exiter)
    \/ \E i, j \in Interps : i # j /\ data[i] # "none" /\ (data[j] # "none" \/ exiter = j)

\* Once exit is called it is carried through, if nothing undefined happens.
ExitHappens == process = "exiting" ~> process \notin {"running", "exiting"}

(* What the code's comments promise, and the code does not do.             *)

\* onDestroy is "called when interpreter is destroyed instead of exiting": an
\* interpreter's tables are freed by the one or by the other, once.
TablesFreedOnce == process # "freed twice"
=============================================================================
