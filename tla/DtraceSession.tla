----------------------------- MODULE DtraceSession ----------------------------
(***************************************************************************)
(* One handle from open to close: the callbacks that go registers and the  *)
(* references held on them, the processes grabbed for it, and process,     *)
(* which calls back into Tcl while libdtrace is still using the handle.    *)
(*                                                                         *)
(* All of it runs in one thread.  The hard part is re-entrance: a callback *)
(* is a script, and may run every command on the very handle whose process *)
(* command is calling it.  stack holds the process commands that are under *)
(* way, the innermost last.                                                *)
(***************************************************************************)
EXTENDS Integers, Sequences, FiniteSets

CONSTANTS Objs,        \* Tcl objects a script may name as callback and argument
          Slots,       \* the callback names in use, "proc" perhaps among them
          Pids,        \* processes that may be grabbed or launched
          MaxSpecs,    \* bound: callbacks named in one go
          MaxRefs,     \* bound: references go may pile up on one object
          MaxGrabs,    \* bound: processes grabbed for the handle
          MaxDepth     \* bound: process commands nested in callbacks

NULL == "NULL"

ASSUME SessionAssumption ==
  /\ NULL \notin Objs
  /\ Slots \subseteq {"probe_desc", "probe_output", "drop", "error", "proc"}
  /\ MaxSpecs \in Nat /\ MaxRefs \in Nat /\ MaxGrabs \in Nat /\ MaxDepth \in Nat

VARIABLES
  hd,             \* the handle_data cell: "none" yet, "live" or "freed"
  lib,            \* the libdtrace handle: "closed", "ready", "active", "stopped"
  callbacks,      \* hd->callbacks and hd->args, which are set and released together
  refs,           \* refs[o]: references this extension holds on the object
  lost,           \* history: objects that go stored another callback over, and
                  \* those that a handle held when the interpreter went
  processes,      \* hd->processes[0 .. proc_count - 1]
  proc_capacity,
  target,         \* target[p]: "free", "held" by libdtrace, or "continued"
  stack           \* process commands under way

vars == <<hd, lib, callbacks, refs, lost, processes, proc_capacity, target, stack>>

Phases == {"sleep", "work", "eval", "undefined"}

TypeOK ==
  /\ hd \in {"none", "live", "freed"}
  /\ lib \in {"closed", "ready", "active", "stopped"}
  /\ callbacks \in [Slots -> Objs \cup {NULL}]
  /\ refs \in [Objs -> Nat]
  /\ lost \subseteq Objs
  /\ processes \in Seq(Pids)
  /\ proc_capacity \in Nat
  /\ target \in [Pids -> {"free", "held", "continued"}]
  /\ stack \in Seq([at : Phases, slot : Slots \cup {NULL}, obj : Objs \cup {NULL}])

Init ==
  /\ hd = "none" /\ lib = "closed"
  /\ callbacks = [s \in Slots |-> NULL]
  /\ refs = [o \in Objs |-> 0]
  /\ lost = {}
  /\ processes = <<>> /\ proc_capacity = 0
  /\ target = [p \in Pids |-> "free"]
  /\ stack = <<>>

-----------------------------------------------------------------------------
Depth == Len(stack)
Top == stack[Depth]
SetTop(f) == stack' = [stack EXCEPT ![Depth] = f]
Pop == stack' = SubSeq(stack, 1, Depth - 1)

\* A script is running, at the top level or as a callback, and handleCheck
\* would let its next command on this handle pass.
ScriptRuns == stack # <<>> => Top.at = "eval"
Usable == ScriptRuns /\ hd = "live" /\ lib # "closed"

Stored(o) == {s \in Slots : callbacks[s] = o}
Evaluations(o) == {k \in DOMAIN stack : stack[k].at = "eval" /\ stack[k].obj = o}

-----------------------------------------------------------------------------
(* Open, Go and Stop                                                       *)

\* new_hd cleared the cell, so there are no callbacks and no processes.
Open ==
  /\ hd = "none"
  /\ hd' = "live" /\ lib' = "ready"
  /\ UNCHANGED <<callbacks, refs, lost, processes, proc_capacity, target, stack>>

Specs == UNION {[1..n -> Slots \X Objs] : n \in 0..MaxSpecs}

\* Mutant of StoredFrom: go begins by forgetting the callbacks of earlier ones.
StoredAfresh(specs, n) ==
  [s \in Slots |->
     LET named == {k \in 1..n : specs[k][1] = s}
     IN IF named = {} THEN NULL
        ELSE specs[CHOOSE k \in named : \A m \in named : m <= k][2]]

\* The callbacks once the first n specs were stored, and how often each object
\* was named in them.
StoredFrom(specs, n) ==
  [s \in Slots |->
     LET named == {k \in 1..n : specs[k][1] = s}
     IN IF named = {} THEN callbacks[s]
        ELSE specs[CHOOSE k \in named : \A m \in named : m <= k][2]]
Named(specs, n, o) == Cardinality({k \in 1..n : specs[k][2] = o})

\* The objects that one of these specs is stored over: what its slot held before,
\* or an earlier spec put there.
Replaced(specs, n) ==
  {o \in Objs : \E k \in 1..n :
     \/ callbacks[specs[k][1]] = o
     \/ \E j \in 1..(k - 1) : specs[j] = <<specs[k][1], o>>}

\* Mutant of Register: Tcl_IncrRefCount left out.
RegisterUnreferenced(specs, n) ==
  /\ callbacks' = StoredFrom(specs, n)
  /\ lost' = lost \cup Replaced(specs, n)
  /\ UNCHANGED refs

\* The first n specs are well formed and stored, each with a reference; what a
\* slot held before keeps the reference that was taken for it.
Register(specs, n) ==
  /\ callbacks' = StoredFrom(specs, n)
  /\ refs' = [o \in Objs |-> refs[o] + Named(specs, n, o)]
  /\ lost' = lost \cup Replaced(specs, n)
  /\ \A o \in Objs : refs'[o] <= MaxRefs

\* Mutant of Continue: the loop starts at 1.
ContinueFromSecond(vector) ==
  target' = [p \in Pids |->
    IF \E k \in DOMAIN vector : k > 1 /\ vector[k] = p THEN "continued" ELSE target[p]]

Continue(vector) ==
  target' = [p \in Pids |->
    IF \E k \in DOMAIN vector : vector[k] = p THEN "continued" ELSE target[p]]

Go ==
  /\ Usable
  /\ \E specs \in Specs :
       /\ Register(specs, Len(specs))
       /\ lib' = "active"
       /\ Continue(processes)
  /\ UNCHANGED <<hd, processes, proc_capacity, stack>>

\* A spec is refused after the ones before it took effect, or dtrace_go fails.
GoFails ==
  /\ Usable
  /\ \E specs \in Specs : \E n \in 0..Len(specs) : Register(specs, n)
  /\ UNCHANGED <<hd, lib, processes, proc_capacity, target, stack>>

Stop ==
  /\ Usable
  /\ lib' = "stopped"
  /\ UNCHANGED <<hd, callbacks, refs, lost, processes, proc_capacity, target, stack>>

-----------------------------------------------------------------------------
(* Grab and Launch: both end in the same growing of the vector.            *)

\* Mutant of Grown: an empty vector stays empty.
Doubled(capacity, count) == IF count = capacity THEN 2 * capacity ELSE capacity

Grown(capacity, count) == IF count = capacity THEN 2 * capacity + 1 ELSE capacity

\* Mutant of Grab: a fresh vector in place of ckrealloc.
GrabIntoFresh ==
  /\ Usable
  /\ Len(processes) < MaxGrabs
  /\ \E p \in Pids :
       /\ target' = [target EXCEPT ![p] = "held"]
       /\ processes' = IF Len(processes) = proc_capacity THEN <<p>>
                                                       ELSE Append(processes, p)
  /\ proc_capacity' = Grown(proc_capacity, Len(processes))
  /\ UNCHANGED <<hd, lib, callbacks, refs, lost, stack>>

Grab ==
  /\ Usable
  /\ Len(processes) < MaxGrabs
  /\ \E p \in Pids :
       /\ target' = [target EXCEPT ![p] = "held"]
       /\ processes' = Append(processes, p)
  /\ proc_capacity' = Grown(proc_capacity, Len(processes))
  /\ UNCHANGED <<hd, lib, callbacks, refs, lost, stack>>

-----------------------------------------------------------------------------
(* Close: dtrace_close lets go of the processes, the callbacks lose their  *)
(* references, del_hd frees vector and cell.                               *)

Close ==
  /\ Usable
  /\ hd' = "freed" /\ lib' = "closed"
  /\ refs' = [o \in Objs |-> refs[o] - Cardinality(Stored(o))]
  /\ callbacks' = [s \in Slots |-> NULL]
  /\ target' = [p \in Pids |-> IF target[p] = "held" THEN "continued" ELSE target[p]]
  /\ processes' = <<>> /\ proc_capacity' = 0
  /\ UNCHANGED <<lost, stack>>

\* The interpreter is deleted, which waits for its commands, or exit is called, in a
\* callback perhaps: then the process commands under way are never gone on with.
\* Dtrace_DeInit closes the handle and frees the cell, and lets go of no callback.
DeInit ==
  /\ ScriptRuns /\ hd = "live"
  /\ hd' = "freed" /\ lib' = "closed"
  /\ lost' = lost \cup {o \in Objs : Stored(o) # {} \/ Evaluations(o) # {}}
  /\ callbacks' = [s \in Slots |-> NULL]
  /\ target' = [p \in Pids |-> IF target[p] = "held" THEN "continued" ELSE target[p]]
  /\ processes' = <<>> /\ proc_capacity' = 0
  /\ stack' = <<>>
  /\ UNCHANGED refs

-----------------------------------------------------------------------------
(* Process                                                                 *)

ProcessBegin ==
  /\ Usable
  /\ Depth < MaxDepth
  /\ \E phase \in {"sleep", "work"} :
       stack' = Append(stack, [at |-> phase, slot |-> NULL, obj |-> NULL])
  /\ UNCHANGED <<hd, lib, callbacks, refs, lost, processes, proc_capacity, target>>

\* Mutant of Deliver: CallbackEval does not protect what it evaluates.
DeliverUnprotected ==
  /\ stack # <<>> /\ Top.at \in {"sleep", "work"}
  /\ \E s \in Slots :
       /\ (s = "proc") <=> (Top.at = "sleep")
       /\ callbacks[s] # NULL
       /\ SetTop([at |-> "eval", slot |-> s, obj |-> callbacks[s]])
  /\ UNCHANGED <<hd, lib, callbacks, refs, lost, processes, proc_capacity, target>>

\* libdtrace has something for a callback: processes are reported while it
\* sleeps, everything else while it works.  One of the handlers chew,
\* bufhandler, drophandler, errhandler and prochandler is entered, which
\* protects the callback and evaluates it; without a callback it returns.
Deliver ==
  /\ stack # <<>> /\ Top.at \in {"sleep", "work"}
  /\ \E s \in Slots :
       /\ (s = "proc") <=> (Top.at = "sleep")
       /\ callbacks[s] # NULL
       /\ refs' = [refs EXCEPT ![callbacks[s]] = @ + 1]
       /\ SetTop([at |-> "eval", slot |-> s, obj |-> callbacks[s]])
  /\ UNCHANGED <<hd, lib, callbacks, lost, processes, proc_capacity, target>>

\* Mutant of CallbackReturns: CallbackEval does not let go of what it protected.
CallbackStaysProtected ==
  /\ stack # <<>> /\ Top.at = "eval"
  /\ SetTop([at |-> IF hd = "freed" THEN "undefined"
                    ELSE IF Top.slot = "proc" THEN "sleep" ELSE "work",
             slot |-> NULL, obj |-> NULL])
  /\ UNCHANGED <<hd, lib, callbacks, refs, lost, processes, proc_capacity, target>>

\* The callback returns, the handler goes back into libdtrace.  If the handle
\* was closed meanwhile, both use freed memory: anything may happen.
CallbackReturns ==
  /\ stack # <<>> /\ Top.at = "eval"
  /\ refs' = [refs EXCEPT ![Top.obj] = @ - 1]
  /\ SetTop([at |-> IF hd = "freed" THEN "undefined"
                    ELSE IF Top.slot = "proc" THEN "sleep" ELSE "work",
             slot |-> NULL, obj |-> NULL])
  /\ UNCHANGED <<hd, lib, callbacks, lost, processes, proc_capacity, target>>

\* The callback fails, which only prochandler ignores: process fails with it.
CallbackFails ==
  /\ stack # <<>> /\ Top.at = "eval" /\ Top.slot # "proc"
  /\ refs' = [refs EXCEPT ![Top.obj] = @ - 1]
  /\ IF hd = "freed" THEN SetTop([at |-> "undefined", slot |-> NULL, obj |-> NULL])
                     ELSE Pop
  /\ UNCHANGED <<hd, lib, callbacks, lost, processes, proc_capacity, target>>

SleepEnds ==
  /\ stack # <<>> /\ Top.at = "sleep"
  /\ SetTop([Top EXCEPT !.at = "work"])
  /\ UNCHANGED <<hd, lib, callbacks, refs, lost, processes, proc_capacity, target>>

\* dtrace_work is done, or fails by itself.
WorkEnds ==
  /\ stack # <<>> /\ Top.at = "work"
  /\ Pop
  /\ UNCHANGED <<hd, lib, callbacks, refs, lost, processes, proc_capacity, target>>

-----------------------------------------------------------------------------
Next ==
  \/ Open \/ Go \/ GoFails \/ Stop \/ Grab \/ Close \/ DeInit
  \/ ProcessBegin \/ Deliver \/ CallbackReturns \/ CallbackFails
  \/ SleepEnds \/ WorkEnds

Spec == Init /\ [][Next]_vars

-----------------------------------------------------------------------------
(* Safety                                                                  *)

\* Whatever callbacks do to the handle, an object that is registered or being
\* evaluated is referenced at least once for each of these: Close and go may
\* run inside the callback and still never free the script under it.
CallbacksReferenced ==
  \A o \in Objs :
    refs[o] >= Cardinality(Stored(o)) + Cardinality(Evaluations(o))

\* References are leaked in two ways only, a go that stores over a callback and
\* Dtrace_DeInit: an object that neither has happened to is referenced exactly as
\* often as it is registered or being evaluated, whichever commands callbacks ran
\* meanwhile, and not at all once the handle is closed and process is done.
LeaksOnlyLost ==
  \A o \in Objs \ lost :
    refs[o] = Cardinality(Stored(o)) + Cardinality(Evaluations(o))

\* hd->processes[hd->proc_count] is never written past the end of the vector.
VectorHoldsAll == Len(processes) <= proc_capacity

\* A process that is held is one the next successful go will continue, so long
\* as the handle is there; no grabbed process is lost, not even one grabbed by
\* a callback.
HeldAreRemembered ==
  \A p \in Pids : target[p] = "held" =>
     hd = "live" /\ \E k \in DOMAIN processes : processes[k] = p

\* go continues every process that was grabbed before it.
GoContinuesAll ==
  [][lib # "active" /\ lib' = "active" => \A p \in Pids : target'[p] # "held"]_vars

(* The refinement.  The service knows no memory: reference counts are to it *)
(* the objects that have any, the vector and its processes those that stand *)
(* still, and a process command at work is one fact however deep it lies.   *)

Phase == CASE hd = "none" -> "none" [] hd = "live" -> lib [] hd = "freed" -> "closed"
Held == {p \in Pids : target[p] = "held"}
Alive == {o \in Objs : refs[o] > 0}
Evals == [k \in 1..(IF ScriptRuns THEN Depth ELSE Depth - 1) |->
            [slot |-> stack[k].slot, obj |-> stack[k].obj]]

Service == INSTANCE TraceService WITH
  phase <- Phase, registered <- callbacks, held <- Held, alive <- Alive,
  busy <- ~ ScriptRuns, evals <- Evals

\* A handle keeps the promises of TraceService, to callbacks that run commands on
\* it as well.
ImplementsTraceService == Service!ASpec

(* What the manual promises, and the code does not do.                     *)

\* A handle may be closed at any time a script runs, callbacks included:
\* process does not go on with a handle that is gone.
ProcessSurvivesClose == \A k \in DOMAIN stack : stack[k].at # "undefined"
=============================================================================
