# TclDTrace in TLA+

TclDTrace (`src/generic/dtrace.c`, `src/generic/dtrace.h`) is a Tcl extension
that puts libdtrace behind thirteen commands: `open`, `close`, `configure`,
`compile`, `exec`, `info`, `go`, `stop`, `process`, `list`, `aggregations`,
`grab` and `launch`. It is small, but little of what can go wrong in it is
within a test's reach: it shares counters and a static array between threads,
hands memory to a library that calls back into scripts, is torn down in two
ways, and keeps state of its own across calls that may break off half way.
Three demo scripts (`src/demos`) use it with timers, buttons and sockets. This
directory models all of that, checks it with TLC and proves most of it with TLAPS.

## The system

| Part | State | Operations | Hard because |
|---|---|---|---|
| Registry of handles and programs | per interpreter a table `handles` and a table `programs`; per process `next_free_id`, `next_free_pid` and their mutexes; heap cells `handle_data`, `program_data` | `new_hd`, `get_hd`, `del_hd`, `register_pd`, `get_pd`; `Open`, `Close`, `Compile`, `Exec`, `Info` | one thread per interpreter; programs point to cells that are freed and reused; `Open` may fail after each of its steps |
| Session of a handle | `callbacks`, `args`, reference counts, `processes`, `proc_count`, `proc_capacity` | `Go`, `Stop`, `Grab`, `Launch`, `Process`, `Close`; the handlers `chew`, `bufhandler`, `drophandler`, `errhandler`, `prochandler` | callbacks are scripts and may run any command on the handle whose `process` is calling them |
| Aggregations | `agg.tuple`, `agg.list` | `Aggregations`, `buf_or_agg`, `agghandler` | one result is put together by many callbacks; a printing may break off |
| `cutWhiteSpace` | a buffer of 128 bytes, `size` | called by `agghandler` on every text | boundaries |
| Options | `options.foldpdesc`, libdtrace's options, the static array of `get_option` | `Configure`, `set_option` | threads share the array; a list of options is refused half way |
| List | `list_arg`, `options.foldpdesc` | `List`, `listStatement`, `listProbe`, `formatProbeDesc` | skipping repetitions; the callback may configure or close the handle that is walked, or fail; long names are cut |
| Life cycle | the data attached to an interpreter, exit handlers | `Dtrace_Init`, `onDestroy`, `Dtrace_DeInit` | two ways to the same clean-up; other threads are inside commands |
| Graphical demo | buttons, timers, handles | `enableProbe`, `disableProbe`, `armageddon`, `dtraceLoop` | timer and button close the same handle; commands fail half way |
| Network demo | channels, the array `handles`, loops | `accept`, `receive`, `dtraceLoop` | names of channels come back, loops never end, reads block |
| Simple demo | an editor, one handle, one loop | `enableProbe`, `GO`, `dtraceLoop` | an error ends the loop |

Parts interact by calls and by shared cells. `Open`, `Close` and
`Dtrace_DeInit` create and free the `handle_data` that every other part works
on; `Process` runs in libdtrace, which calls the handlers that `Open`
registered; these evaluate the callbacks that `Go` stored; and `Aggregations`
and `Process` both end in `buf_or_agg`. The demos see handles as `HandleService`
describes them. What makes each part correct is listed
under its module below, and `hazards` in `PROJECT.json` gives the line where each
danger bites.

## Modules

### HandleService, DtraceRegistry, DtraceRegistryProofs

`DtraceRegistry` is the core. Every interpreter has a thread of its own; a
command is cut into steps where threads meet (lock a counter, read it, write it
and unlock) and at the calls of `dtrace_open` and of the options and handlers
that follow, since each may fail. `frame[i]` is the C frame of the command that
`i` is in. All tables are one set of entries with the interpreter in the entry.
A cell is an element of `Addr`, and it is taken again once freed: `handle[a]` is
the field `handle` of whatever lies there, so a program with a stale `pd->hd`
would be seen to run in somebody else's handle.

| Source | Action |
|---|---|
| `Dtrace_Init`, `onDestroy` | `Load`, `Destroy` |
| `new_hd`, `register_pd`: lock, read, increment and unlock | `Lock`, `TakeNext`, `BumpNext` |
| `Open`: call `new_hd`; rest of it; `dtrace_open` fails or succeeds; an option or a handler is refused; return | `OpenBegin`, `NewHd`, `OpenFails`, `LibOpen`, `OpenThrow`, `OpenDone` |
| `Close` | `Close` |
| `Compile`: up to `register_pd`; rest of it | `CompileBegin`, `RegisterPd` |
| `Exec_or_Info` (`info` changes nothing) | `Exec` |

Checked: ids are unique among all handles and among all programs of the process
(`IdsUnique`), programs point to live cells of their
interpreter (`NoDanglingProgram`) and run in the library handle that compiled
them (`RunsWhereCompiled`), every library handle that is open is owned by exactly
one entry and only an open under way has an entry without one
(`HandlesAreWhole`), such an entry is used by no program (`NotYetUsed`), every
command returns (`CommandsReturn`).

`HandleService` is what this adds up to for a script: ids name one thing for
ever, a handle lives until its own interpreter closes it, a program is good only
while its handle is open, nobody touches another interpreter's handles. It has
no cells, no frames and no mutexes. `ImplementsHandleService` is the refinement:
a handle exists for the service once its `open` has returned, an id is used up
once its command has finished with it.

`HandleService` leaves one thing open on purpose. `del_hd` deletes *all*
programs of the interpreter, and not only those of the handle that goes. This
is what makes `NoDanglingProgram` true, and it takes programs from handles that
stay open; `ProgramsSurviveOtherClose` is the property that fails.

### TraceService, DtraceSession, DtraceSessionProofs

One handle, one thread, and a stack of `process` commands, because a callback may
call `process` again. Between two steps of `process` a script runs (at the top
level, or as a callback) whose commands are the actions `Go`, `GoFails`, `Stop`,
`Grab` (for `launch` too) and `Close`; there `DeInit`, the end of the interpreter or
an exit, may come as well. `refs[o]` counts the references this
extension holds; a callback and its argument are set, referenced and released
together and are one object here. `Register` stores the callback specs one
after the other, so that a `go` that is refused half way leaves the first ones
stored. Checked: what is registered or being evaluated is referenced as often as
that (`CallbacksReferenced`), and no more often unless `go` stored over a callback or
`Dtrace_DeInit` freed the handle, which both leak (`LeaksOnlyLost`, with the history
variable `lost`); `Close` leaks nothing, in whatever callback it runs; the vector
has room (`VectorHoldsAll`); processes that are stopped are remembered until `go`
continues them (`HeldAreRemembered`, `GoContinuesAll`). A callback that closes its
own handle leads to the phase "undefined": `ProcessSurvivesClose` fails.

`TraceService` is what a script is promised of a handle: which callbacks are
registered, which processes stand still, which callbacks are being evaluated, what
is alive. It counts no references, keeps no vector and has no C stack. `go` adds
callbacks and never takes one away, also when it fails; a grabbed process stands still
until a `go` that succeeds, `close`, or the end of the interpreter (`AEnds`); callbacks end in the reverse order of their
calls; an error ends the `process` that called the callback, unless it is the
callback "proc"; and in every step what is registered or being evaluated is alive.
`ImplementsTraceService` is the refinement:

| TraceService | DtraceSession |
|---|---|
| `phase` | `Phase`: the cell `hd`, and while it is there `lib` |
| `registered` | `callbacks` |
| `held` | `Held`: the processes whose `target` is "held" |
| `alive` | `Alive`: the objects with a reference |
| `busy` | the innermost `process` is not in a callback (`~ ScriptRuns`) |
| `evals` | `Evals`: slot and object of the frames, without the one at work |

### DtraceAggregations, CutWhiteSpace, DtraceAggregationsProofs, Inductions

libdtrace prints an aggregation buffer by buffer. `DtraceAggregations` gives the
buffers to `agghandler` one at a time, lets `dtrace_aggregate_print` or, in `process`,
`dtrace_work` fail between any two (`AggregationsFails`, `ProcessFails`), and lets
`printa()` print in between commands, in the order of a format (`Formats`) too.
`aggregations` passes no format, so it always has members, value and white space. A
member or a value is a
call of `cutWhiteSpace` (`MemberCuts`, `ValueCuts`), whose variables and steps are
those of `CutWhiteSpace`, and what it returns is used by `Member` and `Value`.
Checked: a result is the content of the aggregation, trimmed tuple and trimmed
value in turn (`ResultIsTable`); nothing is left over for the next printing
(`NoHalfTuple`); after a printing that failed, or had a format that prints members
after the last value (`printa("%d", @a)` of a key), at most the first tuple is spoilt
(`ResultIsPaired`); only an aggregation without keys makes the `aggregations` command
panic (`PanicsOnlyKeyless`), whatever was printed before. That it does panic there is
the failing `EveryTableIsReturned`. In `process` keys are no help: a format that has the
value first, or twice, comes to the same line without a tuple, and the model ends in
"printa panic".

`CutWhiteSpace` takes the two loops step by step, with the index of every write;
its frame is there from `Call` to `Return`. Its reference definition is `Shown`
(`CutsWhiteSpace`). The NUL of a text that fills the buffer is written past its end, by
one byte, a defect of the code (`OverrunByOne` says that it is no more), and `size` is used unset exactly on texts
without a letter (`UnsetOnBlankOnly`): an empty string as a key is such a text,
since libdtrace prints it as blanks.

### DtraceOptions, DtraceOptionsProofs

`open` and `configure` set pairs up to the first one refused, one in a step
(`SetOption`), and `configure` answers with the text that `get_option` formatted in a
static array, character by character. Values are sequences of digits. Checked: once a
command is over, refused or not, every option has the value of the last pair that names
it before the first refused one, or the value it had (`SetUpToRefused`). The manual says
that `configure` "returns the current value" (`AnswersAreValues`). That fails for two
threads, the run `options_race`; and with one thread too, for a value longer than the 11
characters of the array, which is cut (dtrace.c:121, 136). For one thread
`ShortAnswersAreValues` checks what is left of it: a value that fits is answered as it
is, whatever longer answer lay in the array before.

### DtraceNames, DtraceList, DtraceListProofs

`DtraceList` is the nested iteration over statements and probes. `Listing` and
`ListsEachProbeOnce` say without iteration which probes the callback must have
seen: those of each clause, once, in order. That the statements of a clause follow
one another is assumed of the D compiler (`Grouped`). The callback may set
`-foldpdesc`, fail, or close the handle: libdtrace then walks on in freed memory,
and the model ends in "undefined". `formatProbeDesc` (in `DtraceNames`) makes names
of characters (`Chars`, of which one is the `Colon`), because one property is about them: `NamesTellApart` says that two
probes with one name had a name that was cut, or a colon within a field.
`DtraceNames` also has the other total functions of the code: `bufType`, `dropKind`
and, for a Mac, the architectures of `src/darwin/arch.h`, of which
`MCDtraceList` has TLC evaluate two assumptions.

### DtraceLifecycle, DtraceLifecycleProofs

Load, deletion and exit of interpreters, `Dtrace_DeInit` one handle at a time, with
commands of other threads under way. A command is inside a handle from `Enter` to
`Leave`; meanwhile its callbacks may open and close handles, its own among them, and
call `exit`, and a command that goes on with a handle that is gone ends in "used freed".
`Delete` waits until no command runs, as Tcl does before it calls `onDestroy`. Every
thread may be in a clean-up of its own, so that a deletion meets an exit handler at the
same tables; `open` and `close` at such tables are `Races`. `cell[t]` says that
`Dtrace_DeInit` has freed a `handle_data` whose `processes` it is going to read
(dtrace.c:1705-1706). That is undefined whenever an interpreter ends with an open
handle, so `FreeVector` has two outcomes: it goes on, or ends in "used freed".

Checked: an open library handle is in some table that is still attached
(`EveryHandleIsFound`); a library handle is closed by a `close` of its own interpreter or
by the clean-up of its own table, never by another interpreter's (`DeletionIsLocal`);
until exit, only a `close` in a callback takes the handle of a command under way
(`OnlyCallbacksTakeHandles`); exit is carried through (`ExitHappens`) and leaves no
handle open (`ExitClosesAll`); and one interpreter in one thread that is not deleted
before exit closes and frees nothing twice (`OneThreadFreesOnce`), with callbacks that
close handles and exit. It may still use a freed one. The module abstracts what
`DtraceRegistry` has in detail: an `open` is one step here. `TablesFreedOnce` fails: an
interpreter is deleted, then the process exits.

### DemoHandles, DtraceGui, NetDemo, DtraceDemo, DemoProofs

`DemoHandles` is `HandleService` for one interpreter without programs: ids count
up, `close` succeeds on a live handle, every command raises an error on one that
was closed. A demo is single-threaded, and every handler is an action, with one
disjunct or one action for every point where a command may raise an error.

`DtraceGui`: a button and a timer know a handle by the arguments they were made
with, and either may close it first. Checked: open handles and buttons correspond
one to one, also after `go` or `aggregations` failed (`ButtonsShowLive`), "disable
all" never stops at a button whose handle is gone (`ArmageddonDisables`), and the
timer of a disabled probe ends (`TimersStop`).

`NetDemo`: the operating system gives the name of a closed channel to the next
connection, while the loops started under the name go on. An error in `receive`
takes the handler from the channel and leaves it open ("deaf"). `reading` is the
channel whose `gets` blocks the server. Checked: handles and connections correspond
one to one (`HandlePerConnection`), what a handle traces goes to the connection it
belongs to (`OutputGoesHome`), and a connection that traces is served for ever
unless the server waits for the rest of a line (`TracedIsServed`).

`DtraceDemo`: one loop serves the handle from GO on, until an error ends it
(`OneLoop`).

## Runs

All runs take seconds. MC modules extend the module they check. `CHECK_DEADLOCK
FALSE` is set where the system may stop: after exit, a panic or undefined
behaviour, and where a bound is reached.

| Run | Configuration | Bounds | Shows |
|---|---|---|---|
| registry | `MCDtraceRegistry.cfg` | 2 interpreters, 2 cells, ids up to 3 and 2 | all of the registry, refinement and liveness included |
| registry_other_close | `MCProgramsSurvive.cfg` | same, fewer ids | fails: `ProgramsSurviveOtherClose` |
| session | `MCDtraceSession.cfg` | 2 objects, 2 processes, 2 slots, 3 grabs, depth 2 | the session's invariants, and its refinement |
| session_reentrance | `MCSessionReentrance.cfg` | same | fails: `ProcessSurvivesClose` |
| aggregations | `MCDtraceAggregations.cfg` | buffer of 3, values of up to 4 characters, tables of 2 records, tuples of 2, 4 formats, 2 printings that fail or end in members | results and both loops |
| aggregations_keyless | `MCAggregationsKeyless.cfg` | same | fails: `EveryTableIsReturned` |
| options | `MCDtraceOptions.cfg` | 1 thread, array for 2 characters, values of up to 3 | set and answer |
| options_race | `MCOptionsRace.cfg` | 2 threads | fails: `AnswersAreValues` |
| list | `MCDtraceList.cfg` | programs of 3 statements, 3 clauses, 6 probes, names of 8 characters | each probe once, by its name |
| lifecycle | `MCDtraceLifecycle.cfg` | 2 interpreters, 3 handles | clean-up |
| lifecycle_twice | `MCLifecycleTwice.cfg` | 1 interpreter, 3 handles | fails: `TablesFreedOnce` |
| demos | `MCDemos.cfg` | 4 handles; 5 presses of "Enable"; 2 channel names, 2 loops each; 3 programs, 3 timers | the three demos, one in each behaviour |

Why the bounds are enough. In the registry, two threads make every race on a
counter, and the mutex makes a third one wait like the second; two cells and
three opens make a cell be reused while a program or another handle of the same
interpreter may still be about. In the session, depth 2 is a callback inside
`process` inside a callback; three grabs pass the capacities 0, 1 and 3. Texts of
one character more than the buffer hit it exactly and run over it, and one of the keys
has a blank at the cut. Two records and two failures let a spoilt tuple meet a
complete one. Three statements give a clause two repetitions, or one
next to another clause; the probes have names that fit, just fit, are cut to the
same, and are the same by a colon; and listing again and again lets `list_arg` of one call meet the next.
Four handles and two channel names let each name come back twice while loops of the
connections before are about; two interpreters with three handles let one open and
close, in a callback, while the other is in the middle of a clean-up. The formats print
no value, no member, the value first, and two values.

Bounds by name: `MaxId`, `MaxPid` (no open, no compile starts once the counter is
above), `RoomForHandle` (an open starts only if a cell will be free for it),
`MaxSpecs`, `MaxRefs`, `MaxGrabs`, `MaxDepth`, `MaxCuts`, `MaxPairs`; in the demos
`MaxOpens`, `MaxIds`, `MaxLoops`, `MaxPrograms`, `MaxTimers`.

Fairness. `DtraceRegistry`: weak fairness of the steps of a command that has
begun; the operating system runs a thread that can go on, a mutex is held only
over two assignments, and its holder is one of those threads. It is weak
fairness only: with finitely many opens, no thread is passed by for ever.
`DtraceLifecycle`: weak fairness of the clean-up steps of each thread, which wait for
nobody. `DtraceList`: weak fairness of what `list` does and of its callbacks'
return, since the manual's callbacks are procedures that return; what else a
callback does is free. `DtraceGui`: weak fairness of each timer, and `NetDemo`:
strong fairness of each name's loop (it is disabled while `gets` blocks, and due
again afterwards), which is what Tcl's event loop does with timers: it serves all
that are due before it waits. Nothing is assumed of scripts, clients and users: no
command, no button and no line ever has to come.

## Where the code departs from what is written

Each of these is the failing property of a run.

* `del_hd` (dtrace.c:267) deletes the programs of all handles of the interpreter;
  neither the manual (dtrace.man:125-127) nor the comment on `Close`
  (dtrace.c:1057-1059) says so.
* A callback that closes its handle (dtrace.man:44-46 recommends `close` at any
  time) sends `Process` on with freed memory (dtrace.c:1479).
* An aggregation without keys, `@ = count();`, makes `agghandler` panic
  (dtrace.c:702), against dtrace.man:209-213.
* `get_option` answers in a static array shared by all threads (dtrace.c:121),
  against dtrace.man:53-54.
* `Dtrace_DeInit` runs again, on freed tables, when an interpreter was deleted before
  exit (dtrace.c:1799), against the comment dtrace.c:1727.

Met while modelling, and not a property of a run: `-foldpdesc` is 0 in a fresh
handle (dtrace.c:310; dtrace.man:86-88 says 1); an error in a list callback
panics (dtrace.c:927; the comment at 928 expects another cause); a callback that
`go` replaces is never released (dtrace.c:1387), nor any callback of a handle that is
open when its interpreter ends (dtrace.c:1705; `LeaksOnlyLost` says that nothing
else leaks); `configure` answers values of more than 11 characters with a part of them
(dtrace.c:121, against dtrace.man:53-54); the NUL of a long text goes one byte past the
buffer of `cutWhiteSpace` (dtrace.c:555); `Dtrace_DeInit` reads `hd->processes` after it
freed `hd` (dtrace.c:1706); on a Mac, `Open` passes `g_dtp`, which is declared nowhere, to
`dtrace_setopt` (dtrace.c:1011-1012); the loops of the network demo pile up
(netdemo.tcl:41); exit takes handles from commands
of other threads (dtrace.c:1704), the end "used freed" of `DtraceLifecycle`;
`printa()` reaches `agghandler` outside `aggregations` (dtrace.c:744), the end
"undefined" of `DtraceAggregations`, and with a format of its own panics there for keyed
aggregations too, the end "printa panic", or leaves members for the next result.

## Proofs

All theorems hold for every value of the constants, from the `ASSUME` of the module
that declares them: special values (`Nobody`, `NULL`, `UNSET`) are none of the
ordinary ones, bounds are natural numbers, the buffer has a byte, and there are finitely
many heap cells (`Addr`) and, in the life cycle, interpreters: without the one the
bound `RoomForHandle` would compare nothing, without the other exit need not end.

Five of the checked properties are about what must happen in the end, which the proof
system cannot derive from fairness. For each of them a theorem shows what it rests on
beside the scheduling: `NoCommandIsStuck` and `CommandsAlwaysGetOn` for `CommandsReturn`,
`ListGetsOn` for `ListReturns`, `CleanupAlwaysGetsOn` for `ExitHappens`,
`TimersAlwaysRunOut` for `TimersStop`, `TracedAlwaysHasLoop` for `TracedIsServed`. Where
something has to end, that is a number which its own steps lower and which no
step of anybody else raises.

### Registry: DtraceRegistryProofs

| Theorem | Statement |
|---|---|
| `Inductive` | `Spec => []IInv` |
| `TypeCorrect` | `Spec => []TypeOK` |
| `UniqueIds` | `Spec => []IdsUnique` |
| `ProgramsPointToLiveHandles` | `Spec => []NoDanglingProgram` |
| `ProgramsRunWhereCompiled` | `Spec => []RunsWhereCompiled` |
| `NoLibHandleLeaks` | `Spec => []HandlesAreWhole` |
| `OpeningHandlesUnused` | `Spec => []NotYetUsed` |
| `Refinement` | `Spec => ImplementsHandleService` |
| `MutexIsReleased` | `Spec => []MutexReleased` |
| `NoCommandIsStuck` | `Spec => []NobodyIsStuck` |
| `CommandsAlwaysGetOn` | `Spec => [][CommandsGetOn]_vars` |

None of the properties is inductive. That ids are unique rests on who holds a
mutex: the thread between reading and writing a counter holds it (`MutexHeld`), so
the id that it read is still the counter (`IdsBelowCounter`), so the id is nobody
else's, until it is entered in a table (`TakenIdsFresh`). That programs point to
live cells rests on two facts: a cell belongs to one entry and holds NULL or that
entry's library handle (`CellsOwned`), and a `compile` or `open` under way works on
an entry that is still there, since only its own interpreter could remove it
(`FramesMatchTables`). `IInv` is the conjunction of all these. The proof has one lemma per action, `LoadKeeps` to
`RegisterPdKeeps`, and `OpeningEntry` for what both ends of an `open` need.

`Refinement` takes every step to one of `HandleService` or to none. The steps
inside a command are none, because an id counts as used only once no frame holds
it: `UsedInside` shows this of taking an id and `UsedSpent` of the return, where
the id must be new to the service (two frames never hold the same one). `Open` is
seen when it returns (`OpenDoneIsOpen`) or gives up (`OpenFailsIsOpenFails`),
`Compile` in `RegisterPdIsCompile`, the others in their only step. An `open` that
throws closes a library handle, and the service must not see anything stop running
in it; that nothing does is `NotYetUsed`, which is inductive relative to `IInv`:
a program can only be compiled or run in a handle its interpreter can look up, and
the interpreter whose `open` is under way is in no other command.

`NoCommandIsStuck` is freedom from deadlock for any number of threads: a command
under way can take its next step, or it waits for the mutex of a counter whose holder can
take its own (`NobodyIsStuck`). It needs the converse of `MutexHeld`: a mutex that is
held is held by a thread between reading and writing that counter (`MutexReleased`), so
nobody waits for a thread that waits. And it needs that the bound on opens does
its work: the opens that have no cell yet, counted with the cells in use, are no more
than there are cells (`CellsLeft`). `CommandsAlwaysGetOn` says that a step of a command
takes it nearer its return (`StepsLeft`), and that no other thread touches its frame.

### Session: DtraceSessionProofs

`SessionTypeCorrect`, `CallbacksStayReferenced`, `OnlyLostLeak`,
`VectorNeverOverrun`, `NoProcessLost` and `GoContinues` prove `TypeOK`,
`CallbacksReferenced`, `LeaksOnlyLost`, `VectorHoldsAll`, `HeldAreRemembered` and
`GoContinuesAll`, for `process` nested to any depth. Their conjunction with "a frame
that evaluates, evaluates an object" is inductive. The work is in counting: the
references of an object are the slots it is stored in plus the frames that
evaluate it, two cardinalities, and lemmas say how each action changes them.

`SessionRefinement` proves `ImplementsTraceService`. It has one lemma per action,
`OpenMaps` to `WorkEndsMaps`; `SleepEnds` is a stutter, and a callback that fails after
it closed the handle is, to the service, one that returns: libdtrace goes on, in freed
memory. Four facts carry it. Only the innermost `process` can be at work (`Nested`), so
the callbacks around it are exactly the frames below, and come back in order. An
object that is needed has a reference, from `CallbacksReferenced`, so it is alive
(`NeededIsLive`). Every process that stands still is in the vector
(`HeldAreRemembered`), so `go` lets all of them run. And a `go` fills slots or leaves
them as they are (`LastSpecStored`).

### Life cycle: DtraceLifecycleProofs

`LifecycleTypeCorrect`, `NoHandleIsLost` (`EveryHandleIsFound`), `NothingOpenAtExit`
(`ExitClosesAll`), `CommandsKeepHandles` (`OnlyCallbacksTakeHandles`) and
`EndsAreLocal` (`DeletionIsLocal`) follow from `LifecycleInductive`, `Spec =>
[]LInv`, for any number of threads. `LInv` says what a walk has still to do: in the
tables it is at, whatever is open is among what it has still to come to
(`WalkSound`); whatever is in a table that nobody walks is open (`TablesOpen`); each
table that is attached has its exit handler still to come or under way
(`HandlersCover`), so that none is left when they are through. The action properties
follow from which steps close a library handle at all (`ClosersAre`), a `close` in the
table the handle is in and a walk over such a table, and from that, until exit, a
thread walks only its own tables and only while it is inside no command (`OwnWalks`).

`AloneFreesOnce` (`OneThreadFreesOnce`) needs more, since two threads may well free
things twice: a second invariant, `QInv`, proved beside `LInv`
(`AloneInductive`). Every walk is that of exit or of a thread over its own tables
(`Walkers`); handlers stand in the list once, and not once they have run
(`HandlersOnce`), so exit frees no table twice (`ExitWalk`); and unless there are
several interpreters, or one was deleted, what exit has still to close is open
(`Undisturbed`): a callback that called `exit` is not gone on with, and no other closes
a handle meanwhile.

`CleanupAlwaysGetsOn` counts what is left of an exit: the handlers to run, those
included that interpreters may still register (`ToRun`), and in a walk two steps for a
handle and one for the tables (`Work`). `RunHandler` lowers the first, the steps of
`Dtrace_DeInit` the second, and no command of any thread raises either: an interpreter
that loads during exit was counted as one that might. Tables are finite, since handles
are opened one at a time (`TablesAreFinite`).

### Aggregations and texts: DtraceAggregationsProofs, Inductions

`TextsAreTrimmed` (`CutsWhiteSpace`), `UnsetExactlyOnBlank` (`UnsetOnBlankOnly`) and
`OverrunIsOneByte` (`OverrunByOne`) prove `cutWhiteSpace` for every text and every
buffer size, from the loop invariant `Loop`: what was skipped is blank, `size` is the
place of the last letter so far. `TuplesAreFinished` (`NoHalfTuple`) and
`PanicNeedsKeyless` (`PanicsOnlyKeyless`) rest on `Orderly`. As long as no printing broke
off or ended in members, a value is still to come for every tuple that was begun, in
whatever order a format prints (`FormattedAllIs`); and in `aggregations`, if all keys have
members, each value has one before it, or a tuple that was begun.
`AggregationsInvariant` is the inductive invariant `AInv`, `AggregationsTypeCorrect`
its first part.

`ResultIsTheTable` (`ResultIsTable`) and `OneTupleIsSpoiled` (`ResultIsPaired`) need to
know which record a buffer came from. `GatheringInvariant` is the invariant for that,
`GInv`: while a list is being made, the buffers to come are the rest of
`PrintedAll(table)` after `m` buffers of some record `r` (`HandedOut`), the list has the
tuples and values of the records before (`Gathered`), and the tuple ends in the first
`m` members of `r`'s key (`EndsIn`). It *ends* in them, and only for the first record
after a printing that broke off or ended in members may there be more in front: that is
all that such a printing can spoil. `HeadIs` says which buffer comes next, from where the pieces of
`PrintedAll` lie in it.

`PrintedAll` glues the buffers of all records together with `FlattenSeq`, a recursive
function. The provers cannot use the library's induction theorems, which take a
predicate; `Inductions` states induction about sets instead (`SetInduction`: a set
that has 0 and with each number the next one has all), derived from the
well-foundedness of finite sets (`Smallest`), and shows with it that what holds of
the pieces of `FlattenSeq` holds of the whole (`FlattenSeqIn`). `Joint(ss, k)` is the
first `k` pieces put together: it grows by a piece at a time (`JointGrows`), the
shorter ones come first in the longer ones (`JointComesFirst`), and piece `k` lies in
the whole behind those before it (`JointAt`).

### List and names: DtraceListProofs

`ListInductive` is the invariant of the walk: the clause that `list_arg` knows is that
of the statement walked last (`LastStatement`), and the callback was run on all probes
of the statements walked so far but those of the present one still left
(`Progress`). `EachProbeIsListedOnce` (`ListsEachProbeOnce`) follows for every set of
programs, since what is walked of a program comes first in its listing
(`WalkedComesFirst`); `ListTypeCorrect` is its first part. `NamesAreTold`
(`NamesTellApart`) is about `formatProbeDesc`: a folded name is taken apart at its last
colon (`LastColon`), three times (`FoldedInjective`), when no field has one and nothing
was cut (`NameInjective`).

`ListGetsOn` counts the steps that a listing has still to make (`StepsToCome`): two for
each probe of its `Listing` that the callback has not seen, one for each statement, one
for the end. That the first of these is a natural number at all is `Progress` again: what
was called comes first in the listing (`ToComeAre`). A callback that configures or closes
the handle leaves the number as it is.

### Options: DtraceOptionsProofs

`OptionsTypeCorrect` and `PairsAreSetUpToRefused` (`SetUpToRefused`) are for any number
of threads, options and pairs. The invariant is `OInv` (`OptionsInvariant`): whoever
formats or answers has been asked something (`Busy`); none of the pairs set so far was
refused, and an option is what the last of them that names it says, or what it was
(`SetSoFar`); and a command that is over has set all its pairs or came to a refused one
(`Over`), so that the pairs it set are exactly those before the first refused one.

`OneThreadReadsItsValues`: if there is but one thread (`Alone`), `ShortAnswersAreValues`.
It is the only theorem with an assumption of its own, and false without it
(`options_race`). The invariant adds that the characters written so far are those of the
value, cut to the array (`AloneWith`); a value that fits is not cut (`ShortIsWhole`).

### Demos: DemoProofs

`ButtonsAreHandles` (`ButtonsShowLive`) and `ArmageddonDisablesAll`
(`ArmageddonDisables`), with that number and handle of a probe determine each other
(`SameProbe`); `ConnectionsOwnHandles` (`HandlePerConnection`) and `TracesGoHome`
(`OutputGoesHome`), with that a callback is only ever given to a handle by the
connection it belongs to; `DemoHasOneLoop` (`OneLoop`).

`TimersAlwaysRunOut`: once a handle of the graphical demo is closed it stays closed, no
timer is set for it again, and the one that is there is not set again when it
fires. `TracedAlwaysHasLoop`: a connection of the server that is traced has a loop. It
rests on the same facts as `TracesGoHome`: a new handle has no callback yet, and only
the `GO` of its own connection gives it one, which starts a loop or leaves the
connection deaf.

## Only model-checked

Liveness, which is out of the proof system's reach: `CommandsReturn`, `ListReturns`,
`ExitHappens`, `TimersStop`, `TracedIsServed`. That these follow from weak or strong
fairness and the theorems named at the head of the proofs is not proved: it needs
`ENABLED` and the rule that a natural number cannot be lowered for ever. Every invariant, every action property
and both refinements that the passing runs check are theorems. The tables of
`DtraceNames` (`bufType`, `dropKind`, the architectures) are evaluated in the
assumptions of `MCDtraceList`.

## Not modelled

* What callbacks are given besides the description of a probe (cpu, numbers, text of a
  drop or an error): it is formatted and passed on.
* libdtrace, libproc and Tcl are external: their calls are choices among what the
  code distinguishes (success and failure), open handles, enabled programs,
  held processes and reference counts. `src/darwin`, `src/solaris` hold only their
  headers.
* Argument checks that return before any change of state (`objcCheck`, bad ids,
  bad booleans) are steps that change nothing.
* In the life cycle, commands in a callback other than `open`, `close` and `exit`:
  nested `process` commands are the matter of `DtraceSession`.
* Freed memory of programs, leaks of Tcl objects other than callbacks.
* `src/tools`, `src/tclconfig`, `configure`: vendored and generated.
* Overflow of the counters, after 2^31 opens, which no process comes to.
* What the demos draw and print.
* Tests (`src/tests`), the manual (`src/doc`): read for what is expected; they are
  no part of the program.

Of `dtrace.c` what is not mapped are comments, declarations, argument checks and the
building of error messages. More than half of the C lines of the repository are the
headers of libdtrace, libproc and libelf that Apple and Sun wrote (`src/darwin`,
`src/solaris`, some 4000 lines): constants, structures and prototypes, in which there
is nothing to model. That keeps the share of mapped lines low.

## Plan

1. Registry, session, aggregations, texts, options, list, life cycle, demos: modelled,
   checked and proved, with the safety half of every liveness property (done).
2. `HandleService` and `TraceService` implemented by registry and session (done).
3. The demos against `HandleService`: their handlers are several of its steps at once,
   so they would have to be cut at the commands first.
