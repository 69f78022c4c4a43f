------------------------ MODULE DtraceRegistryProofs --------------------------
(***************************************************************************)
(* Theorems about DtraceRegistry, for every set of interpreters, every     *)
(* heap and every bound on the counters: what IInv implies, and, in the    *)
(* second part, that the tables implement HandleService.                   *)
(***************************************************************************)
EXTENDS DtraceRegistry, FiniteSetTheorems, TLAPS

\* The entry an open has made is the only one with its id, or in its cell.
LEMMA OpeningEntry ==
  ASSUME IInv, NEW i \in Interps, frame[i].pc \in {"opening", "configuring"},
         NEW e, e = [in |-> i, id |-> frame[i].id, hd |-> frame[i].hd]
  PROVE  /\ e \in handles /\ frame[i].hd \in Addr
         /\ frame[i].id \in Nat /\ frame[i].id > 0
         /\ e.in = i /\ e.id = frame[i].id /\ e.hd = frame[i].hd
         /\ \A f \in handles : f.id = frame[i].id => f = e
         /\ \A f \in handles : f.hd = frame[i].hd => f = e
<1>1. e \in handles /\ e.in = i /\ e.id = frame[i].id /\ e.hd = frame[i].hd
  BY DEF IInv, FramesMatchTables, FrameMatches
<1>2. frame[i].hd \in Addr /\ frame[i].id \in Nat /\ frame[i].id > 0
  BY <1>1 DEF IInv, TypeOK, HandleEntry, IdsBelowCounter
<1> QED BY <1>1, <1>2 DEF IInv, HandleIdsUnique, CellsOwned

LEMMA LoadKeeps == ASSUME IInv, NEW i \in Interps, Load(i) PROVE IInv'
<1>1. TypeOK'
  BY DEF IInv, TypeOK, Load, tables, libdtrace
<1>2. /\ (HandleIdsUnique /\ ProgramIdsUnique /\ NoDanglingProgram)'
      /\ (RunsWhereCompiled /\ LibHandlesOwned /\ NoHalfOpenHandle)'
      /\ (MutexHeld /\ IdsBelowCounter /\ TakenIdsFresh)'
      /\ (CellsOwned /\ FramesMatchTables)'
  BY DEF IInv, HandleIdsUnique, ProgramIdsUnique, NoDanglingProgram,
       RunsWhereCompiled, LibHandlesOwned, NoHalfOpenHandle, MutexHeld,
       IdsBelowCounter, TakenIdsFresh, CellsOwned, FramesMatchTables,
       FrameMatches, Load, tables, libdtrace
<1> QED BY <1>1, <1>2 DEF IInv

LEMMA DestroyKeeps == ASSUME IInv, NEW i \in Interps, Destroy(i) PROVE IInv'
<1>1. TypeOK'
  BY DEF IInv, TypeOK, Destroy, LibClose
<1>2. HandleIdsUnique'
  BY DEF IInv, HandleIdsUnique, Destroy
<1>3. ProgramIdsUnique'
  BY DEF IInv, ProgramIdsUnique, Destroy
<1>4. NoDanglingProgram'
  BY DEF IInv, NoDanglingProgram, Destroy
<1>5. RunsWhereCompiled'
  BY DEF IInv, RunsWhereCompiled, Destroy, LibClose
<1>6. LibHandlesOwned'
  BY DEF IInv, LibHandlesOwned, Destroy, LibClose
<1>7. NoHalfOpenHandle'
  BY DEF IInv, NoHalfOpenHandle, Destroy
<1>8. IdsBelowCounter'
  BY DEF IInv, IdsBelowCounter, Destroy
<1>9. TakenIdsFresh'
  BY DEF IInv, TakenIdsFresh, Destroy
<1>10. CellsOwned'
  BY DEF IInv, CellsOwned, Destroy
<1>11. FramesMatchTables'
  BY DEF IInv, FramesMatchTables, Destroy, Idle, FrameMatches
<1>12. /\ (MutexHeld)'
  BY DEF IInv, MutexHeld, Destroy
<1> QED BY <1>1, <1>2, <1>3, <1>4, <1>5, <1>6, <1>7, <1>8, <1>9, <1>10, <1>11,
     <1>12 DEF IInv

LEMMA OpenBeginKeeps == ASSUME IInv, NEW i \in Interps, OpenBegin(i) PROVE IInv'
<1>1. TypeOK'
  BY DEF IInv, TypeOK, OpenBegin, IdleFrame, tables, libdtrace, Steps, Frame,
       Counters
<1>2. NoHalfOpenHandle'
  BY DEF IInv, NoHalfOpenHandle, OpenBegin, Idle, tables
<1>3. MutexHeld'
  BY DEF IInv, MutexHeld, OpenBegin
<1>4. IdsBelowCounter'
  BY DEF IInv, IdsBelowCounter, OpenBegin, tables
<1>5. TakenIdsFresh'
  BY DEF IInv, TakenIdsFresh, OpenBegin, tables
<1>6. FramesMatchTables'
  BY DEF IInv, FramesMatchTables, OpenBegin, IdleFrame, FrameMatches, tables
<1>7. /\ (HandleIdsUnique /\ ProgramIdsUnique /\ NoDanglingProgram)'
      /\ (RunsWhereCompiled /\ LibHandlesOwned /\ CellsOwned)'
  BY DEF IInv, HandleIdsUnique, ProgramIdsUnique, NoDanglingProgram,
       RunsWhereCompiled, LibHandlesOwned, CellsOwned, OpenBegin, tables,
       libdtrace
<1> QED BY <1>1, <1>2, <1>3, <1>4, <1>5, <1>6, <1>7 DEF IInv

LEMMA CloseKeeps == ASSUME IInv, NEW i \in Interps, Close(i) PROVE IInv'
<1>1. PICK e \in Usable(i) :
        /\ LibClose({handle[e.hd]})
        /\ handle' = [handle EXCEPT ![e.hd] = NULL]
        /\ DelHd(i, e.id)
  BY DEF Close
<1>2. /\ e \in handles /\ e.in = i /\ e.id # NULL /\ handle[e.hd] = e.id
      /\ e.hd \in Addr
  BY DEF IInv, TypeOK, Usable, CellsOwned, HandleEntry
<1>3. /\ handles' = handles \ {e}
      /\ programs' = {p \in programs : p.in # i}
      /\ lib_open' = lib_open \ {e.id}
      /\ enabled' = {x \in enabled : x.lib # e.id}
  BY <1>1, <1>2 DEF IInv, HandleIdsUnique, DelHd, LibClose
<1>4. \A f \in handles' : handle'[f.hd] = handle[f.hd]
  BY <1>1, <1>2, <1>3 DEF IInv, CellsOwned
<1>5. /\ frame[i].pc = "idle" /\ frame' = frame
      /\ UNCHANGED <<loaded, mutex, next_free>>
  BY DEF Close, Idle
<1>6. TypeOK'
  <2>1. handle' \in [Addr -> Nat]
    BY <1>1 DEF IInv, TypeOK, NULL
  <2> QED BY <1>3, <1>5, <2>1 DEF IInv, TypeOK
<1>7. HandleIdsUnique' /\ ProgramIdsUnique'
  BY <1>3 DEF IInv, HandleIdsUnique, ProgramIdsUnique
<1>8. NoDanglingProgram'
  BY <1>2, <1>3, <1>4 DEF IInv, NoDanglingProgram
<1>9. RunsWhereCompiled'
  BY <1>3 DEF IInv, RunsWhereCompiled
<1>10. LibHandlesOwned'
  BY <1>2, <1>3, <1>4 DEF IInv, LibHandlesOwned
<1>11. NoHalfOpenHandle' /\ CellsOwned'
  BY <1>3, <1>4, <1>5 DEF IInv, NoHalfOpenHandle, CellsOwned
<1>12. MutexHeld' /\ IdsBelowCounter' /\ TakenIdsFresh'
  BY <1>3, <1>5 DEF IInv, MutexHeld, IdsBelowCounter, TakenIdsFresh
<1>13. FramesMatchTables'
  <2>1. \A j \in Interps : frame[j].pc # "idle" => j # i
    BY <1>5
  <2> QED BY <1>2, <1>3, <1>4, <1>5, <2>1 DEF IInv, FramesMatchTables,
       FrameMatches
<1> QED BY <1>6, <1>7, <1>8, <1>9, <1>10, <1>11, <1>12, <1>13 DEF IInv

LEMMA CompileBeginKeeps == ASSUME IInv, NEW i \in Interps, CompileBegin(i) PROVE IInv'
<1>1. TypeOK'
  BY DEF IInv, TypeOK, CompileBegin, Usable, tables, libdtrace, HandleEntry,
       Steps, Frame, Counters
<1>2. NoHalfOpenHandle'
  BY DEF IInv, NoHalfOpenHandle, CompileBegin, Idle, tables
<1>3. MutexHeld'
  BY DEF IInv, MutexHeld, CompileBegin
<1>4. IdsBelowCounter'
  BY DEF IInv, IdsBelowCounter, CompileBegin, tables
<1>5. TakenIdsFresh'
  BY DEF IInv, TakenIdsFresh, CompileBegin, tables
<1>6. FramesMatchTables'
  BY DEF IInv, FramesMatchTables, CompileBegin, Usable, FrameMatches, tables
<1>7. /\ (HandleIdsUnique /\ ProgramIdsUnique /\ NoDanglingProgram)'
      /\ (RunsWhereCompiled /\ LibHandlesOwned /\ CellsOwned)'
  BY DEF IInv, HandleIdsUnique, ProgramIdsUnique, NoDanglingProgram,
       RunsWhereCompiled, LibHandlesOwned, CellsOwned, CompileBegin, tables,
       libdtrace
<1> QED BY <1>1, <1>2, <1>3, <1>4, <1>5, <1>6, <1>7 DEF IInv

LEMMA ExecKeeps == ASSUME IInv, NEW i \in Interps, Exec(i) PROVE IInv'
<1>1. TypeOK'
  BY DEF IInv, TypeOK, Exec, Runnable, tables, ProgramEntry
<1>2. RunsWhereCompiled'
  BY DEF IInv, RunsWhereCompiled, NoDanglingProgram, LibHandlesOwned, Exec,
       Runnable
<1>3. /\ (HandleIdsUnique /\ ProgramIdsUnique /\ NoDanglingProgram)'
      /\ (LibHandlesOwned /\ NoHalfOpenHandle /\ MutexHeld)'
      /\ (IdsBelowCounter /\ TakenIdsFresh /\ CellsOwned)'
      /\ (FramesMatchTables)'
  BY DEF IInv, HandleIdsUnique, ProgramIdsUnique, NoDanglingProgram,
       LibHandlesOwned, NoHalfOpenHandle, MutexHeld, IdsBelowCounter,
       TakenIdsFresh, CellsOwned, FramesMatchTables, FrameMatches, Exec, tables
<1> QED BY <1>1, <1>2, <1>3 DEF IInv

LEMMA LockKeeps == ASSUME IInv, NEW i \in Interps, Lock(i) PROVE IInv'
<1>1. TypeOK'
  BY DEF IInv, TypeOK, Lock, Goto, tables, libdtrace, Steps, Frame
<1>2. NoHalfOpenHandle'
  BY DEF IInv, NoHalfOpenHandle, Lock, Goto, tables
<1>3. MutexHeld'
  BY RegistryAssumption DEF IInv, TypeOK, MutexHeld, Lock, Goto, Frame
<1>4. IdsBelowCounter'
  BY DEF IInv, IdsBelowCounter, Lock, Goto, tables
<1>5. TakenIdsFresh'
  BY DEF IInv, TakenIdsFresh, Lock, Goto, tables
<1>6. FramesMatchTables'
  BY DEF IInv, FramesMatchTables, Lock, Goto, FrameMatches, tables
<1>7. /\ (HandleIdsUnique /\ ProgramIdsUnique /\ NoDanglingProgram)'
      /\ (RunsWhereCompiled /\ LibHandlesOwned /\ CellsOwned)'
  BY DEF IInv, HandleIdsUnique, ProgramIdsUnique, NoDanglingProgram,
       RunsWhereCompiled, LibHandlesOwned, CellsOwned, Lock, tables, libdtrace
<1> QED BY <1>1, <1>2, <1>3, <1>4, <1>5, <1>6, <1>7 DEF IInv

LEMMA TakeNextKeeps == ASSUME IInv, NEW i \in Interps, TakeNext(i) PROVE IInv'
<1>1. TypeOK'
  <2>1. frame[i] \in Frame /\ next_free[frame[i].counter] \in Nat
    BY DEF IInv, TypeOK, Frame
  <2>2. frame' = [frame EXCEPT ![i] =
                   [frame[i] EXCEPT !.pc = "bump", !.id = next_free[frame[i].counter]]]
    BY DEF TakeNext
  <2>3. frame' \in [Interps -> Frame]
    BY <2>1, <2>2 DEF IInv, TypeOK, Frame, Steps
  <2> QED BY <2>3 DEF IInv, TypeOK, TakeNext, tables, libdtrace
<1>2. NoHalfOpenHandle'
  BY DEF IInv, TypeOK, NoHalfOpenHandle, TakeNext, tables, HandleEntry
<1>3. MutexHeld'
  BY DEF IInv, TypeOK, MutexHeld, TakeNext
<1>4. IdsBelowCounter'
  BY DEF IInv, TypeOK, IdsBelowCounter, TakeNext, tables
<1>5. TakenIdsFresh'
  BY DEF IInv, TypeOK, TakenIdsFresh, TakeNext, tables
<1>6. FramesMatchTables'
  BY DEF IInv, TypeOK, FramesMatchTables, TakeNext, FrameMatches, tables, Frame
<1>7. /\ (HandleIdsUnique /\ ProgramIdsUnique /\ NoDanglingProgram)'
      /\ (RunsWhereCompiled /\ LibHandlesOwned /\ CellsOwned)'
  BY DEF IInv, HandleIdsUnique, ProgramIdsUnique, NoDanglingProgram,
       RunsWhereCompiled, LibHandlesOwned, CellsOwned, TakeNext, tables,
       libdtrace
<1> QED BY <1>1, <1>2, <1>3, <1>4, <1>5, <1>6, <1>7 DEF IInv

LEMMA BumpNextKeeps == ASSUME IInv, NEW i \in Interps, BumpNext(i) PROVE IInv'
<1>1. TypeOK'
  BY DEF IInv, TypeOK, BumpNext, Goto, tables, libdtrace, Steps, Frame
<1>2. NoHalfOpenHandle'
  BY DEF IInv, NoHalfOpenHandle, BumpNext, Goto, tables
<1>3. MutexHeld'
  BY DEF IInv, TypeOK, MutexHeld, BumpNext, Goto
<1>4. IdsBelowCounter'
  BY DEF IInv, TypeOK, IdsBelowCounter, MutexHeld, BumpNext, Goto, tables,
       HandleEntry, ProgramEntry, Frame
<1>5. TakenIdsFresh'
  BY DEF IInv, TypeOK, TakenIdsFresh, IdsBelowCounter, BumpNext, Goto, tables,
       Frame
<1>6. FramesMatchTables'
  BY DEF IInv, FramesMatchTables, BumpNext, Goto, FrameMatches, tables
<1>7. /\ (HandleIdsUnique /\ ProgramIdsUnique /\ NoDanglingProgram)'
      /\ (RunsWhereCompiled /\ LibHandlesOwned /\ CellsOwned)'
  BY DEF IInv, HandleIdsUnique, ProgramIdsUnique, NoDanglingProgram,
       RunsWhereCompiled, LibHandlesOwned, CellsOwned, BumpNext, tables,
       libdtrace
<1> QED BY <1>1, <1>2, <1>3, <1>4, <1>5, <1>6, <1>7 DEF IInv

LEMMA NewHdKeeps == ASSUME IInv, NEW i \in Interps, NewHd(i) PROVE IInv'
<1>1. TypeOK'
  <2>1. PICK a \in Addr \ Registered :
          /\ handles' = handles \cup {[in |-> i, id |-> frame[i].id, hd |-> a]}
          /\ handle' = [handle EXCEPT ![a] = NULL]
          /\ frame' = [frame EXCEPT ![i].pc = "opening", ![i].hd = a]
    BY DEF NewHd
  <2>2. frame[i] \in Frame
    BY DEF IInv, TypeOK
  <2>3. handles' \subseteq HandleEntry /\ handle' \in [Addr -> Nat]
    BY <2>1, <2>2 DEF IInv, TypeOK, HandleEntry, Frame, NULL
  <2>4. frame' = [frame EXCEPT ![i] = [frame[i] EXCEPT !.pc = "opening", !.hd = a]]
    BY <2>1
  <2>5. frame' \in [Interps -> Frame]
    BY <2>2, <2>4 DEF IInv, TypeOK, Frame, Steps
  <2> QED BY <2>3, <2>5 DEF IInv, TypeOK, NewHd, libdtrace
<1>2. HandleIdsUnique'
  BY DEF IInv, HandleIdsUnique, TakenIdsFresh, NewHd, At
<1>3. NoDanglingProgram'
  BY DEF IInv, NoDanglingProgram, NewHd, Registered
<1>4. LibHandlesOwned'
  BY DEF IInv, TypeOK, LibHandlesOwned, NewHd, Registered, libdtrace
<1>5. NoHalfOpenHandle'
  BY DEF IInv, TypeOK, NoHalfOpenHandle, NewHd, Registered, HandleEntry
<1>6. MutexHeld'
  BY DEF IInv, TypeOK, MutexHeld, NewHd
<1>7. IdsBelowCounter'
  BY DEF IInv, TypeOK, IdsBelowCounter, NewHd, At
<1>8. TakenIdsFresh'
  BY DEF IInv, TypeOK, TakenIdsFresh, NewHd, At
<1>9. CellsOwned'
  BY DEF IInv, TypeOK, CellsOwned, NewHd, Registered
<1>10. FramesMatchTables'
  BY DEF IInv, TypeOK, FramesMatchTables, NewHd, At, Registered, FrameMatches
<1>11. /\ (ProgramIdsUnique /\ RunsWhereCompiled)'
  BY DEF IInv, ProgramIdsUnique, RunsWhereCompiled, NewHd, libdtrace
<1> QED BY <1>1, <1>2, <1>3, <1>4, <1>5, <1>6, <1>7, <1>8, <1>9, <1>10, <1>11
     DEF IInv

LEMMA OpenFailsKeeps == ASSUME IInv, NEW i \in Interps, OpenFails(i) PROVE IInv'
<1>1. TypeOK'
  BY DEF IInv, TypeOK, OpenFails, DelHd, Return, IdleFrame, libdtrace, Steps,
       Frame, Counters
<1>2. HandleIdsUnique'
  BY DEF IInv, HandleIdsUnique, OpenFails, DelHd
<1>3. ProgramIdsUnique'
  BY DEF IInv, ProgramIdsUnique, OpenFails, DelHd
<1>4. NoDanglingProgram'
  BY DEF IInv, NoDanglingProgram, OpenFails, DelHd
<1>5. LibHandlesOwned'
  <2> DEFINE e == [in |-> i, id |-> frame[i].id, hd |-> frame[i].hd]
  <2>1. /\ e \in handles /\ frame[i].hd \in Addr
        /\ frame[i].id \in Nat /\ frame[i].id > 0
        /\ e.in = i /\ e.id = frame[i].id /\ e.hd = frame[i].hd
        /\ \A f \in handles : f.id = frame[i].id => f = e
        /\ \A f \in handles : f.hd = frame[i].hd => f = e
    BY OpeningEntry DEF OpenFails
  <2> HIDE DEF e
  <2>2. handle[e.hd] = NULL
    BY <2>1 DEF IInv, FramesMatchTables, FrameMatches, OpenFails
  <2>3. handles' = handles \ {e}
    BY <2>1 DEF OpenFails, DelHd
  <2> QED BY <2>2, <2>3 DEF IInv, TypeOK, LibHandlesOwned, OpenFails, libdtrace
<1>6. NoHalfOpenHandle'
  BY DEF IInv, NoHalfOpenHandle, OpenFails, DelHd, Return
<1>7. MutexHeld'
  BY DEF IInv, MutexHeld, OpenFails, Return, IdleFrame
<1>8. IdsBelowCounter'
  BY DEF IInv, IdsBelowCounter, OpenFails, DelHd, Return, IdleFrame
<1>9. TakenIdsFresh'
  BY DEF IInv, TakenIdsFresh, OpenFails, DelHd, Return, IdleFrame
<1>10. CellsOwned'
  BY DEF IInv, CellsOwned, OpenFails, DelHd
<1>11. FramesMatchTables'
  BY DEF IInv, TypeOK, FramesMatchTables, OpenFails, DelHd, Return, IdleFrame,
       FrameMatches
<1>12. /\ (RunsWhereCompiled)'
  BY DEF IInv, RunsWhereCompiled, OpenFails, libdtrace
<1> QED BY <1>1, <1>2, <1>3, <1>4, <1>5, <1>6, <1>7, <1>8, <1>9, <1>10, <1>11,
     <1>12 DEF IInv

LEMMA LibOpenKeeps == ASSUME IInv, NEW i \in Interps, LibOpen(i) PROVE IInv'
<1> DEFINE e == [in |-> i, id |-> frame[i].id, hd |-> frame[i].hd]
<1>1. /\ e \in handles /\ frame[i].hd \in Addr
      /\ frame[i].id \in Nat /\ frame[i].id > 0
      /\ e.in = i /\ e.id = frame[i].id /\ e.hd = frame[i].hd
      /\ \A f \in handles : f.id = frame[i].id => f = e
      /\ \A f \in handles : f.hd = frame[i].hd => f = e
  BY OpeningEntry DEF LibOpen
<1> HIDE DEF e
<1>2. handle[e.hd] = NULL
  <2>1. frame[i].pc = "opening" /\ FrameMatches(i)
    BY DEF IInv, FramesMatchTables, LibOpen
  <2>2. handle[frame[i].hd] = NULL
    BY <2>1 DEF FrameMatches
  <2> QED BY <1>1, <2>2
<1>3. /\ handles' = handles /\ programs' = programs
      /\ lib_open' = lib_open \cup {e.id}
  BY <1>1 DEF LibOpen, tables
<1>4. handle'[e.hd] = e.id /\ \A f \in handles : f # e => handle'[f.hd] = handle[f.hd]
  BY <1>1 DEF IInv, TypeOK, LibOpen
<1>5. /\ frame'[i].pc = "configuring" /\ frame'[i].counter = frame[i].counter
      /\ frame'[i].id = frame[i].id /\ frame'[i].hd = frame[i].hd
      /\ \A j \in Interps : j # i => frame'[j] = frame[j]
  BY DEF IInv, TypeOK, LibOpen, Goto
<1>6. TypeOK'
  <2>1. handle' \in [Addr -> Nat]
    BY <1>1 DEF IInv, TypeOK, LibOpen
  <2>4. e.id \in Nat \ {NULL}
    BY <1>1 DEF NULL
  <2>5. lib_open' \subseteq Nat \ {NULL}
    BY <1>3, <2>4 DEF IInv, TypeOK
  <2>2. frame' = [frame EXCEPT ![i] = [frame[i] EXCEPT !.pc = "configuring"]]
    BY DEF LibOpen, Goto
  <2>3. frame' \in [Interps -> Frame]
    BY <2>2 DEF IInv, TypeOK, Frame, Steps
  <2> QED BY <2>1, <2>3, <2>5 DEF IInv, TypeOK, LibOpen, tables
<1>7. NoDanglingProgram'
  BY <1>1, <1>2, <1>3, <1>4 DEF IInv, NoDanglingProgram
<1>8. LibHandlesOwned'
  <2>1. \A f \in handles : f # e => handle'[f.hd] # e.id
    BY <1>1, <1>4 DEF IInv, CellsOwned, NULL
  <2>2. \A lib \in lib_open' : \E f \in handles : handle'[f.hd] = lib
    BY <1>1, <1>2, <1>3, <1>4 DEF IInv, TypeOK, LibHandlesOwned
  <2> QED BY <1>1, <1>3, <1>4, <2>1, <2>2 DEF IInv, LibHandlesOwned
<1>9. NoHalfOpenHandle'
  BY <1>1, <1>3, <1>4, <1>5 DEF IInv, TypeOK, HandleEntry, NoHalfOpenHandle,
       NULL
<1>10. CellsOwned'
  BY <1>1, <1>3, <1>4 DEF IInv, CellsOwned
<1>11. FramesMatchTables'
  <2> SUFFICES ASSUME NEW j \in Interps PROVE FrameMatches(j)'
    BY DEF FramesMatchTables
  <2>1. FrameMatches(j)
    BY DEF IInv, FramesMatchTables
  <2>2. CASE j = i
    BY <1>1, <1>3, <1>4, <1>5, <2>2 DEF FrameMatches, LibOpen, IInv,
         FramesMatchTables
  <2>3. CASE j # i
    BY <1>1, <1>2, <1>3, <1>4, <1>5, <2>1, <2>3 DEF FrameMatches
  <2> QED BY <2>2, <2>3
<1>12. RunsWhereCompiled' /\ HandleIdsUnique' /\ ProgramIdsUnique'
  BY <1>3 DEF IInv, RunsWhereCompiled, HandleIdsUnique, ProgramIdsUnique,
       LibOpen
<1>13. MutexHeld' /\ IdsBelowCounter' /\ TakenIdsFresh'
  BY <1>3, <1>5 DEF IInv, MutexHeld, IdsBelowCounter, TakenIdsFresh, LibOpen
<1> QED BY <1>6, <1>7, <1>8, <1>9, <1>10, <1>11, <1>12, <1>13 DEF IInv

LEMMA OpenThrowKeeps == ASSUME IInv, NEW i \in Interps, OpenThrow(i) PROVE IInv'
<1>1. TypeOK'
  BY DEF IInv, TypeOK, OpenThrow, LibClose, DelHd, Return, IdleFrame, Steps,
       Frame, Counters
<1>2. HandleIdsUnique'
  BY DEF IInv, HandleIdsUnique, OpenThrow, DelHd
<1>3. ProgramIdsUnique'
  BY DEF IInv, ProgramIdsUnique, OpenThrow, DelHd
<1>4. NoDanglingProgram'
  BY DEF IInv, NoDanglingProgram, OpenThrow, DelHd
<1>5. RunsWhereCompiled'
  BY DEF IInv, RunsWhereCompiled, OpenThrow, LibClose
<1>6. LibHandlesOwned'
  <2> DEFINE e == [in |-> i, id |-> frame[i].id, hd |-> frame[i].hd]
  <2>1. /\ e \in handles /\ frame[i].hd \in Addr
        /\ frame[i].id \in Nat /\ frame[i].id > 0
        /\ e.in = i /\ e.id = frame[i].id /\ e.hd = frame[i].hd
        /\ \A f \in handles : f.id = frame[i].id => f = e
        /\ \A f \in handles : f.hd = frame[i].hd => f = e
    BY OpeningEntry DEF OpenThrow
  <2> HIDE DEF e
  <2>2. handle[e.hd] = frame[i].id
    BY <2>1 DEF IInv, FramesMatchTables, FrameMatches, OpenThrow
  <2>3. handles' = handles \ {e} /\ lib_open' = lib_open \ {frame[i].id}
    BY <2>1, <2>2 DEF OpenThrow, DelHd, LibClose
  <2>4. \A f \in handles' : handle[f.hd] # frame[i].id
    BY <2>1, <2>2, <2>3 DEF IInv, LibHandlesOwned, NULL
  <2> QED BY <2>2, <2>3, <2>4 DEF IInv, LibHandlesOwned, OpenThrow
<1>7. NoHalfOpenHandle'
  BY DEF IInv, NoHalfOpenHandle, OpenThrow, DelHd, Return
<1>8. MutexHeld'
  BY DEF IInv, MutexHeld, OpenThrow, Return, IdleFrame
<1>9. IdsBelowCounter'
  BY DEF IInv, IdsBelowCounter, OpenThrow, DelHd, Return, IdleFrame
<1>10. TakenIdsFresh'
  BY DEF IInv, TakenIdsFresh, OpenThrow, DelHd, Return, IdleFrame
<1>11. CellsOwned'
  BY DEF IInv, CellsOwned, OpenThrow, DelHd
<1>12. FramesMatchTables'
  BY DEF IInv, TypeOK, FramesMatchTables, OpenThrow, DelHd, Return, IdleFrame,
       FrameMatches
<1> QED BY <1>1, <1>2, <1>3, <1>4, <1>5, <1>6, <1>7, <1>8, <1>9, <1>10, <1>11,
     <1>12 DEF IInv

LEMMA OpenDoneKeeps == ASSUME IInv, NEW i \in Interps, OpenDone(i) PROVE IInv'
<1>1. TypeOK'
  BY DEF IInv, TypeOK, OpenDone, Return, IdleFrame, tables, libdtrace, Steps,
       Frame, Counters
<1>2. NoHalfOpenHandle'
  BY DEF IInv, NoHalfOpenHandle, OpenDone, Return, tables
<1>3. MutexHeld'
  BY DEF IInv, MutexHeld, OpenDone, Return, IdleFrame
<1>4. IdsBelowCounter'
  BY DEF IInv, IdsBelowCounter, OpenDone, Return, IdleFrame, tables
<1>5. TakenIdsFresh'
  BY DEF IInv, TakenIdsFresh, OpenDone, Return, IdleFrame, tables
<1>6. FramesMatchTables'
  BY DEF IInv, FramesMatchTables, OpenDone, Return, IdleFrame, FrameMatches,
       tables
<1>7. /\ (HandleIdsUnique /\ ProgramIdsUnique /\ NoDanglingProgram)'
      /\ (RunsWhereCompiled /\ LibHandlesOwned /\ CellsOwned)'
  BY DEF IInv, HandleIdsUnique, ProgramIdsUnique, NoDanglingProgram,
       RunsWhereCompiled, LibHandlesOwned, CellsOwned, OpenDone, tables,
       libdtrace
<1> QED BY <1>1, <1>2, <1>3, <1>4, <1>5, <1>6, <1>7 DEF IInv

LEMMA RegisterPdKeeps == ASSUME IInv, NEW i \in Interps, RegisterPd(i) PROVE IInv'
<1>1. TypeOK'
  <2>1. frame[i] \in Frame /\ frame[i].hd \in Addr
    BY DEF IInv, TypeOK, FramesMatchTables, FrameMatches, RegisterPd, At,
         HandleEntry
  <2>2. programs' \subseteq ProgramEntry
    BY <2>1 DEF IInv, TypeOK, RegisterPd, ProgramEntry, Frame
  <2>3. IdleFrame \in Frame
    BY DEF IdleFrame, Frame, Steps, Counters
  <2>4. frame' \in [Interps -> Frame]
    BY <2>3 DEF IInv, TypeOK, RegisterPd, Return
  <2> QED BY <2>2, <2>4 DEF IInv, TypeOK, RegisterPd, libdtrace
<1>2. ProgramIdsUnique'
  BY DEF IInv, ProgramIdsUnique, TakenIdsFresh, RegisterPd, At
<1>3. NoDanglingProgram'
  <2>1. PICK e \in handles : /\ e.in = i /\ e.hd = frame[i].hd
                            /\ handle[e.hd] = frame[i].compiled
                            /\ handle[e.hd] # NULL
    BY DEF IInv, FramesMatchTables, FrameMatches, RegisterPd, At
  <2> QED BY <2>1 DEF IInv, NoDanglingProgram, RegisterPd
<1>4. NoHalfOpenHandle'
  BY DEF IInv, NoHalfOpenHandle, RegisterPd, Return, At
<1>5. MutexHeld'
  BY DEF IInv, MutexHeld, RegisterPd, Return, IdleFrame
<1>6. IdsBelowCounter'
  BY DEF IInv, IdsBelowCounter, RegisterPd, Return, IdleFrame, At
<1>7. TakenIdsFresh'
  BY DEF IInv, TypeOK, TakenIdsFresh, RegisterPd, Return, IdleFrame, At
<1>8. FramesMatchTables'
  BY DEF IInv, FramesMatchTables, RegisterPd, Return, IdleFrame, FrameMatches
<1>9. /\ (HandleIdsUnique /\ RunsWhereCompiled /\ LibHandlesOwned)'
      /\ (CellsOwned)'
  BY DEF IInv, HandleIdsUnique, RunsWhereCompiled, LibHandlesOwned, CellsOwned,
       RegisterPd, libdtrace
<1> QED BY <1>1, <1>2, <1>3, <1>4, <1>5, <1>6, <1>7, <1>8, <1>9 DEF IInv

-----------------------------------------------------------------------------
LEMMA InitEstablishes == Init => IInv
BY DEF Init, IInv, TypeOK, HandleIdsUnique, ProgramIdsUnique, NoDanglingProgram,
     RunsWhereCompiled, LibHandlesOwned, NoHalfOpenHandle, MutexHeld,
     IdsBelowCounter, TakenIdsFresh, CellsOwned, FramesMatchTables,
     FrameMatches, IdleFrame, Frame, Steps, Counters, NULL

\* Whatever the threads do, and in whatever order, the tables, the counters,
\* the heap cells and the open library handles stay consistent.
THEOREM Inductive == Spec => []IInv
<1>1. IInv /\ [Next]_vars => IInv'
  <2> SUFFICES ASSUME IInv, [Next]_vars PROVE IInv'
    OBVIOUS
  <2>1. CASE UNCHANGED vars
    <3> USE <2>1 DEF vars, tables, libdtrace, IInv
    <3>1. TypeOK'
      BY DEF TypeOK
    <3>2. /\ (HandleIdsUnique /\ ProgramIdsUnique /\ NoDanglingProgram)'
          /\ (RunsWhereCompiled /\ LibHandlesOwned /\ NoHalfOpenHandle)'
      BY DEF HandleIdsUnique, ProgramIdsUnique, NoDanglingProgram,
           RunsWhereCompiled, LibHandlesOwned, NoHalfOpenHandle
    <3>3. /\ (MutexHeld /\ IdsBelowCounter /\ TakenIdsFresh)'
          /\ (CellsOwned /\ FramesMatchTables)'
      BY DEF MutexHeld, IdsBelowCounter, TakenIdsFresh, CellsOwned,
           FramesMatchTables, FrameMatches
    <3> QED BY <3>1, <3>2, <3>3
  <2>2. ASSUME NEW i \in Interps, Proceed(i) PROVE IInv'
    BY <2>2, LockKeeps, TakeNextKeeps, BumpNextKeeps, NewHdKeeps,
         OpenFailsKeeps, LibOpenKeeps, OpenThrowKeeps, OpenDoneKeeps,
         RegisterPdKeeps DEF Proceed
  <2>3. ASSUME NEW i \in Interps,
               \/ Load(i) \/ Destroy(i) \/ OpenBegin(i)
               \/ Close(i) \/ CompileBegin(i) \/ Exec(i)
        PROVE  IInv'
    BY <2>3, LoadKeeps, DestroyKeeps, OpenBeginKeeps, CloseKeeps,
         CompileBeginKeeps, ExecKeeps
  <2> QED BY <2>1, <2>2, <2>3 DEF Next
<1> QED BY InitEstablishes, <1>1, PTL DEF Spec

\* The values of all variables stay in their types: in particular no
\* libdtrace handle that is open is NULL, and both counters stay numbers.
THEOREM TypeCorrect == Spec => []TypeOK
<1>1. IInv => TypeOK
  BY DEF IInv
<1> QED BY <1>1, Inductive, PTL

\* The comment on next_free_id, "a unique identifier for each handle": the
\* duplicate-entry panics of Open and Compile are out of reach.
THEOREM UniqueIds == Spec => []IdsUnique
<1>1. IInv => IdsUnique
  BY DEF IInv, IdsUnique
<1> QED BY <1>1, Inductive, PTL

\* A program never outlives the handle_data it points to.
THEOREM ProgramsPointToLiveHandles == Spec => []NoDanglingProgram
<1>1. IInv => NoDanglingProgram
  BY DEF IInv
<1> QED BY <1>1, Inductive, PTL

\* exec enables a program only in the library handle that compiled it.
THEOREM ProgramsRunWhereCompiled == Spec => []RunsWhereCompiled
<1>1. IInv => RunsWhereCompiled
  BY DEF IInv
<1> QED BY <1>1, Inductive, PTL

\* No path through open, close or the deletion of an interpreter leaks a
\* libdtrace handle or makes it reachable twice, and an open that libdtrace or an
\* option refuses leaves no entry behind.
THEOREM NoLibHandleLeaks == Spec => []HandlesAreWhole
<1>1. IInv => HandlesAreWhole
  BY DEF IInv, HandlesAreWhole
<1> QED BY <1>1, Inductive, PTL

-----------------------------------------------------------------------------
(* DtraceRegistry implements HandleService: every step of a command is a   *)
(* step of the service, or none.                                           *)


\* The entry of an open under way is told by its id as by its cell.
LEMMA OpeningOwner ==
  ASSUME IInv, NEW i \in Interps, frame[i].pc \in {"opening", "configuring"}
  PROVE  /\ \A f \in handles : f.id = frame[i].id <=> f.hd = frame[i].hd
         /\ \A f \in handles : f.id = frame[i].id => f.in = i
         /\ \E f \in handles : f.id = frame[i].id
<1> DEFINE e == [in |-> i, id |-> frame[i].id, hd |-> frame[i].hd]
<1> HIDE DEF e
<1>1. /\ e \in handles /\ e.in = i /\ e.id = frame[i].id /\ e.hd = frame[i].hd
      /\ \A f \in handles : f.id = frame[i].id => f = e
      /\ \A f \in handles : f.hd = frame[i].hd => f = e
  BY OpeningEntry DEF e
<1> QED BY <1>1

\* What the steps of taking an id do to the frames.
LEMMA TakeFrames ==
  ASSUME TypeOK, NEW i \in Interps, Lock(i) \/ TakeNext(i) \/ BumpNext(i)
  PROVE  /\ frame[i].pc \in {"lock", "take", "bump"}
         /\ frame'[i].pc \in {"take", "bump", "use"}
         /\ \A j \in Interps : j # i => frame'[j] = frame[j]
<1>1. CASE Lock(i)
  BY <1>1 DEF Lock, Goto, TypeOK
<1>2. CASE TakeNext(i)
  <2>1. frame' = [frame EXCEPT ![i] =
                   [frame[i] EXCEPT !.pc = "bump", !.id = next_free[frame[i].counter]]]
    BY <1>2 DEF TakeNext
  <2>2. frame[i].pc = "take" /\ frame[i] \in Frame
    BY <1>2 DEF TakeNext, TypeOK
  <2> QED BY <2>1, <2>2 DEF TypeOK, Frame
<1>3. CASE BumpNext(i)
  BY <1>3 DEF BumpNext, Goto, TypeOK
<1> QED BY <1>1, <1>2, <1>3

\* What the steps of open that go on do to the frames.
LEMMA OpenFrames ==
  ASSUME TypeOK, NEW i \in Interps, NewHd(i) \/ LibOpen(i)
  PROVE  /\ frame[i].pc \in {"use", "opening"}
         /\ frame'[i].pc \in {"opening", "configuring"}
         /\ frame'[i].counter = frame[i].counter /\ frame'[i].id = frame[i].id
         /\ \A j \in Interps : j # i => frame'[j] = frame[j]
<1>1. CASE NewHd(i)
  <2>1. PICK a \in Addr \ Registered :
          frame' = [frame EXCEPT ![i] = [frame[i] EXCEPT !.pc = "opening", !.hd = a]]
    BY <1>1 DEF NewHd
  <2>2. frame[i].pc = "use" /\ frame[i] \in Frame
    BY <1>1 DEF NewHd, At, TypeOK
  <2> QED BY <2>1, <2>2 DEF TypeOK, Frame
<1>2. CASE LibOpen(i)
  BY <1>2 DEF LibOpen, Goto, TypeOK
<1> QED BY <1>1, <1>2

-----------------------------------------------------------------------------
(* A handle whose open is under way is not used yet.                       *)

\* No step lets a program use a handle whose open is under way.
LEMMA NotYetUsedKept == ASSUME IInv, NotYetUsed, [Next]_vars PROVE NotYetUsed'
<1> SUFFICES ASSUME NEW i \in Interps, frame'[i].pc \in {"opening", "configuring"}
             PROVE  /\ \A p \in programs' : p.hd # frame'[i].hd
                    /\ \A x \in enabled' : x.lib # frame'[i].id
  BY DEF NotYetUsed
<1> DEFINE Goal == /\ \A p \in programs' : p.hd # frame'[i].hd
                   /\ \A x \in enabled' : x.lib # frame'[i].id
<1> USE DEF IInv
<1>1. CASE /\ frame[i].pc \in {"opening", "configuring"}
           /\ frame'[i].hd = frame[i].hd /\ frame'[i].id = frame[i].id
           /\ programs' \subseteq programs /\ enabled' \subseteq enabled
  BY <1>1 DEF NotYetUsed
<1>2. CASE UNCHANGED vars
  BY <1>1, <1>2 DEF vars, tables, libdtrace
<1>3. ASSUME NEW j \in Interps, NewHd(j) PROVE Goal
  <2>1. CASE j # i
    <3>1. frame'[i] = frame[i]
      BY <1>3, <2>1 DEF NewHd, TypeOK
    <3> QED BY <1>1, <1>3, <3>1 DEF NewHd, libdtrace
  <2>2. CASE j = i
    <3>1. PICK a \in Addr \ Registered :
            frame' = [frame EXCEPT ![i].pc = "opening", ![i].hd = a]
      BY <1>3, <2>2 DEF NewHd
    <3>2. frame'[i].hd = a /\ frame'[i].id = frame[i].id
      BY <3>1 DEF TypeOK
    <3>3. \A p \in programs : p.hd # a
      BY <3>1 DEF NoDanglingProgram, Registered
    <3>4. \A e \in handles : e.id # frame[i].id
      BY <1>3, <2>2 DEF NewHd, At, TakenIdsFresh
    <3>5. \A x \in enabled : x.lib # frame[i].id
      <4> SUFFICES ASSUME NEW x \in enabled PROVE x.lib # frame[i].id
        OBVIOUS
      <4>1. x.lib # NULL
        BY DEF RunsWhereCompiled, TypeOK
      <4>2. PICK e \in handles : handle[e.hd] = x.lib
        BY DEF RunsWhereCompiled, LibHandlesOwned
      <4> QED BY <3>4, <4>1, <4>2 DEF CellsOwned
    <3> QED BY <1>3, <3>2, <3>3, <3>5 DEF NewHd, libdtrace
  <2> QED BY <2>1, <2>2
<1>4. ASSUME NEW j \in Interps, RegisterPd(j) PROVE Goal
  <2>1. j # i /\ frame'[i] = frame[i]
    BY <1>4 DEF RegisterPd, Return, IdleFrame, TypeOK
  <2>2. frame[j].hd # frame[i].hd
    <3>1. PICK e \in handles : e.in = j /\ e.hd = frame[j].hd
      BY <1>4 DEF RegisterPd, At, FramesMatchTables, FrameMatches
    <3>2. frame[i].pc \in {"opening", "configuring"}
      BY <2>1
    <3>3. \A f \in handles : f.hd = frame[i].hd => f.in = i
      BY <3>2, OpeningOwner
    <3> QED BY <2>1, <3>1, <3>3
  <2> QED BY <1>4, <2>1, <2>2 DEF RegisterPd, libdtrace, NotYetUsed
<1>5. ASSUME NEW j \in Interps, Exec(j) PROVE Goal
  <2>1. frame'[i] = frame[i] /\ programs' = programs
    BY <1>5 DEF Exec, tables
  <2>2. PICK p \in Runnable(j) :
          enabled' = enabled \cup {[lib |-> handle[p.hd], compiled |-> p.compiled]}
    BY <1>5 DEF Exec
  <2>3. handle[p.hd] # frame[i].id
    <3>1. p \in programs
      BY DEF Runnable
    <3>2. PICK e \in handles : e.hd = p.hd /\ handle[p.hd] # NULL
      BY <2>2, <3>1 DEF NoDanglingProgram
    <3>3. handle[p.hd] = e.id
      BY <3>2 DEF CellsOwned
    <3>4. p.hd # frame[i].hd
      BY <2>1, <3>1 DEF NotYetUsed
    <3>5. \A f \in handles : f.id = frame[i].id => f.hd = frame[i].hd
      BY <2>1, OpeningOwner
    <3> QED BY <3>2, <3>3, <3>4, <3>5
  <2> QED BY <2>1, <2>2, <2>3 DEF NotYetUsed
<1>6. ASSUME NEW j \in Interps, Load(j) \/ Destroy(j) \/ Close(j) PROVE Goal
  BY <1>1, <1>6 DEF Load, Destroy, Close, DelHd, LibClose, tables, libdtrace
<1>7. ASSUME NEW j \in Interps, OpenBegin(j) \/ CompileBegin(j) PROVE Goal
  <2>1. frame'[i] = frame[i]
    BY <1>7 DEF OpenBegin, CompileBegin, IdleFrame, TypeOK
  <2>2. programs' = programs /\ enabled' = enabled
    BY <1>7 DEF OpenBegin, CompileBegin, tables, libdtrace
  <2> QED BY <1>1, <2>1, <2>2
<1>8. ASSUME NEW j \in Interps, Lock(j) \/ TakeNext(j) \/ BumpNext(j) PROVE Goal
  <2>1. frame'[i] = frame[i]
    BY <1>8, TakeFrames
  <2> QED BY <1>1, <1>8, <2>1 DEF Lock, TakeNext, BumpNext, tables, libdtrace
<1>9. ASSUME NEW j \in Interps, OpenFails(j) \/ OpenThrow(j) \/ OpenDone(j) PROVE Goal
  <2>1. frame'[i] = frame[i]
    BY <1>9 DEF OpenFails, OpenThrow, OpenDone, Return, IdleFrame, TypeOK
  <2> QED BY <1>1, <1>9, <2>1 DEF OpenFails, OpenThrow, OpenDone, DelHd, LibClose,
       tables, libdtrace
<1>10. ASSUME NEW j \in Interps, LibOpen(j) PROVE Goal
  <2>1. frame'[i].hd = frame[i].hd /\ frame'[i].id = frame[i].id
    BY <1>10 DEF LibOpen, Goto, TypeOK
  <2>2. frame[i].pc \in {"opening", "configuring"}
    BY <1>10 DEF LibOpen, Goto, TypeOK
  <2> QED BY <1>1, <1>10, <2>1, <2>2 DEF LibOpen, tables
<1> QED BY <1>2, <1>3, <1>4, <1>5, <1>6, <1>7, <1>8, <1>9, <1>10 DEF Next, Proceed

-----------------------------------------------------------------------------
(* The ids that are used up, as the service sees them.                     *)

\* The steps inside a command change nothing in the ids used up: what a thread
\* has taken is not used before it is done.
LEMMA UsedInside ==
  ASSUME IInv, NEW i \in Interps, NEW c \in Counters,
         Lock(i) \/ TakeNext(i) \/ BumpNext(i)
  PROVE  Used(c)' = Used(c)
<1> USE DEF IInv
<1>1. CASE Lock(i)
  <2>1. InFlight(c)' = InFlight(c)
    BY <1>1 DEF Lock, Goto, TypeOK, InFlight
  <2> QED BY <1>1, <2>1 DEF Lock, Used
<1>2. CASE TakeNext(i)
  <2>1. InFlight(c)' = InFlight(c) \cup
          (IF frame[i].counter = c THEN {next_free[c]} ELSE {})
    BY <1>2 DEF TakeNext, TypeOK, InFlight
  <2>2. next_free[c] \in Nat
    BY DEF TypeOK
  <2> QED BY <1>2, <2>1, <2>2 DEF TakeNext, Used
<1>3. CASE BumpNext(i)
  <2>1. InFlight(c)' = InFlight(c)
    BY <1>3 DEF BumpNext, Goto, TypeOK, InFlight
  <2>2. CASE frame[i].counter # c
    BY <1>3, <2>1, <2>2 DEF BumpNext, Used, TypeOK
  <2>3. CASE frame[i].counter = c
    <3>1. next_free[c] \in Nat /\ next_free[c] > 0 /\ next_free'[c] = next_free[c] + 1
      BY <1>3, <2>3 DEF BumpNext, TypeOK, IdsBelowCounter
    <3>2. next_free[c] \in InFlight(c)
      BY <1>3, <2>3 DEF BumpNext, InFlight, IdsBelowCounter
    <3> QED BY <2>1, <3>1, <3>2 DEF Used
  <2> QED BY <2>2, <2>3
<1> QED BY <1>1, <1>2, <1>3

\* A command that returns has spent its id, and nobody else has that id.
LEMMA UsedSpent ==
  ASSUME IInv, NEW i \in Interps, NEW c \in Counters,
         frame[i].pc \in {"use", "opening", "configuring"}, frame[i].counter = c,
         frame' = [frame EXCEPT ![i] = IdleFrame], next_free' = next_free
  PROVE  /\ frame[i].id \in Used(c)' /\ frame[i].id \notin Used(c)
         /\ Used(c)' = Used(c) \cup {frame[i].id}
         /\ \A d \in Counters \ {c} : Used(d)' = Used(d)
<1> USE DEF IInv
<1>1. frame[i].id \in InFlight(c)
  BY DEF InFlight
<1>2. frame[i].id \in 1..(next_free[c] - 1)
  <2>1. next_free[c] \in Nat /\ frame[i].id \in Nat
    BY DEF TypeOK, Frame
  <2>2. frame[i].id > 0 /\ frame[i].id < next_free[c]
    BY DEF IdsBelowCounter, FramesMatchTables, FrameMatches
  <2> QED BY <2>1, <2>2
<1>3. ASSUME NEW j \in Interps, j # i, frame[j].counter = c,
             frame[j].pc \in {"bump", "use", "opening", "configuring"}
      PROVE  frame[j].id # frame[i].id
  <2>1. CASE frame[j].pc = "bump"
    BY <1>2, <1>3, <2>1 DEF IdsBelowCounter, TypeOK
  <2>2. CASE frame[j].pc = "use" /\ frame[i].pc = "use"
    BY <1>3, <2>2 DEF TakenIdsFresh
  <2>3. CASE frame[j].pc = "use" /\ frame[i].pc \in {"opening", "configuring"}
    <3>1. c = "id" /\ \E f \in handles : f.id = frame[i].id
      BY <2>3, OpeningOwner DEF FramesMatchTables, FrameMatches
    <3> QED BY <1>3, <2>3, <3>1 DEF TakenIdsFresh
  <2>4. CASE frame[j].pc \in {"opening", "configuring"} /\ frame[i].pc = "use"
    <3>1. c = "id" /\ \E f \in handles : f.id = frame[j].id
      BY <1>3, <2>4, OpeningOwner DEF FramesMatchTables, FrameMatches
    <3> QED BY <2>4, <3>1 DEF TakenIdsFresh
  <2>5. CASE /\ frame[j].pc \in {"opening", "configuring"}
             /\ frame[i].pc \in {"opening", "configuring"}
    BY <1>3, <2>5, OpeningOwner
  <2> QED BY <1>3, <2>1, <2>2, <2>3, <2>4, <2>5
<1>4. InFlight(c)' = InFlight(c) \ {frame[i].id}
  <2>1. ~ (frame'[i].pc \in {"bump", "use", "opening", "configuring"})
    BY DEF TypeOK, IdleFrame
  <2>2. \A j \in Interps : j # i => frame'[j] = frame[j]
    BY DEF TypeOK
  <2> QED BY <1>3, <2>1, <2>2 DEF InFlight
<1>5. ASSUME NEW d \in Counters \ {c} PROVE InFlight(d)' = InFlight(d)
  <2>1. ~ (frame'[i].pc \in {"bump", "use", "opening", "configuring"})
    BY DEF TypeOK, IdleFrame
  <2>2. \A j \in Interps : j # i => frame'[j] = frame[j]
    BY DEF TypeOK
  <2> QED BY <2>1, <2>2 DEF InFlight
<1> QED BY <1>1, <1>2, <1>4, <1>5 DEF Used

\* A step that leaves all frames and counters alone, or that enters a command,
\* takes no id.
LEMMA UsedOutside ==
  ASSUME IInv, NEW i \in Interps, NEW c \in Counters, next_free' = next_free,
         \/ frame' = frame
         \/ OpenBegin(i) \/ CompileBegin(i) \/ NewHd(i) \/ LibOpen(i)
  PROVE  Used(c)' = Used(c)
<1> USE DEF IInv
<1>1. CASE frame' = frame
  BY <1>1 DEF InFlight, Used
<1>2. CASE OpenBegin(i) \/ CompileBegin(i)
  <2>1. /\ frame[i].pc = "idle" /\ frame'[i].pc = "lock"
        /\ \A j \in Interps : j # i => frame'[j] = frame[j]
    BY <1>2 DEF OpenBegin, CompileBegin, Idle, IdleFrame, TypeOK
  <2>2. InFlight(c)' = InFlight(c)
    BY <2>1 DEF InFlight
  <2> QED BY <2>2 DEF Used
<1>3. CASE NewHd(i) \/ LibOpen(i)
  <2>1. /\ frame[i].pc \in {"use", "opening"}
        /\ frame'[i].pc \in {"opening", "configuring"}
        /\ frame'[i].counter = frame[i].counter /\ frame'[i].id = frame[i].id
        /\ \A j \in Interps : j # i => frame'[j] = frame[j]
    BY <1>3, OpenFrames
  <2>2. InFlight(c)' = InFlight(c)
    BY <2>1 DEF InFlight
  <2> QED BY <2>2 DEF Used
<1> QED BY <1>1, <1>2, <1>3

-----------------------------------------------------------------------------
(* Steps the service does not see.                                         *)

\* Nothing but the tables, what is enabled and the opens under way is seen.
LEMMA NothingSeen ==
  ASSUME IInv, handles' = handles, programs' = programs, enabled' = enabled,
         \A j \in Interps : frame'[j].pc \in {"opening", "configuring"}
                              <=> frame[j].pc \in {"opening", "configuring"},
         \A j \in Interps : frame[j].pc \in {"opening", "configuring"}
                              => frame'[j].id = frame[j].id
  PROVE  Live' = Live /\ Progs' = Progs /\ Running' = Running
<1>1. \A e \in handles : e.in \in Interps
  BY DEF IInv, TypeOK, HandleEntry
<1>2. Returned' = Returned
  BY <1>1 DEF Returned
<1> QED BY <1>2 DEF Live, Progs, Running

\* Loading the package, and entering a command, is not seen.
LEMMA BeginStutters ==
  ASSUME IInv, NEW i \in Interps, Load(i) \/ OpenBegin(i) \/ CompileBegin(i)
  PROVE  UNCHANGED Service!avars
<1>1. /\ handles' = handles /\ programs' = programs /\ enabled' = enabled
      /\ next_free' = next_free
  BY DEF Load, OpenBegin, CompileBegin, tables, libdtrace
<1>2. /\ frame' = frame \/ (frame[i].pc = "idle" /\ frame'[i].pc = "lock")
      /\ \A j \in Interps : j # i => frame'[j] = frame[j]
  BY DEF Load, OpenBegin, CompileBegin, Idle, IdleFrame, IInv, TypeOK
<1>3. Live' = Live /\ Progs' = Progs /\ Running' = Running
  BY <1>1, <1>2, NothingSeen
<1>4. \A c \in Counters : Used(c)' = Used(c)
  BY <1>1, UsedOutside DEF Load
<1> QED BY <1>3, <1>4 DEF Service!avars, Counters

\* Taking an id is not seen before the command returns.
LEMMA TakeStutters ==
  ASSUME IInv, NEW i \in Interps, Lock(i) \/ TakeNext(i) \/ BumpNext(i)
  PROVE  UNCHANGED Service!avars
<1>1. handles' = handles /\ programs' = programs /\ enabled' = enabled
  BY DEF Lock, TakeNext, BumpNext, tables, libdtrace
<1>2. /\ frame[i].pc \in {"lock", "take", "bump"}
      /\ frame'[i].pc \in {"take", "bump", "use"}
      /\ \A j \in Interps : j # i => frame'[j] = frame[j]
  BY TakeFrames DEF IInv
<1>3. Live' = Live /\ Progs' = Progs /\ Running' = Running
  BY <1>1, <1>2, NothingSeen
<1>4. \A c \in Counters : Used(c)' = Used(c)
  BY UsedInside
<1> QED BY <1>3, <1>4 DEF Service!avars, Counters

\* The entry of new_hd is not live yet.
LEMMA NewHdStutters ==
  ASSUME IInv, NEW i \in Interps, NewHd(i) PROVE UNCHANGED Service!avars
<1>1. PICK a \in Addr \ Registered :
        /\ handles' = handles \cup {[in |-> i, id |-> frame[i].id, hd |-> a]}
        /\ frame' = [frame EXCEPT ![i].pc = "opening", ![i].hd = a]
  BY DEF NewHd
<1>2. /\ frame[i].pc = "use" /\ frame[i].counter = "id"
      /\ frame'[i].pc = "opening" /\ frame'[i].id = frame[i].id
      /\ \A j \in Interps : j # i => frame'[j] = frame[j]
      /\ programs' = programs /\ enabled' = enabled /\ next_free' = next_free
  BY <1>1 DEF NewHd, At, libdtrace, IInv, TypeOK
<1>3. \A e \in handles : e.in \in Interps /\ e.id # frame[i].id
  BY <1>2 DEF IInv, TypeOK, HandleEntry, TakenIdsFresh
<1>4. Returned' = Returned
  <2> DEFINE new == [in |-> i, id |-> frame[i].id, hd |-> a]
             Half(e) == /\ frame[e.in].pc \in {"opening", "configuring"}
                        /\ frame[e.in].id = e.id
  <2>1. frame'[new.in].pc = "opening" /\ frame'[new.in].id = new.id
    BY <1>2
  <2>2. ASSUME NEW e \in handles
        PROVE  Half(e) <=> /\ frame'[e.in].pc \in {"opening", "configuring"}
                           /\ frame'[e.in].id = e.id
    <3>1. CASE e.in = i
      BY <1>2, <1>3, <3>1
    <3>2. CASE e.in # i
      BY <1>2, <1>3, <3>2
    <3> QED BY <3>1, <3>2
  <2>3. handles' = handles \cup {new}
    BY <1>1
  <2> HIDE DEF new
  <2> QED BY <2>1, <2>2, <2>3 DEF Returned
<1>5. Live' = Live /\ Progs' = Progs /\ Running' = Running
  BY <1>2, <1>4 DEF Live, Progs, Running
<1>6. \A c \in Counters : Used(c)' = Used(c)
  BY <1>2, UsedOutside
<1> QED BY <1>5, <1>6 DEF Service!avars, Counters

\* Nor is it once libdtrace has opened it: its options are not set yet.
LEMMA LibOpenStutters ==
  ASSUME IInv, NEW i \in Interps, LibOpen(i) PROVE UNCHANGED Service!avars
<1>1. /\ handles' = handles /\ programs' = programs /\ enabled' = enabled
      /\ next_free' = next_free
  BY DEF LibOpen, tables
<1>2. /\ frame[i].pc = "opening" /\ frame'[i].pc = "configuring"
      /\ frame'[i].id = frame[i].id
      /\ \A j \in Interps : j # i => frame'[j] = frame[j]
  BY DEF LibOpen, Goto, IInv, TypeOK
<1>3. Live' = Live /\ Progs' = Progs /\ Running' = Running
  BY <1>1, <1>2, NothingSeen
<1>4. \A c \in Counters : Used(c)' = Used(c)
  BY <1>1, UsedOutside
<1> QED BY <1>3, <1>4 DEF Service!avars, Counters

-----------------------------------------------------------------------------
(* Steps of the service.                                                   *)

\* Dtrace_DeInit is the end of the interpreter, for the service as well.
LEMMA DestroyIsQuit ==
  ASSUME IInv, NEW i \in Interps, Destroy(i) PROVE Service!AQuit(i)
<1>1. /\ frame[i].pc = "idle" /\ frame' = frame /\ next_free' = next_free
      /\ handles' = {e \in handles : e.in # i}
      /\ programs' = {p \in programs : p.in # i}
  BY DEF Destroy, Idle
<1>2. Returned' = {e \in Returned : e.in # i}
  BY <1>1 DEF Returned
<1>3. Live' = {h \in Live : h.in # i} /\ Progs' = {p \in Progs : p.in # i}
  BY <1>1, <1>2 DEF Live, Progs
<1>4. Running' = Running \ {h.id : h \in Live \ Live'}
  <2> DEFINE own == {e \in handles : e.in = i}
             gone == {handle[e.hd] : e \in own}
  <2>1. \A e \in own : e \in Returned /\ handle[e.hd] = e.id
    BY <1>1 DEF Returned, IInv, NoHalfOpenHandle, CellsOwned
  <2>2. {h.id : h \in Live \ Live'} = {e.id : e \in own}
    <3>1. Live \ Live' = {h \in Live : h.in = i}
      BY <1>3
    <3>2. {h \in Live : h.in = i} = {[in |-> e.in, id |-> e.id] : e \in own}
      BY <2>1 DEF Live, Returned
    <3> DEFINE H(e) == [in |-> e.in, id |-> e.id]
    <3>3. \A e \in own : H(e).id = e.id
      OBVIOUS
    <3> HIDE DEF H
    <3>4. {h.id : h \in {H(e) : e \in own}} = {e.id : e \in own}
      BY <3>3
    <3> QED BY <3>1, <3>2, <3>4, Zenon DEF H
  <2>3. {e.id : e \in own} = gone
    BY <2>1
  <2>4. enabled' = {x \in enabled : x.lib \notin gone}
    BY DEF Destroy, LibClose
  <2> HIDE DEF gone, own
  <2> QED BY <2>2, <2>3, <2>4 DEF Running
<1>5. \A c \in Counters : Used(c)' = Used(c)
  BY <1>1, UsedOutside
<1> QED BY <1>3, <1>4, <1>5 DEF Service!AQuit, Counters

\* Close takes its handle, what was enabled in it, and all programs of its
\* interpreter.
LEMMA CloseIsClose ==
  ASSUME IInv, NEW i \in Interps, Close(i) PROVE Service!AClose(i)
<1>1. PICK e \in Usable(i) : LibClose({handle[e.hd]}) /\ DelHd(i, e.id)
  BY DEF Close
<1>2. /\ e \in handles /\ e.in = i /\ handle[e.hd] = e.id
      /\ \A f \in handles : f.id = e.id => f = e
  BY DEF Usable, IInv, CellsOwned, HandleIdsUnique
<1>3. /\ frame[i].pc = "idle" /\ frame' = frame /\ next_free' = next_free
      /\ handles' = handles \ {e} /\ programs' = {p \in programs : p.in # i}
      /\ enabled' = {x \in enabled : x.lib # e.id}
  BY <1>1, <1>2 DEF Close, Idle, DelHd, LibClose
<1> DEFINE h == [in |-> e.in, id |-> e.id]
<1>4. e \in Returned /\ Returned' = Returned \ {e}
  BY <1>2, <1>3 DEF Returned
<1>5. h \in Live /\ h.in = i /\ h.id = e.id
  BY <1>2, <1>4 DEF Live
<1>6. Live' = Live \ {h}
  <2>1. \A f \in Returned : f # e => f.id # e.id
    BY <1>2 DEF Returned
  <2> QED BY <1>4, <2>1 DEF Live
<1>7. Running' = Running \ {h.id}
  BY <1>3 DEF Running
<1>8. Progs' = {p \in Progs : p.in # i}
  BY <1>3 DEF Progs
<1>9. \A c \in Counters : Used(c)' = Used(c)
  BY <1>3, UsedOutside
<1> HIDE DEF h
<1> QED BY <1>5, <1>6, <1>7, <1>8, <1>9 DEF Service!AClose, Service!Forget, Counters

\* A program runs in the handle it was compiled in.
LEMMA ExecIsExec ==
  ASSUME IInv, NEW i \in Interps, Exec(i) PROVE Service!AExec(i)
<1>1. PICK p \in Runnable(i) :
        enabled' = enabled \cup {[lib |-> handle[p.hd], compiled |-> p.compiled]}
  BY DEF Exec
<1>2. p \in programs /\ p.in = i /\ handle[p.hd] = p.compiled
  BY DEF Runnable, IInv, NoDanglingProgram
<1>3. handles' = handles /\ programs' = programs /\ frame' = frame /\ next_free' = next_free
  BY DEF Exec, tables
<1> DEFINE q == [in |-> p.in, id |-> p.id, of |-> p.compiled]
<1>4. q \in Progs /\ q.in = i /\ q.of = p.compiled
  BY <1>2 DEF Progs
<1>5. Running' = Running \cup {q.of}
  <2> DEFINE x == [lib |-> handle[p.hd], compiled |-> p.compiled]
  <2>1. enabled' = enabled \cup {x} /\ x.lib = q.of
    BY <1>1, <1>2, <1>4
  <2> HIDE DEF x, q
  <2> QED BY <2>1 DEF Running
<1>6. Live' = Live /\ Progs' = Progs
  BY <1>3 DEF Live, Returned, Progs
<1>7. \A c \in Counters : Used(c)' = Used(c)
  BY <1>3, UsedOutside
<1> HIDE DEF q
<1> QED BY <1>4, <1>5, <1>6, <1>7 DEF Service!AExec, Counters

\* A program gets an id nobody had, in a handle of its interpreter.
LEMMA RegisterPdIsCompile ==
  ASSUME IInv, NEW i \in Interps, RegisterPd(i) PROVE Service!ACompile(i)
<1>1. /\ frame[i].pc = "use" /\ frame[i].counter = "pid"
      /\ frame' = [frame EXCEPT ![i] = IdleFrame] /\ next_free' = next_free
      /\ handles' = handles /\ enabled' = enabled
      /\ programs' = programs \cup {[in |-> i, id |-> frame[i].id, hd |-> frame[i].hd,
                                     compiled |-> frame[i].compiled]}
  BY DEF RegisterPd, At, Return, libdtrace
<1>2. PICK e \in handles : e.in = i /\ e.id = frame[i].compiled
  BY <1>1 DEF IInv, FramesMatchTables, FrameMatches, CellsOwned
<1> DEFINE h == [in |-> e.in, id |-> e.id]
<1>3. h \in Live /\ h.in = i /\ h.id = frame[i].compiled
  BY <1>1, <1>2 DEF Live, Returned
<1>4. Progs' = Progs \cup {[in |-> i, id |-> frame[i].id, of |-> h.id]}
  <2> DEFINE p == [in |-> i, id |-> frame[i].id, hd |-> frame[i].hd,
                   compiled |-> frame[i].compiled]
  <2>1. /\ programs' = programs \cup {p}
        /\ p.in = i /\ p.id = frame[i].id /\ p.compiled = h.id
    BY <1>1, <1>3
  <2> HIDE DEF p, h
  <2> QED BY <2>1 DEF Progs
<1>5. Live' = Live /\ Running' = Running
  <2>1. \A j \in Interps : j # i => frame'[j] = frame[j]
    BY <1>1 DEF IInv, TypeOK
  <2>2. ~ (frame'[i].pc \in {"opening", "configuring"})
    BY <1>1 DEF IInv, TypeOK, IdleFrame
  <2>3. \A e1 \in handles : e1.in \in Interps
    BY DEF IInv, TypeOK, HandleEntry
  <2>4. Returned' = Returned
    BY <1>1, <2>1, <2>2, <2>3 DEF Returned
  <2> QED BY <1>1, <2>4 DEF Live, Running
<1>6. /\ frame[i].id \in Used("pid")' /\ frame[i].id \notin Used("pid")
      /\ Used("pid")' = Used("pid") \cup {frame[i].id} /\ Used("id")' = Used("id")
  BY <1>1, UsedSpent DEF Counters
<1> HIDE DEF h
<1> QED BY <1>3, <1>4, <1>5, <1>6 DEF Service!ACompile, Service!Spend

\* Where a command of open ends, only its own entry counts as returned anew.
LEMMA ReturnFrames ==
  ASSUME IInv, NEW i \in Interps, frame[i].pc \in {"opening", "configuring"},
         Return(i), next_free' = next_free
  PROVE  /\ \A f \in handles : f.id # frame[i].id =>
              (~ (frame'[f.in].pc \in {"opening", "configuring"}
                  /\ frame'[f.in].id = f.id) <=> f \in Returned)
         /\ \A f \in handles : f.id = frame[i].id => f.in = i /\ f \notin Returned
         /\ frame'[i].pc = "idle"
         /\ frame[i].id \in Used("id")' /\ frame[i].id \notin Used("id")
         /\ Used("id")' = Used("id") \cup {frame[i].id}
         /\ Used("pid")' = Used("pid")
<1>1. frame'[i].pc = "idle" /\ \A j \in Interps : j # i => frame'[j] = frame[j]
  BY DEF Return, IdleFrame, IInv, TypeOK
<1>2. \A f \in handles : f.in \in Interps
  BY DEF IInv, TypeOK, HandleEntry
<1>3. \A f \in handles : f.id = frame[i].id => f.in = i /\ f \notin Returned
  BY OpeningOwner DEF Returned
<1>4. \A f \in handles : f.id # frame[i].id =>
        (~ (frame'[f.in].pc \in {"opening", "configuring"}
            /\ frame'[f.in].id = f.id) <=> f \in Returned)
  BY <1>1, <1>2 DEF Returned
<1>5. frame[i].counter = "id"
  BY DEF IInv, FramesMatchTables, FrameMatches
<1> QED BY <1>1, <1>3, <1>4, <1>5, UsedSpent DEF Return, Counters

\* An open that fails, in dtrace_open or over an option, spends its id and
\* costs its interpreter the programs; nothing else.
LEMMA OpenFailsIsOpenFails ==
  ASSUME IInv, NotYetUsed, NEW i \in Interps, OpenFails(i) \/ OpenThrow(i)
  PROVE  Service!AOpenFails(i)
<1>1. /\ frame[i].pc \in {"opening", "configuring"}
      /\ Return(i) /\ DelHd(i, frame[i].id) /\ next_free' = next_free
  BY DEF OpenFails, OpenThrow
<1>2. \A f \in handles : f.id = frame[i].id => f.in = i /\ f \notin Returned
  BY <1>1, ReturnFrames
<1>3. handles' = {f \in handles : f.id # frame[i].id}
  BY <1>1, <1>2 DEF DelHd
<1>4. Returned' = Returned
  <2>1. \A f \in handles' : ~ (frame'[f.in].pc \in {"opening", "configuring"}
                               /\ frame'[f.in].id = f.id) <=> f \in Returned
    BY <1>1, <1>3, ReturnFrames
  <2> QED BY <1>2, <1>3, <2>1 DEF Returned
<1>5. enabled' = enabled
  <2>1. CASE OpenFails(i)
    BY <2>1 DEF OpenFails, libdtrace
  <2>2. CASE OpenThrow(i)
    <3>1. handle[frame[i].hd] = frame[i].id
      BY <2>2 DEF OpenThrow, IInv, FramesMatchTables, FrameMatches
    <3> QED BY <2>2, <3>1, <1>1 DEF OpenThrow, LibClose, NotYetUsed
  <2> QED BY <2>1, <2>2
<1>6. Live' = Live /\ Running' = Running
  BY <1>4, <1>5 DEF Live, Running
<1>7. Progs' = {p \in Progs : p.in # i}
  BY <1>1 DEF DelHd, Progs
<1>8. /\ frame[i].id \in Used("id")' /\ frame[i].id \notin Used("id")
      /\ Used("id")' = Used("id") \cup {frame[i].id} /\ Used("pid")' = Used("pid")
  BY <1>1, ReturnFrames
<1> QED BY <1>6, <1>7, <1>8 DEF Service!AOpenFails, Service!Spend, Service!Forget

\* An open that returns makes its handle live under an id nobody had.
LEMMA OpenDoneIsOpen ==
  ASSUME IInv, NEW i \in Interps, OpenDone(i) PROVE Service!AOpen(i)
<1>1. /\ frame[i].pc \in {"opening", "configuring"} /\ Return(i)
      /\ next_free' = next_free /\ handles' = handles /\ programs' = programs
      /\ enabled' = enabled
  BY DEF OpenDone, tables, libdtrace
<1>2. PICK e \in handles : e.id = frame[i].id
  BY <1>1, OpeningOwner
<1>3. /\ e.in = i /\ e \notin Returned /\ \A f \in handles : f.id = frame[i].id => f = e
  BY <1>1, <1>2, ReturnFrames DEF IInv, HandleIdsUnique
<1>4. Returned' = Returned \cup {e}
  <2>1. \A f \in handles : f # e =>
          (~ (frame'[f.in].pc \in {"opening", "configuring"}
              /\ frame'[f.in].id = f.id) <=> f \in Returned)
    BY <1>1, <1>3, ReturnFrames
  <2>2. frame'[e.in].pc = "idle"
    BY <1>1, <1>3, ReturnFrames
  <2> QED BY <1>1, <2>1, <2>2 DEF Returned
<1>5. Live' = Live \cup {[in |-> i, id |-> frame[i].id]}
  BY <1>2, <1>3, <1>4 DEF Live
<1>6. Progs' = Progs /\ Running' = Running
  BY <1>1 DEF Progs, Running
<1>7. /\ frame[i].id \in Used("id")' /\ frame[i].id \notin Used("id")
      /\ Used("id")' = Used("id") \cup {frame[i].id} /\ Used("pid")' = Used("pid")
  BY <1>1, ReturnFrames
<1> QED BY <1>5, <1>6, <1>7 DEF Service!AOpen, Service!Spend

-----------------------------------------------------------------------------
\* Empty tables are an empty service.
LEMMA InitMaps == ASSUME Init PROVE Service!AInit /\ NotYetUsed
<1>1. handles = {} /\ programs = {} /\ enabled = {}
  BY DEF Init
<1>2. \A c \in Counters : Used(c) = {}
  BY DEF Init, Used
<1>3. \A i \in Interps : frame[i].pc = "idle"
  BY DEF Init, IdleFrame
<1> QED BY <1>1, <1>2, <1>3 DEF Live, Returned, Progs, Running, Counters,
     Service!AInit, NotYetUsed

\* A step that changes nothing is not seen.
LEMMA StutterStutters == ASSUME IInv, UNCHANGED vars PROVE UNCHANGED Service!avars
BY DEF vars, Service!avars, Live, Returned, Progs, Running, Used, InFlight

\* Every step of the tables is one step of the service or none.
LEMMA StepMaps ==
  ASSUME IInv, NotYetUsed, [Next]_vars PROVE [Service!ANext]_(Service!avars)
<1>1. CASE UNCHANGED vars
  BY <1>1, StutterStutters
<1>2. ASSUME NEW i \in Interps,
             \/ Load(i) \/ OpenBegin(i) \/ CompileBegin(i) \/ Lock(i) \/ TakeNext(i)
             \/ BumpNext(i) \/ NewHd(i) \/ LibOpen(i)
      PROVE  UNCHANGED Service!avars
  BY <1>2, BeginStutters, TakeStutters, NewHdStutters, LibOpenStutters
<1>3. ASSUME NEW i \in Interps,
             \/ Destroy(i) \/ Close(i) \/ Exec(i) \/ OpenFails(i) \/ OpenThrow(i)
             \/ OpenDone(i) \/ RegisterPd(i)
      PROVE  Service!ANext
  BY <1>3, DestroyIsQuit, CloseIsClose, ExecIsExec, OpenFailsIsOpenFails,
     OpenDoneIsOpen, RegisterPdIsCompile DEF Service!ANext
<1> QED BY <1>1, <1>2, <1>3 DEF Next, Proceed

-----------------------------------------------------------------------------
\* In every run, a handle that open has not returned yet is used by no program
\* and no program is enabled in it (Open and Exec of dtrace.c), so an open that
\* throws takes nothing else down with its libdtrace handle.
THEOREM OpeningHandlesUnused == Spec => []NotYetUsed
<1>1. Init => NotYetUsed
  BY InitMaps
<1>2. IInv /\ NotYetUsed /\ [Next]_vars => NotYetUsed'
  BY NotYetUsedKept
<1> QED BY <1>1, <1>2, Inductive, PTL DEF Spec

\* The commands open, close, compile and exec of dtrace.c, with their two locked
\* counters and reused memory, keep what HandleService promises to scripts, for
\* any number of interpreters, cells and ids.
THEOREM Refinement == Spec => ImplementsHandleService
<1>1. Init => Service!AInit
  BY InitMaps
<1>2. IInv /\ NotYetUsed /\ [Next]_vars => [Service!ANext]_(Service!avars)
  BY StepMaps
<1> QED BY <1>1, <1>2, Inductive, OpeningHandlesUnused, PTL
     DEF Spec, ImplementsHandleService, Service!ASpec

-----------------------------------------------------------------------------
(* No command is stuck                                                     *)

\* A mutex that is held is held by a thread between reading and writing the counter,
\* who waits for nothing.
MutexReleased ==
  \A c \in Counters : mutex[c] # Nobody =>
    mutex[c] \in Interps /\ (At(mutex[c], "take", c) \/ At(mutex[c], "bump", c))

\* There is a cell for every open that has still to take one.
CellsLeft ==
  /\ IsFiniteSet(Opening)
  /\ Cardinality(Registered) + Cardinality(Opening) <= Cardinality(Addr)

\* The guard of some step of the command that i is in.
Able(i) ==
  \/ frame[i].pc = "lock" /\ mutex[frame[i].counter] = Nobody
  \/ frame[i].pc \in {"take", "bump", "opening", "configuring"}
  \/ At(i, "use", "id") /\ Addr \ Registered # {}
  \/ At(i, "use", "pid")

\* A command that is under way can go on, or waits for a thread that can and that
\* holds the mutex it waits for; nobody waits for a thread that waits itself.
NobodyIsStuck ==
  \A i \in Interps : frame[i].pc # "idle" =>
    \/ Able(i)
    \/ \E j \in Interps :
         /\ frame[i].pc = "lock" /\ mutex[frame[i].counter] = j
         /\ frame[j].pc \in {"take", "bump"} /\ Able(j)

\* Steps a command takes at most from here on.
StepsLeft == [step \in Steps |->
  CASE step = "lock" -> 6 [] step = "take" -> 5 [] step = "bump" -> 4 [] step = "use" -> 3
    [] step = "opening" -> 2 [] step = "configuring" -> 1 [] step = "idle" -> 0]

\* Each step of a command lowers that number, and no other thread's step touches it.
CommandsGetOn ==
  \A i \in Interps :
    /\ Proceed(i) => StepsLeft[frame'[i].pc] < StepsLeft[frame[i].pc]
    /\ frame[i].pc # "idle" /\ frame'[i] # frame[i] => Proceed(i)

LEMMA ProceedFrames ==
  ASSUME TypeOK, NEW i \in Interps, Proceed(i)
  PROVE  /\ \A j \in Interps : j # i => frame'[j] = frame[j]
         /\ \/ Lock(i) /\ frame[i].pc = "lock" /\ frame'[i].pc = "take"
            \/ TakeNext(i) /\ frame[i].pc = "take" /\ frame'[i].pc = "bump"
            \/ BumpNext(i) /\ frame[i].pc = "bump" /\ frame'[i].pc = "use"
            \/ NewHd(i) /\ At(i, "use", "id") /\ frame'[i].pc = "opening"
            \/ LibOpen(i) /\ frame[i].pc = "opening" /\ frame'[i].pc = "configuring"
            \/ /\ OpenFails(i) \/ OpenThrow(i) \/ OpenDone(i) \/ RegisterPd(i)
               /\ frame[i].pc \in {"opening", "configuring"} \/ At(i, "use", "pid")
               /\ frame'[i].pc = "idle"
         /\ Lock(i) \/ TakeNext(i) \/ BumpNext(i) => frame'[i].counter = frame[i].counter
<1> frame \in [Interps -> Frame]
  BY DEF TypeOK
<1>1. CASE Lock(i)
  BY <1>1 DEF Lock, Goto
<1>2. CASE TakeNext(i)
  <2>1. frame' = [frame EXCEPT ![i] =
                   [frame[i] EXCEPT !.pc = "bump", !.id = next_free[frame[i].counter]]]
    BY <1>2 DEF TakeNext
  <2>2. frame[i].pc = "take" /\ frame[i] \in Frame
    BY <1>2 DEF TakeNext
  <2> QED BY <1>2, <2>1, <2>2 DEF Frame
<1>3. CASE BumpNext(i)
  BY <1>3 DEF BumpNext, Goto
<1>4. CASE NewHd(i) \/ LibOpen(i)
  <2>1. /\ \A j \in Interps : j # i => frame'[j] = frame[j]
        /\ NewHd(i) => At(i, "use", "id") /\ frame'[i].pc = "opening"
    <3>1. CASE NewHd(i)
      <4>1. PICK a \in Addr \ Registered :
              frame' = [frame EXCEPT ![i] = [frame[i] EXCEPT !.pc = "opening", !.hd = a]]
        BY <3>1 DEF NewHd
      <4>2. At(i, "use", "id") /\ frame[i] \in Frame
        BY <3>1 DEF NewHd
      <4> QED BY <4>1, <4>2 DEF Frame
    <3>2. CASE ~ NewHd(i)
      BY <1>4, <3>2 DEF LibOpen, Goto
    <3> QED BY <3>1, <3>2
  <2>2. LibOpen(i) => frame[i].pc = "opening" /\ frame'[i].pc = "configuring"
    BY DEF LibOpen, Goto
  <2>3. ~ (Lock(i) \/ TakeNext(i) \/ BumpNext(i))
    BY <1>4 DEF NewHd, At, LibOpen, Lock, TakeNext, BumpNext
  <2> QED BY <1>4, <2>1, <2>2, <2>3
<1>5. CASE OpenFails(i) \/ OpenThrow(i) \/ OpenDone(i) \/ RegisterPd(i)
  <2>1. frame' = [frame EXCEPT ![i] = IdleFrame]
    BY <1>5 DEF OpenFails, OpenThrow, OpenDone, RegisterPd, Return
  <2>2. frame[i].pc \in {"opening", "configuring"} \/ At(i, "use", "pid")
    BY <1>5 DEF OpenFails, OpenThrow, OpenDone, RegisterPd
  <2>3. frame'[i].pc = "idle"
    BY <2>1 DEF IdleFrame
  <2>4. ~ (Lock(i) \/ TakeNext(i) \/ BumpNext(i))
    BY <2>2 DEF At, Lock, TakeNext, BumpNext
  <2> QED BY <1>5, <2>1, <2>2, <2>3, <2>4
<1> QED BY <1>1, <1>2, <1>3, <1>4, <1>5 DEF Proceed

\* The steps that begin a command, or are one: only an open and a compile that begin
\* make a frame.
LEMMA BeginFrames ==
  ASSUME TypeOK, NEW i \in Interps,
         \/ Load(i) \/ Destroy(i) \/ Close(i) \/ Exec(i) \/ OpenBegin(i) \/ CompileBegin(i)
  PROVE  /\ mutex' = mutex
         /\ \/ frame' = frame /\ ~ OpenBegin(i)
            \/ /\ frame[i].pc = "idle" /\ frame'[i].pc = "lock"
               /\ frame'[i].counter = IF OpenBegin(i) THEN "id" ELSE "pid"
               /\ \A j \in Interps : j # i => frame'[j] = frame[j]
<1>1. CASE Load(i) \/ Destroy(i) \/ Close(i) \/ Exec(i)
  <2>1. mutex' = mutex /\ frame' = frame
    BY <1>1 DEF Load, Destroy, Close, Exec
  <2>2. OpenBegin(i) => frame[i].pc = "idle" /\ frame'[i].pc = "lock"
    BY DEF OpenBegin, Idle, IdleFrame, TypeOK
  <2> QED BY <2>1, <2>2
<1>2. CASE OpenBegin(i)
  BY <1>2 DEF OpenBegin, Idle, IdleFrame, TypeOK
<1>3. CASE CompileBegin(i)
  <2>1. PICK e \in Usable(i) :
          frame' = [frame EXCEPT ![i] = [pc |-> "lock", counter |-> "pid", id |-> 0,
                                         hd |-> e.hd, compiled |-> handle[e.hd]]]
    BY <1>3 DEF CompileBegin
  <2>2. mutex' = mutex /\ frame[i].pc = "idle"
    BY <1>3 DEF CompileBegin, Idle
  <2>3. /\ frame'[i].pc = "lock" /\ frame'[i].counter = "pid"
        /\ \A j \in Interps : j # i => frame'[j] = frame[j]
    BY <2>1 DEF TypeOK
  <2>4. ~ OpenBegin(i)
    <3>1. OpenBegin(i) => frame'[i].counter = "id"
      BY DEF OpenBegin, IdleFrame, TypeOK
    <3> QED BY <2>3, <3>1
  <2> QED BY <2>2, <2>3, <2>4
<1> QED BY <1>1, <1>2, <1>3

LEMMA MutexReleasedKept == ASSUME IInv, MutexReleased, [Next]_vars PROVE MutexReleased'
<1> SUFFICES ASSUME NEW c \in Counters, mutex'[c] # Nobody
             PROVE  /\ mutex'[c] \in Interps
                    /\ frame'[mutex'[c]].pc \in {"take", "bump"}
                    /\ frame'[mutex'[c]].counter = c
  BY DEF MutexReleased, At
<1> DEFINE j == mutex[c]
<1>0. TypeOK /\ \A i \in Interps : frame[i].counter \in Counters
  BY DEF IInv, TypeOK, Frame
<1>1. j # Nobody => j \in Interps /\ frame[j].pc \in {"take", "bump"} /\ frame[j].counter = c
  BY DEF MutexReleased, At
<1> HIDE DEF j
<1>2. CASE mutex'[c] = j /\ frame'[j] = frame[j]
  BY <1>1, <1>2
<1>3. CASE UNCHANGED vars
  BY <1>2, <1>3 DEF vars, j
<1>4. ASSUME NEW i \in Interps,
             \/ Load(i) \/ Destroy(i) \/ Close(i) \/ Exec(i) \/ OpenBegin(i) \/ CompileBegin(i)
      PROVE  mutex'[c] = j /\ frame'[j] = frame[j]
  <2>1. mutex' = mutex
    BY <1>0, <1>4, BeginFrames
  <2>2. mutex'[c] = j /\ j # Nobody
    BY <2>1 DEF j
  <2>3. frame' = frame \/ (frame[i].pc = "idle" /\ \A k \in Interps : k # i => frame'[k] = frame[k])
    BY <1>0, <1>4, BeginFrames
  <2> QED BY <1>1, <2>2, <2>3
<1>5. ASSUME NEW i \in Interps, Proceed(i)
      PROVE  /\ mutex'[c] \in Interps
             /\ frame'[mutex'[c]].pc \in {"take", "bump"}
             /\ frame'[mutex'[c]].counter = c
  <2>0. \A k \in Interps : k # i => frame'[k] = frame[k]
    BY <1>0, <1>5, ProceedFrames
  <2>1. CASE Lock(i)
    <3>1. /\ frame'[i].pc = "take" /\ frame'[i].counter = frame[i].counter
          /\ mutex' = [mutex EXCEPT ![frame[i].counter] = i] /\ mutex[frame[i].counter] = Nobody
      <4>1. frame[i].pc = "lock" /\ frame'[i].pc = "take" /\ frame'[i].counter = frame[i].counter
        BY <1>0, <2>1 DEF Lock, Goto, TypeOK
      <4> QED BY <2>1, <4>1 DEF Lock
    <3>2. CASE frame[i].counter = c
      <4>1. mutex'[c] = i
        BY <1>0, <3>1, <3>2 DEF TypeOK
      <4> QED BY <3>1, <3>2, <4>1
    <3>3. CASE frame[i].counter # c
      <4>1. mutex'[c] = j /\ j # Nobody
        BY <1>0, <3>1, <3>3 DEF TypeOK, j
      <4>2. j # i
        BY <1>1, <3>3, <4>1
      <4> QED BY <1>1, <1>2, <2>0, <4>1, <4>2
    <3> QED BY <3>2, <3>3
  <2>2. CASE TakeNext(i)
    <3>1. mutex'[c] = j /\ j # Nobody
      BY <2>2 DEF TakeNext, j
    <3>2. frame'[i].pc = "bump" /\ frame'[i].counter = frame[i].counter
      <4>1. frame[i].pc = "take"
        BY <2>2 DEF TakeNext
      <4>2. ~ Lock(i) /\ ~ BumpNext(i) /\ ~ NewHd(i) /\ ~ LibOpen(i) /\ ~ OpenFails(i)
            /\ ~ OpenThrow(i) /\ ~ OpenDone(i) /\ ~ RegisterPd(i)
        BY <4>1 DEF Lock, BumpNext, NewHd, At, LibOpen, OpenFails, OpenThrow, OpenDone, RegisterPd
      <4> QED BY <1>0, <1>5, <2>2, <4>2, ProceedFrames
    <3>3. CASE j = i
      BY <1>1, <3>1, <3>2, <3>3
    <3>4. CASE j # i
      BY <1>1, <1>2, <2>0, <3>1, <3>4
    <3> QED BY <3>3, <3>4
  <2>3. CASE BumpNext(i)
    <3>1. mutex' = [mutex EXCEPT ![frame[i].counter] = Nobody] /\ frame[i].pc = "bump"
      BY <2>3 DEF BumpNext
    <3>2. frame[i].counter # c /\ mutex'[c] = j /\ j # Nobody
      BY <1>0, <3>1 DEF TypeOK, j
    <3>3. j # i
      BY <1>1, <3>2
    <3> QED BY <1>1, <1>2, <2>0, <3>2, <3>3
  <2>4. CASE ~ (Lock(i) \/ TakeNext(i) \/ BumpNext(i))
    <3>1. mutex' = mutex
      BY <1>5, <2>4 DEF Proceed, NewHd, LibOpen, OpenFails, OpenThrow, OpenDone, RegisterPd
    <3>2. frame[i].pc \notin {"take", "bump"}
      BY <1>0, <1>5, <2>4, ProceedFrames DEF At
    <3>3. mutex'[c] = j /\ j # Nobody
      BY <3>1 DEF j
    <3> QED BY <1>1, <1>2, <2>0, <3>2, <3>3
  <2> QED BY <2>1, <2>2, <2>3, <2>4
<1> QED BY <1>2, <1>3, <1>4, <1>5 DEF Next

\* The cells in use and the opens under way, when neither gets more.
LEMMA FewerKeepCells ==
  ASSUME CellsLeft, IsFiniteSet(Registered),
         NEW R \in SUBSET Registered, NEW O \in SUBSET Opening
  PROVE  IsFiniteSet(O) /\ Cardinality(R) + Cardinality(O) <= Cardinality(Addr)
<1>1. /\ IsFiniteSet(O) /\ Cardinality(O) <= Cardinality(Opening)
      /\ IsFiniteSet(R) /\ Cardinality(R) <= Cardinality(Registered)
  BY FS_Subset DEF CellsLeft
<1>2. /\ Cardinality(O) \in Nat /\ Cardinality(Opening) \in Nat
      /\ Cardinality(R) \in Nat /\ Cardinality(Registered) \in Nat
      /\ Cardinality(Addr) \in Nat
  BY <1>1, FS_CardinalityType, RegistryAssumption DEF CellsLeft
<1> QED BY <1>1, <1>2 DEF CellsLeft

LEMMA RegisteredIsFinite == ASSUME TypeOK PROVE IsFiniteSet(Registered) /\ Registered \subseteq Addr
<1>1. Registered \subseteq Addr
  BY DEF TypeOK, HandleEntry, Registered
<1> QED BY <1>1, FS_Subset, RegistryAssumption

LEMMA CellsLeftKept == ASSUME IInv, CellsLeft, [Next]_vars PROVE CellsLeft'
<1>0. TypeOK /\ IsFiniteSet(Registered)
  BY RegisteredIsFinite DEF IInv
<1> DEFINE Fewer == handles' \subseteq handles /\ Opening' \subseteq Opening
<1>1. ASSUME Fewer
      PROVE  CellsLeft'
  <2>1. Registered' \subseteq Registered
    BY <1>1 DEF Registered
  <2> QED BY <1>0, <1>1, <2>1, FewerKeepCells DEF CellsLeft
<1>2. CASE UNCHANGED vars
  BY <1>1, <1>2 DEF vars, tables, Opening
<1>3. ASSUME NEW i \in Interps,
             Load(i) \/ Destroy(i) \/ Close(i) \/ Exec(i) \/ CompileBegin(i)
      PROVE  Fewer
  <2>1. handles' \subseteq handles
    BY <1>3 DEF Load, Destroy, Close, DelHd, Exec, CompileBegin, tables
  <2>2. Opening' \subseteq Opening
    <3>1. CASE CompileBegin(i)
      <4>1. PICK e \in Usable(i) :
              frame' = [frame EXCEPT ![i] = [pc |-> "lock", counter |-> "pid", id |-> 0,
                                             hd |-> e.hd, compiled |-> handle[e.hd]]]
        BY <3>1 DEF CompileBegin
      <4>2. frame'[i].counter = "pid" /\ \A j \in Interps : j # i => frame'[j] = frame[j]
        BY <1>0, <4>1 DEF TypeOK
      <4> QED BY <4>2 DEF Opening
    <3>2. CASE Load(i) \/ Destroy(i) \/ Close(i) \/ Exec(i)
      <4>1. frame' = frame
        BY <3>2 DEF Load, Destroy, Close, Exec
      <4> QED BY <4>1 DEF Opening
    <3> QED BY <1>3, <3>1, <3>2
  <2> QED BY <2>1, <2>2
<1>4. ASSUME NEW i \in Interps, OpenBegin(i)
      PROVE  CellsLeft'
  <2>1. Registered' = Registered
    BY <1>4 DEF OpenBegin, tables, Registered
  <2>2. Opening' = Opening \cup {i} /\ i \notin Opening
    <3>1. /\ frame[i].pc = "idle" /\ frame'[i].pc = "lock" /\ frame'[i].counter = "id"
          /\ \A j \in Interps : j # i => frame'[j] = frame[j]
      BY <1>4 DEF OpenBegin, Idle, IdleFrame, IInv, TypeOK
    <3> QED BY <3>1 DEF Opening
  <2>3. IsFiniteSet(Opening') /\ Cardinality(Opening') = Cardinality(Opening) + 1
    BY <2>2, FS_AddElement DEF CellsLeft
  <2>4. Cardinality(Registered) + Cardinality(Opening) < Cardinality(Addr)
    BY <1>4 DEF OpenBegin, RoomForHandle
  <2>5. /\ Cardinality(Opening) \in Nat /\ Cardinality(Registered) \in Nat
        /\ Cardinality(Addr) \in Nat
    BY <1>0, FS_CardinalityType, RegistryAssumption DEF CellsLeft
  <2> QED BY <2>1, <2>3, <2>4, <2>5 DEF CellsLeft
<1>5. ASSUME NEW i \in Interps, Proceed(i)
      PROVE  CellsLeft'
  <2>0. \A j \in Interps : j # i => frame'[j] = frame[j]
    BY <1>0, <1>5, ProceedFrames
  <2>1. CASE NewHd(i)
    <3>1. PICK a \in Addr \ Registered :
            handles' = handles \cup {[in |-> i, id |-> frame[i].id, hd |-> a]}
      BY <2>1 DEF NewHd
    <3>2. Registered' = Registered \cup {a} /\ a \notin Registered
      <4> DEFINE e == [in |-> i, id |-> frame[i].id, hd |-> a]
      <4>1. e.hd = a /\ handles' = handles \cup {e}
        BY <3>1
      <4> HIDE DEF e
      <4>2. {f.hd : f \in handles \cup {e}} = {f.hd : f \in handles} \cup {e.hd}
        OBVIOUS
      <4> QED BY <4>1, <4>2 DEF Registered
    <3>3. At(i, "use", "id") /\ frame'[i].pc = "opening"
      <4>1. /\ ~ Lock(i) /\ ~ TakeNext(i) /\ ~ BumpNext(i) /\ ~ LibOpen(i) /\ ~ OpenFails(i)
            /\ ~ OpenThrow(i) /\ ~ OpenDone(i) /\ ~ RegisterPd(i)
        BY <2>1 DEF NewHd, At, Lock, TakeNext, BumpNext, LibOpen, OpenFails, OpenThrow,
           OpenDone, RegisterPd
      <4> QED BY <1>0, <1>5, <4>1, ProceedFrames
    <3>4. Opening' = Opening \ {i} /\ i \in Opening
      BY <2>0, <3>3 DEF Opening, At
    <3>5. /\ Cardinality(Registered') = Cardinality(Registered) + 1
          /\ IsFiniteSet(Opening') /\ Cardinality(Opening') = Cardinality(Opening) - 1
      BY <1>0, <3>2, <3>4, FS_AddElement, FS_RemoveElement DEF CellsLeft
    <3>6. /\ Cardinality(Opening) \in Nat /\ Cardinality(Registered) \in Nat
          /\ Cardinality(Addr) \in Nat
      BY <1>0, FS_CardinalityType, RegistryAssumption DEF CellsLeft
    <3> QED BY <3>5, <3>6 DEF CellsLeft
  <2>2. CASE ~ NewHd(i)
    <3>1. handles' \subseteq handles
      BY <1>5, <2>2 DEF Proceed, Lock, TakeNext, BumpNext, OpenFails, LibOpen, OpenThrow,
         OpenDone, RegisterPd, DelHd, tables
    <3>2. i \in Opening' => i \in Opening
      <4>1. CASE Lock(i) \/ TakeNext(i) \/ BumpNext(i)
        <5>1. frame[i].pc \in {"lock", "take", "bump"} /\ frame'[i].counter = frame[i].counter
          BY <1>0, <1>5, <4>1, ProceedFrames DEF Lock, TakeNext, BumpNext
        <5> QED BY <5>1 DEF Opening
      <4>2. CASE ~ (Lock(i) \/ TakeNext(i) \/ BumpNext(i))
        <5>1. frame'[i].pc \in {"configuring", "idle"}
          BY <1>0, <1>5, <2>2, <4>2, ProceedFrames
        <5> QED BY <5>1 DEF Opening
      <4> QED BY <4>1, <4>2
    <3>3. Opening' \subseteq Opening
      BY <2>0, <3>2 DEF Opening
    <3> QED BY <1>1, <3>1, <3>3
  <2> QED BY <2>1, <2>2
<1> QED BY <1>1, <1>2, <1>3, <1>4, <1>5 DEF Next


\* In every run a thread that holds the mutex of a counter is between reading and
\* writing that counter (new_hd and register_pd): it keeps the mutex over no call, and
\* never while it waits for another.
THEOREM MutexIsReleased == Spec => []MutexReleased
<1>1. Init => MutexReleased
  BY DEF Init, MutexReleased
<1>2. IInv /\ MutexReleased /\ [Next]_vars => MutexReleased'
  BY MutexReleasedKept
<1> QED BY <1>1, <1>2, Inductive, PTL DEF Spec

\* In every run each open that is under way and has no memory yet finds some (new_hd).
THEOREM CellsAreLeft == Spec => []CellsLeft
<1>1. Init => CellsLeft
  <2> SUFFICES ASSUME Init PROVE CellsLeft
    OBVIOUS
  <2>1. Registered = {} /\ Opening = {}
    BY DEF Init, Registered, Opening, IdleFrame
  <2>2. IsFiniteSet({}) /\ Cardinality({}) = 0 /\ Cardinality(Addr) \in Nat
    BY FS_EmptySet, FS_CardinalityType, RegistryAssumption
  <2> QED BY <2>1, <2>2 DEF CellsLeft
<1>2. IInv /\ CellsLeft /\ [Next]_vars => CellsLeft'
  BY CellsLeftKept
<1> QED BY <1>1, <1>2, Inductive, PTL DEF Spec

LEMMA SomebodyIsAble == ASSUME IInv, MutexReleased, CellsLeft PROVE NobodyIsStuck
<1> SUFFICES ASSUME NEW i \in Interps, frame[i].pc # "idle"
             PROVE  \/ Able(i)
                    \/ \E j \in Interps :
                         /\ frame[i].pc = "lock" /\ mutex[frame[i].counter] = j
                         /\ frame[j].pc \in {"take", "bump"} /\ Able(j)
  BY DEF NobodyIsStuck
<1>0. TypeOK /\ frame[i].pc \in Steps /\ frame[i].counter \in Counters
  BY DEF IInv, TypeOK, Frame
<1>1. CASE frame[i].pc = "lock"
  <2> DEFINE j == mutex[frame[i].counter]
  <2>1. CASE j = Nobody
    BY <1>1, <2>1 DEF Able
  <2>2. CASE j # Nobody
    <3>1. j \in Interps /\ frame[j].pc \in {"take", "bump"}
      BY <1>0, <2>2 DEF MutexReleased, At
    <3>2. Able(j)
      BY <3>1 DEF Able
    <3> QED BY <1>1, <3>1, <3>2
  <2> QED BY <2>1, <2>2
<1>2. CASE At(i, "use", "id")
  <2>1. i \in Opening
    BY <1>2 DEF At, Opening
  <2>2. Addr \ Registered # {}
    <3>1. IsFiniteSet(Registered) /\ Registered \subseteq Addr
      BY <1>0, RegisteredIsFinite
    <3>2. Cardinality(Opening) \in Nat /\ Cardinality(Opening) # 0
      BY <2>1, FS_CardinalityType, FS_EmptySet DEF CellsLeft
    <3>3. Cardinality(Registered) \in Nat /\ Cardinality(Addr) \in Nat
      BY <3>1, FS_CardinalityType, RegistryAssumption
    <3>4. Cardinality(Registered) # Cardinality(Addr)
      BY <3>2, <3>3 DEF CellsLeft
    <3> QED BY <3>1, <3>4
  <2> QED BY <1>2, <2>2 DEF Able
<1>3. CASE At(i, "use", "pid")
  BY <1>3 DEF Able
<1>4. CASE frame[i].pc \in {"take", "bump", "opening", "configuring"}
  BY <1>4 DEF Able
<1>5. frame[i].pc = "use" => At(i, "use", "id") \/ At(i, "use", "pid")
  BY <1>0 DEF Counters, At
<1> QED BY <1>0, <1>1, <1>2, <1>3, <1>4, <1>5 DEF Steps

\* In every run a command that is under way can take its next step, or waits only for
\* the mutex of a counter and that mutex is held by a thread that can take its own
\* (Tcl_MutexLock in new_hd and register_pd): no set of threads waits for one another,
\* for any number of interpreters.  This is the safety half of CommandsReturn.
THEOREM NoCommandIsStuck == Spec => []NobodyIsStuck
<1>1. IInv /\ MutexReleased /\ CellsLeft => NobodyIsStuck
  BY SomebodyIsAble
<1> QED BY <1>1, Inductive, MutexIsReleased, CellsAreLeft, PTL

LEMMA StepGetsOn == ASSUME IInv, [Next]_vars PROVE [CommandsGetOn]_vars
<1> SUFFICES ASSUME NEW i \in Interps, ~ UNCHANGED vars
             PROVE  /\ Proceed(i) => StepsLeft[frame'[i].pc] < StepsLeft[frame[i].pc]
                    /\ frame[i].pc # "idle" /\ frame'[i] # frame[i] => Proceed(i)
  BY DEF CommandsGetOn
<1>0. TypeOK
  BY DEF IInv
<1>1. ASSUME Proceed(i)
      PROVE  StepsLeft[frame'[i].pc] < StepsLeft[frame[i].pc]
  <2>1. /\ StepsLeft["lock"] = 6 /\ StepsLeft["take"] = 5 /\ StepsLeft["bump"] = 4
        /\ StepsLeft["use"] = 3 /\ StepsLeft["opening"] = 2
        /\ StepsLeft["configuring"] = 1 /\ StepsLeft["idle"] = 0
    BY DEF StepsLeft, Steps
  <2>2. \/ frame[i].pc = "lock" /\ frame'[i].pc = "take"
        \/ frame[i].pc = "take" /\ frame'[i].pc = "bump"
        \/ frame[i].pc = "bump" /\ frame'[i].pc = "use"
        \/ frame[i].pc = "use" /\ frame'[i].pc = "opening"
        \/ frame[i].pc = "opening" /\ frame'[i].pc = "configuring"
        \/ frame[i].pc \in {"opening", "configuring", "use"} /\ frame'[i].pc = "idle"
    BY <1>0, <1>1, ProceedFrames DEF At
  <2> QED BY <2>1, <2>2
<1>2. ASSUME frame[i].pc # "idle", frame'[i] # frame[i]
      PROVE  Proceed(i)
  <2>1. PICK j \in Interps :
          \/ Load(j) \/ Destroy(j) \/ Close(j) \/ Exec(j) \/ OpenBegin(j) \/ CompileBegin(j)
          \/ Proceed(j)
    BY DEF Next
  <2>2. CASE Proceed(j)
    <3>1. j = i
      BY <1>0, <1>2, <2>2, ProceedFrames
    <3> QED BY <2>2, <3>1
  <2>3. CASE ~ Proceed(j)
    <3>1. frame' = frame \/ (frame[j].pc = "idle" /\ \A k \in Interps : k # j => frame'[k] = frame[k])
      BY <1>0, <2>1, <2>3, BeginFrames
    <3> QED BY <1>2, <3>1
  <2> QED BY <2>2, <2>3
<1> QED BY <1>1, <1>2

\* Every step of a command takes it nearer its return, by a number that is 0 when it has
\* returned, and no step of another thread disturbs it (Open and Compile of dtrace.c).
\* With NoCommandIsStuck it leaves to CommandsReturn nothing but the scheduling.
THEOREM CommandsAlwaysGetOn == Spec => [][CommandsGetOn]_vars
<1>1. IInv /\ [Next]_vars => [CommandsGetOn]_vars
  BY StepGetsOn
<1> QED BY <1>1, Inductive, PTL DEF Spec
=============================================================================
