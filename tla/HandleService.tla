---------------------------- MODULE HandleService -----------------------------
(***************************************************************************)
(* What the commands open, close, compile and exec promise a Tcl script,   *)
(* with no memory, no mutexes and no libdtrace:                            *)
(*                                                                         *)
(*  - an id names one handle or program for ever: an id given out once is  *)
(*    never given out again, to any interpreter;                           *)
(*  - a handle stays usable until its own interpreter closes it or goes;   *)
(*  - a program is good only while the handle it was compiled in is open,  *)
(*    and it runs in that handle;                                          *)
(*  - nothing one interpreter does touches the handles of another.         *)
(*                                                                         *)
(* It does not promise that a program outlives the closing of some other   *)
(* handle of its interpreter: the code breaks that one (see                *)
(* ProgramsSurviveOtherClose in DtraceRegistry).                           *)
(***************************************************************************)
CONSTANT Interps

VARIABLES live,      \* open handles: their interpreter and id
          usedIds,   \* handle ids that were given out or spent on failed opens
          progs,     \* program handles: their interpreter, id and handle
          usedPids,  \* program ids given out
          running    \* ids of the open handles some program was exec'ed in

avars == <<live, usedIds, progs, usedPids, running>>

AInit ==
  /\ live = {} /\ usedIds = {}
  /\ progs = {} /\ usedPids = {}
  /\ running = {}

\* i loses all its programs, or only those of its handle id.
Forget(i, id) ==
  progs' \in {{p \in progs : p.in # i},
              {p \in progs : ~ (p.in = i /\ p.of = id)}}

\* Any id not in use may be the new one: it is read off the next state.
Spend(id, used, newUsed) == id \notin used /\ newUsed = used \cup {id}

AOpen(i) ==
  /\ \E id \in usedIds' :
       /\ Spend(id, usedIds, usedIds')
       /\ live' = live \cup {[in |-> i, id |-> id]}
  /\ UNCHANGED <<progs, usedPids, running>>

AOpenFails(i) ==
  /\ \E id \in usedIds' : Spend(id, usedIds, usedIds') /\ Forget(i, id)
  /\ UNCHANGED <<live, usedPids, running>>

AClose(i) ==
  /\ \E h \in live :
       /\ h.in = i
       /\ live' = live \ {h}
       /\ running' = running \ {h.id}
       /\ Forget(i, h.id)
  /\ UNCHANGED <<usedIds, usedPids>>

ACompile(i) ==
  /\ \E h \in live, pid \in usedPids' :
       /\ h.in = i
       /\ Spend(pid, usedPids, usedPids')
       /\ progs' = progs \cup {[in |-> i, id |-> pid, of |-> h.id]}
  /\ UNCHANGED <<live, usedIds, running>>

AExec(i) ==
  /\ \E p \in progs : p.in = i /\ running' = running \cup {p.of}
  /\ UNCHANGED <<live, usedIds, progs, usedPids>>

\* The interpreter is deleted.
AQuit(i) ==
  /\ live' = {h \in live : h.in # i}
  /\ progs' = {p \in progs : p.in # i}
  /\ running' = running \ {h.id : h \in live \ live'}
  /\ UNCHANGED <<usedIds, usedPids>>

ANext == \E i \in Interps :
  AOpen(i) \/ AOpenFails(i) \/ AClose(i) \/ ACompile(i) \/ AExec(i) \/ AQuit(i)

ASpec == AInit /\ [][ANext]_avars
=============================================================================
