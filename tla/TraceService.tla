----------------------------- MODULE TraceService -----------------------------
(***************************************************************************)
(* What a handle promises to the script that traces with it, without       *)
(* reference counts, without the vector of processes and without the C     *)
(* stack:                                                                  *)
(*                                                                         *)
(*  - go registers callbacks and takes none away, also when it fails; only *)
(*    close takes them, all at once, and the end of the interpreter;       *)
(*  - a process that is grabbed stands still until a go that succeeds, or  *)
(*    the end of the handle, and these let all of them run;                *)
(*  - process evaluates what is registered at that moment, callbacks       *)
(*    return in the reverse order of their calls, and an error of any but  *)
(*    "proc" ends the process command that called it;                      *)
(*  - whatever is registered or being evaluated is alive, and what a       *)
(*    callback runs never ends the life of the callback itself.            *)
(*                                                                         *)
(* It does not promise that process survives a callback that closes the    *)
(* handle: the code breaks that (see ProcessSurvivesClose in               *)
(* DtraceSession), and busy stays TRUE then.                               *)
(***************************************************************************)
EXTENDS Sequences, Naturals

CONSTANTS Objs, Slots, Pids, NULL

VARIABLES phase,       \* "none", "ready", "active", "stopped" or "closed"
          registered,  \* the callback of each slot, NULL if there is none
          held,        \* processes that stand still
          alive,       \* objects the handle keeps alive
          busy,        \* libdtrace is at work, no script runs
          evals        \* callbacks being evaluated, the innermost last

avars == <<phase, registered, held, alive, busy, evals>>

Needed == {registered[s] : s \in {t \in Slots : registered[t] # NULL}}
            \cup {evals[k].obj : k \in DOMAIN evals}

AInit ==
  /\ phase = "none" /\ registered = [s \in Slots |-> NULL]
  /\ held = {} /\ alive = {} /\ busy = FALSE /\ evals = <<>>

\* A command of the script is carried out.
Commanded == ~ busy /\ phase \notin {"none", "closed"}

AOpen ==
  /\ phase = "none" /\ phase' = "ready"
  /\ UNCHANGED <<registered, held, alive, busy, evals>>

Registers ==
  /\ registered' \in [Slots -> Objs \cup {NULL}]
  /\ \A s \in Slots : registered'[s] # NULL \/ registered'[s] = registered[s]
  /\ alive \subseteq alive'

AGo ==
  /\ Commanded /\ Registers
  /\ phase' = "active" /\ held' = {}
  /\ UNCHANGED <<busy, evals>>

AGoFails == Commanded /\ Registers /\ UNCHANGED <<phase, held, busy, evals>>

AStop ==
  /\ Commanded /\ phase' = "stopped"
  /\ UNCHANGED <<registered, held, alive, busy, evals>>

AGrab ==
  /\ Commanded /\ \E p \in Pids : held' = held \cup {p}
  /\ UNCHANGED <<phase, registered, alive, busy, evals>>

AClose ==
  /\ Commanded
  /\ phase' = "closed" /\ held' = {}
  /\ registered' = [s \in Slots |-> NULL]
  /\ alive' \subseteq alive
  /\ UNCHANGED <<busy, evals>>

\* The interpreter goes, and with it the handle and all that is under way; the
\* objects that were its callbacks live on for nobody.
AEnds ==
  /\ Commanded
  /\ phase' = "closed" /\ held' = {}
  /\ registered' = [s \in Slots |-> NULL]
  /\ evals' = <<>> /\ UNCHANGED <<alive, busy>>

AProcess ==
  /\ Commanded /\ busy' = TRUE
  /\ UNCHANGED <<phase, registered, held, alive, evals>>

ADeliver ==
  /\ busy /\ busy' = FALSE
  /\ \E s \in Slots :
       /\ registered[s] # NULL
       /\ evals' = Append(evals, [slot |-> s, obj |-> registered[s]])
  /\ UNCHANGED <<phase, registered, held, alive>>

\* The innermost callback is over.
Ends ==
  /\ ~ busy /\ evals # <<>>
  /\ evals' = SubSeq(evals, 1, Len(evals) - 1)
  /\ alive' \subseteq alive
  /\ UNCHANGED <<phase, registered, held>>

AReturns == Ends /\ busy' = TRUE

AFails ==
  /\ Ends /\ evals[Len(evals)].slot # "proc" /\ phase # "closed"
  /\ busy' = FALSE

ADone ==
  /\ busy /\ busy' = FALSE
  /\ UNCHANGED <<phase, registered, held, alive, evals>>

ANext ==
  /\ \/ AOpen \/ AGo \/ AGoFails \/ AStop \/ AGrab \/ AClose \/ AEnds
     \/ AProcess \/ ADeliver \/ AReturns \/ AFails \/ ADone
  /\ Needed' \subseteq alive'

ASpec == AInit /\ [][ANext]_avars
=============================================================================
