------------------------------- MODULE NetDemo -------------------------------
(***************************************************************************)
(* The network demo (demos/netdemo.tcl): a server that keeps a handle for  *)
(* each connection, under the name of its channel.  Tcl names a channel    *)
(* after its file descriptor, so the name of a closed connection soon is   *)
(* that of another one, while the loops started for the old one go on for  *)
(* ever and look the handle up by name.                                    *)
(*                                                                         *)
(* Tcl removes the handler of a channel whose script raised an error: the  *)
(* connection stays open and nobody reads from it any more ("deaf").  The  *)
(* channels block, so gets holds up all of the server until the client     *)
(* ends its line.                                                          *)
(***************************************************************************)
EXTENDS DemoHandles

CONSTANTS Socks,    \* names of channels
          MaxLoops  \* bound: loops started under one name

ASSUME NetAssumption == MaxLoops \in Nat /\ NULL \notin Socks

VARIABLES
  sock,      \* of each name: "closed", "open" or "deaf"
  handles,   \* the array handles, NULL where it has no element
  callback,  \* the channel that the handle's probe_desc callback was given
  loops,     \* timers of dtraceLoop for each name
  reading,   \* the channel that receive waits to read a line from
  turn       \* the name whose loop has just run

netVars == <<sock, handles, callback, loops, reading, turn>>

NetTypeOK ==
  /\ HandlesTypeOK
  /\ sock \in [Socks -> {"closed", "open", "deaf"}]
  /\ handles \in [Socks -> 1..opened \cup {NULL}]
  /\ callback \in [Handle -> Socks \cup {NULL}]
  /\ loops \in [Socks -> 0..MaxLoops]
  /\ {reading, turn} \subseteq Socks \cup {NULL}

NetInit ==
  /\ HandlesInit
  /\ sock = [s \in Socks |-> "closed"]
  /\ handles = [s \in Socks |-> NULL]
  /\ callback = [h \in Handle |-> NULL]
  /\ loops = [s \in Socks |-> 0]
  /\ reading = NULL /\ turn = NULL

-----------------------------------------------------------------------------
\* accept.  When open fails, Tcl closes the channel again, and nothing is left
\* of the connection.
Accept(s) ==
  /\ reading = NULL /\ sock[s] = "closed" /\ CanOpen
  /\ opened' = NewHandle
  /\ live' = live \cup {NewHandle}
  /\ handles' = [handles EXCEPT ![s] = NewHandle]
  /\ sock' = [sock EXCEPT ![s] = "open"]
  /\ turn' = NULL
  /\ UNCHANGED <<script, callback, loops, reading>>

\* receive: something to read, ...
Receive(s) ==
  /\ reading = NULL /\ sock[s] = "open"
  /\ reading' = s /\ turn' = NULL
  /\ UNCHANGED <<handleVars, sock, handles, callback, loops>>

\* Mutant of Disconnected: the handle is forgotten and not closed.
DisconnectedLeaks(s) ==
  /\ reading = s
  /\ sock' = [sock EXCEPT ![s] = "closed"]
  /\ handles' = [handles EXCEPT ![s] = NULL]
  /\ reading' = NULL /\ turn' = NULL
  /\ UNCHANGED <<handleVars, callback, loops>>

\* ... which is the end or an error, ...
Disconnected(s) ==
  /\ reading = s
  /\ sock' = [sock EXCEPT ![s] = "closed"]
  /\ live' = live \ {handles[s]}
  /\ handles' = [handles EXCEPT ![s] = NULL]
  /\ reading' = NULL /\ turn' = NULL
  /\ UNCHANGED <<script, opened, callback, loops>>

\* ... a line of the script, ...
ScriptLine(s) ==
  /\ reading = s
  /\ reading' = NULL /\ turn' = NULL
  /\ UNCHANGED <<handleVars, sock, handles, callback, loops>>

\* ... or GO, that compile, exec or go refuses, go with the callback stored, or
\* that cannot be answered, ...
GoRefused(s) ==
  /\ reading = s
  /\ sock' = [sock EXCEPT ![s] = "deaf"]
  /\ \/ callback' = [callback EXCEPT ![handles[s]] = s]
     \/ UNCHANGED callback
  /\ reading' = NULL /\ turn' = NULL
  /\ UNCHANGED <<handleVars, handles, loops>>

\* Mutant of GoStarts: the tracing starts, and no loop.
GoStartsUnserved(s) ==
  /\ reading = s
  /\ callback' = [callback EXCEPT ![handles[s]] = s]
  /\ reading' = NULL /\ turn' = NULL
  /\ UNCHANGED <<handleVars, sock, handles, loops>>

\* ... or starts the tracing, and with it a loop that serves the handle at once.
GoStarts(s) ==
  /\ reading = s /\ loops[s] < MaxLoops
  /\ callback' = [callback EXCEPT ![handles[s]] = s]
  /\ loops' = [loops EXCEPT ![s] = @ + 1]
  /\ reading' = NULL /\ turn' = s
  /\ UNCHANGED <<handleVars, sock, handles>>

\* dtraceLoop: what process and its callbacks raise is caught, also that there is
\* no such handle any more, and the timer set again.
Loop(s) ==
  /\ reading = NULL /\ loops[s] > 0
  /\ turn' = s
  /\ UNCHANGED <<handleVars, sock, handles, callback, loops, reading>>

NetNext ==
  /\ script = "net"
  /\ \E s \in Socks :
       \/ Accept(s) \/ Receive(s) \/ Disconnected(s) \/ ScriptLine(s)
       \/ GoRefused(s) \/ GoStarts(s) \/ Loop(s)

\* Tcl's event loop serves a timer that is due again and again.
NetFairness == \A s \in Socks : SF_<<handleVars, netVars>>(Loop(s))

NetSpec == NetInit /\ [][NetNext]_<<handleVars, netVars>> /\ NetFairness

-----------------------------------------------------------------------------
Connected(s) == sock[s] # "closed"

\* Every open handle is that of one connection, and every connection has one,
\* also when its script was refused: a name that is used again finds nothing of
\* the connection before.
HandlePerConnection == script = "net" =>
  /\ \A s \in Socks : handles[s] # NULL <=> Connected(s)
  /\ \A h \in live : \E s \in Socks : handles[s] = h
  /\ \A s \in Socks : Connected(s) => handles[s] \in live
  /\ \A r, s \in Socks : Connected(r) /\ handles[r] = handles[s] => r = s

\* What a handle traces is written to the connection whose handle it is, and not
\* to another one that has got the name.
OutputGoesHome == script = "net" =>
  \A h \in live : callback[h] # NULL => handles[callback[h]] = h

Traced(s) == sock[s] = "open" /\ callback[handles[s]] = s

\* A connection that traces is served again and again, unless in the end the
\* server waits for the rest of some client's line.
TracedIsServed ==
  \A s \in Socks : <>[]Traced(s) => []<>(turn = s) \/ <>[](reading # NULL)
=============================================================================
