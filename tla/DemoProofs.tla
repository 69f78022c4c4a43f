------------------------------ MODULE DemoProofs ------------------------------
(***************************************************************************)
(* Proofs about the demos: for any number of probes, connections and       *)
(* loops, no handle is lost and none is closed behind its button or its    *)
(* connection.                                                             *)
(***************************************************************************)
EXTENDS DtraceGui, NetDemo, DtraceDemo, TLAPS

(***************************************************************************)
(* The graphical demo.  A timer closes a handle and forgets the button of  *)
(* an id: that it is the same probe's is the strengthening.                *)
(***************************************************************************)
SameProbe ==
  \A p, q \in buttons \cup timers : p.id = q.id <=> p.handle = q.handle

GuiIInv == GuiTypeOK /\ ButtonsShowLive /\ SameProbe

gvars == <<handleVars, guiVars>>

\* The handles of some buttons.
HandlesOf(shown, held) ==
  /\ \A b \in shown : b.handle \in held
  /\ \A h \in held : \E b \in shown : b.handle = h

\* What dtraceLoop does keeps the invariant, whoever calls it.
LEMMA DtraceLoopKeeps ==
  ASSUME NEW p \in Probe, NEW held \in SUBSET Handle, NEW shown \in SUBSET Probe,
         NEW waiting \in SUBSET Probe,
         HandlesOf(shown, held),
         \A q, r \in shown \cup waiting \cup {p} : q.id = r.id <=> q.handle = r.handle,
         DtraceLoop(p, held, shown, waiting)
  PROVE  /\ HandlesOf(buttons', live')
         /\ live' \subseteq held /\ buttons' \subseteq shown
         /\ timers' \subseteq waiting \cup {p}
<1>1. CASE p.handle \in held /\ live' = held /\ buttons' = shown
             /\ timers' \in {waiting, waiting \cup {p}}
  BY <1>1
<1>2. CASE /\ live' = held \ {p.handle}
           /\ buttons' = {b \in shown : b.id # p.id}
           /\ timers' = waiting
  <2>1. \A b \in shown : b.id # p.id <=> b.handle # p.handle
    OBVIOUS
  <2>2. HandlesOf(buttons', live')
    BY <1>2, <2>1 DEF HandlesOf
  <2> QED BY <1>2, <2>2
<1> QED BY <1>1, <1>2 DEF DtraceLoop

\* Probes that are disabled, and times that are up, disturb no other probe.
LEMMA FewerProbes ==
  ASSUME GuiIInv, script = "gui", script' = script,
         topId' \in topId..MaxIds, opened' \in opened..MaxOpens,
         buttons' \subseteq buttons, timers' \subseteq timers, live' \subseteq live,
         HandlesOf(buttons', live')
  PROVE  GuiIInv'
<1> USE DemoHandlesAssumption, GuiAssumption
<1>t. /\ opened \in 0..MaxOpens /\ topId \in 0..MaxIds /\ live \subseteq 1..opened
      /\ \A p \in buttons \cup timers : p \in Probe /\ p.id <= topId /\ p.handle <= opened
  BY DEF GuiIInv, GuiTypeOK, HandlesTypeOK
<1>1. HandlesTypeOK' /\ topId' \in 0..MaxIds
  <2>1. opened' \in 0..MaxOpens /\ topId' \in 0..MaxIds
    BY <1>t
  <2>2. live' \subseteq 1..opened'
    BY <1>t
  <2> QED BY <2>1, <2>2 DEF HandlesTypeOK
<1>2. \A p \in buttons' \cup timers' : p \in Probe /\ p.id <= topId' /\ p.handle <= opened'
  BY <1>t DEF Probe, Handle
<1>3. GuiTypeOK'
  <2>1. buttons' \subseteq {p \in Probe : p.id <= topId' /\ p.handle <= opened'}
    BY <1>2
  <2>2. timers' \subseteq {p \in Probe : p.id <= topId' /\ p.handle <= opened'}
    BY <1>2
  <2> QED BY <1>1, <2>1, <2>2, Zenon DEF GuiTypeOK
<1>4. ButtonsShowLive'
  BY DEF GuiIInv, ButtonsShowLive, HandlesOf
<1>5. SameProbe'
  BY DEF GuiIInv, SameProbe
<1> QED BY <1>3, <1>4, <1>5 DEF GuiIInv

LEMMA GuiInductive == GuiIInv /\ [GuiNext]_gvars => GuiIInv'
<1> SUFFICES ASSUME GuiIInv, [GuiNext]_gvars PROVE GuiIInv'
  OBVIOUS
<1> USE DemoHandlesAssumption, GuiAssumption
<1>0. CASE UNCHANGED gvars
  BY <1>0 DEF GuiIInv, GuiTypeOK, HandlesTypeOK, ButtonsShowLive, HandlesOf, SameProbe, gvars,
     guiVars, handleVars
<1> SUFFICES ASSUME GuiNext PROVE GuiIInv'
  BY <1>0
<1>g. script = "gui"
  BY DEF GuiNext
<1>k. HandlesOf(buttons, live)
  BY <1>g DEF GuiIInv, ButtonsShowLive, HandlesOf
<1>t. topId \in topId..MaxIds /\ opened \in opened..MaxOpens
  BY DEF GuiIInv, GuiTypeOK, HandlesTypeOK
<1>1. CASE OpenRefused
  <2>1. topId' \in topId..MaxIds /\ UNCHANGED <<script, live, opened, buttons, timers>>
    BY <1>1 DEF OpenRefused, GuiIInv, GuiTypeOK, HandlesTypeOK
  <2>2. opened' \in opened..MaxOpens
    BY <2>1 DEF GuiIInv, GuiTypeOK, HandlesTypeOK
  <2> QED BY <1>g, <1>k, <2>1, <2>2, FewerProbes
<1>2. CASE ProgramRefused
  <2>1. topId' \in topId..MaxIds /\ UNCHANGED <<script, live, buttons, timers>>
    BY <1>2 DEF ProgramRefused, GuiIInv, GuiTypeOK, HandlesTypeOK
  <2>2. opened' \in opened..MaxOpens
    BY <1>2 DEF ProgramRefused, CanOpen, NewHandle, GuiIInv, GuiTypeOK, HandlesTypeOK
  <2> QED BY <1>g, <1>k, <2>1, <2>2, FewerProbes
<1>3. CASE EnableProbe
  <2>p. PICK p \in Probe : p = [id |-> topId + 1, handle |-> NewHandle]
    BY <1>3 DEF EnableProbe, Probe, Handle, CanOpen, NewHandle, GuiIInv, GuiTypeOK, HandlesTypeOK
  <2> DEFINE held == live \cup {NewHandle}
             shown == buttons \cup {p}
  <2>1. p \in Probe /\ topId' = p.id /\ opened' = p.handle /\ script' = "gui"
        /\ topId' \in 0..MaxIds /\ opened' \in 0..MaxOpens
        /\ topId \in Nat /\ opened \in Nat /\ topId' = topId + 1 /\ opened' = opened + 1
        /\ live \subseteq 1..opened /\ held = live \cup {opened'}
    BY <1>3, <1>g, <2>p DEF EnableProbe, Probe, Handle, CanOpen, NewHandle, GuiIInv,
         GuiTypeOK, HandlesTypeOK
  <2>2. \A q \in buttons \cup timers :
           q \in Probe /\ q.id <= topId /\ q.handle <= opened /\ q.id # p.id /\ q.handle # p.handle
    BY <2>p DEF GuiIInv, GuiTypeOK, HandlesTypeOK, NewHandle, Probe, Handle
  <2>3. \A q, r \in shown \cup timers \cup {p} : q.id = r.id <=> q.handle = r.handle
    BY <2>2 DEF GuiIInv, SameProbe
  <2>4. /\ held \in SUBSET Handle /\ shown \in SUBSET Probe /\ timers \in SUBSET Probe
        /\ HandlesOf(shown, held)
    BY <1>g, <2>p, <2>1, <2>2 DEF GuiIInv, GuiTypeOK, HandlesTypeOK, ButtonsShowLive,
         HandlesOf, Handle, NewHandle
  <2>e. \/ live' = held /\ buttons' = shown /\ UNCHANGED timers
        \/ DtraceLoop(p, held, shown, timers)
    BY <1>3, <2>p DEF EnableProbe
  <2> HIDE DEF held, shown
  <2>5. /\ HandlesOf(buttons', live')
        /\ live' \subseteq held /\ buttons' \subseteq shown
        /\ timers' \subseteq timers \cup {p}
    <3>1. CASE live' = held /\ buttons' = shown /\ UNCHANGED timers
      BY <2>4, <3>1
    <3>2. CASE DtraceLoop(p, held, shown, timers)
      BY <2>3, <2>4, <3>2, DtraceLoopKeeps
    <3> QED BY <2>e, <3>1, <3>2
  <2> USE DEF held, shown
  <2>6. SameProbe'
    BY <2>3, <2>5 DEF SameProbe
  <2>7. ButtonsShowLive'
    <3>1. \A b, c \in shown : b.id = c.id => b = c
      BY <1>g, <2>2 DEF GuiIInv, ButtonsShowLive, HandlesOf
    <3> QED BY <2>3, <2>5, <3>1 DEF ButtonsShowLive, HandlesOf
  <2>8. GuiTypeOK'
    <3>1. \A q \in shown \cup timers : q \in Probe /\ q.id <= topId' /\ q.handle <= opened'
      <4>1. p \in Probe /\ p.id <= topId' /\ p.handle <= opened'
        BY <2>1
      <4>2. \A q \in buttons \cup timers : q.id \in Int /\ q.handle \in Int
        BY <2>2 DEF Probe, Handle
      <4>3. \A q \in buttons \cup timers : q \in Probe /\ q.id <= topId' /\ q.handle <= opened'
        BY <2>1, <2>2, <4>2
      <4> QED BY <4>1, <4>3
    <3>2. live' \subseteq 1..opened'
      BY <2>1, <2>5
    <3>3. HandlesTypeOK'
      BY <2>1, <3>2 DEF HandlesTypeOK
    <3> HIDE DEF shown
    <3>4. \A q \in buttons' \cup timers' : q \in Probe /\ q.id <= topId' /\ q.handle <= opened'
      BY <2>p, <2>5, <3>1 DEF shown
    <3>5. /\ buttons' \subseteq {q \in Probe : q.id <= topId' /\ q.handle <= opened'}
          /\ timers' \subseteq {q \in Probe : q.id <= topId' /\ q.handle <= opened'}
      BY <3>4
    <3> QED BY <2>1, <3>3, <3>5, Zenon DEF GuiTypeOK
  <2> QED BY <2>6, <2>7, <2>8 DEF GuiIInv
<1>4. ASSUME NEW p \in Probe, Timer(p) PROVE GuiIInv'
  <2>1. p \in timers /\ DtraceLoop(p, live, buttons, timers \ {p})
        /\ UNCHANGED <<script, topId, opened>>
    BY <1>4 DEF Timer
  <2>2. /\ HandlesOf(buttons', live')
        /\ live' \subseteq live /\ buttons' \subseteq buttons
        /\ timers' \subseteq timers
    <3>1. /\ live \in SUBSET Handle /\ buttons \in SUBSET Probe /\ timers \ {p} \in SUBSET Probe
          /\ HandlesOf(buttons, live)
      BY <1>g DEF GuiIInv, GuiTypeOK, HandlesTypeOK, ButtonsShowLive, HandlesOf, Handle
    <3>2. \A q, r \in buttons \cup (timers \ {p}) \cup {p} : q.id = r.id <=> q.handle = r.handle
      BY <2>1 DEF GuiIInv, SameProbe
    <3>3. PICK waiting \in SUBSET Probe : waiting = timers \ {p}
      BY <3>1
    <3>4. /\ HandlesOf(buttons', live')
          /\ live' \subseteq live /\ buttons' \subseteq buttons
          /\ timers' \subseteq waiting \cup {p}
      <4>1. DtraceLoop(p, live, buttons, waiting)
        BY <2>1, <3>3
      <4>2. \A q, r \in buttons \cup waiting \cup {p} : q.id = r.id <=> q.handle = r.handle
        BY <3>2, <3>3
      <4> QED BY <3>1, <4>1, <4>2, DtraceLoopKeeps
    <3> QED BY <2>1, <3>3, <3>4
  <2> QED BY <1>g, <1>t, <2>1, <2>2, FewerProbes
<1>5. ASSUME NEW p \in Probe, DisableProbe(p) PROVE GuiIInv'
  <2>1. p \in buttons /\ p.handle \in live
    BY <1>g, <1>5 DEF DisableProbe, GuiIInv, ButtonsShowLive, HandlesOf
  <2>2. live' = live \ {p.handle} /\ buttons' = {b \in buttons : b.id # p.id}
        /\ UNCHANGED <<script, topId, opened, timers>>
    BY <1>5, <2>1 DEF DisableProbe
  <2>3. \A b \in buttons : b.id # p.id <=> b.handle # p.handle
    BY <2>1 DEF GuiIInv, SameProbe
  <2>4. HandlesOf(buttons', live')
    BY <1>g, <2>2, <2>3 DEF GuiIInv, ButtonsShowLive, HandlesOf
  <2> QED BY <1>g, <1>t, <2>2, <2>4, FewerProbes
<1>6. CASE Armageddon
  <2>1. PICK done \in SUBSET buttons :
           /\ live' = live \ {b.handle : b \in done}
           /\ buttons' = buttons \ done
           /\ UNCHANGED <<script, topId, opened, timers>>
    BY <1>6 DEF Armageddon
  <2>2. HandlesOf(buttons', live')
    BY <1>g, <2>1 DEF GuiIInv, ButtonsShowLive, HandlesOf
  <2> QED BY <1>g, <1>t, <2>1, <2>2, FewerProbes
<1> QED BY <1>1, <1>2, <1>3, <1>4, <1>5, <1>6 DEF GuiNext

LEMMA GuiStarts == GuiInit => GuiIInv
BY DemoHandlesAssumption, GuiAssumption
DEF GuiInit, HandlesInit, GuiIInv, GuiTypeOK, HandlesTypeOK, ButtonsShowLive, HandlesOf, SameProbe

\* Every open handle of the graphical demo has its button, and every button an
\* open handle, however many probes there are (dtracegui.tcl:88, 134-135).
THEOREM ButtonsAreHandles == GuiSpec => []ButtonsShowLive
<1>1. GuiSpec => []GuiIInv
  BY GuiStarts, GuiInductive, PTL DEF GuiSpec, gvars
<1> QED BY <1>1, PTL DEF GuiIInv

\* "Disable all probes" leaves none (dtracegui.tcl:71-73).
THEOREM ArmageddonDisablesAll == GuiSpec => ArmageddonDisables
<1>1. ASSUME GuiIInv, GuiNext, Armageddon
      PROVE  buttons' = {} /\ live' = {}
  <2>0. script = "gui"
    BY <1>1 DEF GuiNext
  <2>1. PICK done \in SUBSET buttons :
           /\ done # buttons => \E b \in buttons \ done :
                b.handle \notin live \ {d.handle : d \in done}
           /\ live' = live \ {b.handle : b \in done}
           /\ buttons' = buttons \ done
    BY <1>1 DEF Armageddon
  <2>2. done = buttons
    BY <1>1, <2>0, <2>1 DEF GuiIInv, ButtonsShowLive, HandlesOf
  <2> QED BY <1>1, <2>0, <2>1, <2>2 DEF GuiIInv, ButtonsShowLive, HandlesOf
<1>2. GuiIInv /\ [GuiNext]_gvars
        => [Armageddon => buttons' = {} /\ live' = {}]_gvars
  BY <1>1
<1> QED BY <1>2, GuiStarts, GuiInductive, PTL DEF GuiSpec, ArmageddonDisables, gvars

\* Nobody gives the handle of a disabled probe, or a timer, to anybody again; and the
\* timer it had ends when it is due.
TimersRunOut ==
  \A h \in 1..opened : h \notin live =>
    /\ h \notin live'
    /\ \A p \in timers' : p.handle = h => p \in timers
    /\ \A p \in Probe : p.handle = h /\ Timer(p) => p \notin timers'

\* For any number of probes: once a probe is disabled, by its button, by "Disable all
\* probes" or by an error of process, its handle stays closed, no further timer is set
\* for it, and the timer that is still to come is the last one (dtraceLoop of
\* dtracegui.tcl).  Beside it TimersStop needs only that Tcl serves timers.
THEOREM TimersAlwaysRunOut == GuiSpec => [][TimersRunOut]_gvars
<1>1. ASSUME GuiIInv, GuiNext
      PROVE  TimersRunOut
  <2> SUFFICES ASSUME NEW h \in 1..opened, h \notin live
               PROVE  /\ h \notin live'
                      /\ \A p \in timers' : p.handle = h => p \in timers
                      /\ \A p \in Probe : p.handle = h /\ Timer(p) => p \notin timers'
    BY DEF TimersRunOut
  <2>0. opened \in Nat /\ h # NewHandle
    BY <1>1, DemoHandlesAssumption DEF GuiIInv, GuiTypeOK, HandlesTypeOK, NewHandle
  <2>1. ASSUME NEW p \in Probe, p.handle = h, Timer(p)
        PROVE  p \notin timers'
    BY <2>1 DEF Timer, DtraceLoop
  <2>2. ASSUME NEW p, NEW held, NEW shown, NEW waiting, DtraceLoop(p, held, shown, waiting)
        PROVE  live' \subseteq held /\ timers' \subseteq waiting \cup {p}
    BY <2>2 DEF DtraceLoop
  <2>3. CASE OpenRefused \/ ProgramRefused \/ Armageddon \/ \E p \in Probe : DisableProbe(p)
    <3>1. timers' = timers /\ live' \subseteq live \cup {NewHandle}
      BY <2>3 DEF OpenRefused, ProgramRefused, Armageddon, DisableProbe
    <3> QED BY <2>0, <2>1, <3>1
  <2>4. CASE EnableProbe
    <3> DEFINE q == [id |-> topId + 1, handle |-> NewHandle]
    <3>1. q.handle = NewHandle
      OBVIOUS
    <3>2. \/ live' = live \cup {NewHandle} /\ timers' = timers
          \/ DtraceLoop(q, live \cup {NewHandle}, buttons \cup {q}, timers)
      BY <2>4 DEF EnableProbe
    <3> HIDE DEF q
    <3>3. live' \subseteq live \cup {NewHandle} /\ timers' \subseteq timers \cup {q}
      BY <2>2, <3>2
    <3> QED BY <2>0, <2>1, <3>1, <3>3
  <2>5. CASE \E p \in Probe : Timer(p)
    <3>1. PICK p \in timers : DtraceLoop(p, live, buttons, timers \ {p})
      BY <2>5 DEF Timer
    <3>2. live' \subseteq live /\ timers' \subseteq timers
      BY <2>2, <3>1
    <3> QED BY <2>1, <3>2
  <2> QED BY <1>1, <2>3, <2>4, <2>5 DEF GuiNext
<1>2. GuiIInv /\ [GuiNext]_gvars => [TimersRunOut]_gvars
  BY <1>1
<1> QED BY <1>2, GuiStarts, GuiInductive, PTL DEF GuiSpec, gvars

(***************************************************************************)
(* The network demo.  The strengthening: the server only reads from a      *)
(* connection that is open, and a handle not opened yet has no callback.   *)
(***************************************************************************)
ReadsFromOpen == reading # NULL => sock[reading] = "open"
CallbackOfOpened == \A h \in Handle : h > opened => callback[h] = NULL

NetIInv ==
  /\ NetTypeOK /\ HandlePerConnection /\ OutputGoesHome
  /\ ReadsFromOpen /\ CallbackOfOpened

nvars == <<handleVars, netVars>>

LEMMA NetStarts == NetInit => NetIInv
BY DemoHandlesAssumption, NetAssumption
DEF NetInit, HandlesInit, NetIInv, NetTypeOK, HandlesTypeOK, HandlePerConnection,
    OutputGoesHome, ReadsFromOpen, CallbackOfOpened, Connected

\* Whatever leaves the connections and their handles alone, but for a connection
\* that is not read any more, keeps whose handle is whose.
LEMMA SameConnections ==
  ASSUME NetIInv, UNCHANGED <<handleVars, handles>>,
         \A s \in Socks : sock'[s] = "closed" <=> sock[s] = "closed"
  PROVE  HandlePerConnection'
BY DEF NetIInv, HandlePerConnection, Connected, handleVars

LEMMA NetInductive == NetIInv /\ [NetNext]_nvars => NetIInv'
<1> SUFFICES ASSUME NetIInv, [NetNext]_nvars PROVE NetIInv'
  OBVIOUS
<1> USE DemoHandlesAssumption, NetAssumption
<1>0. CASE UNCHANGED nvars
  BY <1>0 DEF NetIInv, NetTypeOK, HandlesTypeOK, HandlePerConnection, OutputGoesHome,
     ReadsFromOpen, CallbackOfOpened, Connected, nvars, netVars, handleVars
<1> SUFFICES ASSUME NetNext PROVE NetIInv'
  BY <1>0
<1>t. script = "net" /\ opened \in 0..MaxOpens /\ live \subseteq 1..opened
  BY DEF NetNext, NetIInv, NetTypeOK, HandlesTypeOK
<1>c. /\ \A s \in Socks : handles[s] # NULL <=> Connected(s)
      /\ \A h \in live : \E s \in Socks : handles[s] = h
      /\ \A s \in Socks : Connected(s) => handles[s] \in live
      /\ \A r, s \in Socks : Connected(r) /\ handles[r] = handles[s] => r = s
      /\ \A h \in live : callback[h] # NULL => handles[callback[h]] = h
  BY <1>t DEF NetIInv, HandlePerConnection, OutputGoesHome
<1>1. ASSUME NEW s \in Socks, Accept(s) PROVE NetIInv'
  <2>1. /\ opened' = opened + 1 /\ opened' \in 1..MaxOpens /\ script' = script
        /\ live' = live \cup {opened'} /\ opened' \notin live
        /\ UNCHANGED <<callback, loops, reading>>
        /\ reading = NULL /\ turn' = NULL
    BY <1>1, <1>t DEF Accept, CanOpen, NewHandle
  <2>2. /\ handles' \in [Socks -> 1..opened' \cup {NULL}]
        /\ handles'[s] = opened' /\ \A r \in Socks \ {s} : handles'[r] = handles[r]
    BY <1>1, <1>t, <2>1 DEF Accept, NetIInv, NetTypeOK, NewHandle
  <2>3. /\ sock[s] = "closed" /\ sock' \in [Socks -> {"closed", "open", "deaf"}]
        /\ sock'[s] = "open" /\ \A r \in Socks \ {s} : sock'[r] = sock[r]
    BY <1>1 DEF Accept, NetIInv, NetTypeOK
  <2>4. opened' # NULL /\ callback[opened'] = NULL
    BY <1>t, <2>1 DEF NetIInv, CallbackOfOpened, Handle
  <2>5. NetTypeOK'
    <3>1. live' \subseteq 1..opened'
      BY <1>t, <2>1
    <3> QED BY <1>t, <2>1, <2>2, <2>3, <3>1 DEF NetIInv, NetTypeOK, HandlesTypeOK
  <2>6. HandlePerConnection'
    <3>1. handles[s] = NULL
      BY <1>c, <2>3 DEF Connected
    <3>2. \A h \in live' : \E r \in Socks : handles'[r] = h
      <4>1. NULL \notin live
        <5>1. \A h \in live : h \in 1..MaxOpens
          BY <1>t
        <5> QED BY <5>1
      <4>2. \A h \in live : \E r \in Socks \ {s} : handles[r] = h
        BY <1>c, <3>1, <4>1
      <4>3. \A h \in live : \E r \in Socks : handles'[r] = h
        BY <2>2, <4>2
      <4> QED BY <2>1, <2>2, <4>3
    <3>3. \A r \in Socks : handles'[r] # NULL <=> sock'[r] # "closed"
      BY <1>c, <2>2, <2>3, <2>4 DEF Connected
    <3>4. \A r \in Socks : sock'[r] # "closed" => handles'[r] \in live'
      BY <1>c, <2>1, <2>2, <2>3 DEF Connected
    <3>5. \A q, r \in Socks : sock'[q] # "closed" /\ handles'[q] = handles'[r] => q = r
      BY <1>c, <2>1, <2>2, <2>3, <2>4 DEF Connected
    <3> QED BY <3>2, <3>3, <3>4, <3>5 DEF HandlePerConnection, Connected
  <2>7. OutputGoesHome'
    <3>1. \A h \in live : callback[h] # NULL => callback[h] # s
      BY <1>c, <1>t, <2>3 DEF Connected
    <3>2. \A h \in live : callback[h] # NULL => callback[h] \in Socks
      BY <1>t DEF NetIInv, NetTypeOK, Handle
    <3> QED BY <1>c, <2>1, <2>2, <2>4, <3>1, <3>2 DEF OutputGoesHome
  <2>8. ReadsFromOpen' /\ CallbackOfOpened'
    BY <1>t, <2>1 DEF NetIInv, ReadsFromOpen, CallbackOfOpened, Handle
  <2> QED BY <2>5, <2>6, <2>7, <2>8 DEF NetIInv
<1>2. ASSUME NEW s \in Socks, Receive(s) PROVE NetIInv'
  BY <1>2, SameConnections DEF Receive, NetIInv, NetTypeOK, HandlesTypeOK,
     OutputGoesHome, ReadsFromOpen, CallbackOfOpened, handleVars
<1>3. ASSUME NEW s \in Socks, Disconnected(s) PROVE NetIInv'
  <2>1. /\ reading = s /\ reading' = NULL /\ turn' = NULL
        /\ live' = live \ {handles[s]}
        /\ UNCHANGED <<script, opened, callback, loops>>
    BY <1>3 DEF Disconnected
  <2>2. /\ handles' \in [Socks -> 1..opened \cup {NULL}]
        /\ handles'[s] = NULL /\ \A r \in Socks \ {s} : handles'[r] = handles[r]
        /\ sock' \in [Socks -> {"closed", "open", "deaf"}]
        /\ sock'[s] = "closed" /\ \A r \in Socks \ {s} : sock'[r] = sock[r]
    BY <1>3 DEF Disconnected, NetIInv, NetTypeOK
  <2>3. Connected(s) /\ handles[s] \in live
    BY <1>c, <2>1 DEF NetIInv, ReadsFromOpen, Connected
  <2>4. NetTypeOK'
    BY <1>t, <2>1, <2>2 DEF NetIInv, NetTypeOK, HandlesTypeOK
  <2>5. HandlePerConnection'
    BY <1>c, <1>t, <2>1, <2>2, <2>3 DEF HandlePerConnection, Connected
  <2>6. OutputGoesHome'
    <3>1. \A h \in live' : callback[h] # NULL => callback[h] \in Socks \ {s}
      BY <1>c, <1>t, <2>1 DEF NetIInv, NetTypeOK, Handle
    <3> QED BY <1>c, <2>1, <2>2, <3>1 DEF OutputGoesHome
  <2>7. ReadsFromOpen' /\ CallbackOfOpened'
    BY <2>1 DEF NetIInv, ReadsFromOpen, CallbackOfOpened
  <2> QED BY <2>4, <2>5, <2>6, <2>7 DEF NetIInv
<1>4. ASSUME NEW s \in Socks, ScriptLine(s) PROVE NetIInv'
  BY <1>4, SameConnections DEF ScriptLine, NetIInv, NetTypeOK, HandlesTypeOK,
     OutputGoesHome, ReadsFromOpen, CallbackOfOpened, handleVars
\* What both ends of GO do to the callback of the connection's own handle.
<1>h. ASSUME NEW s \in Socks, reading = s, UNCHANGED <<handleVars, handles>>,
             \/ callback' = [callback EXCEPT ![handles[s]] = s]
             \/ UNCHANGED callback
      PROVE  /\ callback' \in [Handle -> Socks \cup {NULL}]
             /\ OutputGoesHome' /\ CallbackOfOpened'
  <2>1. Connected(s) /\ handles[s] \in live /\ handles[s] \in Handle /\ handles[s] <= opened
    <3>1. sock[s] = "open"
      BY <1>h DEF NetIInv, ReadsFromOpen
    <3>2. Connected(s) /\ handles[s] \in live
      BY <1>c, <3>1 DEF Connected
    <3>3. \A h \in live : h \in Handle /\ h <= opened
      BY <1>t DEF Handle
    <3> QED BY <3>2, <3>3
  <2>2. callback \in [Handle -> Socks \cup {NULL}]
    BY DEF NetIInv, NetTypeOK
  <2>3. callback' \in [Handle -> Socks \cup {NULL}]
    BY <1>h, <2>1, <2>2
  <2>4. \A h \in Handle : callback'[h] = callback[h] \/ (h = handles[s] /\ callback'[h] = s)
    BY <1>h, <2>1, <2>2
  <2>5. OutputGoesHome'
    <3>1. \A h \in live : h \in Handle
      BY <1>t DEF Handle
    <3> QED BY <1>h, <1>c, <2>4, <3>1 DEF OutputGoesHome, handleVars
  <2>6. CallbackOfOpened'
    BY <1>h, <1>t, <2>1, <2>4 DEF CallbackOfOpened, NetIInv, handleVars, Handle
  <2> QED BY <2>3, <2>5, <2>6
<1>5. ASSUME NEW s \in Socks, GoRefused(s) PROVE NetIInv'
  <2>1. /\ reading = s /\ reading' = NULL /\ turn' = NULL
        /\ sock' = [sock EXCEPT ![s] = "deaf"]
        /\ UNCHANGED <<handleVars, handles, loops>>
        /\ callback' \in [Handle -> Socks \cup {NULL}]
        /\ OutputGoesHome' /\ CallbackOfOpened'
    BY <1>5, <1>h DEF GoRefused
  <2>2. sock[s] = "open" /\ sock \in [Socks -> {"closed", "open", "deaf"}]
    BY <2>1 DEF NetIInv, NetTypeOK, ReadsFromOpen
  <2>3. HandlePerConnection'
    BY <2>1, <2>2, SameConnections
  <2>4. NetTypeOK'
    BY <2>1, <2>2 DEF NetIInv, NetTypeOK, HandlesTypeOK, handleVars
  <2> QED BY <2>1, <2>3, <2>4 DEF NetIInv, ReadsFromOpen
<1>6. ASSUME NEW s \in Socks, GoStarts(s) PROVE NetIInv'
  <2>1. /\ reading = s /\ reading' = NULL /\ turn' = s
        /\ loops[s] < MaxLoops /\ loops' = [loops EXCEPT ![s] = @ + 1]
        /\ UNCHANGED <<handleVars, handles, sock>>
        /\ callback' \in [Handle -> Socks \cup {NULL}]
        /\ OutputGoesHome' /\ CallbackOfOpened'
    BY <1>6, <1>h DEF GoStarts
  <2>2. HandlePerConnection'
    BY <2>1, SameConnections
  <2>3. loops' \in [Socks -> 0..MaxLoops]
    BY <2>1 DEF NetIInv, NetTypeOK
  <2>4. NetTypeOK'
    BY <2>1, <2>3 DEF NetIInv, NetTypeOK, HandlesTypeOK, handleVars
  <2> QED BY <2>1, <2>2, <2>4 DEF NetIInv, ReadsFromOpen
<1>7. ASSUME NEW s \in Socks, Loop(s) PROVE NetIInv'
  BY <1>7, SameConnections DEF Loop, NetIInv, NetTypeOK, HandlesTypeOK,
     OutputGoesHome, ReadsFromOpen, CallbackOfOpened, handleVars
<1> QED BY <1>1, <1>2, <1>3, <1>4, <1>5, <1>6, <1>7 DEF NetNext

\* No open handle of the server is without a connection, and no connection without
\* a handle, for any number of names (netdemo.tcl:7, 18-19).
THEOREM ConnectionsOwnHandles == NetSpec => []HandlePerConnection
<1>1. NetSpec => []NetIInv
  BY NetStarts, NetInductive, PTL DEF NetSpec, nvars
<1> QED BY <1>1, PTL DEF NetIInv

\* A handle only ever writes to the connection it was opened for, however often
\* its channel's name is given again (netdemo.tcl:24, 34-36).
THEOREM TracesGoHome == NetSpec => []OutputGoesHome
<1>1. NetSpec => []NetIInv
  BY NetStarts, NetInductive, PTL DEF NetSpec, nvars
<1> QED BY <1>1, PTL DEF NetIInv

\* A connection that is traced has a loop that serves it.
TracedHasLoop == \A s \in Socks : Traced(s) => loops[s] > 0

LEMMA LoopsStay == NetIInv /\ TracedHasLoop /\ [NetNext]_nvars => TracedHasLoop'
<1> SUFFICES ASSUME NetIInv, TracedHasLoop, [NetNext]_nvars, NEW r \in Socks, Traced(r)'
             PROVE  loops'[r] > 0
  BY DEF TracedHasLoop
<1> USE NetAssumption
<1>0. CASE UNCHANGED nvars
  BY <1>0 DEF TracedHasLoop, Traced, nvars, netVars
<1> SUFFICES ASSUME script = "net", NEW s \in Socks,
                    \/ Accept(s) \/ Receive(s) \/ Disconnected(s) \/ ScriptLine(s)
                    \/ GoRefused(s) \/ GoStarts(s) \/ Loop(s)
             PROVE  loops'[r] > 0
  BY <1>0 DEF NetNext
<1>t. /\ handles \in [Socks -> 1..opened \cup {NULL}] /\ sock \in [Socks -> {"closed", "open", "deaf"}]
      /\ callback \in [Handle -> Socks \cup {NULL}] /\ loops \in [Socks -> 0..MaxLoops]
      /\ live \subseteq 1..opened /\ opened \in 0..MaxOpens
      /\ sock'[r] = "open" /\ callback'[handles'[r]] = r
  BY DEF NetIInv, NetTypeOK, HandlesTypeOK, Traced
<1>1. CASE Accept(s)
  <2>1. CASE r = s
    <3>1. handles'[r] = opened + 1 /\ callback' = callback
      BY <1>1, <1>t, <2>1 DEF Accept, NewHandle
    <3>2. opened + 1 \in Handle /\ opened + 1 > opened
      BY <1>1, <1>t, DemoHandlesAssumption DEF Accept, CanOpen, Handle
    <3>3. callback'[handles'[r]] = NULL
      BY <3>1, <3>2 DEF NetIInv, CallbackOfOpened
    <3> QED BY <1>t, <3>3
  <2>2. CASE r # s
    <3>1. /\ sock'[r] = sock[r] /\ handles'[r] = handles[r]
          /\ callback' = callback /\ loops' = loops
      BY <1>1, <1>t, <2>2 DEF Accept
    <3> QED BY <1>t, <3>1 DEF TracedHasLoop, Traced
  <2> QED BY <2>1, <2>2
<1>2. CASE Receive(s) \/ ScriptLine(s) \/ Loop(s)
  <2>1. UNCHANGED <<sock, handles, callback, loops>>
    BY <1>2 DEF Receive, ScriptLine, Loop
  <2> QED BY <1>t, <2>1 DEF TracedHasLoop, Traced
<1>3. CASE Disconnected(s)
  <2>1. r # s
    BY <1>3, <1>t DEF Disconnected
  <2>2. /\ sock'[r] = sock[r] /\ handles'[r] = handles[r]
        /\ callback' = callback /\ loops' = loops
    BY <1>3, <1>t, <2>1 DEF Disconnected
  <2> QED BY <1>t, <2>2 DEF TracedHasLoop, Traced
<1>4. CASE GoRefused(s) \/ GoStarts(s)
  <2>1. CASE r = s
    <3>1. ~ GoRefused(s)
      BY <1>t, <2>1 DEF GoRefused
    <3>2. loops'[s] = loops[s] + 1 /\ loops[s] \in Nat
      BY <1>4, <1>t, <3>1 DEF GoStarts
    <3> QED BY <2>1, <3>2
  <2>2. CASE r # s
    <3>1. /\ sock'[r] = sock[r] /\ handles' = handles /\ loops'[r] = loops[r]
          /\ callback' = callback \/ callback' = [callback EXCEPT ![handles[s]] = s]
      BY <1>4, <1>t, <2>2 DEF GoRefused, GoStarts
    <3>2. Connected(r) /\ script = "net"
      BY <1>t, <3>1 DEF Connected
    <3>3. handles[r] # handles[s] /\ handles[r] \in Handle
      BY <1>t, <2>2, <3>2, DemoHandlesAssumption DEF NetIInv, HandlePerConnection, Handle
    <3>4. callback'[handles[r]] = callback[handles[r]]
      BY <1>t, <3>1, <3>3
    <3> QED BY <1>t, <3>1, <3>4 DEF TracedHasLoop, Traced
  <2> QED BY <2>1, <2>2
<1> QED BY <1>1, <1>2, <1>3, <1>4

\* However often names of channels come back, a connection whose tracing was started
\* has a loop that is set again and again (netdemo.tcl:26, 38-41), and a new connection is
\* never taken for one that is traced.  Whether that loop gets its turn, while gets may
\* block the server, is TracedIsServed.
THEOREM TracedAlwaysHasLoop == NetSpec => []TracedHasLoop
<1>1. NetSpec => []NetIInv
  BY NetStarts, NetInductive, PTL DEF NetSpec, nvars
<1>2. NetInit => TracedHasLoop
  BY DEF NetInit, TracedHasLoop, Traced
<1> QED BY <1>1, <1>2, LoopsStay, PTL DEF NetSpec, nvars

-----------------------------------------------------------------------------
(* The simple demo                                                         *)

\* Tracing began with the editor gone, and long after the handle was opened.
DInv ==
  /\ pending \in Nat /\ failed \in Nat /\ opened \in Nat
  /\ pending + failed = IF tracing THEN 1 ELSE 0
  /\ tracing => ~ editor
  /\ opened = 0 => ~ tracing /\ ~ editor

LEMMA DInvKeeps ==
  ASSUME DInv, DemoNext
  PROVE  DInv'
<1>1. CASE Start
  BY <1>1 DEF Start, NewHandle, DInv
<1>2. CASE EnableProgram
  BY <1>2 DEF EnableProgram, handleVars, DInv
<1>3. CASE Go
  <2>1. ~ tracing /\ opened \in Nat /\ (opened = 0 => ~ editor)
    BY <1>3 DEF Go, DInv
  <2> QED
    BY <1>3, <2>1 DEF Go, Serve, handleVars, DInv
<1>4. CASE TimerOfDemo
  <2>1. tracing /\ pending - 1 \in Nat /\ opened # 0
    BY <1>4 DEF TimerOfDemo, DInv
  <2> QED
    BY <1>4, <2>1 DEF TimerOfDemo, Serve, handleVars, DInv
<1> QED
  BY <1>1, <1>2, <1>3, <1>4 DEF DemoNext

\* However often the buttons are pressed, one loop serves the handle, or none is
\* left after an error.
THEOREM DemoHasOneLoop == DemoSpec => []OneLoop
<1>1. DemoInit => DInv
  BY DEF DemoInit, HandlesInit, DInv
<1>2. DInv /\ [DemoNext]_<<handleVars, demoVars>> => DInv'
  <2> SUFFICES ASSUME DInv, [DemoNext]_<<handleVars, demoVars>>
               PROVE  DInv'
    OBVIOUS
  <2>1. CASE UNCHANGED <<handleVars, demoVars>>
    BY <2>1 DEF handleVars, demoVars, DInv
  <2> QED
    BY <2>1, DInvKeeps
<1>3. DInv => OneLoop
  BY DEF DInv, OneLoop
<1> QED
  BY <1>1, <1>2, <1>3, PTL DEF DemoSpec

=============================================================================
