-------------------------- MODULE DtraceLifecycleProofs -----------------------
(***************************************************************************)
(* Proofs about DtraceLifecycle, for every number of interpreters and      *)
(* handles.  Most rest on one inductive invariant, LInv: what a walk over  *)
(* tables has still to do (WalkSound), what is open in tables nobody walks *)
(* (TablesOpen), and which tables an exit handler will still come to       *)
(* (HandlersCover).  A second one, QInv, says of a process with a single   *)
(* interpreter that its exit is the only walk, and meets nothing twice.    *)
(***************************************************************************)
EXTENDS DtraceLifecycle, SequenceTheorems, FiniteSetTheorems, TLAPS

\* Tables hold handles of their own, and none once they are gone.
TablesApart ==
  /\ \A i \in Interps : table[i] \subseteq used
  /\ \A i \in Interps : data[i] # "attached" => table[i] = {}
  /\ \A i, j \in Interps : i # j => table[i] \cap table[j] = {}

\* Every open library handle is in a table that is attached.
OpenInTables ==
  \A h \in lib_open : \E i \in Interps : h \in table[i] /\ data[i] = "attached"

\* A walk has still to come to all that is open in its tables, and to nothing else's.
WalkSound == Alive =>
  \A t \in Interps : cleaning[t] # Nobody =>
    /\ data[cleaning[t]] # "none"
    /\ data[cleaning[t]] = "attached" =>
         /\ left[t] \subseteq table[cleaning[t]]
         /\ table[cleaning[t]] \cap lib_open \subseteq left[t]

\* Handles in tables that nobody walks are open.
TablesOpen == Alive =>
  \A i \in Interps : data[i] = "attached" /\ (\A t \in Interps : cleaning[t] # i)
                       => table[i] \subseteq lib_open

\* Until exit, a thread walks its own tables, between two commands.
OwnWalks == process = "running" =>
  \A t \in Interps : cleaning[t] # Nobody => cleaning[t] = t /\ inside[t] = Nobody

\* Until exit, the handle a command works on is in its interpreter's table, if it is
\* still open.
InsideOpen == process = "running" =>
  \A t \in Interps : inside[t] \in lib_open => inside[t] \in table[t]

\* The ids of handles are not reused.
InsideUsed == \A t \in Interps : inside[t] # Nobody => inside[t] \in used

\* Attached tables have an exit handler to come, or under way.
HandlersCover == Alive =>
  \A i \in Interps : data[i] = "attached" =>
    \/ \E k \in DOMAIN handlers : handlers[k] = i
    \/ exiter # Nobody /\ cleaning[exiter] = i

ExitState ==
  /\ process = "running" => exiter = Nobody
  /\ process = "exiting" => exiter # Nobody
  /\ process = "exited" => lib_open = {}

LInv ==
  /\ TypeOK /\ TablesApart /\ OpenInTables /\ WalkSound /\ TablesOpen
  /\ OwnWalks /\ InsideOpen /\ InsideUsed /\ HandlersCover /\ ExitState

-----------------------------------------------------------------------------
(* Sequences with an element more or less at the front.                    *)

LEMMA HeadOrTail ==
  ASSUME NEW S, NEW s \in Seq(S), s # <<>>
  PROVE  /\ Head(s) \in S /\ Tail(s) \in Seq(S)
         /\ \A k \in DOMAIN s :
              s[k] = Head(s) \/ \E m \in DOMAIN Tail(s) : Tail(s)[m] = s[k]
<1> DEFINE r == Tail(s)
<1>1. /\ Head(s) \in S /\ r \in Seq(S) /\ Len(r) = Len(s) - 1
      /\ \A k \in 1..Len(r) : r[k] = s[k + 1]
  BY HeadTailProperties
<1>2. Head(s) = s[1] /\ Len(s) \in Nat /\ DOMAIN s = 1..Len(s) /\ DOMAIN r = 1..Len(r)
  BY <1>1
<1> HIDE DEF r
<1>3. ASSUME NEW k \in DOMAIN s, k # 1
      PROVE  k - 1 \in DOMAIN r /\ r[k - 1] = s[k]
  BY <1>1, <1>2, <1>3
<1> QED
  BY <1>1, <1>2, <1>3 DEF r

-----------------------------------------------------------------------------
LEMMA LoadKeeps ==
  ASSUME LInv, NEW t \in Interps, Load(t)
  PROVE  LInv'
<1>p. /\ handlers' \in Seq(Interps)
      /\ \E k \in DOMAIN handlers' : handlers'[k] = t
      /\ \A k \in DOMAIN handlers : \E m \in DOMAIN handlers' : handlers'[m] = handlers[k]
  <2>1. handlers \in Seq(Interps) /\ handlers' = <<t>> \o handlers
    BY DEF LInv, TypeOK, Load
  <2>2. PICK q : q = <<t>>
    OBVIOUS
  <2>3. PICK r : r = handlers'
    OBVIOUS
  <2>4. PICK s : s = handlers
    OBVIOUS
  <2>5. r = q \o s /\ s \in Seq(Interps) /\ t \in Interps
    BY <2>1, <2>2, <2>3, <2>4
  <2>6. q \in Seq(Interps) /\ Len(q) = 1 /\ q[1] = t
    BY <2>2
  <2>7. /\ r \in Seq(Interps) /\ Len(r) = 1 + Len(s)
        /\ \A k \in 1..(1 + Len(s)) : r[k] = IF k <= 1 THEN q[k] ELSE s[k - 1]
    BY <2>5, <2>6, ConcatProperties
  <2>8. Len(s) \in Nat /\ DOMAIN s = 1..Len(s) /\ DOMAIN r = 1..(1 + Len(s))
    BY <2>5, <2>7
  <2>9. 1 \in DOMAIN r /\ r[1] = t
    BY <2>6, <2>7, <2>8
  <2>10. ASSUME NEW k \in DOMAIN s
         PROVE  k + 1 \in DOMAIN r /\ r[k + 1] = s[k]
    BY <2>7, <2>8
  <2> QED
    BY <2>3, <2>4, <2>7, <2>9, <2>10
<1> USE LifecycleAssumption DEF LInv, Load, deinit, exit, Alive
<1>1. TypeOK'
  <2>1. data' \in [Interps -> {"none", "attached", "freed", "deleted"}]
    BY DEF TypeOK
  <2>2. handlers' \in Seq(Interps)
    BY <1>p DEF TypeOK
  <2>3. table' \in [Interps -> SUBSET Handles]
    BY DEF TypeOK
  <2>4. lib_open' \subseteq used' /\ used' \subseteq Handles
    BY DEF TypeOK
  <2>5. inside' \in [Interps -> Handles \cup {Nobody}]
    BY DEF TypeOK
  <2>6. cleaning' \in [Interps -> Interps \cup {Nobody}]
    BY DEF TypeOK
  <2>7. left' \in [Interps -> SUBSET Handles]
    BY DEF TypeOK
  <2>8. cell' \in [Interps -> {"none", "freed"}]
    BY DEF TypeOK
  <2>9. exiter' \in Interps \cup {Nobody} /\ at_exit' \subseteq Handles
    BY DEF TypeOK
  <2>10. process' \in {"running", "exiting", "exited", "freed twice", "raced", "used freed"}
    BY DEF TypeOK
  <2> QED
    BY <2>1, <2>2, <2>3, <2>4, <2>5, <2>6, <2>7, <2>8, <2>9, <2>10 DEF TypeOK
<1>2. TablesApart'
  BY DEF TablesApart, TypeOK
<1>3. OpenInTables'
  BY DEF OpenInTables, TypeOK
<1>4. WalkSound'
  BY DEF WalkSound, TypeOK
<1>5. TablesOpen'
  BY DEF TablesOpen, TypeOK, TablesApart
<1>6. OwnWalks'
  BY DEF OwnWalks, TypeOK
<1>7. InsideOpen'
  BY DEF InsideOpen, TypeOK
<1>8. HandlersCover'
  <2> SUFFICES ASSUME NEW i \in Interps, data'[i] = "attached"
               PROVE  \/ \E k \in DOMAIN handlers' : handlers'[k] = i
                      \/ exiter # Nobody /\ cleaning[exiter] = i
    BY DEF HandlersCover
  <2>1. CASE i = t
    BY <1>p, <2>1
  <2>2. CASE i # t
    <3>1. data[i] = "attached"
      BY <2>2 DEF TypeOK
    <3>2. \/ \E k \in DOMAIN handlers : handlers[k] = i
          \/ exiter # Nobody /\ cleaning[exiter] = i
      BY <3>1 DEF HandlersCover
    <3>3. CASE \E k \in DOMAIN handlers : handlers[k] = i
      <4> HIDE DEF LInv, Load
      <4>1. PICK k \in DOMAIN handlers : handlers[k] = i
        BY <3>3
      <4>2. PICK m \in DOMAIN handlers' : handlers'[m] = handlers[k]
        BY <1>p
      <4> QED
        BY <4>1, <4>2
    <3> QED
      BY <3>2, <3>3
  <2> QED
    BY <2>1, <2>2
<1>9. ExitState'
  BY DEF ExitState, TypeOK
<1>10. InsideUsed'
  BY DEF InsideUsed, TypeOK
<1> QED
  BY <1>1, <1>2, <1>3, <1>4, <1>5, <1>6, <1>7, <1>8, <1>9, <1>10

LEMMA OpenKeeps ==
  ASSUME LInv, NEW t \in Interps, Open(t)
  PROVE  LInv'
<1> USE LifecycleAssumption DEF LInv, Open, deinit, exit, Scripting, Safe, Alive
<1>h. PICK h \in Handles \ used :
        /\ table' = [table EXCEPT ![t] = @ \cup {h}]
        /\ lib_open' = lib_open \cup {h} /\ used' = used \cup {h}
  OBVIOUS
<1>s. \A i \in Interps : table'[i] = IF i = t THEN table[i] \cup {h} ELSE table[i]
  BY <1>h DEF TypeOK
<1>1. TypeOK'
  <2>1. data' \in [Interps -> {"none", "attached", "freed", "deleted"}]
    BY DEF TypeOK
  <2>2. handlers' \in Seq(Interps)
    BY DEF TypeOK
  <2>3. table' \in [Interps -> SUBSET Handles]
    <3>1. table \in [Interps -> SUBSET Handles]
      BY DEF TypeOK
    <3>2. h \in Handles /\ table' = [table EXCEPT ![t] = @ \cup {h}]
      BY <1>h
    <3> HIDE DEF LInv, Open
    <3> QED
      BY <3>1, <3>2
  <2>4. lib_open' \subseteq used' /\ used' \subseteq Handles
    BY <1>h DEF TypeOK
  <2>5. inside' \in [Interps -> Handles \cup {Nobody}]
    BY DEF TypeOK
  <2>6. cleaning' \in [Interps -> Interps \cup {Nobody}]
    BY DEF TypeOK
  <2>7. left' \in [Interps -> SUBSET Handles]
    BY DEF TypeOK
  <2>8. cell' \in [Interps -> {"none", "freed"}]
    BY DEF TypeOK
  <2>9. exiter' \in Interps \cup {Nobody} /\ at_exit' \subseteq Handles
    BY DEF TypeOK
  <2>10. process' \in {"running", "exiting", "exited", "freed twice", "raced", "used freed"}
    BY DEF TypeOK
  <2> QED
    BY <2>1, <2>2, <2>3, <2>4, <2>5, <2>6, <2>7, <2>8, <2>9, <2>10 DEF TypeOK
<1>2. TablesApart'
  <2>1. \A i \in Interps : table'[i] \subseteq used'
    BY <1>h, <1>s DEF TablesApart
  <2>2. \A i \in Interps : data'[i] # "attached" => table'[i] = {}
    BY <1>s DEF TablesApart
  <2>3. ASSUME NEW i \in Interps, NEW j \in Interps, i # j, NEW g \in table'[i], g \in table'[j]
        PROVE  FALSE
    BY <1>h, <1>s, <2>3 DEF TablesApart
  <2> QED
    BY <2>1, <2>2, <2>3 DEF TablesApart
<1>3. OpenInTables'
  <2> SUFFICES ASSUME NEW g \in lib_open'
               PROVE  \E i \in Interps : g \in table'[i] /\ data[i] = "attached"
    BY DEF OpenInTables
  <2>1. CASE g = h
    BY <2>1, <1>s
  <2>2. CASE g # h
    BY <2>2, <1>h, <1>s DEF OpenInTables
  <2> QED
    BY <2>1, <2>2
<1>4. WalkSound'
  <2> SUFFICES ASSUME NEW s \in Interps, cleaning[s] # Nobody
               PROVE  /\ data[cleaning[s]] # "none"
                      /\ data[cleaning[s]] = "attached" =>
                           /\ left[s] \subseteq table'[cleaning[s]]
                           /\ table'[cleaning[s]] \cap lib_open' \subseteq left[s]
    BY DEF WalkSound
  <2>1. cleaning[s] \in Interps /\ cleaning[s] # t /\ table'[cleaning[s]] = table[cleaning[s]]
    BY <1>s DEF TypeOK
  <2>2. h \notin table[cleaning[s]]
    BY <1>h, <2>1 DEF TablesApart
  <2> QED
    BY <1>h, <2>1, <2>2 DEF WalkSound
<1>5. TablesOpen'
  BY <1>h, <1>s DEF TablesOpen
<1>6. OwnWalks'
  BY DEF OwnWalks, TypeOK
<1>7. InsideOpen'
  <2> SUFFICES ASSUME process = "running", NEW i \in Interps, inside[i] \in lib_open'
               PROVE  inside[i] \in table'[i]
    BY DEF InsideOpen
  <2>1. h # Nobody /\ h \notin used
    BY <1>h
  <2>2. inside[i] # h
    BY <2>1 DEF InsideUsed
  <2>3. inside[i] \in table[i]
    BY <1>h, <2>2 DEF InsideOpen
  <2> QED
    BY <1>s, <2>3
<1>8. HandlersCover'
  BY DEF HandlersCover, TypeOK
<1>9. ExitState'
  BY DEF ExitState, TypeOK
<1>10. InsideUsed'
  BY <1>h DEF InsideUsed
<1> QED
  BY <1>1, <1>2, <1>3, <1>4, <1>5, <1>6, <1>7, <1>8, <1>9, <1>10

LEMMA CloseKeeps ==
  ASSUME LInv, NEW t \in Interps, Close(t)
  PROVE  LInv'
<1> USE LifecycleAssumption DEF LInv, Close, deinit, exit, Scripting, Safe, Alive
<1>h. PICK h \in table[t] :
        /\ table' = [table EXCEPT ![t] = @ \ {h}]
        /\ lib_open' = lib_open \ {h}
  OBVIOUS
<1>s. \A i \in Interps : table'[i] = IF i = t THEN table[i] \ {h} ELSE table[i]
  BY <1>h DEF TypeOK
<1>1. TypeOK'
  <2>1. data' \in [Interps -> {"none", "attached", "freed", "deleted"}]
    BY DEF TypeOK
  <2>2. handlers' \in Seq(Interps)
    BY DEF TypeOK
  <2>3. table' \in [Interps -> SUBSET Handles]
    BY <1>h DEF TypeOK
  <2>4. lib_open' \subseteq used' /\ used' \subseteq Handles
    BY <1>h DEF TypeOK
  <2>5. inside' \in [Interps -> Handles \cup {Nobody}]
    BY DEF TypeOK
  <2>6. cleaning' \in [Interps -> Interps \cup {Nobody}]
    BY DEF TypeOK
  <2>7. left' \in [Interps -> SUBSET Handles]
    BY DEF TypeOK
  <2>8. cell' \in [Interps -> {"none", "freed"}]
    BY DEF TypeOK
  <2>9. exiter' \in Interps \cup {Nobody} /\ at_exit' \subseteq Handles
    BY DEF TypeOK
  <2>10. process' \in {"running", "exiting", "exited", "freed twice", "raced", "used freed"}
    BY DEF TypeOK
  <2> QED
    BY <2>1, <2>2, <2>3, <2>4, <2>5, <2>6, <2>7, <2>8, <2>9, <2>10 DEF TypeOK
<1>2. TablesApart'
  <2>1. \A i \in Interps : table'[i] \subseteq table[i]
    BY <1>s
  <2> QED
    BY <2>1 DEF TablesApart
<1>3. OpenInTables'
  BY DEF OpenInTables, TypeOK
<1>4. WalkSound'
  BY DEF WalkSound, TypeOK
<1>5. TablesOpen'
  <2> SUFFICES ASSUME NEW i \in Interps, data[i] = "attached",
                      \A s \in Interps : cleaning[s] # i,
                      NEW g \in table'[i]
               PROVE  g \in lib_open'
    BY DEF TablesOpen
  <2>1. g \in lib_open
    BY <1>s DEF TablesOpen
  <2>2. g # h
    <3>1. CASE i = t
      BY <1>s, <3>1
    <3>2. CASE i # t
      <4>1. table[i] \cap table[t] = {} /\ g \in table[i] /\ h \in table[t]
        BY <1>h, <1>s, <3>2 DEF TablesApart
      <4> QED
        BY <4>1
    <3> QED
      BY <3>1, <3>2
  <2> QED
    BY <1>h, <2>1, <2>2
<1>6. OwnWalks'
  BY DEF OwnWalks, TypeOK
<1>7. InsideOpen'
  BY DEF InsideOpen, TypeOK, TablesApart
<1>8. HandlersCover'
  BY DEF HandlersCover, TypeOK
<1>9. ExitState'
  BY DEF ExitState, TypeOK
<1>10. InsideUsed'
  BY DEF InsideUsed, TypeOK
<1> QED
  BY <1>1, <1>2, <1>3, <1>4, <1>5, <1>6, <1>7, <1>8, <1>9, <1>10

LEMMA RacesKeeps ==
  ASSUME LInv, NEW t \in Interps, Races(t)
  PROVE  LInv'
<1> USE LifecycleAssumption DEF LInv, Races, deinit, exit, Scripting, Alive
<1>1. TypeOK'
  BY DEF TypeOK
<1>2. TablesApart'
  BY DEF TablesApart, TypeOK
<1>3. OpenInTables'
  BY DEF OpenInTables, TypeOK
<1>4. WalkSound'
  BY DEF WalkSound, TypeOK
<1>5. TablesOpen'
  BY DEF TablesOpen, TypeOK
<1>6. OwnWalks'
  BY DEF OwnWalks, TypeOK
<1>7. InsideOpen'
  BY DEF InsideOpen, TypeOK
<1>8. HandlersCover'
  BY DEF HandlersCover, TypeOK
<1>9. ExitState'
  BY DEF ExitState, TypeOK
<1>10. InsideUsed'
  BY DEF InsideUsed, TypeOK
<1> QED
  BY <1>1, <1>2, <1>3, <1>4, <1>5, <1>6, <1>7, <1>8, <1>9, <1>10

LEMMA EnterKeeps ==
  ASSUME LInv, NEW t \in Interps, Enter(t)
  PROVE  LInv'
<1> USE LifecycleAssumption DEF LInv, Enter, deinit, exit, Ready, Scripting, Alive
<1>1. TypeOK'
  <2>1. data' \in [Interps -> {"none", "attached", "freed", "deleted"}]
    BY DEF TypeOK
  <2>2. handlers' \in Seq(Interps)
    BY DEF TypeOK
  <2>3. table' \in [Interps -> SUBSET Handles]
    BY DEF TypeOK
  <2>4. lib_open' \subseteq used' /\ used' \subseteq Handles
    BY DEF TypeOK
  <2>5. inside' \in [Interps -> Handles \cup {Nobody}]
    <3>1. inside \in [Interps -> Handles \cup {Nobody}] /\ table[t] \subseteq Handles
      BY DEF TypeOK
    <3>2. PICK h \in table[t] : inside' = [inside EXCEPT ![t] = h]
      OBVIOUS
    <3> HIDE DEF LInv, Enter
    <3> QED
      BY <3>1, <3>2
  <2>6. cleaning' \in [Interps -> Interps \cup {Nobody}]
    BY DEF TypeOK
  <2>7. left' \in [Interps -> SUBSET Handles]
    BY DEF TypeOK
  <2>8. cell' \in [Interps -> {"none", "freed"}]
    BY DEF TypeOK
  <2>9. exiter' \in Interps \cup {Nobody} /\ at_exit' \subseteq Handles
    BY DEF TypeOK
  <2>10. process' \in {"running", "exiting", "exited", "freed twice", "raced", "used freed"}
    BY DEF TypeOK
  <2> QED
    BY <2>1, <2>2, <2>3, <2>4, <2>5, <2>6, <2>7, <2>8, <2>9, <2>10 DEF TypeOK
<1>2. TablesApart'
  BY DEF TablesApart, TypeOK
<1>3. OpenInTables'
  BY DEF OpenInTables, TypeOK
<1>4. WalkSound'
  BY DEF WalkSound, TypeOK
<1>5. TablesOpen'
  BY DEF TablesOpen, TypeOK
<1>6. OwnWalks'
  BY DEF OwnWalks, TypeOK
<1>7. InsideOpen'
  <2>1. PICK h \in table[t] : inside' = [inside EXCEPT ![t] = h]
    OBVIOUS
  <2>2. \A s \in Interps : inside'[s] = IF s = t THEN h ELSE inside[s]
    BY <2>1 DEF TypeOK
  <2> QED
    BY <2>1, <2>2 DEF InsideOpen
<1>8. HandlersCover'
  BY DEF HandlersCover, TypeOK
<1>9. ExitState'
  BY DEF ExitState, TypeOK
<1>10. InsideUsed'
  <2>1. PICK h \in table[t] : inside' = [inside EXCEPT ![t] = h]
    OBVIOUS
  <2>2. h \in used /\ \A s \in Interps : inside'[s] = IF s = t THEN h ELSE inside[s]
    BY <2>1 DEF TablesApart, TypeOK
  <2> QED
    BY <2>2 DEF InsideUsed
<1> QED
  BY <1>1, <1>2, <1>3, <1>4, <1>5, <1>6, <1>7, <1>8, <1>9, <1>10

LEMMA LeaveKeeps ==
  ASSUME LInv, NEW t \in Interps, Leave(t)
  PROVE  LInv'
<1> USE LifecycleAssumption DEF LInv, Leave, deinit, exit, Alive
<1>1. TypeOK'
  BY DEF TypeOK
<1>2. TablesApart'
  BY DEF TablesApart, TypeOK
<1>3. OpenInTables'
  BY DEF OpenInTables, TypeOK
<1>4. WalkSound'
  BY DEF WalkSound, TypeOK
<1>5. TablesOpen'
  BY DEF TablesOpen, TypeOK
<1>6. OwnWalks'
  BY DEF OwnWalks, TypeOK
<1>7. InsideOpen'
  BY DEF InsideOpen, TypeOK
<1>8. HandlersCover'
  BY DEF HandlersCover, TypeOK
<1>9. ExitState'
  BY DEF ExitState, TypeOK
<1>10. InsideUsed'
  BY DEF InsideUsed, TypeOK
<1> QED
  BY <1>1, <1>2, <1>3, <1>4, <1>5, <1>6, <1>7, <1>8, <1>9, <1>10

LEMMA DeleteKeeps ==
  ASSUME LInv, NEW t \in Interps, Delete(t)
  PROVE  LInv'
<1> USE LifecycleAssumption DEF LInv, Delete, deinit, exit, Ready, Scripting, Walk, Alive
<1>1. TypeOK'
  <2>1. data' \in [Interps -> {"none", "attached", "freed", "deleted"}]
    BY DEF TypeOK
  <2>2. handlers' \in Seq(Interps)
    BY DEF TypeOK
  <2>3. table' \in [Interps -> SUBSET Handles]
    BY DEF TypeOK
  <2>4. lib_open' \subseteq used' /\ used' \subseteq Handles
    BY DEF TypeOK
  <2>5. inside' \in [Interps -> Handles \cup {Nobody}]
    BY DEF TypeOK
  <2>6. cleaning' \in [Interps -> Interps \cup {Nobody}]
    <3>1. cleaning \in [Interps -> Interps \cup {Nobody}]
      BY DEF TypeOK
    <3>2. cleaning' = cleaning \/ cleaning' = [cleaning EXCEPT ![t] = t]
      OBVIOUS
    <3> HIDE DEF LInv, Delete
    <3> QED
      BY <3>1, <3>2
  <2>7. left' \in [Interps -> SUBSET Handles]
    BY DEF TypeOK
  <2>8. cell' \in [Interps -> {"none", "freed"}]
    BY DEF TypeOK
  <2>9. exiter' \in Interps \cup {Nobody} /\ at_exit' \subseteq Handles
    BY DEF TypeOK
  <2>10. process' \in {"running", "exiting", "exited", "freed twice", "raced", "used freed"}
    BY DEF TypeOK
  <2> QED
    BY <2>1, <2>2, <2>3, <2>4, <2>5, <2>6, <2>7, <2>8, <2>9, <2>10 DEF TypeOK
<1>2. TablesApart'
  BY DEF TablesApart, TypeOK
<1>3. OpenInTables'
  BY DEF OpenInTables, TypeOK
<1>4. WalkSound'
  <2>1. CASE data[t] = "attached"
    <3>1. \A s \in Interps : s # t => cleaning'[s] = cleaning[s] /\ left'[s] = left[s]
      BY <2>1 DEF TypeOK
    <3>2. cleaning'[t] = t /\ left'[t] = table[t]
      BY <2>1 DEF TypeOK
    <3> QED
      BY <2>1, <3>1, <3>2 DEF WalkSound
  <2>2. CASE data[t] # "attached"
    BY <2>2 DEF WalkSound
  <2> QED
    BY <2>1, <2>2
<1>5. TablesOpen'
  BY DEF TablesOpen, TypeOK
<1>6. OwnWalks'
  <2>1. CASE data[t] = "attached"
    <3>1. \A s \in Interps : s # t => cleaning'[s] = cleaning[s]
      BY <2>1 DEF TypeOK
    <3>2. cleaning'[t] = t
      BY <2>1 DEF TypeOK
    <3> QED
      BY <2>1, <3>1, <3>2 DEF OwnWalks
  <2>2. CASE data[t] # "attached"
    BY <2>2 DEF OwnWalks
  <2> QED
    BY <2>1, <2>2
<1>7. InsideOpen'
  BY DEF InsideOpen, TypeOK
<1>8. HandlersCover'
  BY DEF HandlersCover, TypeOK
<1>9. ExitState'
  BY DEF ExitState, TypeOK
<1>10. InsideUsed'
  BY DEF InsideUsed, TypeOK
<1> QED
  BY <1>1, <1>2, <1>3, <1>4, <1>5, <1>6, <1>7, <1>8, <1>9, <1>10

LEMMA ExitKeeps ==
  ASSUME LInv, NEW t \in Interps, Exit(t)
  PROVE  LInv'
<1> USE LifecycleAssumption DEF LInv, Exit, deinit, exit, Alive
<1>1. TypeOK'
  BY DEF TypeOK
<1>2. TablesApart'
  BY DEF TablesApart, TypeOK
<1>3. OpenInTables'
  BY DEF OpenInTables, TypeOK
<1>4. WalkSound'
  BY DEF WalkSound, TypeOK
<1>5. TablesOpen'
  BY DEF TablesOpen, TypeOK
<1>6. OwnWalks'
  BY DEF OwnWalks, TypeOK
<1>7. InsideOpen'
  BY DEF InsideOpen, TypeOK
<1>8. HandlersCover'
  BY DEF HandlersCover, TypeOK, ExitState
<1>9. ExitState'
  BY DEF ExitState, TypeOK
<1>10. InsideUsed'
  BY DEF InsideUsed, TypeOK
<1> QED
  BY <1>1, <1>2, <1>3, <1>4, <1>5, <1>6, <1>7, <1>8, <1>9, <1>10

LEMMA RunHandlerKeeps ==
  ASSUME LInv, NEW t \in Interps, RunHandler(t)
  PROVE  LInv'
<1> USE LifecycleAssumption DEF LInv, RunHandler, deinit, exit, Idle, Walk, Alive
<1>a. /\ handlers' \in Seq(Interps) /\ Head(handlers) \in Interps
      /\ \A k \in DOMAIN handlers : handlers[k] = Head(handlers)
           \/ \E m \in DOMAIN handlers' : handlers'[m] = handlers[k]
  <2>1. handlers \in Seq(Interps) /\ handlers # <<>> /\ handlers' = Tail(handlers)
    BY DEF TypeOK
  <2> HIDE DEF LInv, RunHandler
  <2> QED
    BY <2>1, HeadOrTail
<1>t. t \in Interps /\ t = exiter
  OBVIOUS
<1>1. TypeOK'
  <2>1. data' \in [Interps -> {"none", "attached", "freed", "deleted"}]
    BY DEF TypeOK
  <2>2. handlers' \in Seq(Interps)
    BY <1>a DEF TypeOK
  <2>3. table' \in [Interps -> SUBSET Handles]
    BY DEF TypeOK
  <2>4. lib_open' \subseteq used' /\ used' \subseteq Handles
    BY DEF TypeOK
  <2>5. inside' \in [Interps -> Handles \cup {Nobody}]
    BY DEF TypeOK
  <2>6. cleaning' \in [Interps -> Interps \cup {Nobody}]
    <3>1. CASE data[Head(handlers)] = "attached"
      <4>1. cleaning' = [cleaning EXCEPT ![t] = Head(handlers)]
        BY <3>1
      <4>2. cleaning \in [Interps -> Interps \cup {Nobody}]
        BY DEF TypeOK
      <4> HIDE DEF LInv, RunHandler
      <4> QED
        BY <1>a, <4>1, <4>2
    <3>2. CASE data[Head(handlers)] # "attached"
      BY <3>2 DEF TypeOK
    <3> QED
      BY <3>1, <3>2
  <2>7. left' \in [Interps -> SUBSET Handles]
    BY <1>a DEF TypeOK
  <2>8. cell' \in [Interps -> {"none", "freed"}]
    BY DEF TypeOK
  <2>9. exiter' \in Interps \cup {Nobody} /\ at_exit' \subseteq Handles
    BY DEF TypeOK
  <2>10. process' \in {"running", "exiting", "exited", "freed twice", "raced", "used freed"}
    BY DEF TypeOK
  <2> QED
    BY <2>1, <2>2, <2>3, <2>4, <2>5, <2>6, <2>7, <2>8, <2>9, <2>10 DEF TypeOK
<1>2. TablesApart'
  BY DEF TablesApart, TypeOK
<1>3. OpenInTables'
  BY DEF OpenInTables, TypeOK
<1>4. WalkSound'
  <2>1. CASE data[Head(handlers)] = "attached"
    <3>1. \A s \in Interps : s # t => cleaning'[s] = cleaning[s] /\ left'[s] = left[s]
      BY <2>1 DEF TypeOK
    <3>2. cleaning'[t] = Head(handlers) /\ left'[t] = table[Head(handlers)]
      BY <2>1 DEF TypeOK
    <3> QED
      BY <1>a, <2>1, <3>1, <3>2 DEF WalkSound
  <2>2. CASE data[Head(handlers)] # "attached"
    BY <2>2 DEF WalkSound
  <2> QED
    BY <2>1, <2>2
<1>5. TablesOpen'
  <2> SUFFICES ASSUME NEW i \in Interps, data[i] = "attached",
                      \A s \in Interps : cleaning'[s] # i
               PROVE  table[i] \subseteq lib_open
    BY DEF TablesOpen
  <2>1. ASSUME NEW s \in Interps
        PROVE  cleaning[s] # i
    <3>1. cleaning'[s] = cleaning[s] \/ cleaning[s] = Nobody
      BY DEF TypeOK
    <3> QED
      BY <3>1
  <2> QED
    BY <2>1 DEF TablesOpen
<1>6. OwnWalks'
  BY DEF OwnWalks, TypeOK
<1>7. InsideOpen'
  BY DEF InsideOpen, TypeOK
<1>8. HandlersCover'
  <2>1. CASE data[Head(handlers)] = "attached"
    <3>1. cleaning'[exiter'] = Head(handlers) /\ exiter' # Nobody
      BY <2>1 DEF TypeOK
    <3>2. ASSUME NEW i \in Interps, data[i] = "attached", i # Head(handlers)
          PROVE  \E k \in DOMAIN handlers' : handlers'[k] = i
      <4>1. PICK k \in DOMAIN handlers : handlers[k] = i
        BY <3>2 DEF HandlersCover
      <4> QED
        BY <1>a, <3>2, <4>1
    <3> QED
      BY <3>1, <3>2 DEF HandlersCover
  <2>2. CASE data[Head(handlers)] # "attached"
    BY <2>2 DEF HandlersCover
  <2> QED
    BY <2>1, <2>2
<1>9. ExitState'
  BY DEF ExitState, TypeOK
<1>10. InsideUsed'
  BY DEF InsideUsed, TypeOK
<1> QED
  BY <1>1, <1>2, <1>3, <1>4, <1>5, <1>6, <1>7, <1>8, <1>9, <1>10

LEMMA CleanHandleKeeps ==
  ASSUME LInv, NEW t \in Interps, CleanHandle(t)
  PROVE  LInv'
<1> USE LifecycleAssumption DEF LInv, CleanHandle, deinit, exit, Walking, CleansUp, Alive
<1>h. PICK h \in left[t] : CleansUp(t, h) /\ left' = [left EXCEPT ![t] = @ \ {h}]
  OBVIOUS
<1>c. cleaning[t] \in Interps
  BY DEF TypeOK
<1>s. left'[t] = left[t] \ {h} /\ \A s \in Interps : s # t => left'[s] = left[s]
  BY <1>h DEF TypeOK
<1>b. \/ process' = "freed twice" /\ lib_open' = lib_open
      \/ /\ process' = process /\ lib_open' = lib_open \ {h}
         /\ h \in table[cleaning[t]] /\ data[cleaning[t]] = "attached"
  BY <1>h DEF WalkSound
<1>1. TypeOK'
  <2>1. data' \in [Interps -> {"none", "attached", "freed", "deleted"}]
    BY DEF TypeOK
  <2>2. handlers' \in Seq(Interps)
    BY DEF TypeOK
  <2>3. table' \in [Interps -> SUBSET Handles]
    BY DEF TypeOK
  <2>4. lib_open' \subseteq used' /\ used' \subseteq Handles
    BY <1>b DEF TypeOK
  <2>5. inside' \in [Interps -> Handles \cup {Nobody}]
    BY DEF TypeOK
  <2>6. cleaning' \in [Interps -> Interps \cup {Nobody}]
    BY DEF TypeOK
  <2>7. left' \in [Interps -> SUBSET Handles]
    BY <1>h DEF TypeOK
  <2>8. cell' \in [Interps -> {"none", "freed"}]
    BY DEF TypeOK
  <2>9. exiter' \in Interps \cup {Nobody} /\ at_exit' \subseteq Handles
    BY DEF TypeOK
  <2>10. process' \in {"running", "exiting", "exited", "freed twice", "raced", "used freed"}
    BY <1>b DEF TypeOK
  <2> QED
    BY <2>1, <2>2, <2>3, <2>4, <2>5, <2>6, <2>7, <2>8, <2>9, <2>10 DEF TypeOK
<1>2. TablesApart'
  BY DEF TablesApart, TypeOK
<1>3. OpenInTables'
  BY DEF OpenInTables, TypeOK
<1>4. WalkSound'
  <2> SUFFICES ASSUME Alive', NEW s \in Interps, cleaning[s] # Nobody,
                      data[cleaning[s]] = "attached"
               PROVE  /\ left'[s] \subseteq table[cleaning[s]]
                      /\ table[cleaning[s]] \cap lib_open' \subseteq left'[s]
    BY DEF WalkSound
  <2>1. lib_open' = lib_open \ {h}
    BY <1>b
  <2>2. /\ left[s] \subseteq table[cleaning[s]]
        /\ table[cleaning[s]] \cap lib_open \subseteq left[s]
    BY DEF WalkSound
  <2>3. left[s] \ {h} \subseteq left'[s] /\ left'[s] \subseteq left[s]
    BY <1>s
  <2> QED
    BY <2>1, <2>2, <2>3
<1>5. TablesOpen'
  <2> SUFFICES ASSUME Alive', NEW i \in Interps, data[i] = "attached",
                      \A s \in Interps : cleaning[s] # i,
                      NEW g \in table[i]
               PROVE  g \in lib_open'
    BY DEF TablesOpen
  <2>1. g \in lib_open
    BY DEF TablesOpen
  <2>2. lib_open' = lib_open \ {h} /\ h \in table[cleaning[t]]
    BY <1>b
  <2>3. table[i] \cap table[cleaning[t]] = {}
    BY <1>c DEF TablesApart
  <2> QED
    BY <2>1, <2>2, <2>3
<1>6. OwnWalks'
  BY DEF OwnWalks, TypeOK
<1>7. InsideOpen'
  BY <1>b DEF InsideOpen
<1>8. HandlersCover'
  BY DEF HandlersCover, TypeOK
<1>9. ExitState'
  BY DEF ExitState, TypeOK
<1>10. InsideUsed'
  BY DEF InsideUsed, TypeOK
<1> QED
  BY <1>1, <1>2, <1>3, <1>4, <1>5, <1>6, <1>7, <1>8, <1>9, <1>10

LEMMA FreeVectorKeeps ==
  ASSUME LInv, NEW t \in Interps, FreeVector(t)
  PROVE  LInv'
<1> USE LifecycleAssumption DEF LInv, FreeVector, deinit, exit, Walking, Alive
<1>1. TypeOK'
  BY DEF TypeOK
<1>2. TablesApart'
  BY DEF TablesApart, TypeOK
<1>3. OpenInTables'
  BY DEF OpenInTables, TypeOK
<1>4. WalkSound'
  BY DEF WalkSound, TypeOK
<1>5. TablesOpen'
  BY DEF TablesOpen, TypeOK
<1>6. OwnWalks'
  BY DEF OwnWalks, TypeOK
<1>7. InsideOpen'
  BY DEF InsideOpen, TypeOK
<1>8. HandlersCover'
  BY DEF HandlersCover, TypeOK
<1>9. ExitState'
  BY DEF ExitState, TypeOK
<1>10. InsideUsed'
  BY DEF InsideUsed, TypeOK
<1> QED
  BY <1>1, <1>2, <1>3, <1>4, <1>5, <1>6, <1>7, <1>8, <1>9, <1>10

LEMMA FreeTablesKeeps ==
  ASSUME LInv, NEW t \in Interps, FreeTables(t)
  PROVE  LInv'
<1> USE LifecycleAssumption DEF LInv, FreeTables, deinit, exit, Walking, Alive
<1>c. cleaning[t] \in Interps
  BY DEF TypeOK
<1>b. \/ process' = "freed twice" /\ data' = data /\ table' = table
      \/ /\ process' = process /\ data[cleaning[t]] = "attached"
         /\ data'[cleaning[t]] # "attached" /\ data'[cleaning[t]] # "none"
         /\ table'[cleaning[t]] = {}
         /\ \A i \in Interps : i # cleaning[t] => data'[i] = data[i] /\ table'[i] = table[i]
  BY <1>c DEF TypeOK
<1>s. cleaning'[t] = Nobody /\ \A s \in Interps : s # t => cleaning'[s] = cleaning[s]
  BY DEF TypeOK
<1>1. TypeOK'
  <2>1. data' \in [Interps -> {"none", "attached", "freed", "deleted"}]
    <3>1. data \in [Interps -> {"none", "attached", "freed", "deleted"}]
      BY DEF TypeOK
    <3>2. \/ data' = data
          \/ data' = [data EXCEPT ![cleaning[t]] = "freed"]
          \/ data' = [data EXCEPT ![cleaning[t]] = "deleted"]
      OBVIOUS
    <3> HIDE DEF LInv, FreeTables
    <3> QED
      BY <3>1, <3>2
  <2>2. table' \in [Interps -> SUBSET Handles]
    BY DEF TypeOK
  <2>3. cleaning' \in [Interps -> Interps \cup {Nobody}]
    BY DEF TypeOK
  <2>4. process' \in {"running", "exiting", "exited", "freed twice", "raced", "used freed"}
    BY DEF TypeOK
  <2>5. /\ handlers' = handlers /\ lib_open' = lib_open /\ used' = used /\ inside' = inside
        /\ left' = left /\ cell' = cell /\ exiter' = exiter /\ at_exit' = at_exit
    OBVIOUS
  <2>6. TypeOK
    OBVIOUS
  <2> HIDE DEF LInv, FreeTables
  <2> QED
    BY <2>1, <2>2, <2>3, <2>4, <2>5, <2>6 DEF TypeOK
<1>2. TablesApart'
  <2>1. \A i \in Interps : table'[i] \subseteq table[i]
                           /\ (data'[i] # "attached" => data[i] # "attached" \/ table'[i] = {})
    BY <1>b
  <2>2. TablesApart /\ used' = used
    OBVIOUS
  <2> HIDE DEF LInv, FreeTables
  <2>3. (\A i \in Interps : table'[i] \subseteq used')
        /\ \A i \in Interps : data'[i] # "attached" => table'[i] = {}
    BY <2>1, <2>2 DEF TablesApart
  <2>4. \A i, j \in Interps : i # j => table'[i] \cap table'[j] = {}
    BY <2>1, <2>2 DEF TablesApart
  <2> QED
    BY <2>3, <2>4 DEF TablesApart
<1>3. OpenInTables'
  <2> SUFFICES ASSUME NEW g \in lib_open
               PROVE  \E i \in Interps : g \in table'[i] /\ data'[i] = "attached"
    BY DEF OpenInTables
  <2>1. PICK i \in Interps : g \in table[i] /\ data[i] = "attached"
    BY DEF OpenInTables
  <2>2. data[cleaning[t]] = "attached" => g \notin table[cleaning[t]]
    BY DEF WalkSound
  <2>3. CASE i = cleaning[t]
    BY <2>1, <2>2, <2>3
  <2>4. CASE i # cleaning[t]
    BY <1>b, <2>1, <2>4
  <2> QED
    BY <2>3, <2>4
<1>4. WalkSound'
  <2> SUFFICES ASSUME Alive', NEW s \in Interps, cleaning'[s] # Nobody
               PROVE  /\ data'[cleaning'[s]] # "none"
                      /\ data'[cleaning'[s]] = "attached" =>
                           /\ left[s] \subseteq table'[cleaning'[s]]
                           /\ table'[cleaning'[s]] \cap lib_open \subseteq left[s]
    BY DEF WalkSound
  <2>1. s # t /\ cleaning'[s] = cleaning[s] /\ cleaning[s] \in Interps
    BY <1>s DEF TypeOK
  <2>2. CASE cleaning[s] = cleaning[t]
    BY <1>b, <2>1, <2>2
  <2>3. CASE cleaning[s] # cleaning[t]
    <3>1. /\ data'[cleaning[s]] = data[cleaning[s]] /\ table'[cleaning[s]] = table[cleaning[s]]
      BY <1>b, <2>1, <2>3
    <3>2. /\ data[cleaning[s]] # "none"
          /\ data[cleaning[s]] = "attached" =>
               /\ left[s] \subseteq table[cleaning[s]]
               /\ table[cleaning[s]] \cap lib_open \subseteq left[s]
      BY <2>1 DEF WalkSound
    <3> QED
      BY <2>1, <3>1, <3>2
  <2> QED
    BY <2>2, <2>3
<1>5. TablesOpen'
  BY DEF TablesOpen, TypeOK
<1>6. OwnWalks'
  BY DEF OwnWalks, TypeOK
<1>7. InsideOpen'
  <2> SUFFICES ASSUME process' = "running", NEW s \in Interps, inside[s] \in lib_open
               PROVE  inside[s] \in table'[s]
    BY DEF InsideOpen
  <2>1. inside[s] \in table[s] /\ process = "running" /\ inside[s] # Nobody
    BY <1>b DEF InsideOpen, TypeOK
  <2>2. cleaning[t] = t /\ s # t
    BY <2>1 DEF OwnWalks
  <2> QED
    BY <1>b, <2>1, <2>2
<1>8. HandlersCover'
  <2> SUFFICES ASSUME Alive', NEW i \in Interps, data'[i] = "attached"
               PROVE  \/ \E k \in DOMAIN handlers : handlers[k] = i
                      \/ exiter # Nobody /\ cleaning'[exiter] = i
    BY DEF HandlersCover
  <2>1. data[i] = "attached" /\ i # cleaning[t]
    BY <1>b
  <2>2. exiter # Nobody => exiter \in Interps
    BY DEF TypeOK
  <2> QED
    BY <1>s, <2>1, <2>2 DEF HandlersCover
<1>9. ExitState'
  BY DEF ExitState, TypeOK
<1>10. InsideUsed'
  BY DEF InsideUsed, TypeOK
<1> QED
  BY <1>1, <1>2, <1>3, <1>4, <1>5, <1>6, <1>7, <1>8, <1>9, <1>10

LEMMA ExitedKeeps ==
  ASSUME LInv, NEW t \in Interps, Exited(t)
  PROVE  LInv'
<1> USE LifecycleAssumption DEF LInv, Exited, deinit, exit, Idle, Alive
<1>1. TypeOK'
  BY DEF TypeOK
<1>2. TablesApart'
  BY DEF TablesApart, TypeOK
<1>3. OpenInTables'
  BY DEF OpenInTables, TypeOK
<1>4. WalkSound'
  BY DEF WalkSound, TypeOK
<1>5. TablesOpen'
  BY DEF TablesOpen, TypeOK
<1>6. OwnWalks'
  BY DEF OwnWalks, TypeOK
<1>7. InsideOpen'
  BY DEF InsideOpen, TypeOK
<1>8. HandlersCover'
  BY DEF HandlersCover, TypeOK
<1>9. ExitState'
  BY DEF ExitState, TypeOK, OpenInTables, HandlersCover
<1>10. InsideUsed'
  BY DEF InsideUsed, TypeOK
<1> QED
  BY <1>1, <1>2, <1>3, <1>4, <1>5, <1>6, <1>7, <1>8, <1>9, <1>10

-----------------------------------------------------------------------------
LEMMA LInvInit == Init => LInv
<1> SUFFICES ASSUME Init
             PROVE  LInv
  OBVIOUS
<1> USE LifecycleAssumption DEF Init, Alive
<1>1. TypeOK
  BY DEF TypeOK
<1>2. TablesApart /\ OpenInTables /\ WalkSound /\ TablesOpen
  BY DEF TablesApart, OpenInTables, WalkSound, TablesOpen
<1>3. OwnWalks /\ InsideOpen /\ InsideUsed /\ HandlersCover /\ ExitState
  BY DEF OwnWalks, InsideOpen, InsideUsed, HandlersCover, ExitState
<1> QED
  BY <1>1, <1>2, <1>3 DEF LInv

LEMMA LInvStep == LInv /\ [Next]_vars => LInv'
<1> SUFFICES ASSUME LInv, [Next]_vars
             PROVE  LInv'
  OBVIOUS
<1>1. CASE UNCHANGED vars
  <2> USE <1>1 DEF vars, deinit, exit, Alive
  <2>1. TypeOK'
    BY DEF LInv, TypeOK
  <2>2. TablesApart' /\ OpenInTables'
    BY DEF LInv, TablesApart, OpenInTables
  <2>3. WalkSound' /\ TablesOpen'
    BY DEF LInv, WalkSound, TablesOpen
  <2>4. OwnWalks' /\ InsideOpen' /\ InsideUsed'
    BY DEF LInv, OwnWalks, InsideOpen, InsideUsed
  <2>5. HandlersCover' /\ ExitState'
    BY DEF LInv, HandlersCover, ExitState
  <2> QED
    BY <2>1, <2>2, <2>3, <2>4, <2>5 DEF LInv
<1>2. ASSUME NEW t \in Interps, Command(t)
      PROVE  LInv'
  BY <1>2, LoadKeeps, OpenKeeps, CloseKeeps, RacesKeeps, EnterKeeps, LeaveKeeps,
     DeleteKeeps, ExitKeeps DEF Command
<1>3. ASSUME NEW t \in Interps, Cleanup(t)
      PROVE  LInv'
  BY <1>3, RunHandlerKeeps, CleanHandleKeeps, FreeVectorKeeps, FreeTablesKeeps, ExitedKeeps
     DEF Cleanup
<1> QED
  BY <1>1, <1>2, <1>3 DEF Next

\* The inductive invariant of the life cycle holds for ever.
THEOREM LifecycleInductive == Spec => []LInv
<1> QED
  BY LInvInit, LInvStep, PTL DEF Spec

\* All variables of the life cycle keep their types.
THEOREM LifecycleTypeCorrect == Spec => []TypeOK
<1>1. LInv => TypeOK
  BY DEF LInv
<1> QED
  BY <1>1, LifecycleInductive, PTL

\* No open library handle is ever out of reach of close and of the clean-up:
\* Dtrace_DeInit frees no tables that still hold one.
THEOREM NoHandleIsLost == Spec => []EveryHandleIsFound
<1>1. LInv => EveryHandleIsFound
  BY DEF LInv, TablesApart, OpenInTables, EveryHandleIsFound
<1> QED
  BY <1>1, LifecycleInductive, PTL

\* A process that leaves by way of its exit handlers leaves no handle open that was
\* open when exit was called, however many interpreters there are.
THEOREM NothingOpenAtExit == Spec => []ExitClosesAll
<1>1. LInv => ExitClosesAll
  BY DEF LInv, ExitState, ExitClosesAll
<1> QED
  BY <1>1, LifecycleInductive, PTL

\* A handle that is closed in a step was in the table of the interpreter whose
\* command or walk closed it.
LEMMA ClosersAre ==
  ASSUME LInv, Next, NEW h \in lib_open, h \notin lib_open'
  PROVE  \E t \in Interps :
           \/ Close(t) /\ h \in table[t]
           \/ Walking(t) /\ cleaning[t] \in Interps /\ h \in table[cleaning[t]]
<1>1. PICK t \in Interps : Command(t) \/ Cleanup(t)
  BY DEF Next
<1>2. CASE Close(t)
  BY <1>2 DEF Close
<1>3. CASE CleanHandle(t)
  <2>1. PICK g \in left[t] : CleansUp(t, g)
    BY <1>3 DEF CleanHandle
  <2>2. g = h /\ data[cleaning[t]] = "attached"
    BY <2>1 DEF CleansUp
  <2>3. Alive /\ cleaning[t] # Nobody
    BY <1>3 DEF CleanHandle, Walking
  <2>4. cleaning[t] \in Interps
    BY <2>3 DEF LInv, TypeOK
  <2>5. h \in table[cleaning[t]]
    BY <2>1, <2>2, <2>3 DEF LInv, WalkSound
  <2> QED
    BY <2>3, <2>4, <2>5 DEF Walking
<1>4. CASE ~ Close(t) /\ ~ CleanHandle(t)
  <2>1. Load(t) \/ Open(t) \/ Races(t) \/ Enter(t) \/ Leave(t) \/ Delete(t) \/ Exit(t)
        \/ RunHandler(t) \/ FreeVector(t) \/ FreeTables(t) \/ Exited(t)
    BY <1>1, <1>4 DEF Command, Cleanup
  <2>2. lib_open \subseteq lib_open'
    BY <2>1 DEF Load, Open, Races, Enter, Leave, Delete, Exit, RunHandler, FreeVector,
         FreeTables, Exited
  <2> QED
    BY <2>2
<1> QED
  BY <1>2, <1>3, <1>4

\* Until exit is called, a command loses the handle it works on to a close in its own
\* callback, and to nothing another thread or another interpreter's end does.
THEOREM CommandsKeepHandles == Spec => OnlyCallbacksTakeHandles
<1> DEFINE Keeps == process = "running" =>
       \A i \in Interps :
         inside[i] \in lib_open /\ inside'[i] = inside[i] /\ inside[i] \notin lib_open'
         => Close(i)
<1>1. ASSUME LInv, Next
      PROVE  Keeps
  <2> SUFFICES ASSUME process = "running", NEW i \in Interps,
                      inside[i] \in lib_open, inside[i] \notin lib_open'
               PROVE  Close(i)
    OBVIOUS
  <2>1. PICK t \in Interps :
           \/ Close(t) /\ inside[i] \in table[t]
           \/ Walking(t) /\ cleaning[t] \in Interps /\ inside[i] \in table[cleaning[t]]
    BY <1>1, ClosersAre
  <2>2. inside[i] \in table[i] /\ inside[i] # Nobody
    BY <1>1, LifecycleAssumption DEF LInv, InsideOpen, TypeOK
  <2>3. \A j \in Interps : inside[i] \in table[j] => j = i
    BY <1>1, <2>2 DEF LInv, TablesApart
  <2>4. CASE Close(t) /\ inside[i] \in table[t]
    BY <2>3, <2>4
  <2>5. CASE Walking(t) /\ cleaning[t] \in Interps /\ inside[i] \in table[cleaning[t]]
    <3>1. cleaning[t] = i /\ cleaning[t] # Nobody
      BY <2>3, <2>5, LifecycleAssumption
    <3>2. t = i /\ inside[t] = Nobody
      BY <1>1, <3>1 DEF LInv, OwnWalks
    <3> QED
      BY <2>2, <3>2
  <2> QED
    BY <2>1, <2>4, <2>5
<1>2. LInv /\ [Next]_vars => [Keeps]_vars
  BY <1>1
<1> QED
  BY <1>2, LifecycleInductive, PTL DEF Spec, OnlyCallbacksTakeHandles

\* A close in an interpreter, and the clean-up of its tables, are all that closes its
\* handles.
THEOREM EndsAreLocal == Spec => DeletionIsLocal
<1> DEFINE Local == \A h \in lib_open \ lib_open' : \E i \in Interps :
       h \in table[i] /\ (Close(i) \/ \E t \in Interps : cleaning[t] = i)
<1>1. ASSUME LInv, Next
      PROVE  Local
  <2> SUFFICES ASSUME NEW h \in lib_open, h \notin lib_open'
               PROVE  \E i \in Interps :
                        h \in table[i] /\ (Close(i) \/ \E t \in Interps : cleaning[t] = i)
    OBVIOUS
  <2>1. PICK t \in Interps :
           \/ Close(t) /\ h \in table[t]
           \/ Walking(t) /\ cleaning[t] \in Interps /\ h \in table[cleaning[t]]
    BY <1>1, ClosersAre
  <2> QED
    BY <2>1
<1>2. LInv /\ [Next]_vars => [Local]_vars
  BY <1>1
<1> QED
  BY <1>2, LifecycleInductive, PTL DEF Spec, DeletionIsLocal

-----------------------------------------------------------------------------
(* One interpreter, one thread: what else holds while Several does not.    *)

\* An interpreter ended while the process ran, or there were two to be loaded or to
\* call exit.
Several ==
  \/ \E i \in Interps : data[i] = "deleted" \/ (cleaning[i] = i /\ i # exiter)
  \/ \E i, j \in Interps : i # j /\ data[i] # "none" /\ (data[j] # "none" \/ exiter = j)

\* A walk is the exit's, or that of an interpreter over its own tables; a cell that a
\* thread has freed belongs to its walk.
Walkers == \A t \in Interps :
  /\ cleaning[t] # Nobody => t = exiter \/ cleaning[t] = t
  /\ cleaning[t] # Nobody => data[cleaning[t]] # "none"
  /\ cell[t] # "none" => cleaning[t] # Nobody
  /\ inside[t] # Nobody => data[t] # "none"

\* One exit handler for each interpreter that was loaded, none after it has run.
HandlersOnce ==
  /\ \A k \in DOMAIN handlers : data[handlers[k]] \notin {"none", "freed"}
  /\ \A k, m \in DOMAIN handlers : handlers[k] = handlers[m] => k = m

\* Only exit handlers free tables, each the tables of its interpreter and those once.
ExitWalk ==
  /\ \A i \in Interps : data[i] = "freed" => exiter # Nobody
  /\ exiter # Nobody /\ cleaning[exiter] # Nobody =>
       /\ data[cleaning[exiter]] # "freed"
       /\ \A k \in DOMAIN handlers : handlers[k] # cleaning[exiter]

\* Nothing is freed twice yet, and nothing will be in the steps of the exit.
Undisturbed == ~ Several =>
  /\ process \in {"running", "exiting", "exited", "used freed"}
  /\ exiter # Nobody /\ cleaning[exiter] # Nobody => left[exiter] \subseteq lib_open

QInv == Walkers /\ HandlersOnce /\ ExitWalk /\ Undisturbed

LEMMA FrontAndTail ==
  ASSUME NEW S, NEW s \in Seq(S), NEW e \in S
  PROVE  /\ \A k \in DOMAIN (<<e>> \o s) :
              \/ k = 1 /\ (<<e>> \o s)[k] = e
              \/ k # 1 /\ k - 1 \in DOMAIN s /\ (<<e>> \o s)[k] = s[k - 1]
         /\ s # <<>> => /\ \A k \in DOMAIN Tail(s) : k + 1 \in DOMAIN s /\ Tail(s)[k] = s[k + 1]
                        /\ 1 \in DOMAIN s /\ Head(s) = s[1]
<1>1. ASSUME NEW k \in DOMAIN (<<e>> \o s)
      PROVE  \/ k = 1 /\ (<<e>> \o s)[k] = e
             \/ k # 1 /\ k - 1 \in DOMAIN s /\ (<<e>> \o s)[k] = s[k - 1]
  <2>1. PICK q : q = <<e>>
    OBVIOUS
  <2>2. q \in Seq(S) /\ Len(q) = 1 /\ q[1] = e
    BY <2>1
  <2>c. /\ q \o s \in Seq(S) /\ Len(q \o s) = Len(q) + Len(s)
        /\ \A j \in 1..(Len(q) + Len(s)) :
             (q \o s)[j] = IF j <= Len(q) THEN q[j] ELSE s[j - Len(q)]
    BY <2>2, ConcatProperties, Zenon
  <2>3. /\ q \o s \in Seq(S) /\ Len(q \o s) = 1 + Len(s)
        /\ \A j \in 1..(1 + Len(s)) : (q \o s)[j] = IF j <= 1 THEN q[j] ELSE s[j - 1]
    BY <2>2, <2>c
  <2>4. Len(s) \in Nat /\ DOMAIN s = 1..Len(s) /\ DOMAIN (q \o s) = 1..(1 + Len(s))
    BY <2>3, LenProperties
  <2>5. k \in 1..(1 + Len(s))
    BY <1>1, <2>1, <2>4
  <2>6. (q \o s)[k] = IF k <= 1 THEN q[k] ELSE s[k - 1]
    BY <2>3, <2>5
  <2>7. k = 1 \/ (k > 1 /\ k - 1 \in 1..Len(s))
    BY <2>4, <2>5
  <2>8. CASE k = 1
    BY <2>1, <2>2, <2>6, <2>8
  <2>9. CASE k > 1 /\ k - 1 \in 1..Len(s)
    BY <2>1, <2>4, <2>5, <2>6, <2>9
  <2> QED
    BY <2>7, <2>8, <2>9
<1>2. ASSUME s # <<>>
      PROVE  /\ \A k \in DOMAIN Tail(s) : k + 1 \in DOMAIN s /\ Tail(s)[k] = s[k + 1]
             /\ 1 \in DOMAIN s /\ Head(s) = s[1]
  <2> DEFINE r == Tail(s)
  <2>1. /\ Head(s) \in S /\ r \in Seq(S) /\ Len(r) = Len(s) - 1
        /\ \A k \in 1..Len(r) : r[k] = s[k + 1]
    BY <1>2, HeadTailProperties
  <2>2. Head(s) = s[1] /\ Len(s) \in Nat /\ Len(r) \in Nat /\ DOMAIN s = 1..Len(s) /\ DOMAIN r = 1..Len(r)
    BY <2>1
  <2> HIDE DEF r
  <2> QED
    BY <2>1, <2>2 DEF r
<1> QED
  BY <1>1, <1>2

\* Nothing is ever alone again.
LEMMA SeveralStays ==
  ASSUME LInv, Walkers, ExitWalk, [Next]_vars, Several
  PROVE  Several'
<1>0. \A i \in Interps : data[i] = "freed" => exiter # Nobody /\ exiter \in Interps
  BY DEF ExitWalk, LInv, TypeOK
<1>1. CASE UNCHANGED vars
  BY <1>1 DEF vars, deinit, exit, Several
<1>2. \A i \in Interps : data[i] # "none" => data'[i] # "none"
  <2> SUFFICES ASSUME ~ UNCHANGED vars
               PROVE  \A i \in Interps : data[i] # "none" => data'[i] # "none"
    BY DEF vars
  <2>1. PICK t \in Interps : Command(t) \/ Cleanup(t)
    BY DEF Next
  <2>2. CASE Load(t)
    BY <2>2 DEF Load, LInv, TypeOK
  <2>3. CASE FreeTables(t)
    BY <2>3 DEF FreeTables, LInv, TypeOK
  <2>4. CASE ~ Load(t) /\ ~ FreeTables(t)
    BY <2>1, <2>4 DEF Command, Cleanup, Open, Close, Races, Enter, Leave, Delete, Exit,
         RunHandler, CleanHandle, FreeVector, Exited
  <2> QED
    BY <2>1, <2>2, <2>3, <2>4
<1>3. exiter # Nobody => exiter' = exiter
  <2> SUFFICES ASSUME ~ UNCHANGED vars, exiter # Nobody
               PROVE  exiter' = exiter
    BY DEF vars, exit
  <2>1. PICK t \in Interps : Command(t) \/ Cleanup(t)
    BY DEF Next
  <2>2. ~ Exit(t)
    BY DEF Exit, LInv, ExitState
  <2> QED
    BY <2>1, <2>2 DEF Command, Cleanup, Load, Open, Close, Races, Enter, Leave, Delete, exit,
         RunHandler, CleanHandle, FreeVector, FreeTables, Exited
<1>4. ASSUME NEW i \in Interps, NEW j \in Interps, i # j, data[i] # "none",
             data[j] # "none" \/ exiter = j
      PROVE  Several'
  <2>1. data'[i] # "none" /\ (data'[j] # "none" \/ exiter' = j)
    BY <1>2, <1>3, <1>4, LifecycleAssumption
  <2> QED
    BY <1>4, <2>1 DEF Several
<1>5. ASSUME NEW i \in Interps, data[i] = "deleted"
      PROVE  Several'
  <2> SUFFICES ASSUME ~ UNCHANGED vars
               PROVE  data'[i] = "deleted"
    BY <1>5 DEF Several, vars
  <2>1. PICK t \in Interps : Command(t) \/ Cleanup(t)
    BY DEF Next
  <2>2. CASE Load(t)
    BY <1>5, <2>2 DEF Load, LInv, TypeOK
  <2>3. CASE FreeTables(t)
    BY <1>5, <2>3 DEF FreeTables, LInv, TypeOK
  <2>4. CASE ~ Load(t) /\ ~ FreeTables(t)
    BY <1>5, <2>1, <2>4 DEF Command, Cleanup, Open, Close, Races, Enter, Leave, Delete, Exit,
         RunHandler, CleanHandle, FreeVector, Exited
  <2> QED
    BY <2>1, <2>2, <2>3, <2>4
<1>6. ASSUME NEW i \in Interps, cleaning[i] = i, i # exiter
      PROVE  Several'
  <2> SUFFICES ASSUME ~ UNCHANGED vars
               PROVE  Several'
    BY <1>1
  <2>1. PICK t \in Interps : Command(t) \/ Cleanup(t)
    BY DEF Next
  <2>2. i # Nobody /\ data[i] # "none"
    BY <1>6, LifecycleAssumption DEF Walkers
  <2>3. CASE FreeTables(t) /\ t = i
    <3>1. CASE data[i] = "attached"
      <4>1. data'[i] = "deleted"
        BY <1>6, <2>3, <3>1 DEF FreeTables, LInv, TypeOK
      <4> QED
        BY <4>1 DEF Several
    <3>2. CASE data[i] # "attached"
      <4>1. data[i] \in {"freed", "deleted"}
        BY <2>2, <3>2 DEF LInv, TypeOK
      <4>2. CASE data[i] = "deleted"
        BY <1>5, <4>2
      <4>3. CASE data[i] = "freed"
        <5>1. exiter # Nobody /\ exiter \in Interps
          BY <4>3, <1>0
        <5> QED
          BY <1>4, <1>6, <2>2, <5>1
      <4> QED
        BY <4>1, <4>2, <4>3
    <3> QED
      BY <3>1, <3>2
  <2>4. CASE Exit(t)
    <3>1. t # i /\ exiter' = t /\ cleaning' = cleaning
      BY <1>6, <2>2, <2>4 DEF Exit, deinit
    <3> QED
      BY <1>6, <3>1 DEF Several
  <2>5. CASE ~ (FreeTables(t) /\ t = i) /\ ~ Exit(t)
    <3>1. exiter' = exiter
      BY <2>1, <2>5 DEF Command, Cleanup, Load, Open, Close, Races, Enter, Leave, Delete, exit,
           RunHandler, CleanHandle, FreeVector, FreeTables, Exited
    <3>2. cleaning'[i] = i
      <4>1. CASE FreeTables(t)
        BY <1>6, <2>5, <4>1 DEF FreeTables, LInv, TypeOK
      <4>2. CASE Delete(t)
        BY <1>6, <4>2 DEF Delete, Walk, deinit, LInv, TypeOK
      <4>3. CASE RunHandler(t)
        <5>1. t # i
          BY <1>6, <4>3, <2>2 DEF RunHandler, Idle
        <5> QED
          BY <1>6, <4>3, <5>1 DEF RunHandler, Walk, deinit, LInv, TypeOK
      <4>4. CASE ~ FreeTables(t) /\ ~ Delete(t) /\ ~ RunHandler(t)
        BY <1>6, <2>1, <2>5, <4>4 DEF Command, Cleanup, Load, Open, Close, Races, Enter, Leave,
             deinit, CleanHandle, FreeVector, Exited
      <4> QED
        BY <4>1, <4>2, <4>3, <4>4
    <3> QED
      BY <1>6, <3>1, <3>2 DEF Several
  <2> QED
    BY <2>3, <2>4, <2>5
<1> QED
  BY <1>4, <1>5, <1>6 DEF Several

LEMMA WalkersKeep ==
  ASSUME LInv, Walkers, [Next]_vars
  PROVE  Walkers'
<1>1. CASE UNCHANGED vars
  BY <1>1 DEF vars, deinit, exit, Walkers
<1>2. ASSUME NEW t \in Interps, Command(t) \/ Cleanup(t)
      PROVE  Walkers'
  <2> USE LifecycleAssumption DEF LInv
  <2> SUFFICES ASSUME NEW s \in Interps
               PROVE  /\ cleaning'[s] # Nobody => s = exiter' \/ cleaning'[s] = s
                      /\ cleaning'[s] # Nobody => data'[cleaning'[s]] # "none"
                      /\ cell'[s] # "none" => cleaning'[s] # Nobody
                      /\ inside'[s] # Nobody => data'[s] # "none"
    BY DEF Walkers
  <2>0. cleaning[s] \in Interps \cup {Nobody}
    BY DEF TypeOK
  <2>1. CASE Load(t)
    BY <2>0, <2>1 DEF Load, deinit, exit, TypeOK, Walkers
  <2>2. CASE Open(t)
    BY <2>0, <2>2 DEF Open, deinit, exit, TypeOK, Walkers
  <2>3. CASE Close(t) \/ Races(t)
    BY <2>3 DEF Close, Races, deinit, exit, Walkers
  <2>4. CASE Enter(t) \/ Leave(t)
    BY <2>4 DEF Enter, Leave, Ready, Scripting, deinit, exit, TypeOK, Walkers
  <2>5. CASE Delete(t)
    <3>1. /\ data[t] # "none" /\ data' = data /\ inside' = inside /\ exiter' = exiter
          /\ cleaning'[s] = cleaning[s] \/ (s = t /\ cleaning'[s] = t)
          /\ cell' = cell
      BY <2>5 DEF Delete, Walk, Ready, Scripting, deinit, TypeOK
    <3> QED
      BY <3>1 DEF Walkers
  <2>6. CASE Exit(t)
    <3>1. exiter = Nobody
      BY <2>6 DEF Exit, ExitState
    <3> QED
      BY <2>6, <3>1 DEF Exit, deinit, Walkers
  <2>7. CASE RunHandler(t)
    <3>1. handlers \in Seq(Interps) /\ handlers # <<>>
      BY <2>7 DEF RunHandler, TypeOK
    <3>2. Head(handlers) \in Interps
      BY <3>1, HeadOrTail
    <3>3. /\ t = exiter /\ exiter' = exiter /\ data' = data /\ inside' = inside /\ cell' = cell
      BY <2>7 DEF RunHandler, Walk, Idle, deinit
    <3>4. \/ cleaning' = cleaning
          \/ cleaning' = [cleaning EXCEPT ![t] = Head(handlers)] /\ data[Head(handlers)] = "attached"
      BY <2>7 DEF RunHandler, Walk, deinit
    <3>5. cleaning \in [Interps -> Interps \cup {Nobody}]
      BY DEF TypeOK
    <3>6. \/ cleaning'[s] = cleaning[s]
          \/ s = t /\ cleaning'[s] = Head(handlers) /\ data[Head(handlers)] = "attached"
      BY <3>4, <3>5
    <3> HIDE DEF LInv
    <3> QED
      BY <3>2, <3>3, <3>6 DEF Walkers
  <2>8. CASE CleanHandle(t)
    BY <2>8 DEF CleanHandle, Walking, TypeOK, Walkers
  <2>9. CASE FreeVector(t)
    BY <2>9 DEF FreeVector, TypeOK, Walkers
  <2>10. CASE FreeTables(t)
    <3>1. /\ \A i \in Interps : data[i] # "none" => data'[i] # "none"
      BY <2>10 DEF FreeTables, TypeOK
    <3>2. cleaning'[s] = IF s = t THEN Nobody ELSE cleaning[s]
      BY <2>10 DEF FreeTables, TypeOK
    <3>3. /\ exiter' = exiter /\ inside' = inside /\ cell' = cell /\ cell[t] = "none"
      BY <2>10 DEF FreeTables
    <3> HIDE DEF LInv
    <3>4. /\ cleaning'[s] # Nobody => s = exiter' \/ cleaning'[s] = s
          /\ cleaning'[s] # Nobody => data'[cleaning'[s]] # "none"
      BY <2>0, <3>1, <3>2, <3>3 DEF Walkers
    <3>5. /\ cell'[s] # "none" => cleaning'[s] # Nobody
          /\ inside'[s] # Nobody => data'[s] # "none"
      BY <3>1, <3>2, <3>3 DEF Walkers
    <3> QED
      BY <3>4, <3>5
  <2>11. CASE Exited(t)
    BY <2>11 DEF Exited, deinit, Walkers
  <2> QED
    BY <1>2, <2>1, <2>2, <2>3, <2>4, <2>5, <2>6, <2>7, <2>8, <2>9, <2>10, <2>11
       DEF Command, Cleanup
<1> QED
  BY <1>1, <1>2 DEF Next

LEMMA HandlersOnceKeep ==
  ASSUME LInv, HandlersOnce, ExitWalk, [Next]_vars
  PROVE  HandlersOnce'
<1>0. handlers \in Seq(Interps) /\ \A k \in DOMAIN handlers : handlers[k] \in Interps
  <2>1. handlers \in Seq(Interps)
    BY DEF LInv, TypeOK
  <2> QED
    BY <2>1, ElementOfSeq
<1>1. CASE UNCHANGED vars
  BY <1>1 DEF vars, HandlersOnce
<1>2. ASSUME NEW t \in Interps, Command(t) \/ Cleanup(t)
      PROVE  HandlersOnce'
  <2>1. CASE Load(t)
    <3>1. /\ handlers' = <<t>> \o handlers /\ data[t] = "none"
          /\ \A i \in Interps : data'[i] = IF i = t THEN "attached" ELSE data[i]
      BY <2>1 DEF Load, LInv, TypeOK
    <3>2. ASSUME NEW k \in DOMAIN handlers'
          PROVE  \/ k = 1 /\ handlers'[k] = t
                 \/ k # 1 /\ k - 1 \in DOMAIN handlers /\ handlers'[k] = handlers[k - 1]
      BY <1>0, <3>1, <3>2, FrontAndTail
    <3>3. \A k \in DOMAIN handlers : handlers[k] # t
      BY <3>1 DEF HandlersOnce
    <3>4. ASSUME NEW k \in DOMAIN handlers'
          PROVE  data'[handlers'[k]] \notin {"none", "freed"}
      BY <1>0, <3>1, <3>2 DEF HandlersOnce
    <3>5. ASSUME NEW k \in DOMAIN handlers', NEW m \in DOMAIN handlers',
                 handlers'[k] = handlers'[m]
          PROVE  k = m
      <4>1. \A n \in DOMAIN handlers' : n \in Int
        BY <1>0, <3>1, ConcatProperties
      <4>2. CASE k = 1 \/ m = 1
        BY <3>2, <3>3, <3>5, <4>2
      <4>3. CASE k # 1 /\ m # 1
        <5>1. k - 1 = m - 1
          BY <3>2, <3>5, <4>3 DEF HandlersOnce
        <5> QED
          BY <4>1, <5>1
      <4> QED
        BY <4>2, <4>3
    <3> QED
      BY <3>4, <3>5 DEF HandlersOnce
  <2>2. CASE RunHandler(t)
    <3>1. handlers # <<>> /\ handlers' = Tail(handlers) /\ data' = data
      BY <2>2 DEF RunHandler
    <3>2. ASSUME NEW k \in DOMAIN handlers'
          PROVE  k + 1 \in DOMAIN handlers /\ handlers'[k] = handlers[k + 1] /\ k \in Int
      BY <1>0, <3>1, <3>2, FrontAndTail, HeadTailProperties
    <3> QED
      BY <3>1, <3>2 DEF HandlersOnce
  <2>3. CASE FreeTables(t)
    <3>1. handlers' = handlers /\ cleaning[t] \in Interps
      BY <2>3 DEF FreeTables, Walking, LInv, TypeOK
    <3>2. ASSUME NEW k \in DOMAIN handlers
          PROVE  data'[handlers[k]] \notin {"none", "freed"}
      <4>1. CASE t = exiter
        <5>1. handlers[k] # cleaning[t]
          BY <2>3, <4>1, LifecycleAssumption DEF ExitWalk, FreeTables, Walking
        <5>2. data'[handlers[k]] = data[handlers[k]]
          BY <1>0, <2>3, <3>1, <5>1 DEF FreeTables, LInv, TypeOK
        <5> QED
          BY <5>2 DEF HandlersOnce
      <4>2. CASE t # exiter
        <5>1. data'[handlers[k]] \in {data[handlers[k]], "deleted"}
          BY <1>0, <2>3, <3>1, <4>2 DEF FreeTables, LInv, TypeOK
        <5> QED
          BY <5>1 DEF HandlersOnce
      <4> QED
        BY <4>1, <4>2
    <3> QED
      BY <3>1, <3>2 DEF HandlersOnce
  <2>4. CASE ~ Load(t) /\ ~ RunHandler(t) /\ ~ FreeTables(t)
    <3>1. handlers' = handlers /\ data' = data
      BY <1>2, <2>4 DEF Command, Cleanup, Open, Close, Races, Enter, Leave, Delete, Exit,
         CleanHandle, FreeVector, Exited
    <3> QED
      BY <3>1 DEF HandlersOnce
  <2> QED
    BY <1>2, <2>1, <2>2, <2>3, <2>4
<1> QED
  BY <1>1, <1>2 DEF Next

LEMMA ExitWalkKeeps ==
  ASSUME LInv, Walkers, HandlersOnce, ExitWalk, [Next]_vars
  PROVE  ExitWalk'
<1>0. handlers \in Seq(Interps) /\ \A k \in DOMAIN handlers : handlers[k] \in Interps
  <2>1. handlers \in Seq(Interps)
    BY DEF LInv, TypeOK
  <2> QED
    BY <2>1, ElementOfSeq
<1>e. exiter \in Interps \cup {Nobody} /\ \A s \in Interps : cleaning[s] \in Interps \cup {Nobody}
  BY DEF LInv, TypeOK
<1>1. CASE UNCHANGED vars
  BY <1>1 DEF vars, deinit, exit, ExitWalk
<1>2. ASSUME NEW t \in Interps, Command(t) \/ Cleanup(t)
      PROVE  ExitWalk'
  <2>1. CASE Load(t)
    <3>1. /\ handlers' = <<t>> \o handlers /\ data[t] = "none"
          /\ \A i \in Interps : data'[i] = IF i = t THEN "attached" ELSE data[i]
          /\ exiter' = exiter /\ cleaning' = cleaning
      BY <2>1 DEF Load, deinit, exit, LInv, TypeOK
    <3>2. ASSUME NEW k \in DOMAIN handlers'
          PROVE  handlers'[k] = t \/ \E m \in DOMAIN handlers : handlers'[k] = handlers[m]
      BY <1>0, <3>1, <3>2, FrontAndTail
    <3>3. \A i \in Interps : data'[i] = "freed" => exiter' # Nobody
      BY <3>1 DEF ExitWalk
    <3>4. ASSUME exiter # Nobody, cleaning[exiter] # Nobody
          PROVE  /\ data'[cleaning[exiter]] # "freed"
                 /\ \A k \in DOMAIN handlers' : handlers'[k] # cleaning[exiter]
      <4>1. exiter \in Interps /\ cleaning[exiter] \in Interps /\ cleaning[exiter] # t
        BY <1>e, <3>1, <3>4 DEF Walkers
      <4> QED
        BY <3>1, <3>2, <3>4, <4>1 DEF ExitWalk
    <3> QED
      BY <3>1, <3>3, <3>4 DEF ExitWalk
  <2>2. CASE RunHandler(t)
    <3>1. /\ t = exiter /\ exiter' = exiter /\ handlers # <<>> /\ handlers' = Tail(handlers)
          /\ data' = data /\ cleaning[t] = Nobody
      BY <2>2 DEF RunHandler, Idle
    <3>2. ASSUME NEW k \in DOMAIN handlers'
          PROVE  k + 1 \in DOMAIN handlers /\ handlers'[k] = handlers[k + 1] /\ k \in 1..Len(handlers')
      BY <1>0, <3>1, <3>2, FrontAndTail, HeadTailProperties
    <3>3. 1 \in DOMAIN handlers /\ Head(handlers) = handlers[1]
      BY <1>0, <3>1, FrontAndTail
    <3>4. \A k \in DOMAIN handlers' : handlers'[k] # Head(handlers)
      BY <3>2, <3>3 DEF HandlersOnce
    <3>5. cleaning'[t] # Nobody => data[Head(handlers)] = "attached" /\ cleaning'[t] = Head(handlers)
      BY <2>2, <3>1 DEF RunHandler, Walk, deinit, LInv, TypeOK
    <3> QED
      BY <3>1, <3>4, <3>5 DEF ExitWalk
  <2>3. CASE FreeTables(t)
    <3>1. /\ handlers' = handlers /\ exiter' = exiter /\ cleaning[t] \in Interps
          /\ \A s \in Interps : cleaning'[s] = IF s = t THEN Nobody ELSE cleaning[s]
          /\ \A i \in Interps : data'[i] = data[i] \/ data'[i] = IF t = exiter THEN "freed" ELSE "deleted"
      BY <2>3 DEF FreeTables, Walking, LInv, TypeOK
    <3>2. \A i \in Interps : data'[i] = "freed" => exiter' # Nobody
      BY <3>1, LifecycleAssumption DEF ExitWalk
    <3>3. ASSUME exiter # Nobody, cleaning'[exiter] # Nobody
          PROVE  data'[cleaning'[exiter]] # "freed"
      BY <1>e, <3>1, <3>3 DEF ExitWalk
    <3> QED
      BY <1>e, <3>1, <3>2, <3>3 DEF ExitWalk
  <2>4. CASE Exit(t)
    BY <2>4, LifecycleAssumption DEF Exit, deinit, ExitWalk
  <2>5. CASE Delete(t)
    <3>1. exiter' = exiter /\ t # exiter /\ data' = data /\ handlers' = handlers
      BY <2>5 DEF Delete, Ready, Scripting
    <3>2. exiter # Nobody => cleaning'[exiter] = cleaning[exiter]
      BY <1>e, <2>5, <3>1 DEF Delete, Walk, deinit, LInv, TypeOK
    <3> QED
      BY <3>1, <3>2 DEF ExitWalk
  <2>6. CASE ~ Load(t) /\ ~ RunHandler(t) /\ ~ FreeTables(t) /\ ~ Exit(t) /\ ~ Delete(t)
    <3>1. handlers' = handlers /\ data' = data /\ exiter' = exiter /\ cleaning' = cleaning
      BY <1>2, <2>6 DEF Command, Cleanup, Open, Close, Races, Enter, Leave,
         CleanHandle, FreeVector, Exited, exit, deinit
    <3> QED
      BY <3>1 DEF ExitWalk
  <2> QED
    BY <1>2, <2>1, <2>2, <2>3, <2>4, <2>5, <2>6
<1> QED
  BY <1>1, <1>2 DEF Next

\* With one interpreter, the walk of exit is over tables that are there, and whose
\* handles nobody else closes.
LEMMA UndisturbedKeeps ==
  ASSUME LInv, Walkers, HandlersOnce, ExitWalk, Undisturbed, [Next]_vars
  PROVE  Undisturbed'
<1> SUFFICES ASSUME ~ Several'
             PROVE  /\ process' \in {"running", "exiting", "exited", "used freed"}
                    /\ exiter' # Nobody /\ cleaning'[exiter'] # Nobody
                         => left'[exiter'] \subseteq lib_open'
  BY DEF Undisturbed
<1>0. ~ Several
  BY SeveralStays
<1>a. /\ process \in {"running", "exiting", "exited", "used freed"}
      /\ exiter # Nobody /\ cleaning[exiter] # Nobody => left[exiter] \subseteq lib_open
  BY <1>0 DEF Undisturbed
<1>e. exiter \in Interps \cup {Nobody} /\ \A s \in Interps : cleaning[s] \in Interps \cup {Nobody}
  BY DEF LInv, TypeOK
<1>b. ASSUME NEW s \in Interps, cleaning[s] # Nobody
      PROVE  s = exiter
  <2>1. s # exiter => cleaning[s] = s
    BY <1>b DEF Walkers
  <2> QED
    BY <1>0, <2>1 DEF Several
<1>c. ASSUME NEW s \in Interps, data[s] # "none", exiter # Nobody
      PROVE  s = exiter
  BY <1>0, <1>c, <1>e DEF Several
<1>d. ASSUME NEW s \in Interps, data[s] = "freed"
      PROVE  s = exiter
  BY <1>c, <1>d DEF ExitWalk
<1>1. CASE UNCHANGED vars
  BY <1>1, <1>a DEF vars, deinit, exit
<1>2. ASSUME NEW t \in Interps, Command(t) \/ Cleanup(t)
      PROVE  /\ process' \in {"running", "exiting", "exited", "used freed"}
             /\ exiter' # Nobody /\ cleaning'[exiter'] # Nobody
                  => left'[exiter'] \subseteq lib_open'
  <2> USE LifecycleAssumption
  <2>1. CASE Load(t) \/ Enter(t)
    BY <1>a, <2>1 DEF Load, Enter, deinit, exit
  <2>2. CASE Open(t)
    <3>1. lib_open \subseteq lib_open' /\ UNCHANGED deinit /\ UNCHANGED exit
      BY <2>2 DEF Open
    <3> QED
      BY <1>a, <3>1 DEF deinit, exit
  <2>3. CASE Close(t)
    <3>1. exiter = Nobody
      BY <1>c, <2>3 DEF Close, Scripting, Safe
    <3> QED
      BY <1>a, <2>3, <3>1 DEF Close, deinit, exit
  <2>4. CASE Races(t)
    <3>1. t # exiter /\ cleaning[t] = Nobody /\ data[t] \in {"attached", "freed"} /\ ~ Safe(t)
      BY <2>4 DEF Races, Scripting
    <3>2. data[t] = "attached"
      BY <1>d, <3>1
    <3>3. PICK s \in Interps : cleaning[s] = t
      BY <3>1, <3>2 DEF Safe
    <3>4. s = exiter
      BY <1>b, <3>3
    <3> QED
      BY <1>c, <3>1, <3>2, <3>4
  <2>5. CASE Leave(t)
    <3>1. process' \in {process, "used freed"} /\ UNCHANGED <<deinit, exiter, lib_open>>
      BY <2>5 DEF Leave
    <3> QED
      BY <1>a, <3>1 DEF deinit
  <2>6. CASE Delete(t)
    <3>1. t # exiter /\ data[t] \in {"attached", "freed"}
      BY <2>6 DEF Delete, Ready, Scripting
    <3>2. data[t] = "attached"
      BY <1>d, <3>1
    <3>3. cleaning'[t] = t /\ exiter' = exiter
      BY <2>6, <3>2 DEF Delete, Walk, LInv, TypeOK
    <3> QED
      BY <3>1, <3>3 DEF Several
  <2>7. CASE Exit(t)
    BY <1>a, <2>7 DEF Exit, deinit
  <2>8. CASE RunHandler(t)
    <3>1. handlers # <<>> /\ t = exiter /\ exiter # Nobody /\ process = "exiting" /\ cleaning[t] = Nobody
      BY <2>8 DEF RunHandler, Idle
    <3> DEFINE i == Head(handlers)
    <3>2. i \in Interps /\ data[i] \notin {"none", "freed"}
      <4>1. handlers \in Seq(Interps) /\ 1 \in DOMAIN handlers /\ i = handlers[1]
        BY <1>e, <3>1, FrontAndTail DEF LInv, TypeOK
      <4> QED
        BY <4>1, ElementOfSeq DEF HandlersOnce
    <3>3. data[i] = "attached" /\ i = exiter
      BY <1>0, <1>c, <3>1, <3>2 DEF Several, LInv, TypeOK
    <3>4. \A s \in Interps : cleaning[s] # i
      BY <1>b, <3>1, <3>2
    <3>5. table[i] \subseteq lib_open
      BY <3>1, <3>2, <3>3, <3>4 DEF LInv, TablesOpen, Alive
    <3>6. process' = process /\ cell' = cell /\ left' = [left EXCEPT ![t] = table[i]]
          /\ exiter' = exiter /\ lib_open' = lib_open
      BY <2>8, <3>3 DEF RunHandler, Walk
    <3> QED
      BY <1>a, <3>1, <3>5, <3>6 DEF LInv, TypeOK
  <2>9. CASE CleanHandle(t)
    <3>1. t = exiter /\ exiter # Nobody /\ cleaning[t] \in Interps
      BY <1>b, <1>e, <2>9 DEF CleanHandle, Walking
    <3>2. data[cleaning[t]] = "attached"
      <4>1. data[cleaning[t]] \in {"none", "attached", "freed", "deleted"}
        BY <3>1 DEF LInv, TypeOK
      <4>2. data[cleaning[t]] \notin {"none", "freed", "deleted"}
        BY <1>0, <3>1 DEF ExitWalk, Walkers, Several
      <4> QED
        BY <4>1, <4>2
    <3>3. PICK h \in left[t] : CleansUp(t, h) /\ left' = [left EXCEPT ![t] = @ \ {h}]
      BY <2>9 DEF CleanHandle
    <3>4. h \in lib_open
      BY <1>a, <3>1, <3>3
    <3>5. lib_open' = lib_open \ {h} /\ process' = process
      BY <3>2, <3>3, <3>4 DEF CleansUp
    <3>6. exiter' = exiter /\ cleaning' = cleaning 
      BY <2>9 DEF CleanHandle
    <3>8. left'[t] \subseteq lib_open'
      BY <1>a, <3>1, <3>3, <3>5 DEF LInv, TypeOK
    <3> QED
      BY <1>a, <3>1, <3>5, <3>6, <3>8
  <2>10. CASE FreeVector(t)
    BY <1>a, <2>10 DEF FreeVector
  <2>11. CASE FreeTables(t)
    <3>1. t = exiter /\ exiter # Nobody /\ cleaning[t] \in Interps
      BY <1>b, <1>e, <2>11 DEF FreeTables, Walking
    <3>2. data[cleaning[t]] = "attached"
      <4>1. data[cleaning[t]] \in {"none", "attached", "freed", "deleted"}
        BY <3>1 DEF LInv, TypeOK
      <4>2. data[cleaning[t]] \notin {"none", "freed", "deleted"}
        BY <1>0, <3>1 DEF ExitWalk, Walkers, Several
      <4> QED
        BY <4>1, <4>2
    <3>3. cleaning'[t] = Nobody
      BY <2>11 DEF FreeTables, LInv, TypeOK
    <3> QED
      BY <1>a, <2>11, <3>1, <3>2, <3>3 DEF FreeTables
  <2>12. CASE Exited(t)
    BY <1>a, <2>12 DEF Exited, deinit
  <2> QED
    BY <1>2, <2>1, <2>2, <2>3, <2>4, <2>5, <2>6, <2>7, <2>8, <2>9, <2>10, <2>11, <2>12
       DEF Command, Cleanup
<1> QED
  BY <1>1, <1>2 DEF Next

\* What holds of a process that is alone is inductive, beside LInv.
THEOREM AloneInductive == Spec => []QInv
<1>1. Init => QInv
  BY LifecycleAssumption DEF Init, QInv, Walkers, HandlersOnce, ExitWalk, Undisturbed
<1>2. ASSUME LInv, QInv, [Next]_vars
      PROVE  QInv'
  <2>1. Walkers' /\ HandlersOnce'
    BY <1>2, WalkersKeep, HandlersOnceKeep DEF QInv
  <2>2. ExitWalk' /\ Undisturbed'
    BY <1>2, ExitWalkKeeps, UndisturbedKeeps DEF QInv
  <2> QED
    BY <2>1, <2>2 DEF QInv
<1> QED
  BY <1>1, <1>2, LifecycleInductive, PTL DEF Spec

\* As long as one interpreter is loaded, is not deleted, and no other thread calls exit,
\* nothing is freed twice and no tables are raced for, whatever callbacks do.
THEOREM AloneFreesOnce == Spec => []OneThreadFreesOnce
<1>1. QInv => OneThreadFreesOnce
  BY DEF QInv, Undisturbed, Several, OneThreadFreesOnce
<1> QED
  BY <1>1, AloneInductive, PTL

-----------------------------------------------------------------------------
(* Exit comes to an end: what is left of it, counted.                      *)

FiniteTables == \A i \in Interps : IsFiniteSet(table[i]) /\ IsFiniteSet(left[i])

NotLoaded == {i \in Interps : data[i] = "none"}

\* Exit handlers that may have to be run yet, those included that interpreters which
\* are not loaded may still register.
ToRun == Len(handlers) + Cardinality(NotLoaded)

\* Steps that the walk of t has left: two for a handle, and the tables themselves.
Work(t) == IF cleaning[t] = Nobody THEN 0
           ELSE 2 * Cardinality(left[t]) + (IF cell[t] = "none" THEN 1 ELSE 2)

\* No step makes exit longer, or a walk that has begun; the steps of Tcl through its
\* handlers, and of Dtrace_DeInit through the tables, make them shorter.
CleanupGetsOn ==
  /\ ToRun' <= ToRun
  /\ \A t \in Interps :
       /\ RunHandler(t) => ToRun' < ToRun
       /\ CleanHandle(t) \/ FreeVector(t) \/ FreeTables(t) => Work(t)' < Work(t)
       /\ cleaning[t] # Nobody => Work(t)' <= Work(t)

LEMMA TablesStayFinite == ASSUME TypeOK, FiniteTables, [Next]_vars PROVE FiniteTables'
<1>1. CASE UNCHANGED vars
  BY <1>1 DEF vars, deinit, FiniteTables
<1>2. ASSUME NEW t \in Interps, Command(t) \/ Cleanup(t), NEW i \in Interps
      PROVE  IsFiniteSet(table'[i])
  <2>0. IsFiniteSet(table[i])
    BY DEF FiniteTables
  <2>1. CASE Open(t)
    <3>1. PICK h \in Handles : table' = [table EXCEPT ![t] = table[t] \cup {h}]
      BY <2>1 DEF Open
    <3>2. table'[i] = table[i] \/ table'[i] = table[i] \cup {h}
      BY <3>1 DEF TypeOK
    <3> QED BY <2>0, <3>2, FS_AddElement
  <2>2. CASE Close(t) \/ FreeTables(t)
    <3>1. table'[i] \subseteq table[i]
      BY <2>2 DEF Close, FreeTables, TypeOK
    <3> QED BY <2>0, <3>1, FS_Subset
  <2>3. CASE table' = table
    BY <2>0, <2>3
  <2>4. Open(t) \/ Close(t) \/ FreeTables(t) \/ table' = table
    BY <1>2 DEF Command, Cleanup, Load, Races, Enter, Leave, Delete, Exit, RunHandler,
       CleanHandle, FreeVector, Exited
  <2> QED BY <2>1, <2>2, <2>3, <2>4
<1>3. ASSUME NEW t \in Interps, Command(t) \/ Cleanup(t), NEW i \in Interps
      PROVE  IsFiniteSet(left'[i])
  <2>0. IsFiniteSet(left[i])
    BY DEF FiniteTables
  <2>1. CASE Delete(t) \/ RunHandler(t)
    <3>1. left' = left \/ \E j \in Interps : left' = [left EXCEPT ![t] = table[j]]
      <4>1. CASE Delete(t)
        BY <4>1 DEF Delete, Walk, deinit
      <4>2. CASE RunHandler(t)
        <5>1. Head(handlers) \in Interps
          BY <4>2, HeadTailProperties DEF RunHandler, TypeOK
        <5> QED BY <4>2, <5>1 DEF RunHandler, Walk, deinit
      <4> QED BY <2>1, <4>1, <4>2
    <3> QED BY <2>0, <3>1 DEF FiniteTables, TypeOK
  <2>2. CASE CleanHandle(t)
    <3>1. left'[i] \subseteq left[i]
      BY <2>2 DEF CleanHandle, TypeOK
    <3> QED BY <2>0, <3>1, FS_Subset
  <2>3. CASE left' = left
    BY <2>0, <2>3
  <2>4. Delete(t) \/ RunHandler(t) \/ CleanHandle(t) \/ left' = left
    BY <1>3 DEF Command, Cleanup, Load, Open, Close, Races, Enter, Leave, Exit,
       FreeVector, FreeTables, Exited, deinit
  <2> QED BY <2>1, <2>2, <2>3, <2>4
<1> QED BY <1>1, <1>2, <1>3 DEF Next, FiniteTables

\* Tables stay finite, however many handles are opened.
THEOREM TablesAreFinite == Spec => []FiniteTables
<1>1. Init => FiniteTables
  BY FS_EmptySet DEF Init, FiniteTables
<1>2. TypeOK /\ FiniteTables /\ [Next]_vars => FiniteTables'
  BY TablesStayFinite
<1> QED BY <1>1, <1>2, LifecycleTypeCorrect, PTL DEF Spec

LEMMA ToRunShrinks ==
  ASSUME TypeOK, NEW t \in Interps, Command(t) \/ Cleanup(t)
  PROVE  ToRun' <= ToRun /\ (RunHandler(t) => ToRun' < ToRun)
<1>0. /\ IsFiniteSet(NotLoaded) /\ Cardinality(NotLoaded) \in Nat
      /\ handlers \in Seq(Interps) /\ Len(handlers) \in Nat
  <2>1. IsFiniteSet(NotLoaded)
    <3>1. NotLoaded \subseteq Interps
      BY DEF NotLoaded
    <3> QED BY <3>1, FinitelyManyInterps, FS_Subset
  <2>2. Cardinality(NotLoaded) \in Nat
    BY <2>1, FS_CardinalityType
  <2>3. handlers \in Seq(Interps)
    BY DEF TypeOK
  <2>4. Len(handlers) \in Nat
    BY <2>3, LenProperties
  <2> QED BY <2>1, <2>2, <2>3, <2>4
<1>1. CASE Load(t)
  <2>1. NotLoaded' = NotLoaded \ {t} /\ t \in NotLoaded
    BY <1>1 DEF Load, NotLoaded, TypeOK
  <2>2. Cardinality(NotLoaded') = Cardinality(NotLoaded) - 1
    BY <1>0, <2>1, FS_RemoveElement
  <2>3. Len(handlers') = Len(handlers) + 1
    <3>1. handlers' = <<t>> \o handlers /\ <<t>> \in Seq(Interps) /\ Len(<<t>>) = 1
      BY <1>1 DEF Load
    <3>2. Len(handlers') = Len(<<t>>) + Len(handlers)
      BY <1>0, <3>1, ConcatProperties
    <3> QED BY <1>0, <3>1, <3>2
  <2>4. ~ RunHandler(t)
    BY <1>1 DEF Load, RunHandler, Idle
  <2> QED BY <1>0, <2>2, <2>3, <2>4 DEF ToRun
<1>2. CASE RunHandler(t)
  <2>1. NotLoaded' = NotLoaded
    BY <1>2 DEF RunHandler, NotLoaded
  <2>2. Len(handlers') = Len(handlers) - 1
    BY <1>0, <1>2, HeadTailProperties DEF RunHandler
  <2> QED BY <1>0, <2>1, <2>2 DEF ToRun
<1>3. CASE ~ Load(t) /\ ~ RunHandler(t)
  <2>1. handlers' = handlers
    BY <1>3 DEF Command, Cleanup, Open, Close, Races, Enter, Leave, Delete, Exit,
       CleanHandle, FreeVector, FreeTables, Exited
  <2>2. NotLoaded' = NotLoaded
    <3>1. CASE FreeTables(t)
      BY <3>1 DEF FreeTables, NotLoaded, TypeOK
    <3>2. CASE ~ FreeTables(t)
      <4>1. data' = data
        BY <1>3, <3>2 DEF Command, Cleanup, Open, Close, Races, Enter, Leave, Delete, Exit,
           CleanHandle, FreeVector, Exited
      <4> QED BY <4>1 DEF NotLoaded
    <3> QED BY <3>1, <3>2
  <2> QED BY <1>0, <1>3, <2>1, <2>2 DEF ToRun
<1> QED BY <1>1, <1>2, <1>3

\* What the steps of t do to a walk: only t goes on with it.
LEMMA WalkFrames ==
  ASSUME TypeOK, NEW t \in Interps, Command(t) \/ Cleanup(t),
         NEW w \in Interps, cleaning[w] # Nobody
  PROVE  \/ /\ cleaning'[w] = cleaning[w] /\ left'[w] = left[w]
            /\ (cell'[w] = "none") = (cell[w] = "none")
         \/ w = t /\ (CleanHandle(t) \/ FreeVector(t) \/ FreeTables(t))
<1>2. CASE Delete(t) \/ RunHandler(t)
  <2>1. w # t
    BY <1>2 DEF Delete, Ready, Scripting, RunHandler, Idle
  <2>2. /\ cleaning'[w] = cleaning[w] /\ left'[w] = left[w] /\ cell' = cell
    BY <1>2, <2>1 DEF Delete, RunHandler, Walk, deinit, TypeOK
  <2> QED BY <2>2
<1>3. CASE CleanHandle(t) \/ FreeVector(t) \/ FreeTables(t)
  <2>1. CASE w = t
    BY <1>3, <2>1
  <2>2. CASE w # t
    <3>1. cleaning'[w] = cleaning[w] /\ left'[w] = left[w] /\ cell'[w] = cell[w]
      BY <1>3, <2>2 DEF CleanHandle, FreeVector, FreeTables, TypeOK
    <3> QED BY <3>1
  <2> QED BY <2>1, <2>2
<1>4. CASE UNCHANGED deinit
  BY <1>4 DEF deinit
<1>5. \/ Delete(t) \/ RunHandler(t)
      \/ CleanHandle(t) \/ FreeVector(t) \/ FreeTables(t) \/ UNCHANGED deinit
  BY DEF Command, Cleanup, Load, Open, Close, Races, Enter, Leave, Exit, Exited, deinit
<1> QED BY <1>2, <1>3, <1>4, <1>5

LEMMA WorkShrinks ==
  ASSUME TypeOK, FiniteTables, NEW t \in Interps,
         CleanHandle(t) \/ FreeVector(t) \/ FreeTables(t)
  PROVE  Work(t)' < Work(t)
<1>0. Cardinality(left[t]) \in Nat /\ IsFiniteSet(left[t]) /\ cleaning[t] # Nobody
  BY FS_CardinalityType DEF FiniteTables, CleanHandle, FreeVector, FreeTables, Walking
<1>1. CASE CleanHandle(t)
  <2>1. PICK h \in left[t] : left' = [left EXCEPT ![t] = left[t] \ {h}]
    BY <1>1 DEF CleanHandle
  <2>2. left'[t] = left[t] \ {h}
    BY <2>1 DEF TypeOK
  <2>3. Cardinality(left'[t]) = Cardinality(left[t]) - 1
    BY <1>0, <2>1, <2>2, FS_RemoveElement
  <2>4. cell[t] = "none" /\ cell'[t] = "freed" /\ cleaning'[t] = cleaning[t]
    BY <1>1 DEF CleanHandle, TypeOK
  <2> QED BY <1>0, <2>3, <2>4 DEF Work
<1>2. CASE FreeVector(t)
  <2>1. /\ cell[t] # "none" /\ cell'[t] = "none"
        /\ cleaning'[t] = cleaning[t] /\ left'[t] = left[t]
    BY <1>2 DEF FreeVector, TypeOK
  <2> QED BY <1>0, <2>1 DEF Work
<1>3. CASE FreeTables(t)
  <2>1. cleaning'[t] = Nobody
    BY <1>3 DEF FreeTables, TypeOK
  <2> QED BY <1>0, <2>1 DEF Work
<1> QED BY <1>1, <1>2, <1>3

\* However many interpreters and handles there are and whatever other threads do, exit
\* has no end of handlers to run (Tcl's exit handlers, registered by Dtrace_Init) and no
\* walk of Dtrace_DeInit has an end of handles to close: each of their steps lowers a
\* number that nothing raises.  What ExitHappens needs beside it is the scheduling.
THEOREM CleanupAlwaysGetsOn == Spec => [][CleanupGetsOn]_vars
<1>1. ASSUME TypeOK, FiniteTables, Next
      PROVE  CleanupGetsOn
  <2>1. PICK t \in Interps : Command(t) \/ Cleanup(t)
    BY <1>1 DEF Next
  <2>2. ToRun' <= ToRun
    BY <1>1, <2>1, ToRunShrinks
  <2>3. ASSUME NEW w \in Interps
        PROVE  /\ RunHandler(w) => ToRun' < ToRun
               /\ CleanHandle(w) \/ FreeVector(w) \/ FreeTables(w) => Work(w)' < Work(w)
               /\ cleaning[w] # Nobody => Work(w)' <= Work(w)
    <3>1. RunHandler(w) => ToRun' < ToRun
      BY <1>1, ToRunShrinks DEF Cleanup
    <3>2. CleanHandle(w) \/ FreeVector(w) \/ FreeTables(w) => Work(w)' < Work(w)
      BY <1>1, WorkShrinks
    <3>3. ASSUME cleaning[w] # Nobody
          PROVE  Work(w)' <= Work(w)
      <4>1. Work(w) \in Nat
        BY <1>1, FS_CardinalityType DEF Work, FiniteTables
      <4>2. CASE CleanHandle(w) \/ FreeVector(w) \/ FreeTables(w)
        <5>1. Work(w)' \in Nat
          <6>1. FiniteTables'
            BY <1>1, TablesStayFinite
          <6>2. IsFiniteSet(left'[w])
            BY <6>1 DEF FiniteTables
          <6>3. Cardinality(left'[w]) \in Nat
            BY <6>2, FS_CardinalityType
          <6> QED BY <6>3 DEF Work
        <5> QED BY <3>2, <4>1, <4>2, <5>1
      <4>3. CASE ~ (CleanHandle(w) \/ FreeVector(w) \/ FreeTables(w))
        <5>1. /\ cleaning'[w] = cleaning[w] /\ left'[w] = left[w]
              /\ (cell'[w] = "none") = (cell[w] = "none")
          BY <1>1, <2>1, <3>3, <4>3, WalkFrames
        <5>2. Work(w)' = Work(w)
          BY <5>1 DEF Work
        <5> QED BY <4>1, <5>2
      <4> QED BY <4>2, <4>3
    <3> QED BY <3>1, <3>2, <3>3
  <2> QED BY <2>2, <2>3 DEF CleanupGetsOn
<1>2. TypeOK /\ FiniteTables /\ [Next]_vars => [CleanupGetsOn]_vars
  BY <1>1
<1> QED BY <1>2, LifecycleTypeCorrect, TablesAreFinite, PTL DEF Spec
=============================================================================
