--------------------------- MODULE DtraceListProofs ---------------------------
(***************************************************************************)
(* Proofs about DtraceList and DtraceNames, for every set of programs, of  *)
(* clauses and of probes, and every size of the array of formatProbeDesc.  *)
(***************************************************************************)
EXTENDS DtraceList, Inductions

-----------------------------------------------------------------------------
(* Names                                                                   *)

ColonFree(s) == \A k \in DOMAIN s : s[k] # Colon

\* A text with a colon tells its part after the last one, and the part before.
LEMMA LastColon ==
  ASSUME NEW s \in Seq(Chars), NEW t \in Seq(Chars), NEW u \in Seq(Chars), NEW v \in Seq(Chars),
         ColonFree(u), ColonFree(v), (s \o <<Colon>>) \o u = (t \o <<Colon>>) \o v
  PROVE  s = t /\ u = v
<1> DEFINE c == <<Colon>>
           sc == s \o c
           tc == t \o c
<1>1. c \in Seq(Chars) /\ Len(c) = 1 /\ c[1] = Colon
  BY NamesAssumption
<1> HIDE DEF c
<1>2. /\ sc \in Seq(Chars) /\ Len(sc) = Len(s) + 1 /\ sc[Len(s) + 1] = Colon
      /\ \A i \in 1..Len(s) : sc[i] = s[i]
  <2>1. /\ sc \in Seq(Chars) /\ Len(sc) = Len(s) + Len(c)
        /\ \A i \in 1..(Len(s) + Len(c)) : sc[i] = IF i <= Len(s) THEN s[i] ELSE c[i - Len(s)]
    BY <1>1, ConcatProperties
  <2>2. Len(s) \in Nat
    BY LenProperties
  <2> HIDE DEF sc
  <2>3. sc[Len(s) + 1] = c[(Len(s) + 1) - Len(s)]
    <3>1. Len(s) + 1 \in 1..(Len(s) + Len(c)) /\ ~ (Len(s) + 1 <= Len(s))
      BY <1>1, <2>2
    <3> QED
      BY <2>1, <3>1
  <2>4. (Len(s) + 1) - Len(s) = 1
    BY <2>2
  <2>5. \A i \in 1..Len(s) : sc[i] = s[i]
    BY <1>1, <2>1, <2>2
  <2> QED
    BY <1>1, <2>1, <2>3, <2>4, <2>5
<1>3. /\ tc \in Seq(Chars) /\ Len(tc) = Len(t) + 1 /\ tc[Len(t) + 1] = Colon
      /\ \A i \in 1..Len(t) : tc[i] = t[i]
  <2>1. /\ tc \in Seq(Chars) /\ Len(tc) = Len(t) + Len(c)
        /\ \A i \in 1..(Len(t) + Len(c)) : tc[i] = IF i <= Len(t) THEN t[i] ELSE c[i - Len(t)]
    BY <1>1, ConcatProperties
  <2>2. Len(t) \in Nat
    BY LenProperties
  <2> HIDE DEF tc
  <2>3. tc[Len(t) + 1] = c[(Len(t) + 1) - Len(t)]
    <3>1. Len(t) + 1 \in 1..(Len(t) + Len(c)) /\ ~ (Len(t) + 1 <= Len(t))
      BY <1>1, <2>2
    <3> QED
      BY <2>1, <3>1
  <2>4. (Len(t) + 1) - Len(t) = 1
    BY <2>2
  <2>5. \A i \in 1..Len(t) : tc[i] = t[i]
    BY <1>1, <2>1, <2>2
  <2> QED
    BY <1>1, <2>1, <2>3, <2>4, <2>5
<1>4. sc \o u = tc \o v
  BY DEF c
<1> HIDE DEF sc, tc
<1>5. /\ Len(sc \o u) = Len(sc) + Len(u)
      /\ \A i \in 1..(Len(sc) + Len(u)) : (sc \o u)[i] = IF i <= Len(sc) THEN sc[i] ELSE u[i - Len(sc)]
  BY <1>2, ConcatProperties
<1>6. /\ Len(tc \o v) = Len(tc) + Len(v)
      /\ \A i \in 1..(Len(tc) + Len(v)) : (tc \o v)[i] = IF i <= Len(tc) THEN tc[i] ELSE v[i - Len(tc)]
  BY <1>3, ConcatProperties
<1>0. /\ \A k \in DOMAIN u : u[k] # Colon
      /\ \A k \in DOMAIN v : v[k] # Colon
  BY DEF ColonFree
<1>7. /\ Len(s) \in Nat /\ Len(t) \in Nat /\ Len(u) \in Nat /\ Len(v) \in Nat
      /\ DOMAIN u = 1..Len(u) /\ DOMAIN v = 1..Len(v)
  BY LenProperties
<1>8. ~ (Len(s) < Len(t))
  <2> SUFFICES ASSUME Len(s) < Len(t)
               PROVE  FALSE
    OBVIOUS
  <2>1. (sc \o u)[Len(tc)] = u[Len(tc) - Len(sc)] /\ Len(tc) - Len(sc) \in DOMAIN u
    <3>1. /\ Len(sc) \in Nat /\ Len(tc) \in Nat /\ Len(sc) < Len(tc)
          /\ Len(sc) + Len(u) = Len(tc) + Len(v)
      BY <1>2, <1>3, <1>4, <1>5, <1>6, <1>7
    <3>2. /\ Len(tc) \in 1..(Len(sc) + Len(u)) /\ ~ (Len(tc) <= Len(sc))
          /\ Len(tc) - Len(sc) \in 1..Len(u)
      BY <1>7, <3>1
    <3> QED
      BY <1>5, <1>7, <3>2
  <2>2. (tc \o v)[Len(tc)] = Colon
    BY <1>3, <1>6, <1>7
  <2> QED
    BY <1>0, <1>4, <2>1, <2>2
<1>9. ~ (Len(t) < Len(s))
  <2> SUFFICES ASSUME Len(t) < Len(s)
               PROVE  FALSE
    OBVIOUS
  <2>1. (tc \o v)[Len(sc)] = v[Len(sc) - Len(tc)] /\ Len(sc) - Len(tc) \in DOMAIN v
    <3>1. /\ Len(sc) \in Nat /\ Len(tc) \in Nat /\ Len(tc) < Len(sc)
          /\ Len(sc) + Len(u) = Len(tc) + Len(v)
      BY <1>2, <1>3, <1>4, <1>5, <1>6, <1>7
    <3>2. /\ Len(sc) \in 1..(Len(tc) + Len(v)) /\ ~ (Len(sc) <= Len(tc))
          /\ Len(sc) - Len(tc) \in 1..Len(v)
      BY <1>7, <3>1
    <3> QED
      BY <1>6, <1>7, <3>2
  <2>2. (sc \o u)[Len(sc)] = Colon
    BY <1>2, <1>5, <1>7
  <2> QED
    BY <1>0, <1>4, <2>1, <2>2
<1>10. Len(s) = Len(t) /\ Len(sc) = Len(tc) /\ Len(u) = Len(v)
  <2>1. Len(s) = Len(t)
    BY <1>7, <1>8, <1>9
  <2>2. Len(sc) + Len(u) = Len(tc) + Len(v)
    BY <1>4, <1>5, <1>6
  <2>3. Len(sc) = Len(tc)
    BY <1>2, <1>3, <2>1
  <2>4. Len(sc) \in Nat
    BY <1>2, <1>7
  <2>5. Len(sc) + Len(u) = Len(sc) + Len(v) /\ Len(u) \in Nat /\ Len(v) \in Nat
    BY <1>7, <2>2, <2>3
  <2>6. \A a, b, n \in Nat : n + a = n + b => a = b
    OBVIOUS
  <2>7. Len(u) = Len(v)
    BY <2>4, <2>5, <2>6
  <2> QED
    BY <2>1, <2>3, <2>7
<1>11. ASSUME NEW i \in 1..Len(s)
       PROVE  s[i] = t[i]
  <2>1. i \in 1..(Len(sc) + Len(u)) /\ i <= Len(sc)
    BY <1>2, <1>7
  <2>2. (sc \o u)[i] = sc[i] /\ (tc \o v)[i] = tc[i]
    BY <1>5, <1>6, <1>10, <2>1
  <2> QED
    BY <1>2, <1>3, <1>4, <1>10, <2>2
<1>12. ASSUME NEW i \in 1..Len(u)
       PROVE  u[i] = v[i]
  <2>1. /\ i + Len(sc) \in 1..(Len(sc) + Len(u)) /\ ~ (i + Len(sc) <= Len(sc))
        /\ (i + Len(sc)) - Len(sc) = i
    BY <1>2, <1>7
  <2>2. (sc \o u)[i + Len(sc)] = u[i] /\ (tc \o v)[i + Len(sc)] = v[i]
    BY <1>5, <1>6, <1>10, <2>1
  <2> QED
    BY <1>4, <2>2
<1>13. s = t
  BY <1>10, <1>11, SeqEqual
<1>14. u = v
  BY <1>10, <1>12, SeqEqual
<1> QED
  BY <1>13, <1>14

\* A description is its four fields.
LEMMA FourFields ==
  ASSUME NEW p \in Descriptions, NEW q \in Descriptions,
         p.dtpd_provider = q.dtpd_provider, p.dtpd_mod = q.dtpd_mod,
         p.dtpd_func = q.dtpd_func, p.dtpd_name = q.dtpd_name
  PROVE  p = q
<1>1. \A x \in Descriptions :
        x = [dtpd_provider |-> x.dtpd_provider, dtpd_mod |-> x.dtpd_mod,
             dtpd_func |-> x.dtpd_func, dtpd_name |-> x.dtpd_name]
  BY DEF Descriptions
<1> QED
  BY <1>1

\* The folded name of a description whose fields have no colon is that of no other.
LEMMA FoldedInjective ==
  ASSUME NEW p \in Descriptions, NEW q \in Descriptions, Legible(p), Legible(q),
         Folded(p) = Folded(q)
  PROVE  p = q
<1> DEFINE c == <<Colon>>
<1>1. /\ p.dtpd_provider \in Seq(Chars) /\ p.dtpd_mod \in Seq(Chars)
      /\ p.dtpd_func \in Seq(Chars) /\ p.dtpd_name \in Seq(Chars)
      /\ q.dtpd_provider \in Seq(Chars) /\ q.dtpd_mod \in Seq(Chars)
      /\ q.dtpd_func \in Seq(Chars) /\ q.dtpd_name \in Seq(Chars)
  BY DEF Descriptions
<1>2. ColonFree(p.dtpd_mod) /\ ColonFree(p.dtpd_func) /\ ColonFree(p.dtpd_name)
  <2>1. /\ Fields(p)[2] = p.dtpd_mod /\ Fields(p)[3] = p.dtpd_func /\ Fields(p)[4] = p.dtpd_name
    BY DEF Fields
  <2> QED
    BY <2>1 DEF Legible, ColonFree
<1>3. ColonFree(q.dtpd_mod) /\ ColonFree(q.dtpd_func) /\ ColonFree(q.dtpd_name)
  <2>1. /\ Fields(q)[2] = q.dtpd_mod /\ Fields(q)[3] = q.dtpd_func /\ Fields(q)[4] = q.dtpd_name
    BY DEF Fields
  <2> QED
    BY <2>1 DEF Legible, ColonFree
<1>4. c \in Seq(Chars)
  BY NamesAssumption
<1> DEFINE p2 == (p.dtpd_provider \o c) \o p.dtpd_mod
           p3 == (p2 \o c) \o p.dtpd_func
           q2 == (q.dtpd_provider \o c) \o q.dtpd_mod
           q3 == (q2 \o c) \o q.dtpd_func
<1>5. p2 \in Seq(Chars) /\ q2 \in Seq(Chars)
  BY <1>1, <1>4, ConcatProperties
<1>6. p3 \in Seq(Chars) /\ q3 \in Seq(Chars)
  <2> HIDE DEF p2, q2, c
  <2> QED
    BY <1>1, <1>4, <1>5, ConcatProperties
<1>7. (p3 \o c) \o p.dtpd_name = (q3 \o c) \o q.dtpd_name
  BY DEF Folded
<1>8. p3 = q3 /\ p.dtpd_name = q.dtpd_name
  <2>1. ColonFree(p.dtpd_name) /\ ColonFree(q.dtpd_name)
    BY <1>2, <1>3
  <2>2. p.dtpd_name \in Seq(Chars) /\ q.dtpd_name \in Seq(Chars)
    BY <1>1
  <2> HIDE DEF p3, q3
  <2> QED
    BY <1>6, <1>7, <2>1, <2>2, LastColon, Zenon
<1>9. p2 = q2 /\ p.dtpd_func = q.dtpd_func
  <2>1. (p2 \o c) \o p.dtpd_func = (q2 \o c) \o q.dtpd_func
    BY <1>8
  <2>2. ColonFree(p.dtpd_func) /\ ColonFree(q.dtpd_func)
    BY <1>2, <1>3
  <2>3. p.dtpd_func \in Seq(Chars) /\ q.dtpd_func \in Seq(Chars)
    BY <1>1
  <2> HIDE DEF p2, q2
  <2> QED
    BY <1>5, <2>1, <2>2, <2>3, LastColon, Zenon
<1>10. p.dtpd_provider = q.dtpd_provider /\ p.dtpd_mod = q.dtpd_mod
  <2>1. (p.dtpd_provider \o c) \o p.dtpd_mod = (q.dtpd_provider \o c) \o q.dtpd_mod
    BY <1>9
  <2>2. ColonFree(p.dtpd_mod) /\ ColonFree(q.dtpd_mod)
    BY <1>2, <1>3
  <2>3. p.dtpd_provider \in Seq(Chars) /\ q.dtpd_provider \in Seq(Chars)
    BY <1>1
  <2>4. p.dtpd_mod \in Seq(Chars) /\ q.dtpd_mod \in Seq(Chars)
    BY <1>1
  <2> HIDE DEF p2, q2, p3, q3
  <2> QED
    BY <2>1, <2>2, <2>3, <2>4, LastColon, Zenon
<1>11. p.dtpd_func = q.dtpd_func /\ p.dtpd_name = q.dtpd_name
  BY <1>8, <1>9
<1> HIDE DEF p3, q3, p2, q2
<1> QED
  BY <1>10, <1>11, FourFields

\* However it is folded, the name of a legible description is that of no other.
LEMMA NameInjective ==
  ASSUME NEW p \in Descriptions, NEW q \in Descriptions, Legible(p), Legible(q),
         NEW f \in BOOLEAN, NEW g \in BOOLEAN, formatProbeDesc(f, p) = formatProbeDesc(g, q)
  PROVE  p = q
<1> DEFINE text(x) == [text |-> Cut(Folded(x))]
           list(x) == [elements |-> Fields(x)]
<1>1. \A x, y : text(x) # list(y)
  <2> SUFFICES ASSUME NEW x, NEW y
               PROVE  text(x) # list(y)
    OBVIOUS
  <2>1. DOMAIN text(x) = {"text"} /\ DOMAIN list(y) = {"elements"}
    OBVIOUS
  <2> QED
    BY <2>1
<1>2. /\ formatProbeDesc(f, p) = IF f THEN text(p) ELSE list(p)
      /\ formatProbeDesc(g, q) = IF g THEN text(q) ELSE list(q)
  BY DEF formatProbeDesc
<1>3. CASE f /\ g
  <2>1. text(p).text = Cut(Folded(p)) /\ text(q).text = Cut(Folded(q))
    OBVIOUS
  <2>2. Cut(Folded(p)) = Cut(Folded(q))
    BY <1>2, <1>3, <2>1
  <2>3. Folded(p) \in Seq(Chars) /\ Folded(q) \in Seq(Chars)
    BY NamesAssumption DEF Folded, Descriptions
  <2>4. ASSUME NEW s \in Seq(Chars), Len(s) < NameSize
        PROVE  Cut(s) = s
    BY <2>4, SubSeqFull DEF Cut
  <2>5. Folded(p) = Folded(q)
    BY <2>2, <2>3, <2>4 DEF Legible
  <2> QED
    BY <2>5, FoldedInjective
<1>4. CASE ~ f /\ ~ g
  <2>1. list(p).elements = Fields(p) /\ list(q).elements = Fields(q)
    OBVIOUS
  <2>2. Fields(p) = Fields(q)
    BY <1>2, <1>4, <2>1
  <2>3. /\ p.dtpd_provider = q.dtpd_provider /\ p.dtpd_mod = q.dtpd_mod
        /\ p.dtpd_func = q.dtpd_func /\ p.dtpd_name = q.dtpd_name
    BY <2>2 DEF Fields
  <2> QED
    BY <2>3, FourFields
<1>5. CASE (f /\ ~ g) \/ (~ f /\ g)
  <2>1. text(p) # list(q) /\ text(q) # list(p)
    BY <1>1
  <2> HIDE DEF text, list
  <2>2. CASE f /\ ~ g
    BY <1>2, <2>1, <2>2
  <2>3. CASE ~ f /\ g
    BY <1>2, <2>1, <2>3
  <2> QED
    BY <1>5, <2>2, <2>3
<1> QED
  BY <1>3, <1>4, <1>5

-----------------------------------------------------------------------------
(* What the statements of a program list                                   *)

LEMMA AddedType ==
  ASSUME NEW prog \in Seq(Ecbs), NEW k \in 1..Len(prog)
  PROVE  Added(prog, k) \in Seq(Probes)
<1>1. prog[k] \in Ecbs /\ <<>> \in Seq(Probes)
  OBVIOUS
<1> QED
  BY <1>1, ListAssumption DEF Added

\* Walked is what the first of the statements make together.
LEMMA WalkedIs ==
  ASSUME NEW prog \in Seq(Ecbs)
  PROVE  \E ss \in [1..Len(prog) -> Seq(Probes)] :
           /\ \A k \in 1..Len(prog) : ss[k] = Added(prog, k)
           /\ \A n \in 0..Len(prog) : Walked(prog, n) = Joint(ss, n)
<1> DEFINE ss == [k \in 1..Len(prog) |-> Added(prog, k)]
<1>1. Len(prog) \in Nat
  OBVIOUS
<1>2. ss \in [1..Len(prog) -> Seq(Probes)]
  BY AddedType
<1>3. ASSUME NEW n \in 0..Len(prog)
      PROVE  Walked(prog, n) = Joint(ss, n)
  <2>1. [k \in 1..n |-> Added(prog, k)] = [k \in 1..n |-> ss[k]]
    BY <1>1
  <2> QED
    BY <2>1 DEF Walked, Joint
<1>4. \A k \in 1..Len(prog) : ss[k] = Added(prog, k)
  OBVIOUS
<1> HIDE DEF ss
<1> QED
  BY <1>2, <1>3, <1>4

LEMMA WalkedSteps ==
  ASSUME NEW prog \in Seq(Ecbs), NEW n \in Nat, n < Len(prog)
  PROVE  /\ Walked(prog, n) \in Seq(Probes)
         /\ Walked(prog, n + 1) = Walked(prog, n) \o Added(prog, n + 1)
<1>1. Len(prog) \in Nat /\ n \in 0..Len(prog) /\ n + 1 \in 0..Len(prog)
      /\ n + 1 \in 1..Len(prog)
  OBVIOUS
<1>2. PICK ss \in [1..Len(prog) -> Seq(Probes)] :
        /\ \A k \in 1..Len(prog) : ss[k] = Added(prog, k)
        /\ \A k \in 0..Len(prog) : Walked(prog, k) = Joint(ss, k)
  BY WalkedIs
<1>3. Joint(ss, n) \in Seq(Probes) /\ Joint(ss, n + 1) = Joint(ss, n) \o ss[n + 1]
  BY <1>1, JointGrows
<1> QED
  BY <1>1, <1>2, <1>3

\* What the first statements list comes first of what all list.
LEMMA WalkedComesFirst ==
  ASSUME NEW prog \in Seq(Ecbs), NEW n \in 0..Len(prog)
  PROVE  \E rest \in Seq(Probes) : Listing(prog) = Walked(prog, n) \o rest
<1>1. Len(prog) \in Nat /\ Len(prog) \in 0..Len(prog)
  OBVIOUS
<1>2. PICK ss \in [1..Len(prog) -> Seq(Probes)] :
        \A k \in 0..Len(prog) : Walked(prog, k) = Joint(ss, k)
  BY WalkedIs
<1>3. ComesFirst(Probes, Joint(ss, n), Joint(ss, Len(prog)))
  BY <1>1, JointComesFirst
<1> QED
  BY <1>1, <1>2, <1>3 DEF ComesFirst, Listing

-----------------------------------------------------------------------------
(* The walk                                                                *)

ProbesOf(calls) == [k \in DOMAIN calls |-> calls[k].probe]

\* list_arg knows the clause of the statement walked last.
LastStatement == last = IF stmt = 0 THEN NULL ELSE program[stmt]

\* The callback was run on all probes of the statements walked but those left.
Progress ==
  /\ pc \in {"walk", "callback"} => ProbesOf(called) \o left = Walked(program, stmt)
  /\ pc \in {"unmatched", "panic", "undefined"} =>
       \E rest \in Seq(Probes) : Listing(program) = ProbesOf(called) \o rest
  /\ pc = "idle" => Listing(program) = ProbesOf(called)

ListInv == TypeOK /\ LastStatement /\ Progress

LEMMA ProbesOfType ==
  ASSUME NEW calls \in Seq(Calls)
  PROVE  ProbesOf(calls) \in Seq(Probes)
<1>1. \A k \in DOMAIN calls : calls[k].probe \in Probes
  BY DEF Calls
<1>2. DOMAIN calls = 1..Len(calls) /\ Len(calls) \in Nat
  BY LenProperties
<1>3. ProbesOf(calls) \in [1..Len(calls) -> Probes]
  BY <1>1, <1>2 DEF ProbesOf
<1> QED
  BY <1>2, <1>3, SeqDef

\* One call more, and one probe less to come.
LEMMA CallMoves ==
  ASSUME NEW calls \in Seq(Calls), NEW probes \in Seq(Probes), probes # <<>>,
         NEW c \in Calls, c.probe = Head(probes)
  PROVE  ProbesOf(Append(calls, c)) \o Tail(probes) = ProbesOf(calls) \o probes
<1> DEFINE p == ProbesOf(calls)
           q == ProbesOf(Append(calls, c))
           h == Head(probes)
           r == Tail(probes)
<1>1. p \in Seq(Probes) /\ Append(calls, c) \in Seq(Calls)
  BY ProbesOfType, AppendProperties
<1>2. q \in Seq(Probes)
  BY <1>1, ProbesOfType
<1>3. h \in Probes /\ r \in Seq(Probes) /\ probes = <<h>> \o r /\ <<h>> \in Seq(Probes)
  <2>1. h \in Probes /\ r \in Seq(Probes)
    BY HeadTailProperties
  <2>2. probes = <<h>> \o r
    BY HeadTailProperties, ConcatProperties, SeqEqual
  <2> QED
    BY <2>1, <2>2
<1>4. q = Append(p, h)
  <2>1. /\ Len(Append(calls, c)) = Len(calls) + 1
        /\ \A k \in 1..Len(calls) : Append(calls, c)[k] = calls[k]
        /\ Append(calls, c)[Len(calls) + 1] = c
    BY AppendProperties
  <2>2. /\ DOMAIN Append(calls, c) = 1..(Len(calls) + 1) /\ DOMAIN calls = 1..Len(calls)
        /\ Len(calls) \in Nat
    BY <1>1, <2>1, LenProperties
  <2>3. Len(q) = Len(calls) + 1 /\ Len(p) = Len(calls)
    BY <2>2 DEF ProbesOf
  <2>4. \A k \in 1..Len(calls) : q[k] = p[k]
    BY <2>1, <2>2 DEF ProbesOf
  <2>5. q[Len(calls) + 1] = h
    BY <2>1, <2>2 DEF ProbesOf
  <2> HIDE DEF p, q, h
  <2>6. /\ Append(p, h) \in Seq(Probes) /\ Len(Append(p, h)) = Len(p) + 1
        /\ \A k \in 1..Len(p) : Append(p, h)[k] = p[k]
        /\ Append(p, h)[Len(p) + 1] = h
    BY <1>1, <1>3, AppendProperties
  <2>7. \A k \in 1..Len(q) : k \in 1..Len(p) \/ k = Len(p) + 1
    BY <2>2, <2>3
  <2>8. \A k \in 1..Len(q) : q[k] = Append(p, h)[k]
    BY <2>3, <2>4, <2>5, <2>6, <2>7
  <2> QED
    BY <1>2, <2>3, <2>6, <2>8, SeqEqual
<1> HIDE DEF p, q, h, r
<1>5. Append(p, h) = p \o <<h>>
  BY <1>1, <1>3, AppendIsConcat
<1>6. (p \o <<h>>) \o r = p \o (<<h>> \o r)
  BY <1>1, <1>3, ConcatAssociative
<1>7. q \o r = p \o probes
  BY <1>3, <1>4, <1>5, <1>6
<1> QED
  BY <1>7 DEF p, q, r

-----------------------------------------------------------------------------
LEMMA ListTypes ==
  ASSUME ListInv
  PROVE  /\ program \in Seq(Ecbs) /\ stmt \in 0..Len(program) /\ Len(program) \in Nat
         /\ ProbesOf(called) \in Seq(Probes) /\ left \in Seq(Probes)
         /\ called \in Seq(Calls) /\ \A prog \in Programs : prog \in Seq(Ecbs)
<1>1. \A prog \in Programs : prog \in Seq(Ecbs)
  BY ListAssumption
<1>2. program \in Seq(Ecbs)
  <2>1. <<>> \in Seq(Ecbs)
    OBVIOUS
  <2> QED
    BY <1>1, <2>1 DEF ListInv, TypeOK
<1>3. stmt \in 0..Len(program) /\ left \in Seq(Probes) /\ called \in Seq(Calls)
  BY DEF ListInv, TypeOK
<1>4. ProbesOf(called) \in Seq(Probes)
  BY <1>3, ProbesOfType
<1>5. Len(program) \in Nat
  BY <1>2, LenProperties
<1> QED
  BY <1>1, <1>2, <1>3, <1>4, <1>5

\* What was called and what is left, and what the statements to come list.
LEMMA RestToCome ==
  ASSUME ListInv, pc \in {"walk", "callback"}
  PROVE  \E rest \in Seq(Probes) : Listing(program) = ProbesOf(called) \o (left \o rest)
<1>1. PICK rest \in Seq(Probes) : Listing(program) = Walked(program, stmt) \o rest
  BY ListTypes, WalkedComesFirst
<1>2. PICK p \in Seq(Probes), l \in Seq(Probes) : p = ProbesOf(called) /\ l = left
  BY ListTypes
<1>3. (p \o l) \o rest = p \o (l \o rest)
  OBVIOUS
<1>4. p \o l = Walked(program, stmt)
  BY <1>2 DEF ListInv, Progress
<1> QED
  BY <1>1, <1>2, <1>3, <1>4

LEMMA ListBegins ==
  ASSUME ListInv, ListBegin
  PROVE  ListInv'
<1>1. program' \in Seq(Ecbs)
  BY ListTypes DEF ListBegin
<1>2. Walked(program', 0) = <<>>
  <2>1. [k \in 1..0 |-> Added(program', k)] \in [1..0 -> {}]
    OBVIOUS
  <2> QED
    BY <2>1, FlattenSeqEmpty DEF Walked
<1>3. Len(program') \in Nat
  BY <1>1, LenProperties
<1>4. TypeOK'
  <2>1. left' \in Seq(Probes) /\ called' \in Seq(Calls)
    BY DEF ListBegin
  <2> QED
    BY <1>3, <2>1 DEF ListBegin, ListInv, TypeOK
<1>5. LastStatement'
  BY DEF ListBegin, LastStatement
<1>6. Progress'
  <2>1. ProbesOf(<<>>) = <<>>
    BY DEF ProbesOf
  <2>2. <<>> \o <<>> = <<>>
    OBVIOUS
  <2> QED
    BY <1>2, <2>1, <2>2 DEF ListBegin, Progress
<1> QED
  BY <1>4, <1>5, <1>6 DEF ListInv

LEMMA ListEndsKeeps ==
  ASSUME ListInv, ListEnds
  PROVE  ListInv'
<1>1. TypeOK' /\ LastStatement'
  BY DEF ListEnds, ListInv, TypeOK, LastStatement
<1>2. ProbesOf(called) \o <<>> = ProbesOf(called)
  BY ListTypes, ConcatEmptySeq
<1>3. ProbesOf(called) = Listing(program)
  BY <1>2 DEF ListEnds, ListInv, Progress, Listing
<1>4. Progress'
  BY <1>3 DEF ListEnds, Progress
<1> QED
  BY <1>1, <1>4 DEF ListInv

LEMMA NewStatementKeeps ==
  ASSUME ListInv, NewStatement
  PROVE  ListInv'
<1>0. /\ stmt \in Nat /\ stmt < Len(program) /\ left = <<>> /\ pc = "walk"
      /\ program' = program /\ stmt' = stmt + 1 /\ last' = program[stmt + 1]
      /\ program[stmt + 1] # last /\ called' = called
      /\ stmt + 1 \in 1..Len(program)
  BY ListTypes DEF NewStatement
<1>1. program[stmt + 1] \in Ecbs
  BY <1>0, ListTypes
<1>2. Matches[program[stmt + 1]] \in Seq(Probes)
  BY <1>1, ListAssumption
<1>3. TypeOK'
  <2>1. left' \in Seq(Probes)
    BY <1>2, ListTypes DEF NewStatement
  <2>2. stmt' \in 0..Len(program')
    BY <1>0
  <2> QED
    BY <1>0, <1>1, <2>1, <2>2 DEF NewStatement, ListInv, TypeOK
<1>4. LastStatement'
  BY <1>0 DEF LastStatement
<1>5. Added(program, stmt + 1) = Matches[program[stmt + 1]]
  <2>1. CASE stmt = 0
    BY <2>1 DEF Added
  <2>2. CASE stmt # 0
    <3>1. program[stmt] = last
      BY <2>2 DEF ListInv, LastStatement
    <3>2. (stmt + 1) - 1 = stmt
      BY <1>0
    <3> QED
      BY <1>0, <3>1, <3>2 DEF Added
  <2> QED
    BY <2>1, <2>2
<1>6. ProbesOf(called) = Walked(program, stmt)
  <2>1. ProbesOf(called) \o <<>> = ProbesOf(called)
    BY ListTypes, ConcatEmptySeq
  <2> QED
    BY <1>0, <2>1 DEF ListInv, Progress
<1>7. Progress'
  <2>1. CASE left' = Matches[program[stmt + 1]] /\ pc' = pc
    <3>1. Walked(program, stmt + 1) = Walked(program, stmt) \o Added(program, stmt + 1)
      BY <1>0, ListTypes, WalkedSteps
    <3> QED
      BY <1>0, <1>5, <1>6, <2>1, <3>1 DEF Progress
  <2>2. CASE pc' = "unmatched"
    <3>1. PICK rest \in Seq(Probes) : Listing(program) = ProbesOf(called) \o (left \o rest)
      BY <1>0, RestToCome
    <3>2. left \o rest \in Seq(Probes)
      BY ListTypes, ConcatProperties
    <3> QED
      BY <1>0, <2>2, <3>1, <3>2 DEF Progress
  <2> QED
    BY <2>1, <2>2 DEF NewStatement
<1> QED
  BY <1>3, <1>4, <1>7 DEF ListInv

LEMMA RepeatedStatementKeeps ==
  ASSUME ListInv, RepeatedStatement
  PROVE  ListInv'
<1>0. /\ stmt \in Nat /\ stmt < Len(program) /\ left = <<>> /\ pc = "walk"
      /\ program' = program /\ stmt' = stmt + 1 /\ last' = last /\ left' = left
      /\ program[stmt + 1] = last /\ called' = called /\ pc' = pc
      /\ stmt + 1 \in 1..Len(program)
  BY ListTypes DEF RepeatedStatement
<1>1. program[stmt + 1] \in Ecbs
  BY <1>0, ListTypes
<1>2. stmt # 0 /\ last = program[stmt]
  BY <1>0, <1>1, ListAssumption DEF ListInv, LastStatement
<1>3. TypeOK'
  <2>1. stmt' \in 0..Len(program')
    BY <1>0
  <2> QED
    BY <1>0, <2>1 DEF RepeatedStatement, ListInv, TypeOK
<1>4. LastStatement'
  BY <1>0 DEF LastStatement
<1>5. Walked(program, stmt + 1) = Walked(program, stmt)
  <2>1. (stmt + 1) - 1 = stmt /\ stmt + 1 > 1
    BY <1>0, <1>2
  <2>2. Added(program, stmt + 1) = <<>>
    BY <1>0, <1>2, <2>1 DEF Added
  <2>3. /\ Walked(program, stmt + 1) = Walked(program, stmt) \o Added(program, stmt + 1)
        /\ Walked(program, stmt) \in Seq(Probes)
    BY <1>0, ListTypes, WalkedSteps
  <2> QED
    BY <2>2, <2>3, ConcatEmptySeq
<1>6. Progress'
  BY <1>0, <1>5 DEF ListInv, Progress
<1> QED
  BY <1>3, <1>4, <1>6 DEF ListInv

LEMMA ListProbeKeeps ==
  ASSUME ListInv, ListProbe
  PROVE  ListInv'
<1> DEFINE c == [probe |-> Head(left), name |-> formatProbeDesc(foldpdesc, Head(left))]
<1>1. /\ left # <<>> /\ left' = Tail(left) /\ called' = Append(called, c)
      /\ pc = "walk" /\ pc' = "callback" /\ program' = program /\ stmt' = stmt
      /\ last' = last /\ hd' = hd /\ foldpdesc' = foldpdesc
  BY DEF ListProbe
<1>2. Head(left) \in Probes /\ Tail(left) \in Seq(Probes)
  BY <1>1, ListTypes, HeadTailProperties
<1>3. c \in Calls /\ c.probe = Head(left)
  BY <1>2 DEF Calls, ListInv, TypeOK
<1> HIDE DEF c
<1>4. Append(called, c) \in Seq(Calls)
  BY <1>3, ListTypes, AppendProperties
<1>5. TypeOK' /\ LastStatement'
  BY <1>1, <1>2, <1>4 DEF ListInv, TypeOK, LastStatement
<1>6. ProbesOf(Append(called, c)) \o Tail(left) = ProbesOf(called) \o left
  BY <1>1, <1>3, ListTypes, CallMoves
<1>7. Progress'
  BY <1>1, <1>6 DEF ListInv, Progress
<1> QED
  BY <1>5, <1>7 DEF ListInv

LEMMA CallbacksKeep ==
  ASSUME ListInv, Configure \/ CallbackCloses \/ CallbackReturns \/ CallbackFails
  PROVE  ListInv'
<1>1. /\ program' = program /\ stmt' = stmt /\ last' = last /\ left' = left /\ called' = called
  BY DEF Configure, CallbackCloses, CallbackReturns, CallbackFails
<1>2. TypeOK'
  BY <1>1 DEF Configure, CallbackCloses, CallbackReturns, CallbackFails, ListInv, TypeOK
<1>3. LastStatement'
  BY <1>1 DEF ListInv, LastStatement
<1>4. CASE pc' = pc \/ (pc = "callback" /\ pc' = "walk")
  <2>1. Progress'
    BY <1>1, <1>4 DEF ListInv, Progress
  <2> QED
    BY <1>2, <1>3, <2>1 DEF ListInv
<1>5. CASE pc = "callback" /\ pc' \in {"panic", "undefined"}
  <2>1. PICK rest \in Seq(Probes) : Listing(program) = ProbesOf(called) \o (left \o rest)
    BY <1>5, RestToCome
  <2>2. left \o rest \in Seq(Probes)
    BY ListTypes, ConcatProperties
  <2>3. Progress'
    BY <1>1, <1>5, <2>1, <2>2 DEF Progress
  <2> QED
    BY <1>2, <1>3, <2>3 DEF ListInv
<1>6. pc' = pc \/ (pc = "callback" /\ pc' = "walk") \/ (pc = "callback" /\ pc' \in {"panic", "undefined"})
  BY DEF Configure, CallbackCloses, CallbackReturns, CallbackFails
<1> QED
  BY <1>2, <1>3, <1>4, <1>5, <1>6 DEF ListInv

\* The inductive invariant of the list command.
THEOREM ListInductive == Spec => []ListInv
<1>1. Init => ListInv
  <2> SUFFICES ASSUME Init
               PROVE  ListInv
    OBVIOUS
  <2>1. [k \in 1..0 |-> Added(<<>>, k)] \in [1..0 -> {}]
    OBVIOUS
  <2>2. Listing(<<>>) = <<>>
    BY <2>1, FlattenSeqEmpty DEF Walked, Listing
  <2>3. ProbesOf(<<>>) = <<>>
    BY DEF ProbesOf
  <2>4. Progress
    BY <2>2, <2>3 DEF Init, Progress
  <2>5. TypeOK /\ LastStatement
    <3>1. Len(<<>>) = 0 /\ <<>> \in Seq(Probes) /\ <<>> \in Seq(Calls)
      OBVIOUS
    <3>2. 0 \in 0..Len(<<>>)
      BY <3>1
    <3>3. /\ hd = "live" /\ foldpdesc = FALSE /\ program = <<>> /\ stmt = 0 /\ last = NULL
          /\ left = <<>> /\ called = <<>> /\ pc = "idle"
      BY DEF Init
    <3>4. /\ hd \in {"live", "freed"} /\ foldpdesc \in BOOLEAN /\ program \in Programs \cup {<<>>}
          /\ last \in Ecbs \cup {NULL} /\ left \in Seq(Probes) /\ called \in Seq(Calls)
          /\ pc \in {"idle", "walk", "callback", "unmatched", "panic", "undefined"}
      BY <3>1, <3>3
    <3>5. stmt \in 0..Len(program)
      BY <3>2, <3>3
    <3> QED
      BY <3>3, <3>4, <3>5 DEF TypeOK, LastStatement
  <2> QED
    BY <2>4, <2>5 DEF ListInv
<1>2. ListInv /\ [Next]_vars => ListInv'
  <2> SUFFICES ASSUME ListInv, [Next]_vars
               PROVE  ListInv'
    OBVIOUS
  <2>1. CASE UNCHANGED vars
    BY <2>1 DEF vars, ListInv, TypeOK, LastStatement, Progress
  <2>2. CASE Next
    BY <2>2, ListBegins, ListEndsKeeps, NewStatementKeeps, RepeatedStatementKeeps,
       ListProbeKeeps, CallbacksKeep DEF Next, List
  <2> QED
    BY <2>1, <2>2
<1> QED
  BY <1>1, <1>2, PTL DEF Spec

\* All variables of the list command keep their types.
THEOREM ListTypeCorrect == Spec => []TypeOK
<1>1. ListInv => TypeOK
  BY DEF ListInv
<1> QED
  BY <1>1, ListInductive, PTL

\* Whatever the callbacks do, list runs them on the probes of each clause in order, on
\* none twice, and on all of them when it returns without an error.
THEOREM EachProbeIsListedOnce == Spec => []ListsEachProbeOnce
<1>1. ASSUME ListInv
      PROVE  ListsEachProbeOnce
  <2> DEFINE p == ProbesOf(called)
  <2>0. p = [k \in DOMAIN called |-> called[k].probe]
    BY DEF ProbesOf
  <2>1. p \in Seq(Probes)
    BY <1>1, ListTypes
  <2>2. \E rest \in Seq(Probes) : Listing(program) = p \o rest
    <3>1. CASE pc \in {"walk", "callback"}
      <4>1. PICK rest \in Seq(Probes) : Listing(program) = ProbesOf(called) \o (left \o rest)
        BY <1>1, <3>1, RestToCome
      <4>2. left \o rest \in Seq(Probes)
        BY <1>1, ListTypes, ConcatProperties
      <4> QED
        BY <4>1, <4>2
    <3>2. CASE pc \in {"unmatched", "panic", "undefined"}
      BY <1>1, <3>2 DEF ListInv, Progress
    <3>3. CASE pc = "idle"
      <4>1. p = p \o <<>> /\ <<>> \in Seq(Probes)
        BY <2>1, ConcatEmptySeq
      <4> QED
        BY <1>1, <3>3, <4>1 DEF ListInv, Progress
    <3> QED
      BY <1>1, <3>1, <3>2, <3>3 DEF ListInv, TypeOK
  <2>3. pc = "idle" => p = Listing(program)
    BY <1>1 DEF ListInv, Progress
  <2> HIDE DEF p
  <2>4. PICK rest \in Seq(Probes) : Listing(program) = p \o rest
    BY <2>2
  <2>5. /\ Len(p \o rest) = Len(p) + Len(rest)
        /\ SubSeq(p \o rest, 1, Len(p)) = p
    BY <2>1, ConcatProperties, SubSeqOfConcat1, SubSeqFull
  <2>6. SubSeq(p, 1, Len(p)) = p /\ Len(p) \in Nat /\ Len(rest) \in Nat
    BY <2>1, SubSeqFull, LenProperties
  <2>7. IsPrefix(p, Listing(program))
    BY <2>4, <2>5, <2>6 DEF IsPrefix
  <2> QED
    BY <2>0, <2>3, <2>7 DEF ListsEachProbeOnce
<1> QED
  BY <1>1, ListInductive, PTL

\* The names given to the callback tell any two legible probes apart, whatever the size
\* of the array and however often -foldpdesc is set meanwhile.
THEOREM NamesAreTold == Spec => []NamesTellApart
<1>1. ASSUME ListInv
      PROVE  NamesTellApart
  <2> SUFFICES ASSUME NEW j \in DOMAIN called, NEW k \in DOMAIN called,
                      called[j].name = called[k].name, Legible(called[j].probe),
                      Legible(called[k].probe)
               PROVE  called[j].probe = called[k].probe
    BY DEF NamesTellApart
  <2>1. called[j] \in Calls /\ called[k] \in Calls
    BY <1>1, ListTypes
  <2>2. PICK p \in Probes, f \in BOOLEAN : called[j] = [probe |-> p, name |-> formatProbeDesc(f, p)]
    BY <2>1 DEF Calls
  <2>3. PICK q \in Probes, g \in BOOLEAN : called[k] = [probe |-> q, name |-> formatProbeDesc(g, q)]
    BY <2>1 DEF Calls
  <2>4. /\ called[j].probe = p /\ called[j].name = formatProbeDesc(f, p)
        /\ called[k].probe = q /\ called[k].name = formatProbeDesc(g, q)
    BY <2>2, <2>3
  <2>5. p \in Descriptions /\ q \in Descriptions
    BY ListAssumption
  <2>6. Legible(p) /\ Legible(q) /\ formatProbeDesc(f, p) = formatProbeDesc(g, q)
    BY <2>4
  <2>7. p = q
    BY <2>5, <2>6, NameInjective, Zenon
  <2> QED
    BY <2>4, <2>7
<1> QED
  BY <1>1, ListInductive, PTL

-----------------------------------------------------------------------------
(* List comes to its end                                                   *)

\* Steps list takes at most from here on: each probe still to come is called and
\* returned from, each statement is passed, and the walk ends.
ProbesToCome == Len(Listing(program)) - Len(called)
StatementsToCome == Len(program) - stmt
StepsToCome ==
  CASE pc = "walk"     -> 2 * ProbesToCome + StatementsToCome + 1
    [] pc = "callback" -> 2 * ProbesToCome + StatementsToCome + 2
    [] OTHER           -> 0

\* Every step of list lowers that number, and nothing a callback does to the handle
\* meanwhile raises it.
GetsOn ==
  /\ StepsToCome \in Nat
  /\ List => StepsToCome' < StepsToCome
  /\ Configure \/ CallbackCloses => StepsToCome' = StepsToCome

LEMMA ToComeAre ==
  ASSUME ListInv, pc \in {"walk", "callback"}
  PROVE  ProbesToCome \in Nat /\ StatementsToCome \in Nat /\ Len(called) \in Nat
         /\ Len(Listing(program)) \in Nat
<1>1. Len(called) \in Nat /\ Len(program) - stmt \in Nat
  BY ListTypes, LenProperties
<1>2. Len(ProbesOf(called)) = Len(called)
  BY <1>1, ListTypes, LenProperties DEF ProbesOf
<1>3. PICK rest \in Seq(Probes) : Listing(program) = ProbesOf(called) \o (left \o rest)
  BY RestToCome
<1>4. left \o rest \in Seq(Probes)
  BY ListTypes, ConcatProperties
<1>5. /\ Len(Listing(program)) = Len(ProbesOf(called)) + Len(left \o rest)
      /\ Len(left \o rest) \in Nat
  BY <1>3, <1>4, ListTypes, ConcatProperties, LenProperties
<1> HIDE DEF Listing
<1> QED
  BY <1>1, <1>2, <1>5 DEF ProbesToCome, StatementsToCome

LEMMA StepsToComeAre ==
  ASSUME ListInv
  PROVE  /\ StepsToCome \in Nat
         /\ pc = "walk" => StepsToCome = 2 * ProbesToCome + StatementsToCome + 1
         /\ pc = "callback" => StepsToCome = 2 * ProbesToCome + StatementsToCome + 2
<1>1. CASE pc = "walk"
  BY <1>1, ToComeAre DEF StepsToCome
<1>2. CASE pc = "callback"
  BY <1>2, ToComeAre DEF StepsToCome
<1>3. CASE pc \notin {"walk", "callback"}
  BY <1>3 DEF StepsToCome
<1> QED
  BY <1>1, <1>2, <1>3

LEMMA ListLowers ==
  ASSUME ListInv, List
  PROVE  StepsToCome' < StepsToCome
<1> DEFINE P == ProbesToCome
           S == StatementsToCome
<1>1. P \in Nat /\ S \in Nat /\ Len(called) \in Nat /\ Len(Listing(program)) \in Nat
  BY ToComeAre DEF List, ListEnds, NewStatement, RepeatedStatement, ListProbe,
     CallbackReturns, CallbackFails
<1>2. /\ pc = "walk" => StepsToCome = 2 * P + S + 1
      /\ pc = "callback" => StepsToCome = 2 * P + S + 2
  BY StepsToComeAre
<1>3. stmt \in Nat /\ Len(program) \in Nat
  BY ListTypes
<1>4. CASE pc' \in {"idle", "unmatched", "panic", "undefined"}
  <2>1. StepsToCome' = 0
    BY <1>4 DEF StepsToCome
  <2>2. pc \in {"walk", "callback"}
    BY DEF List, ListEnds, NewStatement, RepeatedStatement, ListProbe,
       CallbackReturns, CallbackFails
  <2>3. StepsToCome \in Nat /\ StepsToCome # 0
    <3> HIDE DEF P, S
    <3> QED
      BY <1>1, <1>2, <2>2
  <2> QED
    BY <2>1, <2>3
<1>5. CASE pc = "walk" /\ pc' = "walk"
  <2>1. /\ stmt' = stmt + 1 /\ program' = program /\ called' = called
    BY <1>5 DEF List, ListEnds, NewStatement, RepeatedStatement, ListProbe,
       CallbackReturns, CallbackFails
  <2>2. P' = P /\ S' = S - 1
    BY <1>3, <2>1 DEF ProbesToCome, StatementsToCome
  <2>3. StepsToCome' = 2 * P' + S' + 1
    BY <1>5 DEF StepsToCome
  <2> HIDE DEF P, S
  <2> QED
    BY <1>1, <1>2, <1>5, <2>2, <2>3
<1>6. CASE pc = "walk" /\ pc' = "callback"
  <2>1. ListProbe
    BY <1>6 DEF List, ListEnds, NewStatement, RepeatedStatement, CallbackReturns, CallbackFails
  <2>2. Len(called') = Len(called) + 1 /\ program' = program /\ stmt' = stmt
    BY <2>1, ListTypes, AppendProperties DEF ListProbe
  <2>3. P' = P - 1 /\ S' = S
    <3> HIDE DEF Listing
    <3> QED
      BY <1>1, <2>2 DEF ProbesToCome, StatementsToCome
  <2>4. StepsToCome' = 2 * P' + S' + 2
    BY <1>6 DEF StepsToCome
  <2> HIDE DEF P, S
  <2> QED
    BY <1>1, <1>2, <1>6, <2>3, <2>4
<1>7. CASE pc = "callback" /\ pc' = "walk"
  <2>1. stmt' = stmt /\ program' = program /\ called' = called
    BY <1>7 DEF List, ListEnds, NewStatement, RepeatedStatement, ListProbe,
       CallbackReturns, CallbackFails
  <2>2. P' = P /\ S' = S
    BY <2>1 DEF ProbesToCome, StatementsToCome
  <2>3. StepsToCome' = 2 * P' + S' + 1
    BY <1>7 DEF StepsToCome
  <2> HIDE DEF P, S
  <2> QED
    BY <1>1, <1>2, <1>7, <2>2, <2>3
<1>8. \/ pc' \in {"idle", "unmatched", "panic", "undefined"}
      \/ pc = "walk" /\ pc' \in {"walk", "callback"}
      \/ pc = "callback" /\ pc' = "walk"
  BY DEF List, ListEnds, NewStatement, RepeatedStatement, ListProbe, CallbackReturns,
     CallbackFails
<1> QED
  BY <1>4, <1>5, <1>6, <1>7, <1>8

\* What ListReturns rests on, and for lists of every length: no callback can keep list
\* from its end by configuring or closing the handle, and list runs in at most two
\* steps for each probe, one for each statement and one more.
THEOREM ListGetsOn == Spec => [][GetsOn]_vars
<1>1. ASSUME ListInv
      PROVE  GetsOn
  <2>1. Configure \/ CallbackCloses => StepsToCome' = StepsToCome
    <3> SUFFICES ASSUME Configure \/ CallbackCloses
                 PROVE  StepsToCome' = StepsToCome
      OBVIOUS
    <3>1. /\ pc' = pc /\ program' = program /\ stmt' = stmt /\ called' = called
      BY DEF Configure, CallbackCloses
    <3>2. ProbesToCome' = ProbesToCome /\ StatementsToCome' = StatementsToCome
      BY <3>1 DEF ProbesToCome, StatementsToCome
    <3> QED
      BY <3>1, <3>2 DEF StepsToCome
  <2> QED
    BY <1>1, <2>1, StepsToComeAre, ListLowers DEF GetsOn
<1>2. ListInv => [GetsOn]_vars
  BY <1>1
<1> QED
  BY <1>2, ListInductive, PTL
===============================================================================
