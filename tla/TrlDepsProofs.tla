---------------------------- MODULE TrlDepsProofs ----------------------------
(***************************************************************************)
(* Proofs about the dependency catalog, the decode order and the             *)
(* materializer, for all sets of streams and lists of inputs.                *)
(*                                                                          *)
(* The argument: the stack of calls under way descends along inputs, so an   *)
(* input found on it closes a cycle; a stream is finished after its inputs,  *)
(* so the finished streams have no cycle among them.                         *)
(***************************************************************************)
EXTENDS TrlDeps, TLAPS, SequenceTheorems, WellFoundedInduction

-----------------------------------------------------------------------------
(* Graphs *)

\* The inputs of a stream are streams of the graph.
LEMMA GraphFacts ==
  ASSUME NEW g \in Graphs
  PROVE  /\ \A n : Promise!Inputs(g, n) \in Seq(Streams)
         /\ \A n, m : Promise!IsInput(g, m, n) =>
              m \in Streams /\ n \in Streams /\ m \in Nodes(g) /\ n \in Nodes(g)
         /\ Nodes(g) \subseteq Streams
<1>1. PICK D \in SUBSET Streams : g \in [D -> InputLists]
  BY DEF Graphs
<1>2. \A n \in D : g[n] \in Seq(Streams)
  BY <1>1, DepsAssumption
<1>3. \A n : Promise!Inputs(g, n) \in Seq(Streams)
  BY <1>1, <1>2 DEF Promise!Inputs
<1>4. \A n \in D : \A i \in 1..Len(g[n]) : g[n][i] \in Streams /\ g[n][i] \in Nodes(g)
  BY <1>1, <1>2 DEF Nodes
<1>5. \A n, m : Promise!IsInput(g, m, n) =>
              m \in Streams /\ n \in Streams /\ m \in Nodes(g) /\ n \in Nodes(g)
  BY <1>1, <1>4 DEF Promise!IsInput, Promise!Inputs, Nodes
<1>6. Nodes(g) \subseteq Streams
  BY <1>1, <1>4 DEF Nodes
<1> QED
  BY <1>3, <1>5, <1>6

\* A stream whose inputs are all finished can be finished itself.
LEMMA SettleOne ==
  ASSUME NEW g \in Graphs, NEW D \in SUBSET Streams, Settled(g, D), NEW n \in Streams, n \notin D,
         \A m \in Streams : Promise!IsInput(g, m, n) => m \in D
  PROVE  Settled(g, D \cup {n})
<1>1. ASSUME NEW k \in D \cup {n}, NEW m \in Streams, Promise!IsInput(g, m, k)
      PROVE  m \in D \cup {n}
  BY <1>1 DEF Settled
<1>2. ASSUME NEW S \in SUBSET (D \cup {n}), S # {}
      PROVE  \E k \in S : \A m \in S : ~Promise!IsInput(g, m, k)
  <2>1. CASE S \ {n} = {}
    <3>1. S = {n}
      BY <2>1, <1>2
    <3> QED
      BY <3>1
  <2>2. CASE S \ {n} # {}
    <3>1. S \ {n} \in SUBSET D
      OBVIOUS
    <3>2. PICK k \in S \ {n} : \A m \in S \ {n} : ~Promise!IsInput(g, m, k)
      BY <2>2, <3>1 DEF Settled
    <3>3. ~Promise!IsInput(g, n, k)
      BY <3>1 DEF Settled
    <3> QED
      BY <3>2, <3>3
  <2> QED
    BY <2>1, <2>2
<1> QED
  BY <1>1, <1>2 DEF Settled

\* When all its streams are finished a graph has no cycle.
LEMMA AllSettled ==
  ASSUME NEW g \in Graphs, NEW D \in SUBSET Streams, Settled(g, D), Nodes(g) \subseteq D
  PROVE  Promise!Acyclic(g)
<1> SUFFICES ASSUME NEW S \in SUBSET Streams, S # {}
             PROVE  \E n \in S : \A m \in S : ~Promise!IsInput(g, m, n)
  BY DEF Promise!Acyclic
<1>1. CASE S \cap D = {}
  BY <1>1, GraphFacts
<1>2. CASE S \cap D # {}
  <2>1. PICK n \in S \cap D : \A m \in S \cap D : ~Promise!IsInput(g, m, n)
    BY <1>2 DEF Settled
  <2>2. \A m \in S : m \notin D => ~Promise!IsInput(g, m, n)
    BY <2>1 DEF Settled
  <2> QED
    BY <2>1, <2>2
<1> QED
  BY <1>1, <1>2

\* The catalog with a declaration that is accepted is the candidate that was checked.
LEMMA CandidateFacts ==
  ASSUME NEW d \in [Declared -> InputLists], NEW s \in Declared, NEW ins \in InputLists
  PROVE  /\ Promise!Catalog(d) \in Graphs /\ Promise!Candidate(d, s, ins) \in Graphs
         /\ Promise!Acyclic(Promise!Candidate(d, s, ins)) =>
              Promise!Acyclic(Promise!Catalog([d EXCEPT ![s] = ins]))
<1>1. Promise!Catalog(d) \in Graphs
  <2>1. Promise!Catalog(d) \in [{t \in Declared : d[t] # << >>} -> InputLists]
    BY DEF Promise!Catalog
  <2> QED
    BY <2>1, DepsAssumption DEF Graphs
<1>2. DOMAIN Promise!Catalog(d) = {t \in Declared : d[t] # << >>}
  BY DEF Promise!Catalog
<1>3. Promise!Candidate(d, s, ins) \in [DOMAIN Promise!Catalog(d) \cup {s} -> InputLists]
  BY <1>2 DEF Promise!Candidate
<1>4. DOMAIN Promise!Catalog(d) \cup {s} \in SUBSET Streams
  BY <1>2, DepsAssumption
<1>5. Promise!Candidate(d, s, ins) \in Graphs
  BY <1>3, <1>4 DEF Graphs
<1>6. \A n : Len(Promise!Inputs(Promise!Catalog([d EXCEPT ![s] = ins]), n)) > 0 =>
             Promise!Inputs(Promise!Catalog([d EXCEPT ![s] = ins]), n)
               = Promise!Inputs(Promise!Candidate(d, s, ins), n)
  BY <1>2 DEF Promise!Inputs, Promise!Catalog, Promise!Candidate
<1>7. [d EXCEPT ![s] = ins] \in [Declared -> InputLists]
  OBVIOUS
<1> DEFINE e == [d EXCEPT ![s] = ins]
<1>8. \A n : Promise!Inputs(Promise!Catalog(e), n) \in Seq(Streams)
  <2>1. Promise!Catalog(e) \in [{t \in Declared : e[t] # << >>} -> InputLists]
    BY <1>7 DEF Promise!Catalog
  <2>2. Promise!Catalog(e) \in Graphs
    BY <2>1, DepsAssumption DEF Graphs
  <2> QED
    BY <2>2, GraphFacts
<1>9. \A n, m : Promise!IsInput(Promise!Catalog(e), m, n) =>
                Promise!IsInput(Promise!Candidate(d, s, ins), m, n)
  BY <1>6, <1>8 DEF Promise!IsInput
<1> QED
  BY <1>1, <1>5, <1>9 DEF Promise!Acyclic

-----------------------------------------------------------------------------
(* The stack of calls *)

\* The first call.
LEMMA DescendsRoot ==
  ASSUME NEW g \in Graphs, NEW D, NEW n \in Streams, n \notin D
  PROVE  Descends(<<Frame(n)>>, g, D) /\ <<Frame(n)>> \in Seq(Calls)
BY DEF Descends, Frame, Calls

\* A finished input is passed over.
LEMMA DescendsAdvanced ==
  ASSUME NEW g \in Graphs, NEW D, NEW fr \in Seq(Calls), fr # << >>, Descends(fr, g, D),
         fr[Len(fr)].next <= Len(Promise!Inputs(g, fr[Len(fr)].node)),
         Promise!Inputs(g, fr[Len(fr)].node)[fr[Len(fr)].next] \in D
  PROVE  LET new == [fr EXCEPT ![Len(fr)].next = @ + 1]
         IN  new \in Seq(Calls) /\ Len(new) = Len(fr) /\ Descends(new, g, D)
<1> DEFINE new == [fr EXCEPT ![Len(fr)].next = @ + 1]
           l == Len(fr)
<1>1. l \in Nat /\ l > 0 /\ l \in 1..l /\ fr[l] \in Calls
  OBVIOUS
<1>2. new \in Seq(Calls) /\ Len(new) = l
  BY <1>1 DEF Calls
<1>3. \A i \in 1..l : new[i].node = fr[i].node /\ (i # l => new[i].next = fr[i].next)
  BY <1>1 DEF Calls
<1>4. new[l].next = fr[l].next + 1 /\ fr[l].next \in Nat
  BY <1>1 DEF Calls
<1>5. \A i \in 1..l - 1 : i + 1 \in 1..l /\ i \in 1..l
  BY <1>1
<1> HIDE DEF new
<1>6. ASSUME NEW i \in 1..l, NEW k \in 1..new[i].next - 1,
             k <= Len(Promise!Inputs(g, new[i].node))
      PROVE  \/ Promise!Inputs(g, new[i].node)[k] \in D
             \/ i < l /\ Promise!Inputs(g, new[i].node)[k] = new[i + 1].node
  <2>1. CASE i # l
    BY <1>3, <1>5, <1>6, <2>1 DEF Descends
  <2>2. CASE i = l
    <3>1. CASE k = fr[l].next
      BY <1>1, <1>3, <2>2, <3>1
    <3>2. CASE k # fr[l].next
      <4>1. k \in 1..fr[l].next - 1
        BY <1>4, <2>2, <3>2
      <4> QED
        BY <1>1, <1>3, <1>6, <2>2, <4>1 DEF Descends
    <3> QED
      BY <3>1, <3>2
  <2> QED
    BY <2>1, <2>2
<1>7. \A i \in 1..l - 1 : Promise!IsInput(g, new[i + 1].node, new[i].node)
  BY <1>3, <1>5 DEF Descends
<1>8. \A i, j \in 1..l : new[i].node = new[j].node => i = j
  BY <1>3 DEF Descends
<1>9. \A i \in 1..l : new[i].node \notin D
  BY <1>3 DEF Descends
<1>10. Descends(new, g, D)
  BY <1>2, <1>6, <1>7, <1>8, <1>9 DEF Descends
<1> QED
  BY <1>2, <1>10 DEF new

\* An input neither finished nor on the stack is visited.
LEMMA DescendsInto ==
  ASSUME NEW g \in Graphs, NEW D, NEW fr \in Seq(Calls), fr # << >>, Descends(fr, g, D),
         fr[Len(fr)].next <= Len(Promise!Inputs(g, fr[Len(fr)].node)),
         NEW m \in Streams, m = Promise!Inputs(g, fr[Len(fr)].node)[fr[Len(fr)].next],
         m \notin D, \A i \in 1..Len(fr) : fr[i].node # m
  PROVE  LET new == Append([fr EXCEPT ![Len(fr)].next = @ + 1], Frame(m))
         IN  new \in Seq(Calls) /\ Descends(new, g, D)
<1> DEFINE l == Len(fr)
           adv == [fr EXCEPT ![l].next = @ + 1]
           new == Append(adv, Frame(m))
<1>1. l \in Nat /\ l > 0 /\ l \in 1..l /\ fr[l] \in Calls
  OBVIOUS
<1>2. adv \in Seq(Calls) /\ Len(adv) = l
  BY <1>1 DEF Calls
<1>3. Frame(m) \in Calls /\ Frame(m).node = m /\ Frame(m).next = 1
  BY DEF Frame, Calls
<1>4. \A i \in 1..l : adv[i].node = fr[i].node /\ (i # l => adv[i].next = fr[i].next)
  BY <1>1 DEF Calls
<1>5. adv[l].next = fr[l].next + 1 /\ fr[l].next \in Nat \ {0}
  BY <1>1 DEF Calls
<1> HIDE DEF adv
<1>6. new \in Seq(Calls) /\ Len(new) = l + 1 /\ new[l + 1] = Frame(m)
      /\ \A i \in 1..l : new[i] = adv[i]
  BY <1>1, <1>2, <1>3
<1> HIDE DEF new
<1>7. \A i \in 1..l : new[i].node = fr[i].node
  BY <1>4, <1>6
<1>8. Promise!IsInput(g, m, fr[l].node)
  BY <1>5 DEF Promise!IsInput
<1>9. \A i \in 1..l : Promise!IsInput(g, new[i + 1].node, new[i].node)
  <2> SUFFICES ASSUME NEW i \in 1..l
               PROVE  Promise!IsInput(g, new[i + 1].node, new[i].node)
    OBVIOUS
  <2>1. CASE i = l
    BY <1>1, <1>3, <1>6, <1>7, <1>8, <2>1
  <2>2. CASE i # l
    <3>1. i \in 1..l - 1 /\ i + 1 \in 1..l
      BY <1>1, <2>2
    <3> QED
      BY <1>7, <3>1 DEF Descends
  <2> QED
    BY <2>1, <2>2
<1>10. \A i, j \in 1..l + 1 : new[i].node = new[j].node => i = j
  <2> SUFFICES ASSUME NEW i \in 1..l + 1, NEW j \in 1..l + 1, new[i].node = new[j].node
               PROVE  i = j
    OBVIOUS
  <2>1. CASE i = l + 1 \/ j = l + 1
    BY <1>1, <1>3, <1>6, <1>7, <2>1
  <2>2. CASE i \in 1..l /\ j \in 1..l
    BY <1>7, <2>2 DEF Descends
  <2> QED
    BY <1>1, <2>1, <2>2
<1>11. \A i \in 1..l + 1 : new[i].node \notin D
  BY <1>1, <1>3, <1>6, <1>7 DEF Descends
<1>12. ASSUME NEW i \in 1..l + 1, NEW k \in 1..new[i].next - 1,
              k <= Len(Promise!Inputs(g, new[i].node))
       PROVE  \/ Promise!Inputs(g, new[i].node)[k] \in D
              \/ i < l + 1 /\ Promise!Inputs(g, new[i].node)[k] = new[i + 1].node
  <2>1. CASE i = l + 1
    BY <1>3, <1>6, <2>1
  <2>2. CASE i = l
    <3>1. CASE k = fr[l].next
      BY <1>1, <1>3, <1>6, <1>7, <2>2, <3>1
    <3>2. CASE k # fr[l].next
      <4>1. k \in 1..fr[l].next - 1
        BY <1>1, <1>5, <1>6, <2>2, <3>2
      <4> QED
        BY <1>1, <1>7, <1>12, <2>2, <4>1 DEF Descends
    <3> QED
      BY <3>1, <3>2
  <2>3. CASE i \in 1..l - 1
    <3>1. i \in 1..l /\ i + 1 \in 1..l
      BY <1>1, <2>3
    <3>2. k \in 1..fr[i].next - 1
      BY <1>1, <1>4, <1>6, <2>3, <3>1
    <3> QED
      BY <1>1, <1>7, <1>12, <3>1, <3>2 DEF Descends
  <2> QED
    BY <1>1, <2>1, <2>2, <2>3
<1>13. Descends(new, g, D)
  BY <1>1, <1>6, <1>9, <1>10, <1>11, <1>12 DEF Descends
<1> QED
  BY <1>6, <1>13 DEF new, adv

\* A stream left is finished, and so are its inputs.
LEMMA DescendsPopped ==
  ASSUME NEW g \in Graphs, NEW D, NEW fr \in Seq(Calls), fr # << >>, Descends(fr, g, D),
         fr[Len(fr)].next > Len(Promise!Inputs(g, fr[Len(fr)].node))
  PROVE  LET new == SubSeq(fr, 1, Len(fr) - 1)
             n   == fr[Len(fr)].node
         IN  /\ new \in Seq(Calls) /\ Len(new) = Len(fr) - 1
             /\ \A i \in 1..Len(new) : new[i] = fr[i]
             /\ Descends(new, g, D \cup {n})
             /\ n \in Streams /\ n \notin D
             /\ \A i \in 1..Len(new) : new[i].node # n
             /\ \A m \in Streams : Promise!IsInput(g, m, n) => m \in D
<1> DEFINE l == Len(fr)
           n == fr[l].node
           new == SubSeq(fr, 1, l - 1)
<1>1. l \in Nat /\ l > 0 /\ l \in 1..l /\ fr[l] \in Calls /\ n \in Streams
  <2>1. l \in Nat /\ l > 0 /\ l \in 1..l /\ fr[l] \in Calls
    OBVIOUS
  <2> QED
    BY <2>1 DEF Calls
<1>2. new \in Seq(Calls) /\ Len(new) = l - 1 /\ \A i \in 1..l - 1 : new[i] = fr[i]
  <2>1. 1 \in Int /\ l - 1 \in Int /\ \A i \in 1..l - 1 : fr[i] \in Calls
    BY <1>1
  <2>2. /\ SubSeq(fr, 1, l - 1) \in Seq(Calls)
        /\ Len(SubSeq(fr, 1, l - 1)) = IF 1 <= l - 1 THEN (l - 1) - 1 + 1 ELSE 0
        /\ \A i \in 1..(l - 1) - 1 + 1 : SubSeq(fr, 1, l - 1)[i] = fr[1 + i - 1]
    BY <2>1, SubSeqProperties
  <2>3. (IF 1 <= l - 1 THEN (l - 1) - 1 + 1 ELSE 0) = l - 1
    <3>1. \A k \in Nat : k > 0 => (IF 1 <= k - 1 THEN (k - 1) - 1 + 1 ELSE 0) = k - 1
      OBVIOUS
    <3> QED
      BY <1>1, <3>1
  <2>4. \A i \in 1..l - 1 : i \in 1..(l - 1) - 1 + 1 /\ 1 + i - 1 = i
    BY <1>1
  <2> QED
    BY <2>2, <2>3, <2>4
<1> HIDE DEF new
<1>3. \A i \in 1..l - 1 : i \in 1..l /\ i # l
  BY <1>1
<1>4. \A i \in 1..l - 1 : new[i].node # n
  BY <1>1, <1>2, <1>3 DEF Descends
<1>5. n \notin D
  BY <1>1 DEF Descends
<1>6. ASSUME NEW m \in Streams, Promise!IsInput(g, m, n)
      PROVE  m \in D
  <2>1. Promise!Inputs(g, n) \in Seq(Streams)
    BY GraphFacts
  <2>2. PICK k \in 1..Len(Promise!Inputs(g, n)) : Promise!Inputs(g, n)[k] = m
    BY <1>6 DEF Promise!IsInput
  <2>3. k \in 1..fr[l].next - 1
    BY <1>1, <2>1, <2>2 DEF Calls
  <2> QED
    BY <1>1, <2>2, <2>3 DEF Descends
<1>7. \A i \in 1..l - 1 - 1 : i \in 1..l - 1 /\ i + 1 \in 1..l - 1
  BY <1>1
<1>8. ASSUME NEW i \in 1..l - 1, NEW k \in 1..new[i].next - 1,
             k <= Len(Promise!Inputs(g, new[i].node))
      PROVE  \/ Promise!Inputs(g, new[i].node)[k] \in D \cup {n}
             \/ i < l - 1 /\ Promise!Inputs(g, new[i].node)[k] = new[i + 1].node
  <2>1. \/ Promise!Inputs(g, fr[i].node)[k] \in D
        \/ i < l /\ Promise!Inputs(g, fr[i].node)[k] = fr[i + 1].node
    BY <1>2, <1>3, <1>8 DEF Descends
  <2>2. CASE i = l - 1
    <3>1. fr[i + 1].node = n
      BY <1>1, <2>2
    <3> QED
      BY <1>2, <2>1, <3>1
  <2>3. CASE i # l - 1
    <3>1. i < l - 1 /\ i + 1 \in 1..l - 1
      BY <1>1, <2>3
    <3> QED
      BY <1>2, <2>1, <3>1
  <2> QED
    BY <2>2, <2>3
<1>9. Descends(new, g, D \cup {n})
  <2>1. \A i \in 1..l - 1 - 1 : Promise!IsInput(g, new[i + 1].node, new[i].node)
    BY <1>2, <1>3, <1>7 DEF Descends
  <2>2. \A i, j \in 1..l - 1 : new[i].node = new[j].node => i = j
    BY <1>2, <1>3 DEF Descends
  <2>3. \A i \in 1..l - 1 : new[i].node \notin D \cup {n}
    BY <1>2, <1>3, <1>4 DEF Descends
  <2> QED
    BY <1>2, <1>8, <2>1, <2>2, <2>3 DEF Descends
<1> QED
  BY <1>1, <1>2, <1>4, <1>5, <1>6, <1>9 DEF new

\* An input that is on the stack closes a cycle: every stream from there on has the
\* next one as an input, the last has the first.
LEMMA CycleOnStack ==
  ASSUME NEW g \in Graphs, NEW D, NEW fr \in Seq(Calls), fr # << >>, Descends(fr, g, D),
         NEW j \in 1..Len(fr), Promise!IsInput(g, fr[j].node, fr[Len(fr)].node)
  PROVE  ~Promise!Acyclic(g)
<1> DEFINE l == Len(fr)
           S == {fr[i].node : i \in j..l}
<1>1. l \in Nat /\ j \in j..l /\ \A i \in j..l : i \in 1..l
  OBVIOUS
<1>2. S \in SUBSET Streams /\ S # {}
  <2>1. \A i \in j..l : fr[i] \in Calls
    BY <1>1
  <2>2. \A i \in j..l : fr[i].node \in Streams
    BY <2>1 DEF Calls
  <2> QED
    BY <1>1, <2>2
<1>3. ASSUME NEW n \in S
      PROVE  \E m \in S : Promise!IsInput(g, m, n)
  <2>1. PICK i \in j..l : n = fr[i].node
    OBVIOUS
  <2>2. CASE i = l
    BY <1>1, <2>1, <2>2
  <2>3. CASE i # l
    <3>1. i \in 1..l - 1 /\ i + 1 \in j..l
      BY <1>1, <2>3
    <3> QED
      BY <2>1, <3>1 DEF Descends
  <2> QED
    BY <2>2, <2>3
<1> HIDE DEF S
<1> QED
  BY <1>2, <1>3 DEF Promise!Acyclic

-----------------------------------------------------------------------------
(* Sequences of streams *)

\* A stream put behind its inputs keeps the order.
LEMMA OrderedAppend ==
  ASSUME NEW s \in Seq(Streams), Ordered(s), NEW n \in Streams, n \notin Members(s),
         \A m \in Streams : Promise!IsInput(graph, m, n) => m \in Members(s)
  PROVE  Ordered(Append(s, n)) /\ Members(Append(s, n)) = Members(s) \cup {n}
<1> DEFINE t == Append(s, n)
           l == Len(s)
<1>1. l \in Nat /\ t \in Seq(Streams) /\ Len(t) = l + 1 /\ t[l + 1] = n
      /\ \A i \in 1..l : t[i] = s[i]
  OBVIOUS
<1> HIDE DEF t
<1>2. \A i \in 1..l : s[i] # n
  BY DEF Members
<1>3. \A i, j \in 1..l + 1 : t[i] = t[j] => i = j
  <2> SUFFICES ASSUME NEW i \in 1..l + 1, NEW j \in 1..l + 1, t[i] = t[j]
               PROVE  i = j
    OBVIOUS
  <2>1. CASE i = l + 1 \/ j = l + 1
    BY <1>1, <1>2, <2>1
  <2>2. CASE i \in 1..l /\ j \in 1..l
    BY <1>1, <2>2 DEF Ordered
  <2> QED
    BY <1>1, <2>1, <2>2
<1>4. ASSUME NEW j \in 1..l + 1, NEW m \in Streams, Promise!IsInput(graph, m, t[j])
      PROVE  \E i \in 1..j - 1 : t[i] = m
  <2>1. CASE j = l + 1
    <3>1. PICK i \in 1..l : s[i] = m
      BY <1>1, <1>4, <2>1 DEF Members
    <3> QED
      BY <1>1, <2>1, <3>1
  <2>2. CASE j \in 1..l
    <3>1. PICK i \in 1..j - 1 : s[i] = m
      BY <1>1, <1>4, <2>2 DEF Ordered
    <3> QED
      BY <1>1, <2>2, <3>1
  <2> QED
    BY <1>1, <2>1, <2>2
<1>5. Members(t) = Members(s) \cup {n}
  <2>1. \A x \in Members(t) : x \in Members(s) \cup {n}
    BY <1>1 DEF Members
  <2>2. \A x \in Members(s) : x \in Members(t)
    BY <1>1 DEF Members
  <2>3. n \in Members(t)
    BY <1>1 DEF Members
  <2> QED
    BY <2>1, <2>2, <2>3
<1> QED
  BY <1>1, <1>3, <1>4, <1>5 DEF Ordered, t

\* The members of a sequence are what is listed in it.
LEMMA MembersListed == \A s, n : Listed(s, n) <=> n \in Members(s)
BY DEF Listed, Members

-----------------------------------------------------------------------------
(* Initial states *)

\* The empty catalog has no cycle.
LEMMA InitInv == Init => DepsInv
<1> SUFFICES ASSUME Init PROVE DepsInv
  OBVIOUS
<1>1. decl \in [Declared -> InputLists]
  BY DepsAssumption DEF Init
<1>2. graph \in Graphs /\ graph = Promise!Catalog(decl)
  <2>1. PICK s : s \in Declared \/ Declared = {}
    OBVIOUS
  <2>2. graph \in [{t \in Declared : decl[t] # << >>} -> InputLists]
    BY <1>1 DEF Init, Promise!Catalog
  <2> QED
    BY <2>2, DepsAssumption DEF Init, Graphs
<1>3. \A n : Promise!Inputs(graph, n) = << >>
  BY DEF Init, Promise!Catalog, Promise!Inputs
<1>4. \A m, n : ~Promise!IsInput(graph, m, n)
  BY <1>3 DEF Promise!IsInput
<1>5. Promise!Acyclic(graph)
  BY <1>4 DEF Promise!Acyclic
<1>6. TypeOK
  BY <1>1, <1>2 DEF Init, TypeOK
<1>7. Calling
  BY DEF Init, Calling
<1>8. Searching
  BY DEF Init, Searching, Settled
<1>9. Descends(frames, graph, Finished)
  BY DEF Init, Descends
<1>10. Ordered(order) /\ Ordered(cache)
  BY DEF Init, Ordered
<1>11. CycleIsOne /\ CatalogAcyclic /\ NoFalseCycle
  BY <1>2, <1>5 DEF Init, CycleIsOne, CatalogAcyclic, NoFalseCycle
<1> QED
  BY <1>6, <1>7, <1>8, <1>9, <1>10, <1>11 DEF DepsInv, Init

-----------------------------------------------------------------------------
(* The client's calls *)

\* What is at rest when no call is under way.
LEMMA AtRest ==
  DepsInv /\ call = "none" =>
    /\ stage = "idle" /\ frames = << >> /\ black = {} /\ cycle = << >> /\ order = << >>
    /\ progress = {}
BY DEF DepsInv, Calling

\* A search begins, on a new graph only while nothing is cached.
LEMMA BeginInv ==
  \A c \in {"declare", "close", "order"}, g \in Graphs :
    /\ DepsInv /\ Begin(c, g)
    /\ phase = IF c = "order" THEN "read" ELSE "write"
    /\ phase = "read" => g = graph
    /\ c = "declare" => /\ arg'[1] \in Declared /\ arg'[2] \in InputLists
                        /\ g = Promise!Candidate(decl, arg'[1], arg'[2])
    /\ c = "close" => g = Promise!Catalog(decl)
    => DepsInv'
<1> SUFFICES ASSUME NEW c \in {"declare", "close", "order"}, NEW g \in Graphs,
                    DepsInv, Begin(c, g),
                    phase = IF c = "order" THEN "read" ELSE "write",
                    phase = "read" => g = graph,
                    c = "declare" => /\ arg'[1] \in Declared /\ arg'[2] \in InputLists
                                     /\ g = Promise!Candidate(decl, arg'[1], arg'[2]),
                    c = "close" => g = Promise!Catalog(decl)
             PROVE  DepsInv'
  OBVIOUS
<1> USE DEF Begin, catVars, findVars, loadVars
<1>1. /\ call = "none" /\ stage = "idle" /\ frames = << >> /\ black = {} /\ cycle = << >>
      /\ order = << >> /\ progress = {}
  BY AtRest
<1>2. TypeOK'
  BY DEF DepsInv, TypeOK
<1>3. Calling'
  BY <1>1 DEF DepsInv, Calling
<1>4. Searching'
  BY <1>1 DEF Searching, Settled
<1>5. Descends(frames, graph, Finished)'
  BY <1>1 DEF Descends
<1>6. CycleIsOne' /\ CatalogAcyclic'
  BY <1>1 DEF DepsInv, CycleIsOne, CatalogAcyclic
<1>7. Ordered(order)'
  BY <1>1 DEF Ordered
<1>8. Ordered(cache)' /\ NoFalseCycle'
  <2>1. CASE phase = "write"
    BY <2>1 DEF DepsInv, Calling, Ordered, NoFalseCycle
  <2>2. CASE g = graph
    BY <2>2 DEF DepsInv, Ordered, NoFalseCycle
  <2> QED
    BY <2>1, <2>2
<1> QED
  BY <1>2, <1>3, <1>4, <1>5, <1>6, <1>7, <1>8 DEF DepsInv

LEMMA DeclareInv ==
  \A s \in Declared, ins \in InputLists : DepsInv /\ Declare(s, ins) => DepsInv'
<1> SUFFICES ASSUME NEW s \in Declared, NEW ins \in InputLists, DepsInv, Declare(s, ins)
             PROVE  DepsInv'
  OBVIOUS
<1>1. Promise!Candidate(decl, s, ins) \in Graphs
  BY CandidateFacts DEF DepsInv, TypeOK
<1>2. arg'[1] = s /\ arg'[2] = ins
  BY DEF Declare
<1> QED
  BY <1>1, <1>2, BeginInv DEF Declare

LEMMA CloseInv == DepsInv /\ Close => DepsInv'
<1> SUFFICES ASSUME DepsInv, Close PROVE DepsInv'
  OBVIOUS
<1>1. Promise!Catalog(decl) \in Graphs
  <2>1. decl \in [Declared -> InputLists]
    BY DEF DepsInv, TypeOK
  <2>2. Promise!Catalog(decl) \in [{t \in Declared : decl[t] # << >>} -> InputLists]
    BY <2>1 DEF Promise!Catalog
  <2> QED
    BY <2>2, DepsAssumption DEF Graphs
<1> QED
  BY <1>1, BeginInv DEF Close

LEMMA OrderInv == DepsInv /\ Order => DepsInv'
BY BeginInv DEF Order, DepsInv, TypeOK

LEMMA NewMaterializerInv ==
  \A g \in Graphs : DepsInv /\ NewMaterializer(g) => DepsInv'
<1> SUFFICES ASSUME NEW g \in Graphs, DepsInv, NewMaterializer(g) PROVE DepsInv'
  OBVIOUS
<1> USE DEF NewMaterializer, catVars, findVars
<1>1. /\ call = "none" /\ stage = "idle" /\ frames = << >> /\ black = {} /\ cycle = << >>
      /\ order = << >> /\ progress = {}
  BY AtRest DEF NewMaterializer
<1>2. TypeOK'
  BY DEF DepsInv, TypeOK
<1>3. Calling'
  BY <1>1 DEF DepsInv, Calling
<1>4. Searching' /\ Descends(frames, graph, Finished)'
  BY <1>1 DEF Searching, Settled, Descends
<1>5. CycleIsOne' /\ CatalogAcyclic'
  BY <1>1 DEF DepsInv, CycleIsOne, CatalogAcyclic
<1>6. Ordered(order)' /\ Ordered(cache)' /\ NoFalseCycle'
  BY <1>1 DEF Ordered, NoFalseCycle
<1> QED
  BY <1>1, <1>2, <1>3, <1>4, <1>5, <1>6 DEF DepsInv

LEMMA MaterializeInv ==
  \A s \in Streams : DepsInv /\ Materialize(s) => DepsInv'
<1> SUFFICES ASSUME NEW s \in Streams, DepsInv, Materialize(s) PROVE DepsInv'
  OBVIOUS
<1> USE DEF catVars, findVars
<1>1. /\ call = "none" /\ stage = "idle" /\ frames = << >> /\ black = {} /\ cycle = << >>
      /\ order = << >> /\ progress = {}
  BY AtRest DEF Materialize
<1>2. /\ call' = "materialize" /\ stage' = "load" /\ error' = "none" /\ frames' = <<Frame(s)>>
      /\ progress' = {s} /\ phase = "read"
      /\ UNCHANGED <<phase, decl, result, arg, graph, black, cycle, order, cache>>
  BY <1>1 DEF Materialize
<1>3. graph \in Graphs /\ s \notin Members(cache)
  BY MembersListed DEF DepsInv, TypeOK, Materialize
<1>4. <<Frame(s)>> \in Seq(Calls) /\ Descends(<<Frame(s)>>, graph, Members(cache))
  BY <1>3, DescendsRoot
<1>5. TypeOK'
  BY <1>2, <1>4 DEF DepsInv, TypeOK
<1>6. Calling'
  <2>1. progress' = {frames'[i].node : i \in 1..Len(frames')}
    BY <1>2 DEF Frame
  <2> QED
    BY <1>1, <1>2, <2>1 DEF DepsInv, Calling
<1>7. Searching' /\ Descends(frames, graph, Finished)'
  BY <1>1, <1>2, <1>4 DEF Searching, Settled, Finished, Members
<1>8. CycleIsOne' /\ CatalogAcyclic'
  BY <1>1, <1>2 DEF DepsInv, CycleIsOne, CatalogAcyclic
<1>9. Ordered(order)' /\ Ordered(cache)' /\ NoFalseCycle'
  BY <1>1, <1>2 DEF DepsInv, Ordered, NoFalseCycle
<1> QED
  BY <1>2, <1>5, <1>6, <1>7, <1>8, <1>9 DEF DepsInv

-----------------------------------------------------------------------------
(* The end of a call *)

LEMMA ReturnInv ==
  /\ DepsInv /\ Return /\ UNCHANGED cache
  /\ decl' \in [Declared -> InputLists] /\ result' \in {"ok", "cycle"}
  /\ Promise!Acyclic(Promise!Catalog(decl'))
  /\ phase' = phase \/ phase' = "read"
  /\ phase' = "write" => error' = "none"
  /\ progress' = {} /\ error' \in {"none", "cycle", "compute"}
  /\ error' = "cycle" => ~Promise!Acyclic(graph)
  => DepsInv'
<1> SUFFICES ASSUME DepsInv, Return, UNCHANGED cache,
                    decl' \in [Declared -> InputLists], result' \in {"ok", "cycle"},
                    Promise!Acyclic(Promise!Catalog(decl')),
                    phase' = phase \/ phase' = "read",
                    phase' = "write" => error' = "none",
                    progress' = {}, error' \in {"none", "cycle", "compute"},
                    error' = "cycle" => ~Promise!Acyclic(graph)
             PROVE  DepsInv'
  OBVIOUS
<1> USE DEF Return
<1>1. TypeOK'
  BY DEF DepsInv, TypeOK
<1>2. Calling'
  BY DEF DepsInv, Calling, TypeOK
<1>3. Searching' /\ Descends(frames, graph, Finished)'
  BY DEF Searching, Settled, Descends
<1>4. CycleIsOne' /\ CatalogAcyclic'
  BY DEF CycleIsOne, CatalogAcyclic
<1>5. Ordered(order)' /\ Ordered(cache)' /\ NoFalseCycle'
  BY DEF DepsInv, Ordered, NoFalseCycle
<1> QED
  BY <1>1, <1>2, <1>3, <1>4, <1>5 DEF DepsInv

\* A search that came to its end found all the streams free of cycles.
LEMMA Searched ==
  DepsInv /\ stage = "find" /\ Nodes(graph) \subseteq black => Promise!Acyclic(graph)
<1> SUFFICES ASSUME DepsInv, Nodes(graph) \subseteq black PROVE Promise!Acyclic(graph)
  OBVIOUS
<1>1. graph \in Graphs /\ black \in SUBSET Streams /\ Settled(graph, black)
  BY DEF DepsInv, TypeOK, Searching
<1> QED
  BY <1>1, AllSettled

LEMMA AcceptInv == DepsInv /\ Accept => DepsInv'
<1> SUFFICES ASSUME DepsInv, Accept PROVE DepsInv'
  OBVIOUS
<1>1. /\ decl \in [Declared -> InputLists] /\ arg[1] \in Declared /\ arg[2] \in InputLists
      /\ graph = Promise!Candidate(decl, arg[1], arg[2]) /\ phase = "write" /\ error = "none"
      /\ progress = {}
  BY DEF DepsInv, TypeOK, Calling, Accept
<1>2. Promise!Acyclic(graph)
  BY Searched DEF Accept
<1>3. decl' = [decl EXCEPT ![arg[1]] = arg[2]] /\ decl' \in [Declared -> InputLists]
  BY <1>1 DEF Accept
<1>4. Promise!Acyclic(Promise!Catalog([decl EXCEPT ![arg[1]] = arg[2]]))
  BY <1>1, <1>2, CandidateFacts
<1>5. Promise!Acyclic(Promise!Catalog(decl'))
  BY <1>3, <1>4
<1> QED
  BY <1>1, <1>3, <1>5, ReturnInv DEF Accept, loadVars

\* What an end that keeps the declarations leaves as it was.
LEMMA Kept ==
  DepsInv /\ UNCHANGED decl =>
    decl' \in [Declared -> InputLists] /\ Promise!Acyclic(Promise!Catalog(decl'))
BY DEF DepsInv, TypeOK, CatalogAcyclic

LEMMA RefuseInv == DepsInv /\ Refuse => DepsInv'
BY Kept, ReturnInv DEF DepsInv, TypeOK, Calling, NoFalseCycle, Refuse, loadVars

LEMMA ClosedInv == DepsInv /\ Closed => DepsInv'
BY Kept, ReturnInv DEF DepsInv, TypeOK, Calling, NoFalseCycle, Closed, loadVars

LEMMA OrderRefusedInv == DepsInv /\ OrderRefused => DepsInv'
BY Kept, ReturnInv DEF DepsInv, TypeOK, Calling, NoFalseCycle, OrderRefused, catVars, loadVars

LEMMA OrderEndInv == DepsInv /\ OrderEnd => DepsInv'
BY Kept, ReturnInv DEF DepsInv, TypeOK, Calling, NoFalseCycle, OrderEnd, catVars, loadVars

LEMMA LoadedInv == DepsInv /\ Loaded => DepsInv'
<1> SUFFICES ASSUME DepsInv, Loaded PROVE DepsInv'
  OBVIOUS
<1>1. progress = {frames[i].node : i \in 1..Len(frames)} /\ phase = "read"
  BY DEF DepsInv, Calling, Loaded
<1>2. progress' = {}
  BY <1>1 DEF Loaded, loadVars
<1> QED
  BY <1>1, <1>2, Kept, ReturnInv DEF DepsInv, TypeOK, NoFalseCycle, Loaded, catVars, loadVars

\* Marks are those of the calls under way, so an exception clears them all.
LEMMA ComputeFailsInv == DepsInv /\ ComputeFails => DepsInv'
<1> SUFFICES ASSUME DepsInv, ComputeFails PROVE DepsInv'
  OBVIOUS
<1>1. progress' = {} /\ phase = "read" /\ error' = "compute"
  BY DEF DepsInv, Calling, ComputeFails, Unwind
<1> QED
  BY <1>1, Kept, ReturnInv DEF DepsInv, TypeOK, ComputeFails, Unwind, catVars

-----------------------------------------------------------------------------
(* The call on top *)

\* The input looked at is an input of the stream on top.
LEMMA TopInput ==
  DepsInv /\ More =>
    /\ Len(frames) \in 1..Len(frames) /\ Top \in Calls /\ Input \in Streams
    /\ Promise!IsInput(graph, Input, Top.node)
    /\ Input \in Nodes(graph)
<1> SUFFICES ASSUME DepsInv, More
             PROVE  /\ Len(frames) \in 1..Len(frames) /\ Top \in Calls /\ Input \in Streams
                    /\ Promise!IsInput(graph, Input, Top.node)
                    /\ Input \in Nodes(graph)
  OBVIOUS
<1>1. graph \in Graphs /\ frames \in Seq(Calls) /\ frames # << >>
  BY DEF DepsInv, TypeOK, More
<1>2. Len(frames) \in 1..Len(frames) /\ Top \in Calls
  BY <1>1 DEF Top
<1>3. Top.next \in 1..Len(Promise!Inputs(graph, Top.node))
  BY <1>1, <1>2, GraphFacts DEF More, Inputs, Calls
<1>4. Promise!IsInput(graph, Input, Top.node)
  BY <1>3 DEF Input, Inputs, Promise!IsInput
<1> QED
  BY <1>1, <1>2, <1>4, GraphFacts

\* An input on the stack of calls closes a cycle.
LEMMA TopCycle == DepsInv /\ More /\ OnPath(Input) => ~Promise!Acyclic(graph)
<1> SUFFICES ASSUME DepsInv, More, OnPath(Input) PROVE ~Promise!Acyclic(graph)
  OBVIOUS
<1>1. PICK j \in 1..Len(frames) : frames[j].node = Input
  BY DEF OnPath
<1>2. Promise!IsInput(graph, frames[j].node, frames[Len(frames)].node)
  BY <1>1, TopInput DEF Top
<1>3. graph \in Graphs /\ frames \in Seq(Calls) /\ frames # << >>
      /\ Descends(frames, graph, Finished)
  BY DEF DepsInv, TypeOK, More
<1> QED
  BY <1>2, <1>3, CycleOnStack

LEMMA LoadCycleInv == DepsInv /\ LoadCycle => DepsInv'
<1> SUFFICES ASSUME DepsInv, LoadCycle PROVE DepsInv'
  OBVIOUS
<1>1. progress = {frames[i].node : i \in 1..Len(frames)}
  BY DEF DepsInv, Calling, LoadCycle
<1>2. progress' = {} /\ phase = "read" /\ error' = "cycle"
  BY <1>1 DEF DepsInv, Calling, LoadCycle, Unwind
<1>3. OnPath(Input)
  BY <1>1 DEF LoadCycle, OnPath
<1>4. ~Promise!Acyclic(graph)
  BY <1>3, TopCycle DEF LoadCycle
<1> QED
  BY <1>2, <1>4, Kept, ReturnInv DEF DepsInv, TypeOK, LoadCycle, Unwind, catVars

-----------------------------------------------------------------------------
(* Steps of a search or a visit *)

\* What a step that only moves along the stack leaves true.
LEMMA MovesOn ==
  DepsInv /\ UNCHANGED <<phase, decl, call, graph, cycle, error>> =>
    CycleIsOne' /\ CatalogAcyclic' /\ NoFalseCycle'
BY DEF DepsInv, CycleIsOne, CatalogAcyclic, NoFalseCycle

\* The part of a path from a stream on to the end, and the stream again.
LEMMA PathIsCycle ==
  DepsInv /\ More /\ OnPath(Input) =>
    /\ PathFrom(Input) \in Seq(Streams) /\ Len(PathFrom(Input)) > 1
    /\ PathFrom(Input)[1] = PathFrom(Input)[Len(PathFrom(Input))]
    /\ \A i \in 1..Len(PathFrom(Input)) - 1 :
         Promise!IsInput(graph, PathFrom(Input)[i + 1], PathFrom(Input)[i])
<1> DEFINE l == Len(frames)
           first == CHOOSE i \in 1..Len(frames) : frames[i].node = Input
           p == PathFrom(Input)
<1> SUFFICES ASSUME DepsInv, More, OnPath(Input)
             PROVE  /\ p \in Seq(Streams) /\ Len(p) > 1 /\ p[1] = p[Len(p)]
                    /\ \A i \in 1..Len(p) - 1 : Promise!IsInput(graph, p[i + 1], p[i])
  OBVIOUS
<1>1. first \in 1..l /\ frames[first].node = Input /\ l \in Nat
  <2>1. frames \in Seq(Calls)
    BY DEF DepsInv, TypeOK
  <2> QED
    BY <2>1 DEF OnPath
<1>2. p = [i \in 1..l - first + 2 |-> IF i <= l - first + 1 THEN frames[first + i - 1].node
                                      ELSE Input]
  BY DEF PathFrom
<1> HIDE DEF first, p
<1>3. \A i \in 1..l : frames[i].node \in Streams
  <2>1. frames \in Seq(Calls)
    BY DEF DepsInv, TypeOK
  <2>2. \A i \in 1..l : frames[i] \in Calls
    BY <2>1
  <2> QED
    BY <2>2 DEF Calls
<1>4. l - first + 2 \in Nat /\ l - first + 2 > 1
  BY <1>1
<1>5. \A i \in 1..l - first + 1 : first + i - 1 \in 1..l
  BY <1>1
<1>6. Input \in Streams /\ Promise!IsInput(graph, Input, frames[l].node)
  BY TopInput DEF Top
<1>7. p \in [1..l - first + 2 -> Streams]
  <2> SUFFICES ASSUME NEW i \in 1..l - first + 2
               PROVE  (IF i <= l - first + 1 THEN frames[first + i - 1].node ELSE Input) \in Streams
    BY <1>2
  <2>1. CASE i <= l - first + 1
    <3>1. i \in 1..l - first + 1
      BY <1>1, <2>1
    <3> QED
      BY <1>3, <1>5, <2>1, <3>1
  <2>2. CASE ~(i <= l - first + 1)
    BY <1>6, <2>2
  <2> QED
    BY <2>1, <2>2
<1>8. p \in Seq(Streams) /\ Len(p) = l - first + 2
  BY <1>4, <1>7
<1>9. p[1] = Input /\ p[l - first + 2] = Input
  BY <1>1, <1>2, <1>4
<1>10. ASSUME NEW i \in 1..Len(p) - 1
       PROVE  Promise!IsInput(graph, p[i + 1], p[i])
  <2>1. i \in 1..l - first + 1 /\ p[i] = frames[first + i - 1].node
    BY <1>1, <1>2, <1>8
  <2>2. CASE i = l - first + 1
    BY <1>1, <1>6, <1>9, <2>1, <2>2
  <2>3. CASE i # l - first + 1
    <3>1. /\ i + 1 \in 1..l - first + 2 /\ i + 1 <= l - first + 1
          /\ first + (i + 1) - 1 = (first + i - 1) + 1 /\ first + i - 1 \in 1..l - 1
      BY <1>1, <2>1, <2>3
    <3>2. p[i + 1] = frames[(first + i - 1) + 1].node
      BY <1>2, <3>1
    <3>3. \A k \in 1..l - 1 : Promise!IsInput(graph, frames[k + 1].node, frames[k].node)
      BY DEF DepsInv, Descends
    <3> QED
      BY <2>1, <3>1, <3>2, <3>3
  <2> QED
    BY <2>2, <2>3
<1> QED
  BY <1>4, <1>8, <1>9, <1>10

LEMMA FindCycleInv == DepsInv /\ FindCycle => DepsInv'
<1> SUFFICES ASSUME DepsInv, FindCycle PROVE DepsInv'
  OBVIOUS
<1> USE DEF catVars, callVars, loadVars
<1>1. /\ stage = "find" /\ cycle' = PathFrom(Input)
      /\ UNCHANGED <<phase, decl, result, call, arg, graph, stage, frames, black, order, cache,
                     progress, error>>
  BY DEF FindCycle, Finding
<1>2. ~Promise!Acyclic(graph)
  BY TopCycle DEF FindCycle
<1>3. PathFrom(Input) \in Seq(Streams) /\ CycleIsOne'
  BY <1>1, PathIsCycle DEF FindCycle, CycleIsOne
<1> HIDE DEF catVars, callVars, loadVars
<1>4. TypeOK'
  BY <1>1, <1>3 DEF DepsInv, TypeOK
<1>5. Calling'
  BY <1>1 DEF DepsInv, Calling
<1>6. Searching' /\ Descends(frames, graph, Finished)'
  BY <1>1, <1>2 DEF DepsInv, Searching, Finished
<1>7. CatalogAcyclic'
  BY <1>1, <1>2 DEF DepsInv, CatalogAcyclic, Calling
<1>8. Ordered(order)' /\ Ordered(cache)' /\ NoFalseCycle'
  BY <1>1 DEF DepsInv, Ordered, NoFalseCycle
<1> QED
  BY <1>1, <1>3, <1>4, <1>5, <1>6, <1>7, <1>8 DEF DepsInv

\* What the invariant says of the stack, in one place.
LEMMA StackFacts ==
  DepsInv =>
    /\ graph \in Graphs /\ frames \in Seq(Calls) /\ black \in SUBSET Streams
    /\ order \in Seq(Streams) /\ cache \in Seq(Streams)
    /\ Descends(frames, graph, Finished)
    /\ Nodes(graph) \subseteq Streams
BY GraphFacts DEF DepsInv, TypeOK

\* A call that has been to all inputs is popped, and its stream can be finished.
LEMMA TopDone ==
  DepsInv /\ Done =>
    /\ Popped \in Seq(Calls) /\ Descends(Popped, graph, Finished \cup {Top.node})
    /\ Top.node \in Streams /\ Top.node \notin Finished
    /\ {Popped[i].node : i \in 1..Len(Popped)} = {frames[i].node : i \in 1..Len(frames)} \ {Top.node}
    /\ \A m \in Streams : Promise!IsInput(graph, m, Top.node) => m \in Finished
<1> DEFINE l == Len(frames)
<1> SUFFICES ASSUME DepsInv, Done
             PROVE  /\ Popped \in Seq(Calls) /\ Descends(Popped, graph, Finished \cup {Top.node})
                    /\ Top.node \in Streams /\ Top.node \notin Finished
                    /\ {Popped[i].node : i \in 1..Len(Popped)} = {frames[i].node : i \in 1..l} \ {Top.node}
                    /\ \A m \in Streams : Promise!IsInput(graph, m, Top.node) => m \in Finished
  OBVIOUS
<1>1. graph \in Graphs /\ frames \in Seq(Calls) /\ frames # << >> /\ Descends(frames, graph, Finished)
  BY StackFacts DEF Done
<1>2. frames[l].next > Len(Promise!Inputs(graph, frames[l].node))
  BY DEF Done, Top, Inputs
<1>3. /\ Popped \in Seq(Calls) /\ Len(Popped) = l - 1
      /\ \A i \in 1..Len(Popped) : Popped[i] = frames[i]
      /\ Descends(Popped, graph, Finished \cup {Top.node})
      /\ Top.node \in Streams /\ Top.node \notin Finished
      /\ \A i \in 1..Len(Popped) : Popped[i].node # Top.node
      /\ \A m \in Streams : Promise!IsInput(graph, m, Top.node) => m \in Finished
  BY <1>1, <1>2, DescendsPopped DEF Popped, Top
<1>4. l \in Nat /\ \A i \in 1..l : i \in 1..Len(Popped) \/ i = l
  BY <1>1, <1>3
<1>5. \A i \in 1..Len(Popped) : i \in 1..l
  BY <1>1, <1>3
<1>6. {Popped[i].node : i \in 1..Len(Popped)} = {frames[i].node : i \in 1..l} \ {Top.node}
  <2>1. \A i \in 1..Len(Popped) : Popped[i].node = frames[i].node /\ Popped[i].node # Top.node
    BY <1>3
  <2>2. \A i \in 1..l : i \in 1..Len(Popped) \/ frames[i].node = Top.node
    BY <1>4 DEF Top
  <2> HIDE DEF l
  <2> QED
    BY <1>5, <2>1, <2>2
<1> QED
  BY <1>3, <1>6

\* An input is passed over when it is finished, visited when it is not and not on the stack.
LEMMA TopMoves ==
  DepsInv /\ More =>
    /\ Advanced \in Seq(Calls) /\ Append(Advanced, Frame(Input)) \in Seq(Calls)
    /\ {Advanced[i].node : i \in 1..Len(Advanced)} = {frames[i].node : i \in 1..Len(frames)}
    /\ {Append(Advanced, Frame(Input))[i].node : i \in 1..Len(Append(Advanced, Frame(Input)))}
         = {frames[i].node : i \in 1..Len(frames)} \cup {Input}
    /\ Input \in Finished => Descends(Advanced, graph, Finished)
    /\ Input \notin Finished /\ ~OnPath(Input) =>
         Descends(Append(Advanced, Frame(Input)), graph, Finished)
<1> DEFINE l == Len(frames)
           into == Append(Advanced, Frame(Input))
<1> SUFFICES ASSUME DepsInv, More
             PROVE  /\ Advanced \in Seq(Calls) /\ into \in Seq(Calls)
                    /\ {Advanced[i].node : i \in 1..Len(Advanced)} = {frames[i].node : i \in 1..l}
                    /\ {into[i].node : i \in 1..Len(into)} = {frames[i].node : i \in 1..l} \cup {Input}
                    /\ Input \in Finished => Descends(Advanced, graph, Finished)
                    /\ Input \notin Finished /\ ~OnPath(Input) => Descends(into, graph, Finished)
  OBVIOUS
<1>1. graph \in Graphs /\ frames \in Seq(Calls) /\ frames # << >> /\ Descends(frames, graph, Finished)
  BY StackFacts DEF More
<1>2. /\ l \in 1..l /\ l \in Nat /\ Top \in Calls /\ Input \in Streams
  BY <1>1, TopInput
<1>3. /\ frames[l].next <= Len(Promise!Inputs(graph, frames[l].node))
      /\ Input = Promise!Inputs(graph, frames[l].node)[frames[l].next]
  BY DEF More, Top, Inputs, Input
<1>4. Advanced = [frames EXCEPT ![l].next = @ + 1]
  BY DEF Advanced
<1>5. Advanced \in Seq(Calls) /\ Len(Advanced) = l
  BY <1>1, <1>2, <1>4 DEF Calls, Top
<1>6. \A i \in 1..l : Advanced[i].node = frames[i].node
  BY <1>1, <1>2, <1>4 DEF Calls, Top
<1>7. Frame(Input) \in Calls /\ Frame(Input).node = Input
  BY <1>2 DEF Frame, Calls
<1>8. into \in Seq(Calls) /\ Len(into) = l + 1 /\ into[l + 1] = Frame(Input)
      /\ \A i \in 1..l : into[i] = Advanced[i]
  BY <1>2, <1>5, <1>7
<1>9. Input \in Finished => Descends(Advanced, graph, Finished)
  BY <1>1, <1>3, <1>4, DescendsAdvanced
<1>10. Input \notin Finished /\ ~OnPath(Input) => Descends(into, graph, Finished)
  <2> SUFFICES ASSUME Input \notin Finished, ~OnPath(Input) PROVE Descends(into, graph, Finished)
    OBVIOUS
  <2>1. \A i \in 1..l : frames[i].node # Input
    BY DEF OnPath
  <2> QED
    BY <1>1, <1>2, <1>3, <1>4, <2>1, DescendsInto
<1> HIDE DEF into
<1>11. {Advanced[i].node : i \in 1..Len(Advanced)} = {frames[i].node : i \in 1..l}
  BY <1>5, <1>6
<1>12. {into[i].node : i \in 1..Len(into)} = {frames[i].node : i \in 1..l} \cup {Input}
  <2>1. \A i \in 1..l : into[i].node = frames[i].node
    BY <1>6, <1>8
  <2>2. \A i \in 1..l + 1 : i \in 1..l \/ i = l + 1
    BY <1>2
  <2>3. \A i \in 1..l : i \in 1..l + 1
    BY <1>2
  <2>4. l + 1 \in 1..l + 1
    BY <1>2
  <2> HIDE DEF l
  <2> QED
    BY <1>7, <1>8, <2>1, <2>2, <2>3, <2>4
<1> QED
  BY <1>5, <1>8, <1>9, <1>10, <1>11, <1>12

\* A set of streams has a least one.
LEMMA LeastFacts == ASSUME NEW S \in SUBSET Streams, S # {} PROVE Least(S) \in S
<1> DEFINE R == OpToRel(<, Nat)
<1>1. IsWellFoundedOn(R, Nat)
  BY NatLessThanWellFounded
<1>2. \A x, y \in Nat : y < x => <<y, x>> \in R
  BY DEF OpToRel
<1>3. S \in SUBSET Nat
  BY DepsAssumption
<1> HIDE DEF R
<1>4. PICK x \in S : \A y \in S : <<y, x>> \notin R
  BY <1>1, <1>3, WFMin
<1>5. ASSUME NEW y \in S PROVE x <= y
  <2>1. x \in Nat /\ y \in Nat
    BY <1>3
  <2>2. ~(y < x)
    BY <1>2, <1>4, <2>1
  <2> QED
    BY <2>1, <2>2
<1> QED
  BY <1>5 DEF Least

\* The first stream of a search.
LEMMA FindRootInv == DepsInv /\ FindRoot => DepsInv'
<1> SUFFICES ASSUME DepsInv, FindRoot PROVE DepsInv'
  OBVIOUS
<1> DEFINE n == Least(Nodes(graph) \ black)
<1>1. /\ stage = "find" /\ frames' = <<Frame(n)>> /\ Nodes(graph) \ black # {}
      /\ UNCHANGED <<phase, decl, result, call, arg, graph, stage, black, cycle, order, cache,
                     progress, error>>
  BY DEF FindRoot, Finding, catVars, callVars, findVars, loadVars
<1>2. n \in Streams /\ n \notin black /\ graph \in Graphs
  BY <1>1, StackFacts, LeastFacts
<1> HIDE DEF n
<1>3. Descends(<<Frame(n)>>, graph, black) /\ <<Frame(n)>> \in Seq(Calls)
  BY <1>2, DescendsRoot
<1>4. TypeOK'
  BY <1>1, <1>3 DEF DepsInv, TypeOK
<1>5. Calling'
  BY <1>1 DEF DepsInv, Calling
<1>6. Searching' /\ Descends(frames, graph, Finished)'
  BY <1>1, <1>3 DEF DepsInv, Searching, Finished
<1>7. Ordered(order)' /\ Ordered(cache)'
  BY <1>1 DEF DepsInv, Ordered
<1> QED
  BY <1>1, <1>4, <1>5, <1>6, <1>7, MovesOn DEF DepsInv

LEMMA FindInputInv == DepsInv /\ FindInput => DepsInv'
<1> SUFFICES ASSUME DepsInv, FindInput PROVE DepsInv'
  OBVIOUS
<1>1. /\ stage = "find" /\ More /\ ~OnPath(Input)
      /\ frames' = IF Input \in black THEN Advanced ELSE Append(Advanced, Frame(Input))
      /\ UNCHANGED <<phase, decl, result, call, arg, graph, stage, black, cycle, order, cache,
                     progress, error>>
  BY DEF FindInput, Finding, catVars, callVars, findVars, loadVars
<1>2. Finished = black
  BY <1>1 DEF Finished
<1>3. frames' \in Seq(Calls) /\ Descends(frames', graph, black)
  BY <1>1, <1>2, TopMoves
<1>4. TypeOK'
  BY <1>1, <1>3 DEF DepsInv, TypeOK
<1>5. Calling'
  BY <1>1 DEF DepsInv, Calling
<1>6. Searching' /\ Descends(frames, graph, Finished)'
  BY <1>1, <1>3 DEF DepsInv, Searching, Finished
<1>7. Ordered(order)' /\ Ordered(cache)'
  BY <1>1 DEF DepsInv, Ordered
<1> QED
  BY <1>1, <1>4, <1>5, <1>6, <1>7, MovesOn DEF DepsInv

LEMMA FindLeaveInv == DepsInv /\ FindLeave => DepsInv'
<1> SUFFICES ASSUME DepsInv, FindLeave PROVE DepsInv'
  OBVIOUS
<1>1. /\ stage = "find" /\ Done /\ frames' = Popped /\ black' = black \cup {Top.node}
      /\ UNCHANGED <<phase, decl, result, call, arg, graph, stage, cycle, order, cache, progress,
                     error>>
  BY DEF FindLeave, Finding, catVars, callVars, loadVars
<1>2. Finished = black
  BY <1>1 DEF Finished
<1>3. /\ Popped \in Seq(Calls) /\ Descends(Popped, graph, black \cup {Top.node})
      /\ Top.node \in Streams /\ Top.node \notin black
      /\ \A m \in Streams : Promise!IsInput(graph, m, Top.node) => m \in black
  BY <1>1, <1>2, TopDone
<1>4. Settled(graph, black \cup {Top.node})
  <2>1. graph \in Graphs /\ black \in SUBSET Streams /\ Settled(graph, black)
    BY StackFacts DEF DepsInv, Searching
  <2> QED
    BY <1>3, <2>1, SettleOne
<1>5. TypeOK'
  BY <1>1, <1>3 DEF DepsInv, TypeOK
<1>6. Calling'
  BY <1>1 DEF DepsInv, Calling
<1>7. Searching' /\ Descends(frames, graph, Finished)'
  BY <1>1, <1>3, <1>4 DEF DepsInv, Searching, Finished
<1>8. Ordered(order)' /\ Ordered(cache)'
  BY <1>1 DEF DepsInv, Ordered
<1> QED
  BY <1>1, <1>5, <1>6, <1>7, <1>8, MovesOn DEF DepsInv

\* The search for the order has found the graph free of cycles.
LEMMA OrderBeginInv == DepsInv /\ OrderBegin => DepsInv'
<1> SUFFICES ASSUME DepsInv, OrderBegin PROVE DepsInv'
  OBVIOUS
<1>1. /\ stage = "find" /\ call = "order" /\ cycle = << >> /\ frames = << >> /\ stage' = "visit"
      /\ Nodes(graph) \subseteq black
      /\ UNCHANGED <<phase, decl, result, call, arg, graph, frames, black, cycle, order, cache,
                     progress, error>>
  BY DEF OrderBegin, Finding, catVars, callVars, findVars, loadVars
<1>2. Promise!Acyclic(graph)
  BY <1>1, Searched
<1>3. TypeOK'
  BY <1>1 DEF DepsInv, TypeOK
<1>4. Calling'
  BY <1>1 DEF DepsInv, Calling
<1>5. Searching' /\ Descends(frames, graph, Finished)'
  BY <1>1 DEF DepsInv, Searching, Descends
<1>6. Ordered(order)' /\ Ordered(cache)'
  BY <1>1 DEF DepsInv, Ordered
<1> QED
  BY <1>1, <1>2, <1>3, <1>4, <1>5, <1>6, MovesOn DEF DepsInv

\* The first stream of a visit.
LEMMA VisitRootInv == DepsInv /\ VisitRoot => DepsInv'
<1> SUFFICES ASSUME DepsInv, VisitRoot PROVE DepsInv'
  OBVIOUS
<1> DEFINE n == Least(Unseen)
<1>1. /\ stage = "visit" /\ frames' = <<Frame(n)>> /\ Unseen # {}
      /\ UNCHANGED <<phase, decl, result, call, arg, graph, stage, black, cycle, order, cache,
                     progress, error>>
  BY DEF VisitRoot, catVars, callVars, findVars, loadVars
<1>2. Unseen \in SUBSET Streams /\ graph \in Graphs
  BY StackFacts DEF Unseen
<1>3. n \in Unseen
  BY <1>1, <1>2, LeastFacts
<1> HIDE DEF n
<1>4. n \in Streams /\ n \notin Members(order)
  BY <1>2, <1>3, MembersListed DEF Unseen
<1>5. Descends(<<Frame(n)>>, graph, Members(order)) /\ <<Frame(n)>> \in Seq(Calls)
  BY <1>2, <1>4, DescendsRoot
<1>6. TypeOK'
  BY <1>1, <1>5 DEF DepsInv, TypeOK
<1>7. Calling'
  BY <1>1 DEF DepsInv, Calling
<1>8. Searching' /\ Descends(frames, graph, Finished)'
  BY <1>1, <1>5 DEF DepsInv, Searching, Finished, Members
<1>9. Ordered(order)' /\ Ordered(cache)'
  BY <1>1 DEF DepsInv, Ordered
<1> QED
  BY <1>1, <1>6, <1>7, <1>8, <1>9, MovesOn DEF DepsInv

\* Without a cycle a visit never comes to a stream it has only begun.
LEMMA VisitInputInv == DepsInv /\ VisitInput => DepsInv'
<1> SUFFICES ASSUME DepsInv, VisitInput PROVE DepsInv'
  OBVIOUS
<1>1. /\ stage = "visit" /\ More
      /\ frames' = IF Listed(order, Input) \/ OnPath(Input) THEN Advanced
                   ELSE Append(Advanced, Frame(Input))
      /\ UNCHANGED <<phase, decl, result, call, arg, graph, stage, black, cycle, order, cache,
                     progress, error>>
  BY DEF VisitInput, catVars, callVars, findVars, loadVars
<1>2. Finished = Members(order)
  BY <1>1 DEF Finished
<1>3. ~OnPath(Input)
  BY <1>1, TopCycle DEF DepsInv
<1>4. frames' \in Seq(Calls) /\ Descends(frames', graph, Members(order))
  BY <1>1, <1>2, <1>3, TopMoves, MembersListed
<1>5. TypeOK'
  BY <1>1, <1>4 DEF DepsInv, TypeOK
<1>6. Calling'
  BY <1>1 DEF DepsInv, Calling
<1>7. Searching' /\ Descends(frames, graph, Finished)'
  BY <1>1, <1>4 DEF DepsInv, Searching, Finished, Members
<1>8. Ordered(order)' /\ Ordered(cache)'
  BY <1>1 DEF DepsInv, Ordered
<1> QED
  BY <1>1, <1>5, <1>6, <1>7, <1>8, MovesOn DEF DepsInv

LEMMA VisitLeaveInv == DepsInv /\ VisitLeave => DepsInv'
<1> SUFFICES ASSUME DepsInv, VisitLeave PROVE DepsInv'
  OBVIOUS
<1> DEFINE n == Top.node
<1>1. /\ stage = "visit" /\ Done /\ frames' = Popped /\ order' = Append(order, n)
      /\ UNCHANGED <<phase, decl, result, call, arg, graph, stage, black, cycle, cache, progress,
                     error>>
  BY DEF VisitLeave, catVars, callVars, findVars, loadVars
<1>2. Finished = Members(order)
  BY <1>1 DEF Finished
<1>3. /\ Popped \in Seq(Calls) /\ Descends(Popped, graph, Members(order) \cup {n})
      /\ n \in Streams /\ n \notin Members(order)
      /\ \A m \in Streams : Promise!IsInput(graph, m, n) => m \in Members(order)
  BY <1>1, <1>2, TopDone
<1> HIDE DEF n
<1>4. order \in Seq(Streams) /\ Ordered(order)
  BY DEF DepsInv, TypeOK
<1>5. Ordered(Append(order, n)) /\ Members(Append(order, n)) = Members(order) \cup {n}
  BY <1>3, <1>4, OrderedAppend
<1>6. TypeOK'
  BY <1>1, <1>3 DEF DepsInv, TypeOK
<1>7. Calling'
  BY <1>1 DEF DepsInv, Calling
<1>8. Finished' = Members(order) \cup {n}
  BY <1>1, <1>5 DEF Finished, Members
<1>9. Searching' /\ Descends(frames, graph, Finished)'
  BY <1>1, <1>3, <1>8 DEF DepsInv, Searching
<1>10. Ordered(order)'
  BY <1>1, <1>5 DEF Ordered
<1>11. Ordered(cache)'
  BY <1>1 DEF DepsInv, Ordered
<1> QED
  BY <1>1, <1>6, <1>7, <1>9, <1>10, <1>11, MovesOn DEF DepsInv

LEMMA LoadInputInv == DepsInv /\ LoadInput => DepsInv'
<1> SUFFICES ASSUME DepsInv, LoadInput PROVE DepsInv'
  OBVIOUS
<1>1. /\ stage = "load" /\ More
      /\ \/ Listed(cache, Input) /\ frames' = Advanced /\ UNCHANGED progress
         \/ /\ ~Listed(cache, Input) /\ Input \notin progress
            /\ frames' = Append(Advanced, Frame(Input)) /\ progress' = progress \cup {Input}
      /\ UNCHANGED <<phase, decl, result, call, arg, graph, stage, black, cycle, order, cache,
                     error>>
  BY DEF LoadInput, catVars, callVars, findVars
<1>2. Finished = Members(cache) /\ progress = {frames[i].node : i \in 1..Len(frames)}
  BY <1>1 DEF DepsInv, Calling, Finished
<1>3. Input \in Streams
  BY <1>1, TopInput
<1>4. /\ frames' \in Seq(Calls) /\ Descends(frames', graph, Members(cache))
      /\ progress' = {frames'[i].node : i \in 1..Len(frames')}
  <2>1. CASE Listed(cache, Input) /\ frames' = Advanced /\ UNCHANGED progress
    BY <1>1, <1>2, <2>1, TopMoves, MembersListed
  <2>2. CASE /\ ~Listed(cache, Input) /\ Input \notin progress
             /\ frames' = Append(Advanced, Frame(Input)) /\ progress' = progress \cup {Input}
    <3>1. ~OnPath(Input) /\ Input \notin Members(cache)
      BY <1>2, <2>2, MembersListed DEF OnPath
    <3> QED
      BY <1>1, <1>2, <2>2, <3>1, TopMoves
  <2> QED
    BY <1>1, <2>1, <2>2
<1>5. TypeOK'
  BY <1>1, <1>3, <1>4 DEF DepsInv, TypeOK
<1>6. Calling'
  BY <1>1, <1>4 DEF DepsInv, Calling
<1>7. Searching' /\ Descends(frames, graph, Finished)'
  BY <1>1, <1>4 DEF DepsInv, Searching, Finished, Members
<1>8. Ordered(order)' /\ Ordered(cache)'
  BY <1>1 DEF DepsInv, Ordered
<1> QED
  BY <1>1, <1>5, <1>6, <1>7, <1>8, MovesOn DEF DepsInv

LEMMA ComputeInv == DepsInv /\ Compute => DepsInv'
<1> SUFFICES ASSUME DepsInv, Compute PROVE DepsInv'
  OBVIOUS
<1> DEFINE n == Top.node
<1>1. /\ stage = "load" /\ Done /\ frames' = Popped /\ cache' = Append(cache, n)
      /\ progress' = progress \ {n}
      /\ UNCHANGED <<phase, decl, result, call, arg, graph, stage, black, cycle, order, error>>
  BY DEF Compute, catVars, callVars, findVars
<1>2. Finished = Members(cache) /\ progress = {frames[i].node : i \in 1..Len(frames)}
  BY <1>1 DEF DepsInv, Calling, Finished
<1>3. /\ Popped \in Seq(Calls) /\ Descends(Popped, graph, Members(cache) \cup {n})
      /\ n \in Streams /\ n \notin Members(cache)
      /\ {Popped[i].node : i \in 1..Len(Popped)} = {frames[i].node : i \in 1..Len(frames)} \ {n}
      /\ \A m \in Streams : Promise!IsInput(graph, m, n) => m \in Members(cache)
  BY <1>1, <1>2, TopDone
<1> HIDE DEF n
<1>4. cache \in Seq(Streams) /\ Ordered(cache)
  BY DEF DepsInv, TypeOK
<1>5. Ordered(Append(cache, n)) /\ Members(Append(cache, n)) = Members(cache) \cup {n}
  BY <1>3, <1>4, OrderedAppend
<1>6. TypeOK'
  BY <1>1, <1>3 DEF DepsInv, TypeOK
<1>7. progress' = {frames'[i].node : i \in 1..Len(frames')}
  BY <1>1, <1>2, <1>3
<1>8. Calling'
  BY <1>1, <1>7 DEF DepsInv, Calling
<1>9. Finished' = Members(cache) \cup {n}
  BY <1>1, <1>5 DEF Finished, Members
<1>10. Searching' /\ Descends(frames, graph, Finished)'
  BY <1>1, <1>3, <1>9 DEF DepsInv, Searching
<1>11. Ordered(cache)'
  BY <1>1, <1>5 DEF Ordered
<1>12. Ordered(order)'
  BY <1>1 DEF DepsInv, Ordered
<1> QED
  BY <1>1, <1>6, <1>8, <1>10, <1>11, <1>12, MovesOn DEF DepsInv

-----------------------------------------------------------------------------
(* Theorems *)

\* Every step of the writer, the reader or the client preserves the invariant.
LEMMA StepInv == DepsInv /\ [Next]_vars => DepsInv'
<1> SUFFICES ASSUME DepsInv, [Next]_vars PROVE DepsInv'
  OBVIOUS
<1>1. CASE Client
  <2>1. \A g \in HandBuilt \cup {Promise!Catalog(decl)} : g \in Graphs
    <3>1. Promise!Catalog(decl) \in [{t \in Declared : decl[t] # << >>} -> InputLists]
      BY DEF DepsInv, TypeOK, Promise!Catalog
    <3>2. Promise!Catalog(decl) \in Graphs
      BY <3>1, DepsAssumption DEF Graphs
    <3> QED
      BY <3>2, DepsAssumption DEF Graphs
  <2> QED
    BY <1>1, <2>1, DeclareInv, CloseInv, OrderInv, NewMaterializerInv, MaterializeInv DEF Client
<1>2. CASE Search
  BY <1>2, FindRootInv, FindCycleInv, FindInputInv, FindLeaveInv DEF Search
<1>3. CASE Visit
  BY <1>3, OrderBeginInv, VisitRootInv, VisitInputInv, VisitLeaveInv DEF Visit
<1>4. CASE Load
  BY <1>4, LoadInputInv, ComputeInv DEF Load
<1>5. CASE End
  BY <1>5, AcceptInv, RefuseInv, ClosedInv, OrderRefusedInv, OrderEndInv, LoadedInv, LoadCycleInv,
     ComputeFailsInv DEF End
<1>6. CASE UNCHANGED vars
  <2> USE <1>6 DEF vars, catVars, callVars, findVars, loadVars
  <2>1. TypeOK' /\ Calling' /\ Searching' /\ Finished' = Finished
    BY DEF DepsInv, TypeOK, Calling, Searching, Finished, Members
  <2>2. Descends(frames, graph, Finished)' /\ Ordered(order)' /\ Ordered(cache)'
    BY <2>1 DEF DepsInv, Ordered
  <2> QED
    BY <2>1, <2>2, MovesOn DEF DepsInv
<1> QED
  BY <1>1, <1>2, <1>3, <1>4, <1>5, <1>6 DEF Next

\* The stack, the marks, the order and the cache agree in every state.
THEOREM Invariance == Spec => []DepsInv
BY InitInv, StepInv, PTL DEF Spec

\* Whatever is declared and refused, the writer's catalog has no cycle, and close finds none.
THEOREM CatalogStaysAcyclic == Spec => []CatalogAcyclic
<1>1. DepsInv => CatalogAcyclic
  BY DEF DepsInv
<1> QED
  BY <1>1, Invariance, PTL

\* A cycle that is reported is a cycle of the graph.
THEOREM CycleReported == Spec => []CycleIsOne
<1>1. DepsInv => CycleIsOne
  BY DEF DepsInv
<1> QED
  BY <1>1, Invariance, PTL

\* The decode order has every stream after its inputs.
THEOREM OrderSound == Spec => []OrderTopological
<1>1. DepsInv => OrderTopological
  BY DEF DepsInv, OrderTopological
<1> QED
  BY <1>1, Invariance, PTL

\* A stream is computed once, and after its inputs.
THEOREM ComputedAfterInputs == Spec => []InputsFirst
<1>1. DepsInv => InputsFirst
  BY DEF DepsInv, InputsFirst
<1> QED
  BY <1>1, Invariance, PTL

\* A cycle reported at read time exists in the graph that was read.
THEOREM MarksSound == Spec => []NoFalseCycle
<1>1. DepsInv => NoFalseCycle
  BY DEF DepsInv
<1> QED
  BY <1>1, Invariance, PTL

\* Outside a call of materialize no stream is marked in progress, also when a client's
\* computation raised and the call was unwound from its middle.
THEOREM MarksWithinACall == Spec => []NothingInProgress
<1>1. DepsInv => NothingInProgress
  BY DEF DepsInv, Calling, NothingInProgress
<1> QED
  BY <1>1, Invariance, PTL

\* The writer accepts a declaration exactly when the catalog stays free of cycles, and
\* one it refuses leaves no trace.
THEOREM CatalogKept == Spec => KeepsPromise
<1>1. Init => Promise!CatalogInit
  BY DEF Init, Promise!CatalogInit
<1>2. DepsInv /\ [Next]_vars => [Promise!CatalogNext]_(Promise!catalogVars)
  <2> SUFFICES ASSUME DepsInv, [Next]_vars
               PROVE  Promise!CatalogNext \/ UNCHANGED <<decl, result>>
    BY DEF Promise!catalogVars
  <2>1. CASE Accept
    <3>1. Promise!Acyclic(graph)
      BY <2>1, Searched DEF Accept
    <3> QED
      BY <2>1, <3>1 DEF Accept, DepsInv, Calling, Promise!CatalogNext, Promise!Accept
  <2>2. CASE Refuse
    <3>1. ~Promise!Acyclic(graph)
      BY <2>2 DEF Refuse, DepsInv, Searching
    <3> QED
      BY <2>2, <3>1 DEF Refuse, DepsInv, Calling, Promise!CatalogNext, Promise!Refuse
  <2>3. CASE Client \/ Search \/ Visit \/ Load
    BY <2>3 DEF Client, Search, Visit, Load, Declare, Close, Order, NewMaterializer, Materialize,
       Begin, FindRoot, FindCycle, FindInput, FindLeave, OrderBegin, VisitRoot, VisitInput,
       VisitLeave, LoadInput, Compute, catVars
  <2>4. CASE Closed \/ OrderRefused \/ OrderEnd \/ Loaded \/ LoadCycle \/ ComputeFails
    BY <2>4 DEF Closed, OrderRefused, OrderEnd, Loaded, LoadCycle, ComputeFails, Unwind, catVars
  <2>5. CASE UNCHANGED vars
    BY <2>5 DEF vars, catVars
  <2> QED
    BY <2>1, <2>2, <2>3, <2>4, <2>5 DEF Next, End
<1> QED
  BY <1>1, <1>2, Invariance, PTL DEF Spec, KeepsPromise, Promise!CatalogSpec
=============================================================================
