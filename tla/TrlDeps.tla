------------------------------- MODULE TrlDeps -------------------------------
(***************************************************************************)
(* Stream dependencies (_deps.py): the writer's catalog, which refuses a     *)
(* declaration that closes a cycle, the reader's decode order, and the       *)
(* reader's lazy materialization.  The recursive visits of the code are      *)
(* unfolded: `frames` is the stack of calls of visit or materialize, each    *)
(* with its stream and the input it comes to next.                           *)
(***************************************************************************)
EXTENDS Integers, Sequences, FiniteSets

CONSTANTS
  Streams,     \* ids of streams
  Declared,    \* those with a declaration in the type registry
  InputLists,  \* lists of inputs the client declares
  HandBuilt    \* graphs the client puts together itself for reading

ASSUME DepsAssumption ==
  /\ Streams \subseteq Nat /\ IsFiniteSet(Streams) /\ Declared \subseteq Streams
  /\ InputLists \subseteq Seq(Streams) /\ << >> \in InputLists
  /\ \A g \in HandBuilt : \E D \in SUBSET Streams : g \in [D -> InputLists]

VARIABLES
  phase,     \* "write" or "read"
  decl,      \* input_streams of the declared streams
  result,    \* what the last declaration came to
  call,      \* call in progress: "none", "declare", "close", "order" or "materialize"
  arg,       \* its arguments
  graph,     \* the DependencyGraph at work
  stage,     \* "idle", "find" (find_cycle), "visit" (topo_order) or "load" (materialize)
  frames,    \* calls of visit or materialize under way
  black,     \* streams find_cycle is done with; the grey ones are those of frames
  cycle,     \* what find_cycle returns
  order,     \* the decode order
  cache,     \* Materializer._cache: streams in the order of their computation
  progress,  \* Materializer._in_progress
  error      \* how the last materialize ended: "none", "cycle" or "compute"

Promise == INSTANCE DependencyCatalog

catVars  == <<phase, decl, result>>
callVars == <<call, arg, graph>>
findVars == <<black, cycle>>
loadVars == <<cache, progress, error>>
vars == <<catVars, callVars, stage, frames, findVars, order, loadVars>>

-----------------------------------------------------------------------------
Inputs(n) == Promise!Inputs(graph, n)

\* DependencyGraph.nodes
Nodes(g) == DOMAIN g \cup UNION {{g[s][i] : i \in 1..Len(g[s])} : s \in DOMAIN g}

Frame(n) == [node |-> n, next |-> 1]

Top == frames[Len(frames)]

\* The call on top has an input to look at yet.
More == frames # << >> /\ Top.next <= Len(Inputs(Top.node))

Done == frames # << >> /\ Top.next > Len(Inputs(Top.node))

Input == Inputs(Top.node)[Top.next]

Advanced == [frames EXCEPT ![Len(frames)].next = @ + 1]

Popped == SubSeq(frames, 1, Len(frames) - 1)

OnPath(m) == \E i \in 1..Len(frames) : frames[i].node = m

Listed(s, n) == \E i \in 1..Len(s) : s[i] = n

Least(S) == CHOOSE n \in S : \A m \in S : n <= m

\* A call that has found its cycle or its end is over.
Return ==
  /\ call' = "none" /\ stage' = "idle" /\ frames' = << >> /\ black' = {} /\ cycle' = << >>
  /\ order' = << >> /\ arg' = << >>
  /\ UNCHANGED graph

Init ==
  /\ phase = "write" /\ decl = [s \in Declared |-> << >>] /\ result = "ok"
  /\ call = "none" /\ arg = << >> /\ graph = Promise!Catalog(decl) /\ stage = "idle" /\ frames = << >>
  /\ black = {} /\ cycle = << >> /\ order = << >>
  /\ cache = << >> /\ progress = {} /\ error = "none"

-----------------------------------------------------------------------------
(* The writer: declare_dependencies and the check of close *)

\* find_cycle begins on graph g.
Begin(c, g) ==
  /\ call = "none" /\ call' = c /\ graph' = g /\ stage' = "find"
  /\ UNCHANGED <<catVars, frames, findVars, order, loadVars>>

\* Mutant of Declare: the catalog is validated without the new declaration.
DeclareUnchecked(s, ins) ==
  /\ phase = "write" /\ arg' = <<s, ins>>
  /\ Begin("declare", Promise!Catalog(decl))

\* The candidate is the catalog with the new declaration.
Declare(s, ins) ==
  /\ phase = "write" /\ arg' = <<s, ins>>
  /\ Begin("declare", Promise!Candidate(decl, s, ins))

Close ==
  /\ phase = "write" /\ UNCHANGED arg
  /\ Begin("close", Promise!Catalog(decl))

\* Mutant of Accept: the declaration is kept before the graph is validated.
AcceptAll ==
  /\ stage = "find" /\ call = "declare"
  /\ (frames = << >> /\ Nodes(graph) \subseteq black) \/ cycle # << >>
  /\ decl' = [decl EXCEPT ![arg[1]] = arg[2]]
  /\ result' = IF cycle = << >> THEN "ok" ELSE "cycle"
  /\ Return
  /\ UNCHANGED <<phase, loadVars>>

\* The whole graph is searched and the declaration is kept.
Accept ==
  /\ stage = "find" /\ call = "declare" /\ cycle = << >>
  /\ frames = << >> /\ Nodes(graph) \subseteq black
  /\ decl' = [decl EXCEPT ![arg[1]] = arg[2]] /\ result' = "ok"
  /\ Return
  /\ UNCHANGED <<phase, loadVars>>

\* DependencyError: the declaration is not kept.
Refuse ==
  /\ stage = "find" /\ call = "declare" /\ cycle # << >>
  /\ result' = "cycle"
  /\ Return
  /\ UNCHANGED <<phase, decl, loadVars>>

\* The trace is written and a reader has opened it.
Closed ==
  /\ stage = "find" /\ call = "close" /\ cycle = << >>
  /\ frames = << >> /\ Nodes(graph) \subseteq black
  /\ phase' = "read"
  /\ Return
  /\ UNCHANGED <<decl, result, loadVars>>

-----------------------------------------------------------------------------
(* find_cycle *)

Finding == stage = "find" /\ cycle = << >>

\* The loop over the nodes: the next one not visited yet.
FindRoot ==
  /\ Finding /\ frames = << >> /\ Nodes(graph) \ black # {}
  /\ frames' = <<Frame(Least(Nodes(graph) \ black))>>
  /\ UNCHANGED <<catVars, callVars, stage, findVars, order, loadVars>>

\* Mutant of PathFrom: the whole path.
PathFromStart(m) == Append([i \in 1..Len(frames) |-> frames[i].node], m)

\* path[path.index(m):] + [m]
PathFrom(m) ==
  LET first == CHOOSE i \in 1..Len(frames) : frames[i].node = m
  IN  [i \in 1..Len(frames) - first + 2 |->
         IF i <= Len(frames) - first + 1 THEN frames[first + i - 1].node ELSE m]

\* A grey input closes a cycle.
FindCycle ==
  /\ Finding /\ More /\ OnPath(Input)
  /\ cycle' = PathFrom(Input)
  /\ UNCHANGED <<catVars, callVars, stage, frames, black, order, loadVars>>

\* A white input is visited, a black one passed over.
FindInput ==
  /\ Finding /\ More /\ ~OnPath(Input)
  /\ frames' = IF Input \in black THEN Advanced ELSE Append(Advanced, Frame(Input))
  /\ UNCHANGED <<catVars, callVars, stage, findVars, order, loadVars>>

\* Mutant of FindLeave: the stream stays white.
FindLeaveUnmarked ==
  /\ Finding /\ Done
  /\ frames' = Popped
  /\ UNCHANGED <<catVars, callVars, stage, findVars, order, loadVars>>

FindLeave ==
  /\ Finding /\ Done
  /\ frames' = Popped /\ black' = black \cup {Top.node}
  /\ UNCHANGED <<catVars, callVars, stage, cycle, order, loadVars>>

-----------------------------------------------------------------------------
(* The reader: topo_order *)

Order ==
  /\ phase = "read" /\ UNCHANGED arg
  /\ Begin("order", graph)

\* DependencyError
OrderRefused ==
  /\ stage = "find" /\ call \in {"order", "close"} /\ cycle # << >>
  /\ Return
  /\ UNCHANGED <<catVars, loadVars>>

OrderBegin ==
  /\ Finding /\ call = "order" /\ frames = << >> /\ Nodes(graph) \subseteq black
  /\ stage' = "visit"
  /\ UNCHANGED <<catVars, callVars, frames, findVars, order, loadVars>>

Unseen == {n \in Nodes(graph) : ~Listed(order, n)}

\* visit returns at once from a stream seen: one in the order or in a call under way.
VisitRoot ==
  /\ stage = "visit" /\ frames = << >> /\ Unseen # {}
  /\ frames' = <<Frame(Least(Unseen))>>
  /\ UNCHANGED <<catVars, callVars, stage, findVars, order, loadVars>>

VisitInput ==
  /\ stage = "visit" /\ More
  /\ frames' = IF Listed(order, Input) \/ OnPath(Input) THEN Advanced
               ELSE Append(Advanced, Frame(Input))
  /\ UNCHANGED <<catVars, callVars, stage, findVars, order, loadVars>>

\* Mutant of VisitLeave: a stream goes in front of its inputs.
VisitLeaveFront ==
  /\ stage = "visit" /\ Done
  /\ frames' = Popped /\ order' = <<Top.node>> \o order
  /\ UNCHANGED <<catVars, callVars, stage, findVars, loadVars>>

VisitLeave ==
  /\ stage = "visit" /\ Done
  /\ frames' = Popped /\ order' = Append(order, Top.node)
  /\ UNCHANGED <<catVars, callVars, stage, findVars, loadVars>>

OrderEnd ==
  /\ stage = "visit" /\ frames = << >> /\ Unseen = {}
  /\ Return
  /\ UNCHANGED <<catVars, loadVars>>

-----------------------------------------------------------------------------
(* The reader: Materializer *)

\* Another materializer: over the catalog, or a graph of the client's own.
NewMaterializer(g) ==
  /\ phase = "read" /\ call = "none"
  /\ graph' = g /\ cache' = << >> /\ progress' = {} /\ error' = "none"
  /\ UNCHANGED <<catVars, call, arg, stage, frames, findVars, order>>

\* A stream in the cache is answered at once, one in progress refused at once.
Materialize(s) ==
  /\ phase = "read" /\ call = "none" /\ ~Listed(cache, s)
  /\ IF s \in progress THEN error' = "cycle" /\ UNCHANGED <<call, stage, frames, progress>>
     ELSE /\ call' = "materialize" /\ stage' = "load" /\ error' = "none"
          /\ frames' = <<Frame(s)>> /\ progress' = progress \cup {s}
  /\ UNCHANGED <<catVars, arg, graph, findVars, order, cache>>

\* Mutant of LoadInput: an input enters the cache when its visit begins.
LoadInputEarly ==
  /\ stage = "load" /\ More /\ Input \notin progress
  /\ IF Listed(cache, Input)
     THEN frames' = Advanced /\ UNCHANGED <<progress, cache>>
     ELSE /\ frames' = Append(Advanced, Frame(Input))
          /\ progress' = progress \cup {Input} /\ cache' = Append(cache, Input)
  /\ UNCHANGED <<catVars, callVars, stage, findVars, order, error>>

\* An input in the cache is taken from it, any other is materialized first.
LoadInput ==
  /\ stage = "load" /\ More
  /\ \/ Listed(cache, Input) /\ frames' = Advanced /\ UNCHANGED progress
     \/ /\ ~Listed(cache, Input) /\ Input \notin progress
        /\ frames' = Append(Advanced, Frame(Input)) /\ progress' = progress \cup {Input}
  /\ UNCHANGED <<catVars, callVars, stage, findVars, order, cache, error>>

Compute ==
  /\ stage = "load" /\ Done
  /\ cache' = Append(cache, Top.node) /\ progress' = progress \ {Top.node}
  /\ frames' = Popped
  /\ UNCHANGED <<catVars, callVars, stage, findVars, order, error>>

Loaded ==
  /\ stage = "load" /\ frames = << >>
  /\ Return
  /\ UNCHANGED <<catVars, loadVars>>

\* Mutant of Unwind: only the call that raises clears its mark.
UnwindTop(e) ==
  /\ progress' = progress \ {Top.node} /\ error' = e
  /\ Return
  /\ UNCHANGED <<catVars, cache>>

\* An exception passes through every call under way; each clears its mark.
Unwind(e) ==
  /\ progress' = progress \ {frames[i].node : i \in 1..Len(frames)} /\ error' = e
  /\ Return
  /\ UNCHANGED <<catVars, cache>>

\* "dependency cycle hit at read time"
LoadCycle ==
  /\ stage = "load" /\ More /\ ~Listed(cache, Input) /\ Input \in progress
  /\ Unwind("cycle")

\* The client's compute raises.
ComputeFails == stage = "load" /\ Done /\ Unwind("compute")

-----------------------------------------------------------------------------
Client ==
  \/ \E s \in Declared, ins \in InputLists : Declare(s, ins)
  \/ Close
  \/ Order
  \/ \E g \in HandBuilt \cup {Promise!Catalog(decl)} : NewMaterializer(g)
  \/ \E s \in Streams : Materialize(s)

Search == FindRoot \/ FindCycle \/ FindInput \/ FindLeave

Visit == OrderBegin \/ VisitRoot \/ VisitInput \/ VisitLeave

Load == LoadInput \/ Compute

End == Accept \/ Refuse \/ Closed \/ OrderRefused \/ OrderEnd \/ Loaded \/ LoadCycle \/ ComputeFails

Next == Client \/ Search \/ Visit \/ Load \/ End

Spec == Init /\ [][Next]_vars

\* A call that has begun is carried on.
FairSpec == Spec /\ WF_vars(Search \/ Visit \/ Load \/ End)

-----------------------------------------------------------------------------
(* Properties *)

\* What find_cycle returns is a cycle: a walk along inputs, back to its start.
CycleIsOne ==
  cycle # << >> =>
    /\ Len(cycle) > 1 /\ cycle[1] = cycle[Len(cycle)]
    /\ \A i \in 1..Len(cycle) - 1 : Promise!IsInput(graph, cycle[i + 1], cycle[i])

\* Whatever was declared and refused, the writer's catalog has no cycle, so the
\* check of close passes.
CatalogAcyclic ==
  /\ Promise!Acyclic(Promise!Catalog(decl))
  /\ call = "close" => cycle = << >>

\* Streams come after their inputs, and none comes twice.
Ordered(s) ==
  /\ \A i, j \in 1..Len(s) : s[i] = s[j] => i = j
  /\ \A j \in 1..Len(s) : \A m \in Streams : Promise!IsInput(graph, m, s[j]) =>
       \E i \in 1..j - 1 : s[i] = m

\* The decode order has every stream after its inputs ("Dependencies before
\* dependents", topo_order), though a visit also passes over streams it has only begun.
OrderTopological == stage = "visit" => Ordered(order)

\* A stream is computed once, after its inputs, whatever failed before.
InputsFirst == Ordered(cache)

\* Between calls no stream is in progress: a call that raised leaves no mark that
\* would make the next one report a cycle.
NothingInProgress == call # "materialize" => progress = {}

\* A cycle is reported at read time only when there is one.
NoFalseCycle == error = "cycle" => ~Promise!Acyclic(graph)

\* The writer's catalog does what it promises.
KeepsPromise == Promise!CatalogSpec

\* Every call ends, on graphs with cycles too.
CallsEnd == call # "none" ~> call = "none"

-----------------------------------------------------------------------------
(* The inductive invariant *)

Calls == [node : Streams, next : Nat \ {0}]

Graphs == UNION {[D -> InputLists] : D \in SUBSET Streams}

TypeOK ==
  /\ phase \in {"write", "read"} /\ decl \in [Declared -> InputLists]
  /\ result \in {"ok", "cycle"} /\ graph \in Graphs
  /\ frames \in Seq(Calls) /\ black \subseteq Streams
  /\ cycle \in Seq(Streams) /\ order \in Seq(Streams) /\ cache \in Seq(Streams)
  /\ progress \subseteq Streams /\ error \in {"none", "cycle", "compute"}

\* Which calls run when, on which graph, and what they have at work.
Calling ==
  /\ <<stage, call>> \in {<<"idle", "none">>, <<"find", "declare">>, <<"find", "close">>,
                          <<"find", "order">>, <<"visit", "order">>, <<"load", "materialize">>}
  /\ call \in {"declare", "close"} => phase = "write"
  /\ call \in {"order", "materialize"} => phase = "read"
  /\ call = "declare" =>
       /\ arg[1] \in Declared /\ arg[2] \in InputLists
       /\ graph = Promise!Candidate(decl, arg[1], arg[2])
  /\ call = "close" => graph = Promise!Catalog(decl)
  /\ phase = "write" => cache = << >> /\ error = "none"
  /\ stage = "idle" => frames = << >>
  /\ stage \in {"idle", "load"} => black = {}
  /\ stage # "find" => cycle = << >>
  /\ stage # "visit" => order = << >>
  /\ progress = IF stage = "load" THEN {frames[i].node : i \in 1..Len(frames)} ELSE {}

Members(s) == {s[i] : i \in 1..Len(s)}

\* The streams the visit at work is done with.
Finished ==
  CASE stage = "find" -> black [] stage = "visit" -> Members(order) [] OTHER -> Members(cache)

\* Calls under way on graph g descend along inputs, come to no stream twice, and have
\* left behind inputs of D only, D being the streams finished.
Descends(fr, g, D) ==
  /\ \A i \in 1..Len(fr) - 1 : Promise!IsInput(g, fr[i + 1].node, fr[i].node)
  /\ \A i, j \in 1..Len(fr) : fr[i].node = fr[j].node => i = j
  /\ \A i \in 1..Len(fr) : fr[i].node \notin D
  /\ \A i \in 1..Len(fr) : \A k \in 1..fr[i].next - 1 :
       k <= Len(Promise!Inputs(g, fr[i].node)) =>
         \/ Promise!Inputs(g, fr[i].node)[k] \in D
         \/ i < Len(fr) /\ Promise!Inputs(g, fr[i].node)[k] = fr[i + 1].node

\* Finished streams have finished inputs, and no set of them goes round in circles.
Settled(g, D) ==
  /\ \A n \in D : \A m \in Streams : Promise!IsInput(g, m, n) => m \in D
  /\ \A S \in SUBSET D : S # {} => \E n \in S : \A m \in S : ~Promise!IsInput(g, m, n)

Searching ==
  /\ Settled(graph, black)
  /\ cycle # << >> => ~Promise!Acyclic(graph)

DepsInv ==
  /\ TypeOK /\ Calling /\ Searching /\ Descends(frames, graph, Finished)
  /\ CycleIsOne /\ CatalogAcyclic
  /\ stage = "visit" => Promise!Acyclic(graph)
  /\ Ordered(order) /\ Ordered(cache)
  /\ NoFalseCycle
=============================================================================
