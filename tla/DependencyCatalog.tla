-------------------------- MODULE DependencyCatalog --------------------------
(***************************************************************************)
(* What the dependency catalog of a trace promises: a declaration is         *)
(* accepted exactly when the catalog stays free of cycles, and a refused one *)
(* leaves no trace.                                                          *)
(***************************************************************************)
EXTENDS Naturals, Sequences

CONSTANTS
  Streams,    \* ids of streams
  Declared,   \* those with a declaration in the type registry
  InputLists  \* lists of inputs the client declares

VARIABLES
  decl,    \* the inputs declared for each stream
  result   \* what the last call came to: "ok", or "cycle" if it was refused

catalogVars == <<decl, result>>

-----------------------------------------------------------------------------
(* Graphs are partial functions from streams to lists of inputs. *)

\* A stream with no entry in the graph has no inputs.
Inputs(g, n) == IF n \in DOMAIN g THEN g[n] ELSE << >>

IsInput(g, m, n) == \E i \in 1..Len(Inputs(g, n)) : Inputs(g, n)[i] = m

\* There is no cycle if every set of streams has one without an input in the set.
Acyclic(g) ==
  \A S \in SUBSET Streams : S # {} => \E n \in S : \A m \in S : ~IsInput(g, m, n)

\* The streams with inputs.
Catalog(d) == [s \in {t \in DOMAIN d : d[t] # << >>} |-> d[s]]

\* The catalog with one declaration more.
Candidate(d, s, ins) ==
  [t \in DOMAIN Catalog(d) \cup {s} |-> IF t = s THEN ins ELSE d[t]]

-----------------------------------------------------------------------------
CatalogInit == decl = [s \in Declared |-> << >>] /\ result = "ok"

Accept ==
  \E s \in Declared, ins \in InputLists :
    /\ Acyclic(Candidate(decl, s, ins))
    /\ decl' = [decl EXCEPT ![s] = ins] /\ result' = "ok"

Refuse ==
  \E s \in Declared, ins \in InputLists :
    /\ ~Acyclic(Candidate(decl, s, ins))
    /\ result' = "cycle" /\ UNCHANGED decl

CatalogNext == Accept \/ Refuse

CatalogSpec == CatalogInit /\ [][CatalogNext]_catalogVars
=============================================================================
