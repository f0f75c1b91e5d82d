----------------------------- MODULE TrlHierarchy ----------------------------
(***************************************************************************)
(* A hierarchy tree, built, written as a sequence of tags and read back     *)
(* (_hierarchy.py).                                                         *)
(*                                                                          *)
(* The builder keeps the node an attribute goes to; the tags do not name    *)
(* it, and the reader takes it from where the attribute stands.  Fields of  *)
(* a node that are only copied are left out, but for its name; so is the    *)
(* compression of the block.                                                *)
(***************************************************************************)
EXTENDS Integers, SequencesExt

CONSTANTS
  HierNames, HierAttrs,    \* names and attributes a client gives
  MaxHierNodes, MaxHierAttrs

ASSUME HierAssumption == MaxHierNodes \in Nat /\ MaxHierAttrs \in Nat

VARIABLES
  hierNodes,     \* the nodes in the order they were declared, each with its scope
  hierStack,     \* _scope_stack
  hierLast,      \* _last_node, or 0
  hierTags,      \* the tag sequence written
  hierRead,      \* the nodes the reader made, and its stack of scopes
  hierPhase      \* "building", "written", "read" or "astray"

hierVars == <<hierNodes, hierStack, hierLast, hierTags, hierRead, hierPhase>>

Top(stack) == IF stack = << >> THEN 0 ELSE stack[Len(stack)]

\* The nodes in a scope that come after the first m; 0 stands for the root.
Kids(nodes, scope, m) == {n \in m + 1..Len(nodes) : nodes[n].scope = scope}

InOrder(places) ==
  CHOOSE order \in Bijection(1..Cardinality(places), places) :
    \A k, l \in 1..Cardinality(places) : k < l => order[k] < order[l]

-----------------------------------------------------------------------------
(* The builder *)

HierInit ==
  /\ hierNodes = << >>
  /\ hierStack = << >>
  /\ hierLast = 0
  /\ hierTags = << >>
  /\ hierRead = [nodes |-> << >>, stack |-> << >>]
  /\ hierPhase = "building"

\* A node of a kind in the open scope.  Variables and streams are numbered, each
\* kind from 1.
Declare(kind, name) ==
  /\ hierPhase = "building"
  /\ Len(hierNodes) < MaxHierNodes
  /\ hierNodes' = Append(hierNodes,
       [kind |-> kind, name |-> name, scope |-> Top(hierStack), attrs |-> << >>, typed |-> << >>,
        id |-> IF kind = "SCOPE" THEN 0
               ELSE 1 + Cardinality({n \in 1..Len(hierNodes) : hierNodes[n].kind = kind})])
  /\ hierLast' = Len(hierNodes')
  /\ UNCHANGED <<hierTags, hierRead, hierPhase>>

BeginScope(name) == Declare("SCOPE", name) /\ hierStack' = Append(hierStack, Len(hierNodes'))

AddVar(name) == Declare("VAR", name) /\ UNCHANGED hierStack

AddStream(name) == Declare("STREAM", name) /\ UNCHANGED hierStack

\* end_scope: attributes now go to the scope around, if there is one.
EndScope ==
  /\ hierPhase = "building"
  /\ hierStack # << >>
  /\ hierStack' = Front(hierStack)
  /\ hierLast' = Top(hierStack')
  /\ UNCHANGED <<hierNodes, hierTags, hierRead, hierPhase>>

\* add_attr, add_typed_attr
Attach(attr) ==
  /\ hierPhase = "building"
  /\ hierLast # 0
  /\ FoldLeft(LAMBDA n, node : n + Len(node.attrs) + Len(node.typed), 0, hierNodes) < MaxHierAttrs
  /\ \/ hierNodes' = [hierNodes EXCEPT ![hierLast].attrs = Append(@, attr)]
     \/ hierNodes' = [hierNodes EXCEPT ![hierLast].typed = Append(@, attr)]
  /\ UNCHANGED <<hierStack, hierLast, hierTags, hierRead, hierPhase>>

-----------------------------------------------------------------------------
(* The tags *)

\* _encode_attr, _encode_typed_attrs
AttrTags(node) ==
  [k \in 1..Len(node.attrs) |-> [tag |-> "ATTR", attr |-> node.attrs[k]]] \o
  [k \in 1..Len(node.typed) |-> [tag |-> "ATTR2", attr |-> node.typed[k]]]

\* The tags of nodes one after another.
Spelled(Of, places) ==
  FlattenSeq([k \in 1..Cardinality(places) |-> Of[InOrder(places)[k]]])

\* Mutant of Tags: the attributes of a scope come after the nodes in it.
TagsThenAttrs ==
  LET Of[n \in 1..Len(hierNodes)] ==
        LET node == hierNodes[n]
        IN  <<[tag |-> node.kind, name |-> node.name, id |-> node.id]>>
            \o Spelled(Of, Kids(hierNodes, n, 0))
            \o AttrTags(node)
            \o IF node.kind = "SCOPE" THEN <<[tag |-> "UPSCOPE"]>> ELSE << >>
  IN  Spelled(Of, Kids(hierNodes, 0, 0))

\* _encode_node: a node, its attributes, the nodes in it, and the way up, which
\* an open scope gets too.
NodeTags(nodes) ==
  LET Of[n \in 1..Len(nodes)] ==
        LET node == nodes[n]
        IN  <<[tag |-> node.kind, name |-> node.name, id |-> node.id]>> \o AttrTags(node)
            \o Spelled(Of, Kids(nodes, n, 0))
            \o IF node.kind = "SCOPE" THEN <<[tag |-> "UPSCOPE"]>> ELSE << >>
  IN  Of

\* _encode_inner
Tags == Spelled(NodeTags(hierNodes), Kids(hierNodes, 0, 0))

\* encode_block
WriteHierarchy ==
  /\ hierPhase = "building"
  /\ hierNodes # << >>
  /\ hierTags' = Tags
  /\ hierPhase' = "written"
  /\ UNCHANGED <<hierNodes, hierStack, hierLast, hierRead>>

-----------------------------------------------------------------------------
(* The reader *)

\* last_node: the last node of the current scope, else the scope, else none.
LastNode ==
  LET scope == Top(hierRead.stack)
      kids == Kids(hierRead.nodes, scope, 0)
  IN  IF kids # {} THEN Max(kids) ELSE scope

ReadNode(t) ==
  /\ hierRead' =
       [nodes |-> Append(hierRead.nodes,
          [kind |-> t.tag, name |-> t.name, id |-> t.id, scope |-> Top(hierRead.stack),
           attrs |-> << >>, typed |-> << >>]),
        stack |-> IF t.tag = "SCOPE" THEN Append(hierRead.stack, Len(hierRead.nodes) + 1)
                  ELSE hierRead.stack]
  /\ UNCHANGED hierPhase

ReadAttr(t) ==
  IF LastNode = 0 THEN hierPhase' = "astray" /\ UNCHANGED hierRead
  ELSE /\ hierRead' =
            IF t.tag = "ATTR"
            THEN [hierRead EXCEPT !.nodes[LastNode].attrs = Append(@, t.attr)]
            ELSE [hierRead EXCEPT !.nodes[LastNode].typed = Append(@, t.attr)]
       /\ UNCHANGED hierPhase

ReadUp ==
  IF hierRead.stack = << >> THEN hierPhase' = "astray" /\ UNCHANGED hierRead
  ELSE hierRead' = [hierRead EXCEPT !.stack = Front(@)] /\ UNCHANGED hierPhase

\* One turn of _decode_tag_sequence.
ReadTag ==
  /\ hierPhase = "written"
  /\ hierTags # << >>
  /\ LET t == Head(hierTags)
     IN  \/ t.tag \in {"SCOPE", "VAR", "STREAM"} /\ ReadNode(t)
         \/ t.tag \in {"ATTR", "ATTR2"} /\ ReadAttr(t)
         \/ t.tag = "UPSCOPE" /\ ReadUp
  /\ hierTags' = Tail(hierTags)
  /\ UNCHANGED <<hierNodes, hierStack, hierLast>>

ReadHierarchyEnd ==
  /\ hierPhase = "written"
  /\ hierTags = << >>
  /\ hierPhase' = "read"
  /\ UNCHANGED <<hierNodes, hierStack, hierLast, hierTags, hierRead>>

HierNext ==
  \/ \E name \in HierNames : BeginScope(name) \/ AddVar(name) \/ AddStream(name)
  \/ \E attr \in HierAttrs : Attach(attr)
  \/ EndScope \/ WriteHierarchy \/ ReadTag \/ ReadHierarchyEnd

HierSpec == HierInit /\ [][HierNext]_hierVars

-----------------------------------------------------------------------------
(* Properties *)

\* The tree reads back with every node in its scope and every attribute on its
\* node, whatever scopes were open when it was written and wherever an attribute
\* was given between declarations, and the reader is back at the root.
TreeReadsBack ==
  /\ hierPhase # "astray"
  /\ hierPhase = "read" => hierRead = [nodes |-> hierNodes, stack |-> << >>]

-----------------------------------------------------------------------------
(* The parts of the inductive invariant TreeReadsBack follows from *)

HierKinds == {"SCOPE", "VAR", "STREAM"}

HierNode == [kind : HierKinds, name : HierNames, scope : Nat,
             attrs : Seq(HierAttrs), typed : Seq(HierAttrs), id : Nat]

\* A node comes after its scope, and what comes between is inside that scope.
Preorder(nodes) ==
  \A n \in 1..Len(nodes) :
    LET scope == nodes[n].scope
    IN  /\ scope < n
        /\ scope # 0 => nodes[scope].kind = "SCOPE"
        /\ \A j \in scope + 1..n : nodes[j].scope >= scope

\* The scopes open while building or reading, from the outermost.
ScopesOpen(nodes, stack) ==
  /\ stack \in Seq(1..Len(nodes))
  /\ \A i \in 1..Len(stack) : nodes[stack[i]].kind = "SCOPE"
  /\ \A i, j \in 1..Len(stack) : i < j => stack[i] < stack[j]

\* While a scope is open every node declared is in it or further in.
BuiltInside(nodes, stack) ==
  \A i \in 1..Len(stack) : \A j \in stack[i] + 1..Len(nodes) : nodes[j].scope >= stack[i]

\* What is left of a list when its beginning has been read.
Left(list, got) == SubSeq(list, Len(got) + 1, Len(list))

\* The nodes read are the first ones, the last of them with the attributes so far.
NodesRead(nodes, got) ==
  /\ got \in Seq(HierNode)
  /\ Len(got) <= Len(nodes)
  /\ \A n \in 1..Len(got) - 1 : got[n] = nodes[n]
  /\ got # << >> =>
       LET n == Len(got)
       IN  /\ got[n] = [nodes[n] EXCEPT !.attrs = got[n].attrs, !.typed = got[n].typed]
           /\ nodes[n].attrs = got[n].attrs \o Left(nodes[n].attrs, got[n].attrs)
           /\ nodes[n].typed = got[n].typed \o Left(nodes[n].typed, got[n].typed)

\* The attributes of the last node that are still to be read.
AttrsLeft(nodes, got) ==
  LET n == Len(got)
  IN  IF n = 0 THEN [attrs |-> << >>, typed |-> << >>]
      ELSE [attrs |-> Left(nodes[n].attrs, got[n].attrs),
            typed |-> Left(nodes[n].typed, got[n].typed)]

\* The tags that follow the attributes: of each open scope the nodes not read
\* yet and the way up, from the innermost one out.
TagsLeft(nodes, m, stack) ==
  LET From[i \in 0..Len(stack)] ==
        IF i = 0 THEN Spelled(NodeTags(nodes), Kids(nodes, 0, m))
        ELSE Spelled(NodeTags(nodes), Kids(nodes, stack[i], m)) \o <<[tag |-> "UPSCOPE"]>>
             \o From[i - 1]
  IN  From[Len(stack)]

\* The reader in the middle of the tags.
Reading(nodes, got, stack, tags) ==
  LET m == Len(got)
      left == AttrsLeft(nodes, got)
  IN  /\ NodesRead(nodes, got)
      /\ stack \in Seq(1..m) /\ ScopesOpen(nodes, stack)
      /\ \A n \in m + 1..Len(nodes) :
           nodes[n].scope \in {0} \cup {stack[i] : i \in 1..Len(stack)} \cup m + 1..Len(nodes)
      /\ left # [attrs |-> << >>, typed |-> << >>] =>
           Top(stack) = IF nodes[m].kind = "SCOPE" THEN m ELSE nodes[m].scope
      /\ tags = AttrTags(left) \o TagsLeft(nodes, m, stack)

HierInv ==
  /\ hierNodes \in Seq(HierNode)
  /\ Preorder(hierNodes)
  /\ hierPhase \in {"building", "written", "read"}
  /\ hierPhase = "building" =>
       /\ ScopesOpen(hierNodes, hierStack) /\ BuiltInside(hierNodes, hierStack)
       /\ hierLast \in 0..Len(hierNodes)
       /\ hierRead = [nodes |-> << >>, stack |-> << >>]
  /\ hierPhase = "written" =>
       /\ hierRead = [nodes |-> hierRead.nodes, stack |-> hierRead.stack]
       /\ Reading(hierNodes, hierRead.nodes, hierRead.stack, hierTags)
  /\ TreeReadsBack
=============================================================================
