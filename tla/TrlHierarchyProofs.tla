-------------------------- MODULE TrlHierarchyProofs --------------------------
(***************************************************************************)
(* Proofs about hierarchies and the type registry, for every number of      *)
(* nodes, attributes and entries: that the tree and the registry read back  *)
(* as they were built.                                                      *)
(*                                                                          *)
(* The tags of a hierarchy are a nested list, the reader goes through them  *)
(* one by one with a stack.  The invariant says what the reader has left:   *)
(* the rest of the last node's attributes and then, for each open scope     *)
(* from the innermost out, the tags of its nodes from the next one on       *)
(* (TagsLeft).  A step is taken from the first part of that which is not    *)
(* empty.  Which node comes next follows from the order of declaration:     *)
(* what lies between a node and its scope is inside that scope (Preorder).  *)
(*                                                                          *)
(* The cells of the registry are one list, of entries whose lengths differ. *)
(* The reader of it stands between two entries: what it has left is the     *)
(* entries from some place on, put together, and what it has read is each   *)
(* kind's list up to that place (EntriesInStep).                            *)
(***************************************************************************)
EXTENDS TrlHierarchy, TrlRegistry, TrlLemmas

\* Lists put together are a fold.
Cat(s, t) == s \o t
CatFold == INSTANCE TrlFolds WITH Step <- Cat, Base <- << >>

-----------------------------------------------------------------------------
(* Lists put together *)

\* What is put together, beginning by beginning.
IsJoined(f, L, n, R) ==
  /\ f[1] = L[1] /\ FlattenSeq(L) = f[n]
  /\ \A i \in 2..n : f[i] = f[i - 1] \o L[i]
  /\ \A i \in 1..n : f[i] \in Seq(R)

\* Lists can be put together that way.
LEMMA JoinedSteps ==
  ASSUME NEW R, NEW n \in Nat, n # 0, NEW L \in [1..n -> Seq(R)]
  PROVE  \E f : IsJoined(f, L, n, R)
<1> DEFINE Joins(f) == f = [i \in 1..Len(L) |-> IF i = 1 THEN L[i] ELSE f[i - 1] \o L[i]]
<1>0. Len(L) = n /\ DOMAIN L = 1..n
  OBVIOUS
<1>1. PICK acc : /\ acc = [j \in 0..n |-> acc[j]]
                 /\ acc[0] = << >>
                 /\ \A j \in 1..n : acc[j] = acc[j - 1] \o L[j]
  <2>1. \E acc : /\ acc = [j \in 0..n |-> acc[j]]
                 /\ acc[0] = << >> /\ acc[n] = CatFold!Fold(L)
                 /\ \A j \in 1..n : acc[j] = Cat(acc[j - 1], L[j])
    BY <1>0, CatFold!FoldSteps
  <2> QED
    BY <2>1 DEF Cat
<1>2. PICK h : h = [j \in 1..n |-> acc[j]]
  OBVIOUS
<1>3. Joins(h)
  <2>1. ASSUME NEW i \in 1..n
        PROVE  h[i] = IF i = 1 THEN L[i] ELSE h[i - 1] \o L[i]
    <3>1. CASE i = 1
      <4>1. acc[i] = << >> \o L[1]
        <5>1. 1 \in 1..n /\ 1 - 1 = 0
          OBVIOUS
        <5>2. acc[1] = acc[1 - 1] \o L[1]
          BY <1>1, <5>1
        <5> QED
          BY <1>1, <3>1, <5>1, <5>2
      <4>2. L[1] \in Seq(R)
        BY <3>1
      <4>3. << >> \o L[1] = L[1]
        BY <4>2
      <4> QED
        BY <1>2, <3>1, <4>1, <4>3
    <3>2. CASE i # 1
      <4>1. i - 1 \in 1..n
        BY <3>2
      <4> QED
        BY <1>1, <1>2, <3>2, <4>1
    <3> QED
      BY <3>1, <3>2
  <2>2. [i \in 1..n |-> h[i]] = [i \in 1..n |-> IF i = 1 THEN L[i] ELSE h[i - 1] \o L[i]]
    BY <2>1
  <2>3. h = [i \in 1..n |-> h[i]]
    BY <1>2
  <2> QED
    BY <1>0, <2>2, <2>3
<1>4. PICK f : f = (CHOOSE g : Joins(g))
  OBVIOUS
<1>5. Joins(f)
  BY <1>3, <1>4, Zenon
<1>6. FlattenSeq(L) = f[n]
  BY <1>0, <1>4 DEF FlattenSeq
<1>7. f[1] = L[1] /\ \A i \in 2..n : f[i] = f[i - 1] \o L[i]
  <2>1. f = [i \in 1..n |-> IF i = 1 THEN L[i] ELSE f[i - 1] \o L[i]]
    BY <1>0, <1>5
  <2>2. \A i \in 1..n : f[i] = IF i = 1 THEN L[i] ELSE f[i - 1] \o L[i]
    BY <2>1
  <2>3. 1 \in 1..n /\ \A i \in 2..n : i \in 1..n /\ i # 1
    OBVIOUS
  <2> QED
    BY <2>2, <2>3
<1>8. \A i \in 1..n : f[i] \in Seq(R)
  <2> DEFINE T == {i \in 1..n : f[i] \notin Seq(R)}
  <2>1. SUFFICES ASSUME T # {} PROVE FALSE
    OBVIOUS
  <2>2. PICK i \in T : \A j \in T : i <= j
    <3>1. T \in SUBSET Nat
      OBVIOUS
    <3> HIDE DEF T
    <3> QED
      BY <2>1, <3>1, LeastNumber
  <2>3. i \in 1..n /\ f[i] \notin Seq(R)
    OBVIOUS
  <2>4. i # 1
    BY <1>7, <2>3
  <2>5. i - 1 \in 1..n /\ i - 1 \notin T /\ i \in 2..n
    BY <2>2, <2>3, <2>4
  <2>6. f[i - 1] \in Seq(R) /\ L[i] \in Seq(R)
    BY <2>3, <2>5
  <2>7. f[i] = f[i - 1] \o L[i]
    BY <1>7, <2>5
  <2>8. f[i - 1] \o L[i] \in Seq(R)
    BY <2>6
  <2> QED
    BY <2>3, <2>7, <2>8
<1> HIDE DEF Joins
<1> QED
  BY <1>6, <1>7, <1>8 DEF IsJoined

\* A step of the fold may be taken off at the left.
LEMMA CatAssociative ==
  ASSUME NEW R, NEW s \in Seq(R), NEW t \in Seq(R), NEW u \in Seq(R)
  PROVE  (s \o t) \o u = s \o (t \o u)
OBVIOUS

\* The first list, and then the others put together.
LEMMA FlattenHead ==
  ASSUME NEW R, NEW n \in Nat, n # 0, NEW L \in [1..n -> Seq(R)],
         NEW M \in [1..n - 1 -> Seq(R)], \A i \in 1..n - 1 : M[i] = L[i + 1]
  PROVE  FlattenSeq(L) \in Seq(R) /\ FlattenSeq(L) = L[1] \o FlattenSeq(M)
<1>0. PICK f : IsJoined(f, L, n, R)
  BY JoinedSteps
<1>1. /\ f[1] = L[1] /\ FlattenSeq(L) = f[n]
      /\ \A i \in 2..n : f[i] = f[i - 1] \o L[i]
      /\ \A i \in 1..n : f[i] \in Seq(R)
  BY <1>0 DEF IsJoined
<1>2. FlattenSeq(L) \in Seq(R)
  BY <1>1
<1>3. L[1] \in Seq(R)
  OBVIOUS
<1>4. CASE n = 1
  <2>1. M = << >>
    BY <1>4
  <2>2. FlattenSeq(M) = << >>
    BY <2>1 DEF FlattenSeq
  <2>3. L[1] \o << >> = L[1]
    BY <1>3
  <2> QED
    BY <1>1, <1>2, <1>4, <2>2, <2>3
<1>5. CASE n # 1
  <2>1. n - 1 \in Nat /\ n - 1 # 0
    BY <1>5
  <2>0. PICK g : IsJoined(g, M, n - 1, R)
    BY <2>1, JoinedSteps
  <2>2. /\ g[1] = M[1] /\ FlattenSeq(M) = g[n - 1]
        /\ \A i \in 2..n - 1 : g[i] = g[i - 1] \o M[i]
        /\ \A i \in 1..n - 1 : g[i] \in Seq(R)
    BY <2>0 DEF IsJoined
  <2> DEFINE T == {i \in 1..n - 1 : f[i + 1] # L[1] \o g[i]}
  <2>3. ASSUME T # {} PROVE FALSE
    <3>1. PICK i \in T : \A j \in T : i <= j
      <4>0. \A i \in 1..n - 1 : i \in Nat
        OBVIOUS
      <4>1. T \in SUBSET Nat
        BY <4>0
      <4> HIDE DEF T
      <4> QED
        BY <2>3, <4>1, LeastNumber
    <3>2. i \in 1..n - 1 /\ f[i + 1] # L[1] \o g[i]
      OBVIOUS
    <3>3. i + 1 \in 2..n /\ (i + 1) - 1 = i
      BY <3>2
    <3>4. f[i + 1] = f[i] \o M[i]
      BY <1>1, <3>2, <3>3
    <3>5. CASE i = 1
      BY <1>1, <2>2, <3>2, <3>4, <3>5
    <3>6. CASE i # 1
      <4>0. i - 1 \in 1..n - 1 /\ i \in 2..n - 1 /\ (i - 1) + 1 = i /\ ~(i <= i - 1)
        BY <3>2, <3>6
      <4>1. i - 1 \in 1..n - 1 /\ i - 1 \notin T /\ i \in 2..n - 1 /\ (i - 1) + 1 = i
        BY <3>1, <4>0
      <4>2. f[i] = L[1] \o g[i - 1]
        BY <4>1
      <4>3. g[i] = g[i - 1] \o M[i]
        BY <2>2, <4>1
      <4>4. g[i - 1] \in Seq(R) /\ M[i] \in Seq(R)
        BY <2>2, <4>1, <3>2
      <4>5. (L[1] \o g[i - 1]) \o M[i] = L[1] \o (g[i - 1] \o M[i])
        <5>1. PICK x \in Seq(R) : x = L[1]
          BY <1>3
        <5>2. PICK y \in Seq(R) : y = g[i - 1]
          BY <4>4
        <5>3. PICK z \in Seq(R) : z = M[i]
          BY <4>4
        <5>4. (x \o y) \o z = x \o (y \o z)
          OBVIOUS
        <5> QED
          BY <5>1, <5>2, <5>3, <5>4
      <4> QED
        BY <3>2, <3>4, <4>2, <4>3, <4>5
    <3> QED
      BY <3>5, <3>6
  <2>4. n - 1 \in 1..n - 1 /\ (n - 1) + 1 = n
    BY <2>1
  <2>5. f[n] = L[1] \o g[n - 1]
    BY <2>3, <2>4
  <2> HIDE DEF T
  <2> QED
    BY <1>1, <1>2, <2>2, <2>5
<1> QED
  BY <1>4, <1>5

-----------------------------------------------------------------------------
(* Nodes in order *)

\* The order names every place once, the earlier ones first.
LEMMA InOrderIs ==
  ASSUME NEW W \in SUBSET Nat, IsFiniteSet(W)
  PROVE  Cardinality(W) \in Nat /\ IsAscending(InOrder(W), W)
<1>1. PICK order : IsAscending(order, W)
  BY AscendingExists
<1>2. Cardinality(W) \in Nat
  BY FS_CardinalityType
<1>3. order \in Bijection(1..Cardinality(W), W)
  <2>1. \A i, j \in 1..Cardinality(W) : order[i] = order[j] => i = j
    <3>1. TAKE i, j \in 1..Cardinality(W)
    <3>2. HAVE order[i] = order[j]
    <3>3. order[i] \in Nat
      BY <1>1 DEF IsAscending
    <3>4. ~(i < j) /\ ~(j < i)
      BY <1>1, <3>2, <3>3 DEF IsAscending
    <3> QED
      BY <1>2, <3>4
  <2> QED
    BY <1>1, <2>1 DEF Bijection, Injection, Surjection, IsInjective, IsAscending
<1>4. \E o \in Bijection(1..Cardinality(W), W) :
        \A k, l \in 1..Cardinality(W) : k < l => o[k] < o[l]
  BY <1>1, <1>3 DEF IsAscending
<1>5. PICK o : o = InOrder(W)
  OBVIOUS
<1>6. o \in Bijection(1..Cardinality(W), W) /\ \A k, l \in 1..Cardinality(W) : k < l => o[k] < o[l]
  BY <1>4, <1>5, Zenon DEF InOrder
<1>7. o \in [1..Cardinality(W) -> W] /\ \A x \in W : \E i \in 1..Cardinality(W) : o[i] = x
  BY <1>6 DEF Bijection, Injection, Surjection
<1> QED
  BY <1>2, <1>5, <1>6, <1>7 DEF IsAscending

\* Without its least member a set is listed from the second place on.
LEMMA InOrderRest ==
  ASSUME NEW W \in SUBSET Nat, IsFiniteSet(W), NEW k \in W, \A j \in W : k <= j
  PROVE  /\ Cardinality(W) # 0 /\ InOrder(W)[1] = k
         /\ Cardinality(W \ {k}) = Cardinality(W) - 1
         /\ \A i \in 1..Cardinality(W) - 1 : InOrder(W \ {k})[i] = InOrder(W)[i + 1]
<1>1. PICK c \in Nat : c = Cardinality(W)
  BY InOrderIs
<1>2. PICK o : o = InOrder(W)
  OBVIOUS
<1>3. /\ o \in [1..c -> W] /\ \A x \in W : \E i \in 1..c : o[i] = x
      /\ \A i, j \in 1..c : i < j => o[i] < o[j]
  BY <1>1, <1>2, InOrderIs DEF IsAscending
<1>4. PICK T : T = W \ {k}
  OBVIOUS
<1>5. T \in SUBSET Nat /\ IsFiniteSet(T) /\ Cardinality(T) = c - 1
  BY <1>1, <1>4, FS_RemoveElement
<1>6. PICK i \in 1..c : o[i] = k
  BY <1>3
<1>7. c # 0 /\ 1 \in 1..c
  BY <1>6
<1>8. i = 1
  <2>1. o[1] \in W
    BY <1>3, <1>7
  <2>2. k <= o[1] /\ k \in Nat /\ o[1] \in Nat
    BY <2>1
  <2>3. ~(1 < i)
    BY <1>3, <1>6, <1>7, <2>2
  <2> QED
    BY <2>3
<1>9. o[1] = k
  BY <1>6, <1>8
<1>10. PICK n \in Nat : n = c - 1
  BY <1>7
<1>11. PICK h : h = [j \in 1..n |-> o[j + 1]]
  OBVIOUS
<1>12. \A j \in 1..n : j + 1 \in 1..c /\ 1 < j + 1
  BY <1>10
<1>13. IsAscending(h, T)
  <2>1. \A j \in 1..n : h[j] \in T
    <3>1. TAKE j \in 1..n
    <3>2. o[j + 1] \in W /\ o[1] < o[j + 1] /\ o[1] \in Nat
      BY <1>3, <1>7, <1>12
    <3> QED
      BY <1>4, <1>9, <1>11, <3>2
  <2>2. h \in [1..n -> T]
    BY <1>11, <2>1
  <2>3. \A x \in T : \E j \in 1..n : h[j] = x
    <3>1. TAKE x \in T
    <3>2. PICK j \in 1..c : o[j] = x
      BY <1>3, <1>4
    <3>3. j # 1
      BY <1>4, <1>9, <3>2
    <3>4. j - 1 \in 1..n /\ (j - 1) + 1 = j
      BY <1>10, <3>3
    <3> QED
      BY <1>11, <3>2, <3>4
  <2>4. \A p, q \in 1..n : p < q => h[p] < h[q]
    <3>1. TAKE p, q \in 1..n
    <3>2. p < q => p + 1 < q + 1
      OBVIOUS
    <3> QED
      BY <1>3, <1>11, <1>12, <3>2
  <2> QED
    BY <1>5, <1>10, <2>2, <2>3, <2>4 DEF IsAscending
<1>14. IsAscending(InOrder(T), T)
  BY <1>5, InOrderIs
<1>15. Cardinality(T) \in Nat
  BY <1>5, <1>10
<1>16. InOrder(T) = h
  BY <1>5, <1>13, <1>14, <1>15, AscendingUnique
<1> QED
  BY <1>1, <1>2, <1>4, <1>5, <1>7, <1>9, <1>10, <1>11, <1>16

\* What is spelled depends on the nodes spelled.
LEMMA SpelledAlike ==
  ASSUME NEW W \in SUBSET Nat, IsFiniteSet(W), NEW f, NEW g, \A n \in W : f[n] = g[n]
  PROVE  Spelled(f, W) = Spelled(g, W)
<1>1. \A k \in 1..Cardinality(W) : InOrder(W)[k] \in W
  BY InOrderIs DEF IsAscending
<1>2. [k \in 1..Cardinality(W) |-> f[InOrder(W)[k]]] = [k \in 1..Cardinality(W) |-> g[InOrder(W)[k]]]
  BY <1>1
<1> QED
  BY <1>2 DEF Spelled

\* No places, no tags.
LEMMA SpelledNone ==
  ASSUME NEW f
  PROVE  Spelled(f, {}) = << >>
<1>1. Cardinality({}) = 0
  BY FS_EmptySet
<1>2. [k \in 1..0 |-> f[InOrder({})[k]]] = << >>
  OBVIOUS
<1>3. Spelled(f, {}) = FlattenSeq(<< >>)
  BY <1>1, <1>2 DEF Spelled
<1> QED
  BY <1>3 DEF FlattenSeq

FirstSpelled(f, W, k, R) ==
  Spelled(f, W) \in Seq(R) /\ Spelled(f, W) = f[k] \o Spelled(f, W \ {k})

\* The tags of the first place come first.
LEMMA SpelledFirst ==
  ASSUME NEW R, NEW W \in SUBSET Nat, IsFiniteSet(W), NEW f, \A n \in W : f[n] \in Seq(R),
         NEW k \in W, \A j \in W : k <= j
  PROVE  FirstSpelled(f, W, k, R)
<1>1. PICK n \in Nat : n = Cardinality(W)
  BY InOrderIs
<1>2. PICK L : L = [i \in 1..n |-> f[InOrder(W)[i]]]
  OBVIOUS
<1>3. PICK M : M = [i \in 1..n - 1 |-> f[InOrder(W \ {k})[i]]]
  OBVIOUS
<1>4. /\ n # 0 /\ InOrder(W)[1] = k /\ Cardinality(W \ {k}) = n - 1
      /\ \A i \in 1..n - 1 : InOrder(W \ {k})[i] = InOrder(W)[i + 1]
  BY <1>1, InOrderRest
<1>5. \A i \in 1..n : InOrder(W)[i] \in W
  BY <1>1, InOrderIs DEF IsAscending
<1>6. L \in [1..n -> Seq(R)]
  BY <1>2, <1>5
<1>7. \A i \in 1..n - 1 : M[i] = L[i + 1]
  <2>1. TAKE i \in 1..n - 1
  <2>2. i + 1 \in 1..n
    OBVIOUS
  <2> QED
    BY <1>2, <1>3, <1>4, <2>2
<1>8. M \in [1..n - 1 -> Seq(R)]
  <2>1. \A i \in 1..n - 1 : L[i + 1] \in Seq(R)
    BY <1>6
  <2> QED
    BY <1>3, <1>7, <2>1
<1>9. FlattenSeq(L) \in Seq(R) /\ FlattenSeq(L) = L[1] \o FlattenSeq(M)
  BY <1>4, <1>6, <1>7, <1>8, FlattenHead
<1>10. L[1] = f[k]
  BY <1>2, <1>4
<1>11. Spelled(f, W) = FlattenSeq(L) /\ Spelled(f, W \ {k}) = FlattenSeq(M)
  BY <1>1, <1>2, <1>3, <1>4 DEF Spelled
<1> QED
  BY <1>9, <1>10, <1>11 DEF FirstSpelled

\* Tags put together are tags.
LEMMA SpelledType ==
  ASSUME NEW R, NEW W \in SUBSET Nat, IsFiniteSet(W), NEW f, \A n \in W : f[n] \in Seq(R)
  PROVE  Spelled(f, W) \in Seq(R)
<1>1. CASE W = {}
  <2>1. Spelled(f, W) = << >>
    BY <1>1, SpelledNone
  <2> QED
    BY <2>1
<1>2. CASE W # {}
  <2>1. PICK k \in W : \A j \in W : k <= j
    BY <1>2, LeastNumber
  <2>2. FirstSpelled(f, W, k, R)
    BY <2>1, SpelledFirst
  <2> QED
    BY <2>2 DEF FirstSpelled
<1> QED
  BY <1>1, <1>2

-----------------------------------------------------------------------------
(* The tags of a node *)

HierTag == [tag : HierKinds, name : HierNames, id : Nat]
           \cup [tag : {"ATTR", "ATTR2"}, attr : HierAttrs]
           \cup [tag : {"UPSCOPE"}]

NodeTag(node) == [tag |-> node.kind, name |-> node.name, id |-> node.id]
UpTags(node) == IF node.kind = "SCOPE" THEN <<[tag |-> "UPSCOPE"]>> ELSE << >>

TagsOf(Of, nodes, n) ==
  <<NodeTag(nodes[n])>> \o AttrTags(nodes[n]) \o Spelled(Of, Kids(nodes, n, 0)) \o UpTags(nodes[n])

\* The nodes of a scope are places in the tree.
LEMMA KidsIn ==
  ASSUME NEW nodes, Len(nodes) \in Nat, NEW scope, NEW m \in Nat
  PROVE  /\ Kids(nodes, scope, m) \subseteq m + 1..Len(nodes)
         /\ Kids(nodes, scope, m) \in SUBSET Nat /\ IsFiniteSet(Kids(nodes, scope, m))
<1>1. Kids(nodes, scope, m) \subseteq m + 1..Len(nodes)
  BY DEF Kids
<1>2. IsFiniteSet(m + 1..Len(nodes))
  BY FS_Interval
<1>3. m + 1..Len(nodes) \subseteq Nat
  OBVIOUS
<1> QED
  BY <1>1, <1>2, <1>3, FS_Subset

\* The nodes of a scope come after it.
LEMMA KidsLater ==
  ASSUME NEW nodes, Len(nodes) \in Nat, Preorder(nodes), NEW n \in 1..Len(nodes)
  PROVE  Kids(nodes, n, 0) \subseteq n + 1..Len(nodes)
<1>1. \A k \in 1..Len(nodes) : nodes[k].scope = n => n < k
  BY DEF Preorder
<1> QED
  BY <1>1 DEF Kids

\* The tags of attributes are tags.
LEMMA AttrTagsType ==
  ASSUME NEW node, node.attrs \in Seq(HierAttrs), node.typed \in Seq(HierAttrs)
  PROVE  AttrTags(node) \in Seq(HierTag)
<1>1. PICK s \in Seq(HierAttrs) : s = node.attrs
  OBVIOUS
<1>2. PICK t \in Seq(HierAttrs) : t = node.typed
  OBVIOUS
<1>3. \A a \in HierAttrs : [tag |-> "ATTR", attr |-> a] \in HierTag /\ [tag |-> "ATTR2", attr |-> a] \in HierTag
  BY DEF HierTag
<1>4. [k \in 1..Len(s) |-> [tag |-> "ATTR", attr |-> s[k]]] \in Seq(HierTag)
  <2>1. \A k \in 1..Len(s) : s[k] \in HierAttrs
    OBVIOUS
  <2>2. \A k \in 1..Len(s) : [tag |-> "ATTR", attr |-> s[k]] \in HierTag
    BY <1>3, <2>1
  <2> QED
    BY <2>2
<1>5. [k \in 1..Len(t) |-> [tag |-> "ATTR2", attr |-> t[k]]] \in Seq(HierTag)
  <2>1. \A k \in 1..Len(t) : t[k] \in HierAttrs
    OBVIOUS
  <2>2. \A k \in 1..Len(t) : [tag |-> "ATTR2", attr |-> t[k]] \in HierTag
    BY <1>3, <2>1
  <2> QED
    BY <2>2
<1>6. AttrTags(node) = [k \in 1..Len(s) |-> [tag |-> "ATTR", attr |-> s[k]]] \o
                       [k \in 1..Len(t) |-> [tag |-> "ATTR2", attr |-> t[k]]]
  BY <1>1, <1>2 DEF AttrTags
<1> HIDE DEF HierTag
<1> QED
  BY <1>4, <1>5, <1>6

\* Four lists put together are a list.
LEMMA CatFour ==
  ASSUME NEW R, NEW a \in Seq(R), NEW b \in Seq(R), NEW c \in Seq(R), NEW d \in Seq(R)
  PROVE  a \o b \o c \o d \in Seq(R)
<1>1. PICK ab : ab = a \o b
  OBVIOUS
<1>2. PICK abc : abc = ab \o c
  OBVIOUS
<1>3. ab \in Seq(R)
  BY <1>1
<1>4. abc \in Seq(R)
  BY <1>2, <1>3
<1>5. abc \o d \in Seq(R)
  BY <1>4
<1> QED
  BY <1>1, <1>2, <1>5

\* The tags of a node are tags when those of the nodes in it are.
LEMMA TagsOfType ==
  ASSUME NEW nodes \in Seq(HierNode), NEW n \in 1..Len(nodes), NEW Of,
         \A k \in Kids(nodes, n, 0) : Of[k] \in Seq(HierTag)
  PROVE  TagsOf(Of, nodes, n) \in Seq(HierTag)
<1>1. nodes[n] \in HierNode
  OBVIOUS
<1>2. PICK node \in HierNode : node = nodes[n]
  BY <1>1
<1>3. node.attrs \in Seq(HierAttrs) /\ node.typed \in Seq(HierAttrs)
  BY DEF HierNode
<1>4. AttrTags(node) \in Seq(HierTag)
  BY <1>3, AttrTagsType
<1>5. NodeTag(node) \in HierTag /\ [tag |-> "UPSCOPE"] \in HierTag
  BY DEF HierTag, NodeTag, HierNode
<1>6. <<NodeTag(node)>> \in Seq(HierTag) /\ UpTags(node) \in Seq(HierTag)
  <2>1. PICK x \in HierTag : x = NodeTag(node)
    BY <1>5
  <2>2. <<x>> \in Seq(HierTag)
    OBVIOUS
  <2>3. PICK y \in HierTag : y = [tag |-> "UPSCOPE"]
    BY <1>5
  <2>4. <<y>> \in Seq(HierTag) /\ << >> \in Seq(HierTag)
    OBVIOUS
  <2> QED
    BY <2>1, <2>2, <2>3, <2>4 DEF UpTags
<1>7. Spelled(Of, Kids(nodes, n, 0)) \in Seq(HierTag)
  <2>1. Len(nodes) \in Nat
    OBVIOUS
  <2>2. Kids(nodes, n, 0) \in SUBSET Nat /\ IsFiniteSet(Kids(nodes, n, 0))
    BY <2>1, KidsIn
  <2> QED
    BY <2>2, SpelledType
<1> QED
  BY <1>2, <1>4, <1>6, <1>7, CatFour DEF TagsOf

\* The tags of a node depend on the nodes in it alone.
LEMMA TagsOfAlike ==
  ASSUME NEW nodes, Len(nodes) \in Nat, NEW n, NEW f, NEW g, \A k \in Kids(nodes, n, 0) : f[k] = g[k]
  PROVE  TagsOf(f, nodes, n) = TagsOf(g, nodes, n)
<1>1. Kids(nodes, n, 0) \in SUBSET Nat /\ IsFiniteSet(Kids(nodes, n, 0))
  BY KidsIn
<1>2. Spelled(f, Kids(nodes, n, 0)) = Spelled(g, Kids(nodes, n, 0))
  BY <1>1, SpelledAlike
<1> QED
  BY <1>2 DEF TagsOf

\* The tags of the nodes after the j-th.
Tagged(g, nodes, j) ==
  /\ g \in [j + 1..Len(nodes) -> Seq(HierTag)]
  /\ \A n \in j + 1..Len(nodes) : g[n] = TagsOf(g, nodes, n)

\* From the tags of the nodes after j come those of the nodes from j on.
LEMMA TaggedBefore ==
  ASSUME NEW nodes \in Seq(HierNode), Preorder(nodes), NEW j \in 1..Len(nodes),
         NEW g, Tagged(g, nodes, j)
  PROVE  \E h : Tagged(h, nodes, j - 1)
<1>0. PICK N \in Nat : N = Len(nodes)
  OBVIOUS
<1>1. PICK h : h = [n \in j..N |-> IF n = j THEN TagsOf(g, nodes, j) ELSE g[n]]
  OBVIOUS
<1>2. \A n \in j..N : n # j => n \in j + 1..N
  OBVIOUS
<1>3. \A n \in j + 1..N : h[n] = g[n]
  BY <1>1
<1>4. \A n \in j..N : n \in 1..N /\ Kids(nodes, n, 0) \subseteq j + 1..N
  <2> TAKE n \in j..N
  <2>1. n \in 1..N /\ n + 1..N \subseteq j + 1..N
    OBVIOUS
  <2>2. Kids(nodes, n, 0) \subseteq n + 1..N
    BY <1>0, <2>1, KidsLater
  <2> QED
    BY <2>1, <2>2
<1>5. \A n \in j + 1..N : g[n] \in Seq(HierTag) /\ g[n] = TagsOf(g, nodes, n)
  BY <1>0 DEF Tagged
<1>6. \A n \in j..N : TagsOf(h, nodes, n) = TagsOf(g, nodes, n) /\ TagsOf(g, nodes, n) \in Seq(HierTag)
  <2> TAKE n \in j..N
  <2>1. \A k \in Kids(nodes, n, 0) : h[k] = g[k] /\ g[k] \in Seq(HierTag)
    BY <1>3, <1>4, <1>5
  <2>2. n \in 1..Len(nodes) /\ Len(nodes) \in Nat
    BY <1>0, <1>4
  <2>3. TagsOf(h, nodes, n) = TagsOf(g, nodes, n)
    BY <2>1, <2>2, TagsOfAlike
  <2>4. TagsOf(g, nodes, n) \in Seq(HierTag)
    BY <2>1, <2>2, TagsOfType
  <2> QED
    BY <2>3, <2>4
<1>7. \A n \in j..N : h[n] = TagsOf(g, nodes, n)
  BY <1>1, <1>2, <1>5
<1>8. h \in [j..N -> Seq(HierTag)]
  BY <1>1, <1>6, <1>7
<1>9. (j - 1) + 1 = j
  OBVIOUS
<1>10. Tagged(h, nodes, j - 1)
  BY <1>0, <1>6, <1>7, <1>8, <1>9 DEF Tagged
<1> QED
  BY <1>10

\* Every node has its tags: the recursion ends, since nodes in a scope come after it.
LEMMA NodeTagsAre ==
  ASSUME NEW nodes \in Seq(HierNode), Preorder(nodes)
  PROVE  Tagged(NodeTags(nodes), nodes, 0)
<1>0. PICK N \in Nat : N = Len(nodes)
  OBVIOUS
<1> DEFINE Fails == {i \in 0..N : ~\E g : Tagged(g, nodes, N - i)}
<1>1. ASSUME Fails # {} PROVE FALSE
  <2>1. PICK i \in Fails : \A k \in Fails : i <= k
    <3>1. Fails \in SUBSET Nat
      OBVIOUS
    <3> HIDE DEF Fails
    <3> QED
      BY <1>1, <3>1, LeastNumber
  <2>2. i \in 0..N /\ ~\E g : Tagged(g, nodes, N - i)
    OBVIOUS
  <2>3. CASE i = 0
    <3>1. PICK g : g = [n \in N + 1..N |-> << >>]
      OBVIOUS
    <3>2. N + 1..N = {} /\ N - 0 = N
      OBVIOUS
    <3>3. g \in [N + 1..N -> Seq(HierTag)] /\ \A n \in N + 1..N : g[n] = TagsOf(g, nodes, n)
      BY <3>1, <3>2
    <3>4. Tagged(g, nodes, N)
      BY <1>0, <3>3 DEF Tagged
    <3> QED
      BY <2>2, <2>3, <3>2, <3>4
  <2>4. CASE i # 0
    <3>1. i - 1 \in 0..N /\ ~(i <= i - 1) /\ N - (i - 1) \in 1..N /\ (N - (i - 1)) - 1 = N - i
      BY <2>2, <2>4
    <3>2. PICK g : Tagged(g, nodes, N - (i - 1))
      BY <2>1, <3>1
    <3>3. \E h : Tagged(h, nodes, (N - (i - 1)) - 1)
      BY <1>0, <3>1, <3>2, TaggedBefore
    <3> QED
      BY <2>2, <3>1, <3>3
  <2> QED
    BY <2>3, <2>4
<1>2. N \in 0..N /\ N - N = 0
  OBVIOUS
<1>3. PICK g : Tagged(g, nodes, 0)
  BY <1>1, <1>2
<1> HIDE DEF Fails
<1> DEFINE Of(f) == f = [n \in 1..Len(nodes) |-> TagsOf(f, nodes, n)]
<1>4. \A f : Tagged(f, nodes, 0) => Of(f)
  <2> SUFFICES ASSUME NEW f, Tagged(f, nodes, 0) PROVE Of(f)
    OBVIOUS
  <2>1. 0 + 1 = 1
    OBVIOUS
  <2>2. f \in [1..N -> Seq(HierTag)] /\ \A n \in 1..N : f[n] = TagsOf(f, nodes, n)
    BY <1>0, <2>1 DEF Tagged
  <2>3. f = [n \in 1..N |-> f[n]]
    BY <2>2
  <2>4. [n \in 1..N |-> f[n]] = [n \in 1..N |-> TagsOf(f, nodes, n)]
    BY <2>2
  <2> QED
    BY <1>0, <2>3, <2>4
<1>5. PICK f : f = (CHOOSE h : Of(h))
  OBVIOUS
<1>6. NodeTags(nodes) = f
  BY <1>5 DEF NodeTags, TagsOf, NodeTag, UpTags
<1>7. Of(f)
  <2>1. Of(g)
    BY <1>3, <1>4
  <2> HIDE DEF Of
  <2> QED
    BY <1>5, <2>1, Zenon
<1>8. \A n \in 1..N : f[n] = TagsOf(f, nodes, n)
  <2>1. f = [n \in 1..N |-> TagsOf(f, nodes, n)]
    BY <1>0, <1>7
  <2> QED
    BY <2>1
<1>9. \A n \in 1..N : f[n] \in Seq(HierTag)
  <2> DEFINE T == {n \in 1..N : f[n] \notin Seq(HierTag)}
  <2>1. SUFFICES ASSUME T # {} PROVE FALSE
    OBVIOUS
  <2>2. PICK n \in T : \A k \in T : k <= n
    <3>1. T \subseteq 1..N
      OBVIOUS
    <3> HIDE DEF T
    <3> QED
      BY <2>1, <3>1, LastOf
  <2>3. n \in 1..N /\ f[n] \notin Seq(HierTag)
    OBVIOUS
  <2>4. Kids(nodes, n, 0) \subseteq n + 1..N
    BY <1>0, <2>3, KidsLater
  <2>5. \A k \in n + 1..N : k \in 1..N /\ ~(k <= n)
    BY <2>3
  <2>6. \A k \in Kids(nodes, n, 0) : f[k] \in Seq(HierTag)
    BY <2>2, <2>4, <2>5
  <2>7. TagsOf(f, nodes, n) \in Seq(HierTag)
    BY <1>0, <2>3, <2>6, TagsOfType
  <2> QED
    BY <1>8, <2>3, <2>7
<1>10. f = [n \in 1..N |-> f[n]]
  BY <1>0, <1>7
<1>11. f \in [1..N -> Seq(HierTag)]
  BY <1>9, <1>10
<1>12. 0 + 1 = 1
  OBVIOUS
<1>13. Tagged(f, nodes, 0)
  BY <1>0, <1>8, <1>11, <1>12 DEF Tagged
<1> QED
  BY <1>6, <1>13

-----------------------------------------------------------------------------
(* Building *)

\* The innermost open scope.
LEMMA TopIs ==
  ASSUME NEW n \in Nat, NEW stack \in Seq(1..n)
  PROVE  /\ Top(stack) \in 0..n
         /\ stack = << >> => Top(stack) = 0
         /\ stack # << >> => Len(stack) \in 1..Len(stack) /\ Top(stack) = stack[Len(stack)]
<1>1. CASE stack = << >>
  <2>1. Top(stack) = 0
    BY <1>1 DEF Top
  <2> QED
    BY <1>1, <2>1
<1>2. CASE stack # << >>
  <2>1. Len(stack) \in 1..Len(stack) /\ stack[Len(stack)] \in 1..n
    BY <1>2
  <2>2. Top(stack) = stack[Len(stack)]
    BY <1>2 DEF Top
  <2> QED
    BY <1>2, <2>1, <2>2
<1> QED
  BY <1>1, <1>2

\* The innermost scope comes last.
LEMMA TopIsLast ==
  ASSUME NEW nodes, Len(nodes) \in Nat, NEW stack, ScopesOpen(nodes, stack), NEW i \in 1..Len(stack)
  PROVE  stack # << >> /\ stack[i] \in 1..Len(nodes) /\ stack[i] <= Top(stack)
<1>1. stack \in Seq(1..Len(nodes))
  BY DEF ScopesOpen
<1>2. stack # << >> /\ stack[i] \in 1..Len(nodes)
  BY <1>1
<1>3. Len(stack) \in 1..Len(stack) /\ Top(stack) = stack[Len(stack)]
  BY <1>1, <1>2, TopIs
<1>4. i < Len(stack) => stack[i] < stack[Len(stack)]
  BY <1>3 DEF ScopesOpen
<1>5. i = Len(stack) \/ i < Len(stack)
  BY <1>1
<1>6. stack[i] \in Nat /\ stack[Len(stack)] \in Nat
  BY <1>1, <1>3
<1> QED
  BY <1>2, <1>3, <1>4, <1>5, <1>6

\* A node declared in the innermost scope.
LEMMA NodeAdded ==
  ASSUME NEW nodes \in Seq(HierNode), Preorder(nodes), NEW stack, ScopesOpen(nodes, stack),
         BuiltInside(nodes, stack), NEW node \in HierNode, node.scope = Top(stack),
         NEW more, more = Append(nodes, node)
  PROVE  /\ more \in Seq(HierNode) /\ Len(more) = Len(nodes) + 1 /\ Preorder(more)
         /\ ScopesOpen(more, stack) /\ BuiltInside(more, stack)
         /\ node.kind = "SCOPE" => /\ ScopesOpen(more, Append(stack, Len(more)))
                                   /\ BuiltInside(more, Append(stack, Len(more)))
<1>0. PICK n \in Nat : n = Len(nodes)
  OBVIOUS
<1>1. /\ more \in Seq(HierNode) /\ Len(more) = n + 1 /\ more[n + 1] = node
      /\ \A i \in 1..n : more[i] = nodes[i]
  BY <1>0
<1>2. stack \in Seq(1..n) /\ Len(stack) \in Nat
  BY <1>0 DEF ScopesOpen
<1>3. \A i \in 1..n : nodes[i].scope \in Nat
  <2>1. \A i \in 1..n : nodes[i] \in HierNode
    BY <1>0
  <2> QED
    BY <2>1 DEF HierNode
<1>4. Top(stack) \in 0..n
  BY <1>2, TopIs
<1>5. Top(stack) # 0 => /\ nodes[Top(stack)].kind = "SCOPE"
                        /\ \A j \in Top(stack) + 1..n : nodes[j].scope >= Top(stack)
  <2>1. ASSUME Top(stack) # 0
        PROVE  /\ nodes[Top(stack)].kind = "SCOPE"
               /\ \A j \in Top(stack) + 1..n : nodes[j].scope >= Top(stack)
    <3>1. Len(stack) \in 1..Len(stack) /\ Top(stack) = stack[Len(stack)]
      BY <1>2, <2>1, TopIs
    <3> QED
      BY <1>0, <3>1 DEF ScopesOpen, BuiltInside
  <2> QED
    BY <2>1
<1>6. Preorder(more)
  <2>1. ASSUME NEW k \in 1..n
        PROVE  /\ more[k].scope < k
               /\ more[k].scope # 0 => more[more[k].scope].kind = "SCOPE"
               /\ \A j \in more[k].scope + 1..k : more[j].scope >= more[k].scope
    <3>1. PICK s \in Nat : s = nodes[k].scope
      BY <1>3
    <3>2. s < k /\ (s # 0 => nodes[s].kind = "SCOPE") /\ \A j \in s + 1..k : nodes[j].scope >= s
      BY <1>0, <3>1 DEF Preorder
    <3>3. more[k].scope = s
      BY <1>1, <3>1
    <3>4. (s # 0 => s \in 1..n) /\ \A j \in s + 1..k : j \in 1..n
      BY <3>2
    <3> QED
      BY <1>1, <3>2, <3>3, <3>4
  <2>2. /\ node.scope < n + 1
        /\ node.scope # 0 => more[node.scope].kind = "SCOPE"
        /\ \A j \in node.scope + 1..n + 1 : more[j].scope >= node.scope
    <3>1. PICK s \in 0..n : s = node.scope
      BY <1>4
    <3>2. s # 0 => s \in 1..n /\ nodes[s].kind = "SCOPE"
      BY <1>5, <3>1
    <3>3. \A j \in s + 1..n : j \in 1..n /\ nodes[j].scope >= s
      BY <1>3, <1>5, <3>1
    <3>4. \A j \in s + 1..n + 1 : j \in s + 1..n \/ j = n + 1
      OBVIOUS
    <3> QED
      BY <1>1, <3>1, <3>2, <3>3, <3>4
  <2>3. \A k \in 1..n + 1 : k \in 1..n \/ k = n + 1
    OBVIOUS
  <2> QED
    BY <1>1, <2>1, <2>2, <2>3 DEF Preorder
<1>7. ScopesOpen(more, stack)
  <2>1. stack \in Seq(1..n + 1)
    BY <1>2
  <2>2. \A i \in 1..Len(stack) : stack[i] \in 1..n
    BY <1>2
  <2> QED
    BY <1>0, <1>1, <2>1, <2>2 DEF ScopesOpen
<1>8. BuiltInside(more, stack)
  <2>1. ASSUME NEW i \in 1..Len(stack), NEW j \in stack[i] + 1..n + 1
        PROVE  more[j].scope >= stack[i]
    <3>1. PICK s \in 1..n : s = stack[i]
      BY <1>2
    <3>2. s <= Top(stack)
      BY <1>0, <3>1, TopIsLast
    <3>3. j \in s + 1..n \/ j = n + 1
      BY <3>1
    <3>4. j \in s + 1..n => j \in 1..n /\ nodes[j].scope >= s
      BY <1>0, <3>1 DEF BuiltInside
    <3> QED
      BY <1>1, <1>4, <3>1, <3>2, <3>3, <3>4
  <2> QED
    BY <1>1, <2>1 DEF BuiltInside
<1>9. ASSUME node.kind = "SCOPE"
      PROVE  ScopesOpen(more, Append(stack, n + 1)) /\ BuiltInside(more, Append(stack, n + 1))
  <2>1. PICK d \in Nat : d = Len(stack)
    BY <1>2
  <2>2. PICK t : t = Append(stack, n + 1)
    OBVIOUS
  <2>3. /\ t \in Seq(1..n + 1) /\ Len(t) = d + 1 /\ t[d + 1] = n + 1
        /\ \A i \in 1..d : t[i] = stack[i] /\ t[i] \in 1..n
    BY <1>2, <2>1, <2>2
  <2>4. \A i \in 1..d + 1 : i \in 1..d \/ i = d + 1
    BY <2>1
  <2>5. \A i \in 1..d + 1 : more[t[i]].kind = "SCOPE"
    <3>1. \A i \in 1..d : more[stack[i]].kind = "SCOPE"
      BY <1>7, <2>1 DEF ScopesOpen
    <3> QED
      BY <1>1, <1>9, <2>3, <2>4, <3>1
  <2>6. \A i, j \in 1..d + 1 : i < j => t[i] < t[j]
    <3> TAKE i, j \in 1..d + 1
    <3> HAVE i < j
    <3>1. i \in 1..d
      BY <2>1
    <3>2. CASE j \in 1..d
      <4>1. stack[i] < stack[j]
        BY <2>1, <3>1, <3>2 DEF ScopesOpen
      <4> QED
        BY <2>3, <3>1, <3>2, <4>1
    <3>3. CASE j = d + 1
      BY <2>3, <3>1, <3>3
    <3> QED
      BY <2>4, <3>2, <3>3
  <2>7. ScopesOpen(more, t)
    BY <1>1, <2>3, <2>5, <2>6 DEF ScopesOpen
  <2>8. \A i \in 1..d + 1 : \A j \in t[i] + 1..n + 1 : more[j].scope >= t[i]
    <3>1. ASSUME NEW i \in 1..d PROVE \A j \in t[i] + 1..n + 1 : more[j].scope >= t[i]
      <4>1. \A j \in stack[i] + 1..Len(more) : more[j].scope >= stack[i]
        BY <1>8, <2>1 DEF BuiltInside
      <4> QED
        BY <1>1, <2>3, <4>1
    <3>2. (n + 1) + 1..n + 1 = {}
      OBVIOUS
    <3> QED
      BY <2>3, <2>4, <3>1, <3>2
  <2>9. BuiltInside(more, t)
    BY <1>1, <2>3, <2>8 DEF BuiltInside
  <2> QED
    BY <2>2, <2>7, <2>9
<1> QED
  BY <1>0, <1>1, <1>6, <1>7, <1>8, <1>9

\* Attributes do not matter for the shape of the tree.
LEMMA SameShape ==
  ASSUME NEW nodes, NEW more, Len(nodes) \in Nat, Len(more) = Len(nodes), Preorder(nodes),
         \A n \in 1..Len(nodes) : nodes[n].scope \in Nat /\ more[n].scope = nodes[n].scope
                                  /\ more[n].kind = nodes[n].kind,
         NEW stack, ScopesOpen(nodes, stack), BuiltInside(nodes, stack)
  PROVE  Preorder(more) /\ ScopesOpen(more, stack) /\ BuiltInside(more, stack)
<1>1. Preorder(more)
  <2>1. ASSUME NEW k \in 1..Len(nodes)
        PROVE  /\ more[k].scope < k
               /\ more[k].scope # 0 => more[more[k].scope].kind = "SCOPE"
               /\ \A j \in more[k].scope + 1..k : more[j].scope >= more[k].scope
    <3>1. PICK s \in Nat : s = nodes[k].scope
      OBVIOUS
    <3>2. s < k /\ (s # 0 => nodes[s].kind = "SCOPE") /\ \A j \in s + 1..k : nodes[j].scope >= s
      BY <3>1 DEF Preorder
    <3>3. (s # 0 => s \in 1..Len(nodes)) /\ \A j \in s + 1..k : j \in 1..Len(nodes)
      BY <3>2
    <3> QED
      BY <3>1, <3>2, <3>3
  <2> QED
    BY <2>1 DEF Preorder
<1>2. stack \in Seq(1..Len(nodes))
  BY DEF ScopesOpen
<1>3. \A i \in 1..Len(stack) : stack[i] \in 1..Len(nodes)
  BY <1>2
<1>4. ScopesOpen(more, stack)
  BY <1>2, <1>3 DEF ScopesOpen
<1>5. BuiltInside(more, stack)
  <2>1. ASSUME NEW i \in 1..Len(stack), NEW j \in stack[i] + 1..Len(nodes)
        PROVE  more[j].scope >= stack[i]
    <3>1. j \in 1..Len(nodes)
      BY <1>3
    <3> QED
      BY <3>1 DEF BuiltInside
  <2> QED
    BY <2>1 DEF BuiltInside
<1> QED
  BY <1>1, <1>4, <1>5

\* Without the innermost scope.
LEMMA ScopesFront ==
  ASSUME NEW nodes, Len(nodes) \in Nat, NEW stack, stack # << >>, ScopesOpen(nodes, stack)
  PROVE  /\ ScopesOpen(nodes, Front(stack)) /\ Len(Front(stack)) = Len(stack) - 1
         /\ \A i \in 1..Len(stack) - 1 : Front(stack)[i] = stack[i]
         /\ BuiltInside(nodes, stack) => BuiltInside(nodes, Front(stack))
<1>1. stack \in Seq(1..Len(nodes))
  BY DEF ScopesOpen
<1>2. PICK d \in Nat : d = Len(stack)
  BY <1>1
<1>3. PICK t : t = Front(stack)
  OBVIOUS
<1>4. /\ t \in Seq(1..Len(nodes)) /\ Len(t) = d - 1
      /\ \A i \in 1..d - 1 : t[i] = stack[i] /\ i \in 1..d
  BY <1>1, <1>2, <1>3 DEF Front
<1>5. ScopesOpen(nodes, t)
  BY <1>2, <1>4 DEF ScopesOpen
<1>6. BuiltInside(nodes, stack) => BuiltInside(nodes, t)
  BY <1>2, <1>4 DEF BuiltInside
<1> QED
  BY <1>2, <1>3, <1>4, <1>5, <1>6

-----------------------------------------------------------------------------
(* What is left to read *)

\* What is left is as long as what has not been read, and is its end.
LEMMA LeftIs ==
  ASSUME NEW R, NEW s \in Seq(R), NEW g \in Seq(R), s = g \o Left(s, g)
  PROVE  /\ Left(s, g) \in Seq(R)
         /\ Len(Left(s, g)) = Len(s) - Len(g) /\ Len(g) <= Len(s)
         /\ \A i \in 1..Len(s) - Len(g) : Left(s, g)[i] = s[Len(g) + i]
<1>1. PICK n \in Nat : n = Len(s)
  OBVIOUS
<1>2. PICK k \in Nat : k = Len(g)
  OBVIOUS
<1>3. PICK t : t = Left(s, g)
  OBVIOUS
<1>4. t = SubSeq(s, k + 1, n)
  BY <1>1, <1>2, <1>3 DEF Left
<1>5. t \in Seq(R)
  BY <1>1, <1>2, <1>4
<1>6. n = k + Len(t)
  BY <1>1, <1>2, <1>3, <1>5
<1>7. Len(t) \in Nat
  BY <1>5
<1>8. k <= n /\ Len(t) = n - k
  BY <1>6, <1>7
<1>9. \A i \in 1..n - k : t[i] = s[k + i]
  BY <1>1, <1>4, <1>8
<1> QED
  BY <1>1, <1>2, <1>3, <1>5, <1>8, <1>9

NextLeft(s, h, rest) == s = h \o Left(s, h) /\ Left(s, h) = rest

\* A first entry of what is left, read, leaves the others.
LEMMA LeftNext ==
  ASSUME NEW R, NEW s \in Seq(R), NEW g \in Seq(R), s = g \o Left(s, g),
         NEW a \in R, NEW rest \in Seq(R), Left(s, g) = <<a>> \o rest, NEW h, h = Append(g, a)
  PROVE  h \in Seq(R) /\ NextLeft(s, h, rest)
<1>1. PICK n \in Nat : n = Len(s)
  OBVIOUS
<1>2. PICK k \in Nat : k = Len(g)
  OBVIOUS
<1>4. h \in Seq(R) /\ Len(h) = k + 1 /\ h[k + 1] = a /\ \A i \in 1..k : h[i] = g[i]
  BY <1>2
<1>5. /\ Len(Left(s, g)) = n - k /\ k <= n
      /\ \A i \in 1..n - k : Left(s, g)[i] = s[k + i]
  BY <1>1, <1>2, LeftIs
<1>6. PICK p : p = <<a>> \o rest
  OBVIOUS
<1>7. Len(p) = 1 + Len(rest) /\ p[1] = a /\ \A i \in 1..Len(rest) : p[i + 1] = rest[i]
  BY <1>6
<1>8. Len(rest) = n - (k + 1) /\ k + 1 <= n
  <2>1. n - k = 1 + Len(rest) /\ Len(rest) \in Nat
    BY <1>5, <1>6, <1>7
  <2> QED
    BY <2>1
<1>9. s[k + 1] = a /\ \A i \in 1..n - (k + 1) : s[(k + 1) + i] = rest[i]
  <2>1. 1 \in 1..n - k /\ \A i \in 1..n - (k + 1) : i + 1 \in 1..n - k /\ k + (i + 1) = (k + 1) + i
    BY <1>8
  <2>2. \A i \in 1..n - k : p[i] = s[k + i]
    BY <1>5, <1>6
  <2> QED
    BY <1>7, <1>8, <2>1, <2>2
<1>10. Left(s, h) = rest
  <2>1. PICK t : t = SubSeq(s, (k + 1) + 1, n)
    OBVIOUS
  <2>2. t = Left(s, h)
    BY <1>1, <1>4, <2>1 DEF Left
  <2>3. Len(t) = n - (k + 1) /\ \A i \in 1..n - (k + 1) : t[i] = s[(k + 1) + i]
    <3>1. PICK j : j = k + 1
      OBVIOUS
    <3>2. IsSequence(s)
      BY DEF IsSequence
    <3>3. j \in 0..Len(s)
      BY <1>1, <1>8, <3>1
    <3>4. Len(t) = n - j /\ \A i \in 1..n - j : t[i] = s[j + i]
      BY <1>1, <2>1, <3>1, <3>2, <3>3, RestIs
    <3> QED
      BY <3>1, <3>4
  <2>4. t \in Seq(R)
    BY <1>1, <2>1
  <2>5. \A i \in 1..Len(t) : t[i] = rest[i]
    BY <1>9, <2>3
  <2>6. t = [i \in 1..Len(t) |-> t[i]] /\ rest = [i \in 1..Len(rest) |-> rest[i]]
    BY <2>4
  <2> QED
    BY <1>8, <2>2, <2>3, <2>5, <2>6
<1>11. \A i \in 1..k : s[i] = g[i]
  <2>1. PICK l \in Seq(R) : l = Left(s, g)
    BY LeftIs
  <2>2. s = g \o l
    BY <2>1
  <2> QED
    BY <1>2, <2>2
<1>12. s = h \o rest
  <2>1. PICK q : q = h \o rest
    OBVIOUS
  <2>2. /\ q \in Seq(R) /\ Len(q) = n
        /\ \A i \in 1..k + 1 : q[i] = h[i]
        /\ \A i \in 1..n - (k + 1) : q[(k + 1) + i] = rest[i]
    <3>1. PICK m \in Nat : m = k + 1
      OBVIOUS
    <3>2. PICK r \in Nat : r = Len(rest)
      OBVIOUS
    <3>3. h \in Seq(R) /\ Len(h) = m
      BY <1>4, <3>1
    <3>4. /\ q \in Seq(R) /\ Len(q) = m + r
          /\ \A i \in 1..m : q[i] = h[i]
          /\ \A i \in 1..r : q[m + i] = rest[i]
      <4>1. q \in Seq(R)
        BY <2>1, <3>3
      <4>2. Len(q) = m + r
        <5>1. h \in Seq(R)
          BY <3>3
        <5>2. Len(h \o rest) = Len(h) + Len(rest)
          BY <5>1
        <5> QED
          BY <2>1, <3>2, <3>3, <5>2
      <4>3. \A i \in 1..m : q[i] = h[i]
        BY <2>1, <3>2, <3>3
      <4>4. ASSUME NEW i \in 1..r PROVE q[m + i] = rest[i]
        <5>1. m + i \in 1..m + r /\ ~(m + i <= m) /\ (m + i) - m = i
          OBVIOUS
        <5> QED
          <6>1. PICK b \in Seq(R) : b = h
            BY <3>3
          <6>2. PICK j : j = m + i
            OBVIOUS
          <6>3. j \in 1..m + r /\ ~(j <= m) /\ j - m = i
            BY <5>1, <6>2
          <6>4. Len(b) = m
            BY <3>3, <6>1
          <6>5. (b \o rest)[j] = rest[j - m]
            BY <3>2, <6>3, <6>4
          <6> QED
            BY <2>1, <6>1, <6>2, <6>3, <6>5
      <4> QED
        BY <4>1, <4>2, <4>3, <4>4
    <3>5. r = n - m /\ m + r = n
      BY <1>8, <3>1, <3>2
    <3> QED
      BY <3>1, <3>4, <3>5
  <2>3. \A i \in 1..n : s[i] = q[i]
    <3> TAKE i \in 1..n
    <3>1. i \in 1..k => s[i] = q[i]
      BY <1>4, <1>11, <2>2
    <3>2. i = k + 1 => s[i] = q[i]
      BY <1>4, <1>9, <2>2
    <3>3. i > k + 1 => s[i] = q[i]
      <4>1. SUFFICES ASSUME i > k + 1 PROVE s[i] = q[i]
        OBVIOUS
      <4>2. i - (k + 1) \in 1..n - (k + 1) /\ (k + 1) + (i - (k + 1)) = i
        BY <4>1
      <4> QED
        BY <1>9, <2>2, <4>2
    <3> QED
      BY <3>1, <3>2, <3>3
  <2>4. s = [i \in 1..n |-> s[i]] /\ q = [i \in 1..n |-> q[i]]
    BY <1>1, <2>2
  <2> QED
    BY <2>1, <2>3, <2>4
<1> QED
  BY <1>4, <1>10, <1>12 DEF NextLeft

\* Before anything is read everything is left.
LEMMA LeftOfNone ==
  ASSUME NEW R, NEW s \in Seq(R)
  PROVE  Left(s, << >>) = s /\ s = << >> \o Left(s, << >>)
<1>1. Left(s, << >>) = SubSeq(s, 1, Len(s))
  BY DEF Left
<1>2. SubSeq(s, 1, Len(s)) = s /\ << >> \o s = s
  OBVIOUS
<1> QED
  BY <1>1, <1>2

\* A list that is not empty is a first entry and a rest.
LEMMA FirstAndRest ==
  ASSUME NEW R, NEW s \in Seq(R), s # << >>
  PROVE  \E a \in R, rest \in Seq(R) : s = <<a>> \o rest
<1>1. s[1] \in R /\ Tail(s) \in Seq(R)
  OBVIOUS
<1>2. s = <<s[1]>> \o Tail(s)
  OBVIOUS
<1> QED
  BY <1>1, <1>2

\* A first entry and a rest come apart as they were put together.
LEMMA HeadOfCat ==
  ASSUME NEW R, NEW a \in R, NEW rest \in Seq(R), NEW s, s = <<a>> \o rest
  PROVE  s # << >> /\ Head(s) = a /\ Tail(s) = rest
<1>1. s \in Seq(R) /\ Len(s) = 1 + Len(rest) /\ s[1] = a /\ \A i \in 1..Len(rest) : s[i + 1] = rest[i]
  OBVIOUS
<1>2. s # << >> /\ Head(s) = a
  BY <1>1
<1>3. Tail(s) \in Seq(R) /\ Len(Tail(s)) = Len(rest) /\ \A i \in 1..Len(rest) : Tail(s)[i] = rest[i]
  BY <1>1, <1>2
<1>4. Tail(s) = [i \in 1..Len(rest) |-> Tail(s)[i]] /\ rest = [i \in 1..Len(rest) |-> rest[i]]
  BY <1>3
<1> QED
  BY <1>2, <1>3, <1>4

\* The empty list adds nothing.
LEMMA CatNone ==
  ASSUME NEW R, NEW s \in Seq(R)
  PROVE  s \o << >> = s /\ << >> \o s = s
OBVIOUS

\* The tags of attributes, the first one apart.
LEMMA AttrTagsFirst ==
  ASSUME NEW node, NEW a \in HierAttrs, NEW rest \in Seq(HierAttrs)
  PROVE  /\ node = [attrs |-> <<a>> \o rest, typed |-> node.typed] /\ node.typed \in Seq(HierAttrs) =>
              AttrTags(node) = <<[tag |-> "ATTR", attr |-> a]>> \o
                               AttrTags([attrs |-> rest, typed |-> node.typed])
         /\ node = [attrs |-> << >>, typed |-> <<a>> \o rest] =>
              AttrTags(node) = <<[tag |-> "ATTR2", attr |-> a]>> \o
                               AttrTags([attrs |-> << >>, typed |-> rest])
<1>0. PICK R : R = HierTag
  OBVIOUS
<1>1. PICK n \in Nat : n = Len(rest)
  OBVIOUS
<1>2. PICK s : s = <<a>> \o rest
  OBVIOUS
<1>3. s \in Seq(HierAttrs) /\ Len(s) = n + 1 /\ s[1] = a /\ \A i \in 1..n : s[i + 1] = rest[i]
  BY <1>1, <1>2
<1> DEFINE List(tag, l) == [k \in 1..Len(l) |-> [tag |-> tag, attr |-> l[k]]]
<1>4. \A tag \in {"ATTR", "ATTR2"}, b \in HierAttrs : [tag |-> tag, attr |-> b] \in R
  BY <1>0 DEF HierTag
<1>5. ASSUME NEW tag \in {"ATTR", "ATTR2"}, NEW l \in Seq(HierAttrs) PROVE List(tag, l) \in Seq(R)
  <2>1. \A k \in 1..Len(l) : l[k] \in HierAttrs
    OBVIOUS
  <2>2. \A k \in 1..Len(l) : [tag |-> tag, attr |-> l[k]] \in R
    BY <1>4, <2>1
  <2> QED
    BY <2>2
<1>6. ASSUME NEW tag \in {"ATTR", "ATTR2"}
      PROVE  List(tag, s) = <<[tag |-> tag, attr |-> a]>> \o List(tag, rest)
  <2>1. PICK x \in R : x = [tag |-> tag, attr |-> a]
    BY <1>4
  <2>2. PICK l : l = List(tag, rest)
    OBVIOUS
  <2>3. l \in Seq(R) /\ Len(l) = n /\ \A i \in 1..n : l[i] = [tag |-> tag, attr |-> rest[i]]
    <3>1. l \in Seq(R)
      BY <1>5, <2>2
    <3> QED
      BY <1>1, <2>2, <3>1
  <2>4. PICK p : p = <<x>> \o l
    OBVIOUS
  <2>5. p \in Seq(R) /\ Len(p) = n + 1 /\ p[1] = x /\ \A i \in 1..n : p[i + 1] = l[i]
    BY <2>3, <2>4
  <2>6. PICK q : q = List(tag, s)
    OBVIOUS
  <2>7. q = [k \in 1..n + 1 |-> [tag |-> tag, attr |-> s[k]]]
    BY <1>3, <2>6
  <2>8. \A k \in 1..n + 1 : p[k] = q[k]
    <3> TAKE k \in 1..n + 1
    <3>1. CASE k = 1
      BY <1>3, <2>1, <2>5, <2>7, <3>1
    <3>2. CASE k # 1
      <4>1. k - 1 \in 1..n /\ (k - 1) + 1 = k
        BY <3>2
      <4>2. p[k] = l[k - 1] /\ s[k] = rest[k - 1]
        BY <1>3, <2>5, <4>1
      <4> QED
        BY <2>3, <2>7, <4>1, <4>2
    <3> QED
      BY <3>1, <3>2
  <2>9. p = [k \in 1..n + 1 |-> p[k]] /\ q = [k \in 1..n + 1 |-> q[k]]
    BY <2>5, <2>7
  <2>10. p = q
    BY <2>8, <2>9
  <2> HIDE DEF List
  <2> QED
    BY <2>1, <2>2, <2>4, <2>6, <2>10
<1>7. ASSUME NEW m PROVE AttrTags(m) = List("ATTR", m.attrs) \o List("ATTR2", m.typed)
  BY DEF AttrTags
<1> HIDE DEF List
<1>8. ASSUME node = [attrs |-> <<a>> \o rest, typed |-> node.typed], node.typed \in Seq(HierAttrs)
      PROVE  AttrTags(node) = <<[tag |-> "ATTR", attr |-> a]>> \o
                              AttrTags([attrs |-> rest, typed |-> node.typed])
  <2>1. PICK t \in Seq(R) : t = List("ATTR2", node.typed)
    BY <1>5, <1>8
  <2>2. PICK l \in Seq(R) : l = List("ATTR", rest)
    BY <1>5
  <2>3. PICK x \in R : x = [tag |-> "ATTR", attr |-> a]
    BY <1>4
  <2>4. node.attrs = s
    BY <1>2, <1>8
  <2>5. List("ATTR", s) = <<x>> \o l
    BY <1>6, <2>2, <2>3
  <2>6. AttrTags(node) = (<<x>> \o l) \o t
    BY <1>7, <2>1, <2>4, <2>5
  <2>7. (<<x>> \o l) \o t = <<x>> \o (l \o t)
    OBVIOUS
  <2>8. AttrTags([attrs |-> rest, typed |-> node.typed]) = l \o t
    BY <1>7, <2>1, <2>2
  <2> QED
    BY <2>3, <2>6, <2>7, <2>8
<1>9. ASSUME node = [attrs |-> << >>, typed |-> <<a>> \o rest]
      PROVE  AttrTags(node) = <<[tag |-> "ATTR2", attr |-> a]>> \o
                              AttrTags([attrs |-> << >>, typed |-> rest])
  <2>1. List("ATTR", << >>) = << >>
    BY DEF List
  <2>2. PICK l \in Seq(R) : l = List("ATTR2", rest)
    BY <1>5
  <2>3. PICK x \in R : x = [tag |-> "ATTR2", attr |-> a]
    BY <1>4
  <2>4. node.attrs = << >> /\ node.typed = s
    BY <1>2, <1>9
  <2>5. List("ATTR2", s) = <<x>> \o l
    BY <1>6, <2>2, <2>3
  <2>6. AttrTags(node) = << >> \o (<<x>> \o l)
    BY <1>7, <2>1, <2>4, <2>5
  <2>7. << >> \o (<<x>> \o l) = <<x>> \o l /\ << >> \o l = l
    OBVIOUS
  <2>8. AttrTags([attrs |-> << >>, typed |-> rest]) = << >> \o l
    BY <1>7, <2>1, <2>2
  <2> QED
    BY <2>3, <2>6, <2>7, <2>8
<1> QED
  BY <1>8, <1>9

\* The tags of the nodes of a scope, and of the scopes around, still to be read.
KidTags(nodes, scope, m) == Spelled(NodeTags(nodes), Kids(nodes, scope, m))

IsFrom(from, nodes, m, stack) ==
  /\ from \in [0..Len(stack) -> Seq(HierTag)]
  /\ from[0] = KidTags(nodes, 0, m)
  /\ \A i \in 1..Len(stack) :
       from[i] = KidTags(nodes, stack[i], m) \o <<[tag |-> "UPSCOPE"]>> \o from[i - 1]

\* The tags of the nodes left in a scope, of which those of the first node come first.
LEMMA KidTagsType ==
  ASSUME NEW nodes \in Seq(HierNode), Preorder(nodes), NEW scope, NEW m \in Nat
  PROVE  /\ KidTags(nodes, scope, m) \in Seq(HierTag)
         /\ Kids(nodes, scope, m) = {} => KidTags(nodes, scope, m) = << >>
         /\ \A k \in Kids(nodes, scope, m) : (\A j \in Kids(nodes, scope, m) : k <= j) =>
              KidTags(nodes, scope, m) =
                NodeTags(nodes)[k] \o Spelled(NodeTags(nodes), Kids(nodes, scope, m) \ {k})
<1>1. PICK W : W = Kids(nodes, scope, m)
  OBVIOUS
<1>2. W \subseteq m + 1..Len(nodes) /\ W \in SUBSET Nat /\ IsFiniteSet(W)
  BY <1>1, KidsIn
<1>3. PICK f : f = NodeTags(nodes)
  OBVIOUS
<1>4. f \in [1..Len(nodes) -> Seq(HierTag)]
  <2>1. Tagged(f, nodes, 0) /\ 0 + 1 = 1
    BY <1>3, NodeTagsAre
  <2> QED
    BY <2>1 DEF Tagged
<1>5. \A n \in W : f[n] \in Seq(HierTag)
  <2>1. \A n \in W : n \in 1..Len(nodes)
    BY <1>2
  <2> QED
    BY <1>4, <2>1
<1>6. Spelled(f, W) \in Seq(HierTag)
  BY <1>2, <1>5, SpelledType
<1>7. W = {} => Spelled(f, W) = << >>
  BY SpelledNone
<1>8. \A k \in W : (\A j \in W : k <= j) => Spelled(f, W) = f[k] \o Spelled(f, W \ {k})
  <2>1. ASSUME NEW k \in W, \A j \in W : k <= j
        PROVE  FirstSpelled(f, W, k, HierTag)
    BY <1>2, <1>5, <2>1, SpelledFirst
  <2> QED
    BY <2>1 DEF FirstSpelled
<1> QED
  BY <1>1, <1>3, <1>6, <1>7, <1>8 DEF KidTags

\* Three lists put together are a list.
LEMMA CatThree ==
  ASSUME NEW R, NEW a \in Seq(R), NEW b \in Seq(R), NEW c \in Seq(R)
  PROVE  a \o b \o c \in Seq(R)
<1>1. PICK ab : ab = a \o b
  OBVIOUS
<1>2. ab \in Seq(R)
  BY <1>1
<1>3. ab \o c \in Seq(R)
  BY <1>2
<1> QED
  BY <1>1, <1>3

\* The way up is a tag.
LEMMA UpIsTag == <<[tag |-> "UPSCOPE"]>> \in Seq(HierTag)
<1>1. [tag |-> "UPSCOPE"] \in HierTag
  BY DEF HierTag
<1>2. PICK R : R = HierTag
  OBVIOUS
<1>3. PICK x : x = [tag |-> "UPSCOPE"]
  OBVIOUS
<1>4. <<x>> \in Seq(R)
  BY <1>1, <1>2, <1>3
<1> QED
  BY <1>2, <1>3, <1>4

\* One scope more: the tags of the scopes inside come first.
Pushed(f, from, nodes, m, scope, d) ==
  f = [i \in 0..d + 1 |->
        IF i = d + 1 THEN KidTags(nodes, scope, m) \o <<[tag |-> "UPSCOPE"]>> \o from[d] ELSE from[i]]

\* What follows when one scope more is open.
LEMMA FromPushed ==
  ASSUME NEW nodes \in Seq(HierNode), Preorder(nodes), NEW m \in Nat,
         NEW d \in Nat, NEW stack, Len(stack) = d, NEW more, Len(more) = d + 1,
         \A i \in 1..d : more[i] = stack[i], NEW from, IsFrom(from, nodes, m, stack),
         NEW f, Pushed(f, from, nodes, m, more[d + 1], d)
  PROVE  IsFrom(f, nodes, m, more)
<1>1. PICK top : top = KidTags(nodes, more[d + 1], m) \o <<[tag |-> "UPSCOPE"]>> \o from[d]
  OBVIOUS
<1>2. from \in [0..d -> Seq(HierTag)] /\ from[0] = KidTags(nodes, 0, m)
  BY DEF IsFrom
<1>3. \A i \in 1..d : from[i] = KidTags(nodes, stack[i], m) \o <<[tag |-> "UPSCOPE"]>> \o from[i - 1]
  BY DEF IsFrom
<1>4. top \in Seq(HierTag)
  <2>1. KidTags(nodes, more[d + 1], m) \in Seq(HierTag)
    BY KidTagsType
  <2>2. d \in 0..d /\ from[d] \in Seq(HierTag)
    BY <1>2
  <2> QED
    BY <1>1, <2>1, <2>2, UpIsTag, CatThree
<1>5. \A i \in 0..d + 1 : i \in 0..d \/ i = d + 1
  OBVIOUS
<1>6. f[d + 1] = top /\ \A i \in 0..d : f[i] = from[i]
  <2>1. d + 1 \in 0..d + 1 /\ \A i \in 0..d : i \in 0..d + 1 /\ i # d + 1
    OBVIOUS
  <2> QED
    BY <1>1, <2>1 DEF Pushed
<1>7. f \in [0..d + 1 -> Seq(HierTag)]
  <2>1. f = [i \in 0..d + 1 |-> f[i]]
    BY DEF Pushed
  <2>2. \A i \in 0..d + 1 : f[i] \in Seq(HierTag)
    BY <1>2, <1>4, <1>5, <1>6
  <2> QED
    BY <2>1, <2>2
<1>8. f[0] = KidTags(nodes, 0, m)
  <2>1. 0 \in 0..d
    OBVIOUS
  <2> QED
    BY <1>2, <1>6, <2>1
<1>9. \A i \in 1..d + 1 : f[i] = KidTags(nodes, more[i], m) \o <<[tag |-> "UPSCOPE"]>> \o f[i - 1]
  <2> TAKE i \in 1..d + 1
  <2>1. CASE i \in 1..d
    <3>1. i \in 0..d /\ i - 1 \in 0..d
      BY <2>1
    <3> QED
      BY <1>3, <1>6, <2>1, <3>1
  <2>2. CASE i = d + 1
    <3>1. i - 1 = d /\ d \in 0..d
      BY <2>2
    <3> QED
      BY <1>1, <1>6, <2>2, <3>1
  <2>3. i \in 1..d \/ i = d + 1
    OBVIOUS
  <2> QED
    BY <2>1, <2>2, <2>3
<1> QED
  BY <1>7, <1>8, <1>9 DEF IsFrom

\* For every stack of open scopes there are tags that follow.
LEMMA FromExists ==
  ASSUME NEW nodes \in Seq(HierNode), Preorder(nodes), NEW m \in Nat, NEW stack \in Seq(Nat)
  PROVE  \E from : IsFrom(from, nodes, m, stack)
<1>0. PICK d \in Nat : d = Len(stack)
  OBVIOUS
<1> DEFINE Up(i) == SubSeq(stack, 1, i)
           Fails == {i \in 0..d : ~\E from : IsFrom(from, nodes, m, Up(i))}
<1>1. \A i \in 0..d : Len(Up(i)) = i /\ \A j \in 1..i : Up(i)[j] = stack[j]
  BY <1>0
<1>2. Up(d) = stack
  BY <1>0
<1> HIDE DEF Up
<1>3. ASSUME Fails # {} PROVE FALSE
  <2>1. PICK i \in Fails : \A k \in Fails : i <= k
    <3>1. Fails \in SUBSET Nat
      OBVIOUS
    <3> HIDE DEF Fails
    <3> QED
      BY <1>3, <3>1, LeastNumber
  <2>2. i \in 0..d /\ ~\E from : IsFrom(from, nodes, m, Up(i))
    OBVIOUS
  <2>3. CASE i = 0
    <3>1. PICK from : from = [k \in 0..0 |-> KidTags(nodes, 0, m)]
      OBVIOUS
    <3>2. KidTags(nodes, 0, m) \in Seq(HierTag)
      BY KidTagsType
    <3>3. from \in [0..0 -> Seq(HierTag)] /\ from[0] = KidTags(nodes, 0, m)
      BY <3>1, <3>2
    <3>4. Len(Up(0)) = 0
      BY <1>1
    <3>5. PICK u : u = Up(0)
      OBVIOUS
    <3>6. Len(u) = 0 /\ 1..0 = {}
      BY <3>4, <3>5
    <3>7. IsFrom(from, nodes, m, u)
      BY <3>3, <3>6 DEF IsFrom
    <3> QED
      BY <2>2, <2>3, <3>5, <3>7
  <2>4. CASE i # 0
    <3>1. i - 1 \in 0..d /\ ~(i <= i - 1) /\ i - 1 \in Nat /\ (i - 1) + 1 = i
      BY <2>2, <2>4
    <3>2. i - 1 \notin Fails
      BY <2>1, <3>1
    <3>3. PICK from : IsFrom(from, nodes, m, Up(i - 1))
      BY <3>1, <3>2
    <3>4. PICK k \in Nat : k = i - 1
      BY <3>1
    <3>5. k + 1 = i /\ k \in 0..d
      BY <3>1, <3>4
    <3>6. Len(Up(k)) = k /\ Len(Up(i)) = k + 1 /\ \A j \in 1..k : Up(i)[j] = Up(k)[j]
      <4>1. \A j \in 1..k : j \in 1..i
        BY <3>5
      <4> QED
        BY <1>1, <2>2, <3>5, <4>1
    <3>7. PICK u : u = Up(i)
      OBVIOUS
    <3>8. PICK v : v = Up(k)
      OBVIOUS
    <3>9. PICK f : Pushed(f, from, nodes, m, u[k + 1], k)
      BY DEF Pushed
    <3>10. IsFrom(from, nodes, m, v)
      BY <3>3, <3>4, <3>8
    <3>11. Len(v) = k /\ Len(u) = k + 1 /\ \A j \in 1..k : u[j] = v[j]
      BY <3>6, <3>7, <3>8
    <3>12. IsFrom(f, nodes, m, u)
      BY <3>9, <3>10, <3>11, FromPushed
    <3> QED
      BY <2>2, <3>7, <3>12
  <2> QED
    BY <2>3, <2>4
<1>4. d \in 0..d
  OBVIOUS
<1> QED
  BY <1>2, <1>3, <1>4

FromSteps(f, nodes, m, stack) ==
  \A i \in 1..Len(stack) : f[i] = KidTags(nodes, stack[i], m) \o <<[tag |-> "UPSCOPE"]>> \o f[i - 1]

\* And they are the only ones.
LEMMA FromUnique ==
  ASSUME NEW nodes, NEW m, NEW stack \in Seq(Nat), NEW f, NEW g,
         f[0] = g[0], FromSteps(f, nodes, m, stack), FromSteps(g, nodes, m, stack)
  PROVE  f[Len(stack)] = g[Len(stack)]
<1>0. PICK d \in Nat : d = Len(stack)
  OBVIOUS
<1> DEFINE T == {i \in 0..d : f[i] # g[i]}
<1>1. ASSUME T # {} PROVE FALSE
  <2>1. PICK i \in T : \A k \in T : i <= k
    <3>1. T \in SUBSET Nat
      OBVIOUS
    <3> HIDE DEF T
    <3> QED
      BY <1>1, <3>1, LeastNumber
  <2>2. i \in 0..d /\ f[i] # g[i]
    OBVIOUS
  <2>3. i # 0
    BY <2>2
  <2>4. i \in 1..d /\ i - 1 \in 0..d /\ ~(i <= i - 1)
    BY <2>2, <2>3
  <2>5. f[i - 1] = g[i - 1]
    BY <2>1, <2>4
  <2> QED
    BY <1>0, <2>2, <2>4, <2>5 DEF FromSteps
<1>2. d \in 0..d
  OBVIOUS
<1> QED
  BY <1>0, <1>1, <1>2

\* So they are the tags left.
LEMMA TagsLeftIs ==
  ASSUME NEW nodes \in Seq(HierNode), Preorder(nodes), NEW m \in Nat, NEW stack \in Seq(Nat),
         NEW from, IsFrom(from, nodes, m, stack)
  PROVE  TagsLeft(nodes, m, stack) = from[Len(stack)]
<1> DEFINE Solves(f) == f = [i \in 0..Len(stack) |->
             IF i = 0 THEN KidTags(nodes, 0, m)
             ELSE KidTags(nodes, stack[i], m) \o <<[tag |-> "UPSCOPE"]>> \o f[i - 1]]
<1>1. Solves(from)
  <2>1. from = [i \in 0..Len(stack) |-> from[i]]
    BY DEF IsFrom
  <2>2. \A i \in 0..Len(stack) : i = 0 \/ i \in 1..Len(stack)
    OBVIOUS
  <2>3. \A i \in 0..Len(stack) :
          from[i] = IF i = 0 THEN KidTags(nodes, 0, m)
                    ELSE KidTags(nodes, stack[i], m) \o <<[tag |-> "UPSCOPE"]>> \o from[i - 1]
    BY <2>2 DEF IsFrom
  <2> QED
    BY <2>1, <2>3
<1>2. PICK f : f = (CHOOSE g : Solves(g))
  OBVIOUS
<1>3. Solves(f)
  <2> HIDE DEF Solves
  <2> QED
    BY <1>1, <1>2, Zenon
<1>4. TagsLeft(nodes, m, stack) = f[Len(stack)]
  BY <1>2 DEF TagsLeft, KidTags
<1>5. f[0] = from[0]
  <2>1. 0 \in 0..Len(stack)
    OBVIOUS
  <2> QED
    BY <1>3, <2>1 DEF IsFrom
<1>6. FromSteps(f, nodes, m, stack)
  <2>1. \A i \in 1..Len(stack) : i \in 0..Len(stack) /\ i # 0
    OBVIOUS
  <2> QED
    BY <1>3, <2>1 DEF FromSteps
<1>7. FromSteps(from, nodes, m, stack)
  BY DEF IsFrom, FromSteps
<1> HIDE DEF Solves
<1>8. f[Len(stack)] = from[Len(stack)]
  BY <1>5, <1>6, <1>7, FromUnique
<1> QED
  BY <1>4, <1>8

\* A scope from which nothing is left has been read; in any other the next node
\* is the first left of all.
NextAt(nodes, m, t) ==
  /\ m + 1 \in 1..Len(nodes) /\ nodes[m + 1].scope = t
  /\ m + 1 \in Kids(nodes, t, m) /\ \A j \in Kids(nodes, t, m) : m + 1 <= j

\* With nodes left in the innermost scope the next one is the next of all.
LEMMA NextKid ==
  ASSUME NEW nodes \in Seq(HierNode), Preorder(nodes), NEW m \in Nat, m <= Len(nodes),
         NEW stack \in Seq(1..m), ScopesOpen(nodes, stack),
         \A n \in m + 1..Len(nodes) :
           nodes[n].scope \in {0} \cup {stack[i] : i \in 1..Len(stack)} \cup m + 1..Len(nodes)
  PROVE  /\ Kids(nodes, Top(stack), m) # {} => NextAt(nodes, m, Top(stack))
         /\ Kids(nodes, Top(stack), m) = {} /\ stack = << >> => m = Len(nodes)
<1>0. PICK n \in Nat : n = Len(nodes)
  OBVIOUS
<1>1. PICK t \in 0..m : t = Top(stack)
  BY TopIs
<1>2. \A k \in 1..n : /\ nodes[k].scope \in Nat /\ nodes[k].scope < k
                      /\ \A j \in nodes[k].scope + 1..k : nodes[j].scope >= nodes[k].scope
  <2>1. \A k \in 1..n : nodes[k] \in HierNode
    BY <1>0
  <2> QED
    BY <1>0, <2>1 DEF Preorder, HierNode
<1>3. \A i \in 1..Len(stack) : stack[i] <= t
  BY <1>0, <1>1, TopIsLast
<1>4. ASSUME Kids(nodes, t, m) # {}
      PROVE  /\ m + 1 \in 1..n /\ nodes[m + 1].scope = t
             /\ m + 1 \in Kids(nodes, t, m)
             /\ \A j \in Kids(nodes, t, m) : m + 1 <= j
  <2>1. PICK k \in m + 1..n : nodes[k].scope = t
    BY <1>0, <1>4 DEF Kids
  <2>2. m + 1 \in 1..n /\ k \in 1..n /\ m + 1 \in t + 1..k /\ m + 1 \in m + 1..n
    BY <1>1, <2>1
  <2>3. nodes[m + 1].scope >= t /\ nodes[m + 1].scope \in Nat /\ nodes[m + 1].scope < m + 1
    BY <1>2, <2>1, <2>2
  <2>4. nodes[m + 1].scope = t
    <3>1. PICK s \in Nat : s = nodes[m + 1].scope
      BY <2>3
    <3>2. s \in {0} \cup {stack[i] : i \in 1..Len(stack)} \cup m + 1..n
      BY <1>0, <2>2, <3>1
    <3>3. s >= t /\ s < m + 1
      BY <2>3, <3>1
    <3>4. CASE s = 0
      BY <3>1, <3>3, <3>4
    <3>5. CASE s \in {stack[i] : i \in 1..Len(stack)}
      <4>1. s <= t
        BY <1>3, <3>5
      <4> QED
        BY <3>1, <3>3, <4>1
    <3>6. s \notin m + 1..n
      BY <3>3
    <3> QED
      BY <3>2, <3>4, <3>5, <3>6
  <2>5. m + 1 \in Kids(nodes, t, m)
    BY <1>0, <2>2, <2>4 DEF Kids
  <2>6. \A j \in Kids(nodes, t, m) : m + 1 <= j
    BY DEF Kids
  <2> QED
    BY <2>2, <2>4, <2>5, <2>6
<1>5. ASSUME Kids(nodes, t, m) = {}, stack = << >> PROVE m = n
  <2>1. SUFFICES ASSUME m < n PROVE FALSE
    BY <1>0
  <2>0. Top(stack) = 0
    BY <1>5 DEF Top
  <2>2. m + 1 \in 1..n /\ m + 1 \in m + 1..n /\ t = 0
    BY <1>1, <2>0, <2>1
  <2>3. nodes[m + 1].scope \in {0} \cup m + 1..n
    <3>1. {stack[i] : i \in 1..Len(stack)} = {}
      BY <1>5
    <3> QED
      BY <1>0, <2>2, <3>1
  <2>4. nodes[m + 1].scope = 0
    BY <1>2, <2>2, <2>3
  <2> QED
    BY <1>0, <1>5, <2>2, <2>4 DEF Kids
<1> QED
  BY <1>0, <1>1, <1>4, <1>5 DEF NextAt

\* What the reader has made is what the tree has, but for attributes to come.
LEMMA ReadScopes ==
  ASSUME NEW nodes, NEW got, NodesRead(nodes, got)
  PROVE  /\ Len(got) \in Nat /\ Len(got) <= Len(nodes)
         /\ \A n \in 1..Len(got) : got[n].scope = nodes[n].scope
<1>1. got \in Seq(HierNode) /\ Len(got) <= Len(nodes)
  BY DEF NodesRead
<1>2. PICK m \in Nat : m = Len(got)
  BY <1>1
<1>3. ASSUME NEW n \in 1..m PROVE got[n].scope = nodes[n].scope
  <2>1. CASE n = m
    <3>1. got # << >>
      BY <1>1, <1>2
    <3>2. got[m] = [nodes[m] EXCEPT !.attrs = got[m].attrs, !.typed = got[m].typed]
      BY <1>2, <3>1 DEF NodesRead
    <3>3. got[m] \in HierNode
      BY <1>1, <1>2, <2>1
    <3>4. "scope" \in DOMAIN got[m]
      BY <3>3 DEF HierNode
    <3> QED
      BY <2>1, <3>2, <3>4
  <2>2. CASE n # m
    <3>1. n \in 1..m - 1
      BY <2>2
    <3> QED
      BY <1>2, <3>1 DEF NodesRead
  <2> QED
    BY <2>1, <2>2
<1> QED
  BY <1>1, <1>2, <1>3

\* The last of some places.
LEMMA MaxOf ==
  ASSUME NEW k \in Nat, NEW T \in SUBSET (1..k), T # {}
  PROVE  Max(T) \in T /\ \A j \in T : j <= Max(T)
<1>1. PICK m \in T : \A j \in T : j <= m
  BY LastOf
<1>2. \A j \in T : j \in Int
  OBVIOUS
<1>3. \A j \in T : m >= j
  BY <1>1, <1>2
<1>4. Max(T) \in T /\ \A j \in T : Max(T) >= j
  BY <1>3 DEF Max
<1> QED
  BY <1>2, <1>4

\* Where an attribute goes: to the node read last.
LEMMA LastNodeIs ==
  ASSUME hierNodes \in Seq(HierNode), Preorder(hierNodes),
         Reading(hierNodes, hierRead.nodes, hierRead.stack, hierTags),
         AttrsLeft(hierNodes, hierRead.nodes) # [attrs |-> << >>, typed |-> << >>]
  PROVE  LastNode = Len(hierRead.nodes) /\ Len(hierRead.nodes) \in 1..Len(hierNodes)
<1>1. PICK nodes : nodes = hierNodes
  OBVIOUS
<1>2. PICK got : got = hierRead.nodes
  OBVIOUS
<1>3. PICK stack : stack = hierRead.stack
  OBVIOUS
<1>4. NodesRead(nodes, got)
  BY <1>1, <1>2, <1>3 DEF Reading
<1>5. PICK m \in Nat : m = Len(got)
  BY <1>4, ReadScopes
<1>6. m # 0
  <2>1. m = 0 => AttrsLeft(nodes, got) = [attrs |-> << >>, typed |-> << >>]
    BY <1>5 DEF AttrsLeft
  <2> QED
    BY <1>1, <1>2, <2>1
<1>7. m <= Len(nodes) /\ \A n \in 1..m : got[n].scope = nodes[n].scope
  BY <1>4, <1>5, ReadScopes
<1>8. Len(nodes) \in Nat /\ nodes \in Seq(HierNode) /\ Preorder(nodes)
  BY <1>1
<1>9. m \in 1..Len(nodes)
  BY <1>6, <1>7, <1>8
<1>10. Top(stack) = IF nodes[m].kind = "SCOPE" THEN m ELSE nodes[m].scope
  BY <1>1, <1>2, <1>3, <1>5 DEF Reading
<1>11. \A n \in 1..m : got[n].scope \in Nat /\ got[n].scope < n
  <2> TAKE n \in 1..m
  <2>1. n \in 1..Len(nodes)
    BY <1>7, <1>8
  <2>2. nodes[n] \in HierNode
    BY <1>8, <2>1
  <2> QED
    BY <1>7, <1>8, <2>1, <2>2 DEF HierNode, Preorder
<1>12. PICK kids : kids = Kids(got, Top(stack), 0)
  OBVIOUS
<1>13. kids = {n \in 1..m : got[n].scope = Top(stack)}
  <2>1. 0 + 1 = 1
    OBVIOUS
  <2> QED
    BY <1>5, <1>12, <2>1 DEF Kids
<1>14. LastNode = IF kids # {} THEN Max(kids) ELSE Top(stack)
  BY <1>2, <1>3, <1>12 DEF LastNode
<1>15. CASE nodes[m].kind = "SCOPE"
  <2>1. Top(stack) = m
    BY <1>10, <1>15
  <2>2. kids = {}
    BY <1>11, <1>13, <2>1
  <2> QED
    BY <1>1, <1>2, <1>5, <1>9, <1>14, <2>1, <2>2
<1>16. CASE nodes[m].kind # "SCOPE"
  <2>1. Top(stack) = nodes[m].scope
    BY <1>10, <1>16
  <2>2. m \in 1..m
    BY <1>9
  <2>3. m \in kids
    BY <1>7, <1>13, <2>1, <2>2
  <2>4. kids \in SUBSET (1..m) /\ kids # {}
    BY <1>13, <2>3
  <2>5. Max(kids) \in kids /\ \A j \in kids : j <= Max(kids)
    BY <1>5, <2>4, MaxOf
  <2>6. PICK x : x = Max(kids)
    OBVIOUS
  <2>7. x \in 1..m /\ m <= x
    BY <2>3, <2>4, <2>5, <2>6
  <2>8. x = m
    BY <2>7
  <2> QED
    BY <1>1, <1>2, <1>5, <1>9, <1>14, <2>4, <2>6, <2>8
<1> QED
  BY <1>15, <1>16

-----------------------------------------------------------------------------
(* The steps of the reader *)

FromFurther(from, nodes, m, stack) ==
  \E g : /\ IsFrom(g, nodes, m + 1, stack)
         /\ from[Len(stack)] = NodeTags(nodes)[m + 1] \o g[Len(stack)]

\* The next node, taken from the tags of its scope.
LEMMA FromNext ==
  ASSUME NEW nodes \in Seq(HierNode), Preorder(nodes), NEW m \in Nat, m + 1 \in 1..Len(nodes),
         NEW stack \in Seq(1..m), ScopesOpen(nodes, stack), NEW from, IsFrom(from, nodes, m, stack),
         m + 1 \in Kids(nodes, Top(stack), m), \A j \in Kids(nodes, Top(stack), m) : m + 1 <= j
  PROVE  FromFurther(from, nodes, m, stack)
<1>1. PICK d \in Nat : d = Len(stack)
  OBVIOUS
<1>2. PICK t \in 0..m : t = Top(stack)
  BY TopIs
<1>3. Kids(nodes, t, m + 1) = Kids(nodes, t, m) \ {m + 1}
  <2>1. \A n \in m + 1..Len(nodes) : n # m + 1 <=> n \in (m + 1) + 1..Len(nodes)
    OBVIOUS
  <2>2. \A n \in (m + 1) + 1..Len(nodes) : n \in m + 1..Len(nodes)
    OBVIOUS
  <2> QED
    BY <2>1, <2>2 DEF Kids
<1>4. ASSUME NEW s, s # t PROVE Kids(nodes, s, m + 1) = Kids(nodes, s, m)
  <2>1. nodes[m + 1].scope = t
    BY <1>2 DEF Kids
  <2>2. \A n \in m + 1..Len(nodes) : n = m + 1 \/ n \in (m + 1) + 1..Len(nodes)
    OBVIOUS
  <2>3. \A n \in (m + 1) + 1..Len(nodes) : n \in m + 1..Len(nodes)
    OBVIOUS
  <2> QED
    BY <1>4, <2>1, <2>2, <2>3 DEF Kids
<1>5. PICK nt \in Seq(HierTag) : nt = NodeTags(nodes)[m + 1]
  <2>1. Tagged(NodeTags(nodes), nodes, 0) /\ 0 + 1 = 1
    BY NodeTagsAre
  <2>2. NodeTags(nodes) \in [1..Len(nodes) -> Seq(HierTag)]
    BY <2>1 DEF Tagged
  <2> QED
    BY <2>2
<1>6. PICK k1 \in Seq(HierTag) : k1 = KidTags(nodes, t, m + 1)
  <2>1. m + 1 \in Nat
    OBVIOUS
  <2> QED
    BY <2>1, KidTagsType
<1>7. KidTags(nodes, t, m) = nt \o k1
  <2>1. m + 1 \in Kids(nodes, t, m) /\ \A j \in Kids(nodes, t, m) : m + 1 <= j
    BY <1>2
  <2>2. KidTags(nodes, t, m) = NodeTags(nodes)[m + 1] \o Spelled(NodeTags(nodes), Kids(nodes, t, m) \ {m + 1})
    BY <2>1, KidTagsType
  <2> QED
    BY <1>3, <1>5, <1>6, <2>2 DEF KidTags
<1>8. \A s : s # t => KidTags(nodes, s, m + 1) = KidTags(nodes, s, m)
  BY <1>4 DEF KidTags
<1>9. /\ from \in [0..d -> Seq(HierTag)] /\ from[0] = KidTags(nodes, 0, m)
      /\ \A i \in 1..d : from[i] = KidTags(nodes, stack[i], m) \o <<[tag |-> "UPSCOPE"]>> \o from[i - 1]
  BY <1>1 DEF IsFrom
<1>10. CASE d = 0
  <2>1. t = 0
    <3>1. stack = << >>
      <4>1. stack # << >> => Len(stack) \in 1..Len(stack)
        BY TopIs
      <4>2. 1..0 = {}
        OBVIOUS
      <4> QED
        BY <1>1, <1>10, <4>1, <4>2
    <3> QED
      BY <1>2, <3>1 DEF Top
  <2>2. PICK g : g = [i \in 0..0 |-> k1]
    OBVIOUS
  <2>3. IsFrom(g, nodes, m + 1, stack)
    BY <1>1, <1>6, <1>10, <2>1, <2>2 DEF IsFrom
  <2>4. from[0] = nt \o g[0]
    BY <1>7, <1>9, <2>1, <2>2
  <2> QED
    BY <1>1, <1>5, <1>10, <2>3, <2>4 DEF FromFurther
<1>11. CASE d # 0
  <2>1. d \in 1..d /\ t = stack[d] /\ t \in 1..m
    <3>1. stack # << >>
      BY <1>1, <1>11
    <3>2. Len(stack) \in 1..Len(stack) /\ Top(stack) = stack[Len(stack)]
      BY <3>1, TopIs
    <3> QED
      BY <1>1, <1>2, <3>2
  <2>2. d - 1 \in 0..d /\ from[d - 1] \in Seq(HierTag)
    BY <1>9, <2>1
  <2>3. PICK below \in Seq(HierTag) : below = from[d - 1]
    BY <2>2
  <2>4. PICK up \in Seq(HierTag) : up = <<[tag |-> "UPSCOPE"]>>
    BY UpIsTag
  <2>5. PICK top : top = k1 \o up \o below
    OBVIOUS
  <2>6. top \in Seq(HierTag)
    BY <2>5, CatThree
  <2>7. PICK g : g = [i \in 0..d |-> IF i = d THEN top ELSE from[i]]
    OBVIOUS
  <2>8. g \in [0..d -> Seq(HierTag)]
    <3>1. \A i \in 0..d : g[i] \in Seq(HierTag)
      BY <1>9, <2>6, <2>7
    <3> QED
      BY <2>7, <3>1
  <2>9. g[0] = KidTags(nodes, 0, m + 1)
    <3>1. g[0] = from[0]
      BY <1>11, <2>7
    <3>2. t # 0
      BY <2>1
    <3> QED
      BY <1>8, <1>9, <3>1, <3>2
  <2>10. ASSUME NEW i \in 1..d
         PROVE  g[i] = KidTags(nodes, stack[i], m + 1) \o <<[tag |-> "UPSCOPE"]>> \o g[i - 1]
    <3>1. i \in 0..d /\ i - 1 \in 0..d /\ i - 1 # d
      OBVIOUS
    <3>2. g[i - 1] = from[i - 1]
      BY <2>7, <3>1
    <3>3. CASE i = d
      <4>1. g[i] = top /\ g[i - 1] = below
        BY <2>3, <2>7, <3>1, <3>2, <3>3
      <4> QED
        BY <1>6, <2>1, <2>4, <2>5, <3>3, <4>1
    <3>4. CASE i # d
      <4>1. i < d /\ i \in 1..Len(stack) /\ d \in 1..Len(stack)
        BY <1>1, <2>1, <3>4
      <4>2. stack[i] < stack[d]
        BY <4>1 DEF ScopesOpen
      <4>3. stack[i] # t
        <5>1. stack[i] \in Nat
          BY <4>1
        <5> QED
          BY <2>1, <4>2, <5>1
      <4>4. g[i] = from[i]
        BY <2>7, <3>1, <3>4
      <4> QED
        BY <1>8, <1>9, <3>2, <4>3, <4>4
    <3> QED
      BY <3>3, <3>4
  <2>11. IsFrom(g, nodes, m + 1, stack)
    BY <1>1, <2>8, <2>9, <2>10 DEF IsFrom
  <2>12. from[d] = (nt \o k1) \o up \o below
    BY <1>7, <1>9, <2>1, <2>3, <2>4
  <2>13. (nt \o k1) \o up \o below = nt \o top
    <3>1. PICK nk : nk = nt \o k1
      OBVIOUS
    <3>2. PICK ku : ku = k1 \o up
      OBVIOUS
    <3>3. ku \in Seq(HierTag) /\ nk \in Seq(HierTag)
      BY <3>1, <3>2
    <3>4. nk \o up = nt \o ku
      <4>1. (nt \o k1) \o up = nt \o (k1 \o up)
        OBVIOUS
      <4> QED
        BY <3>1, <3>2, <4>1
    <3>5. (nt \o ku) \o below = nt \o (ku \o below)
      BY <3>3
    <3> QED
      BY <2>5, <3>1, <3>2, <3>4, <3>5
  <2>14. g[d] = top
    <3>1. d \in 0..d
      OBVIOUS
    <3> QED
      BY <2>7, <3>1
  <2> QED
    BY <1>1, <1>5, <2>11, <2>12, <2>13, <2>14 DEF FromFurther
<1> QED
  BY <1>10, <1>11

\* The tags of a node, with the first one apart.
LEMMA NodeTagsFirst ==
  ASSUME NEW nodes \in Seq(HierNode), Preorder(nodes), NEW n \in 1..Len(nodes), NEW more \in Seq(HierTag)
  PROVE  \E a \in Seq(HierTag), k \in Seq(HierTag), u \in Seq(HierTag) :
           /\ a = AttrTags(nodes[n]) /\ k = KidTags(nodes, n, 0) /\ u = UpTags(nodes[n])
           /\ NodeTag(nodes[n]) \in HierTag
           /\ NodeTags(nodes)[n] \o more = <<NodeTag(nodes[n])>> \o (a \o (k \o u \o more))
<1>1. nodes[n] \in HierNode
  OBVIOUS
<1>2. PICK node \in HierNode : node = nodes[n]
  BY <1>1
<1>3. NodeTag(node) \in HierTag
  BY DEF NodeTag, HierNode, HierTag
<1>4. AttrTags(node) \in Seq(HierTag)
  <2>1. node.attrs \in Seq(HierAttrs) /\ node.typed \in Seq(HierAttrs)
    BY DEF HierNode
  <2> QED
    BY <2>1, AttrTagsType
<1>5. KidTags(nodes, n, 0) \in Seq(HierTag)
  BY KidTagsType
<1>6. UpTags(node) \in Seq(HierTag)
  BY UpIsTag DEF UpTags
<1>7. PICK R : R = HierTag
  OBVIOUS
<1>8. PICK x \in R : x = NodeTag(node)
  BY <1>3, <1>7
<1>9. PICK a \in Seq(R) : a = AttrTags(node)
  BY <1>4, <1>7
<1>10. PICK k \in Seq(R) : k = KidTags(nodes, n, 0)
  BY <1>5, <1>7
<1>11. PICK u \in Seq(R) : u = UpTags(node)
  BY <1>6, <1>7
<1>12. NodeTags(nodes)[n] = <<x>> \o a \o k \o u
  <2>1. Tagged(NodeTags(nodes), nodes, 0) /\ 0 + 1 = 1
    BY NodeTagsAre
  <2>2. NodeTags(nodes)[n] = TagsOf(NodeTags(nodes), nodes, n)
    BY <2>1 DEF Tagged
  <2> QED
    BY <1>2, <1>8, <1>9, <1>10, <1>11, <2>2 DEF TagsOf, KidTags
<1>13. PICK w \in Seq(R) : w = more
  BY <1>7
<1>14. (<<x>> \o a \o k \o u) \o w = <<x>> \o (a \o (k \o u \o w))
  <2>1. PICK p : p = <<x>>
    OBVIOUS
  <2>2. p \in Seq(R)
    BY <2>1
  <2>3. PICK ku : ku = k \o u
    OBVIOUS
  <2>4. PICK pa : pa = p \o a
    OBVIOUS
  <2>5. ku \in Seq(R) /\ pa \in Seq(R)
    BY <2>2, <2>3, <2>4
  <2>6. (pa \o k) \o u = pa \o ku
    <3>1. (pa \o k) \o u = pa \o (k \o u)
      <4>1. PICK q \in Seq(R) : q = pa
        BY <2>5
      <4>2. (q \o k) \o u = q \o (k \o u)
        OBVIOUS
      <4> QED
        BY <4>1, <4>2
    <3> QED
      BY <2>3, <3>1
  <2>7. (pa \o ku) \o w = pa \o (ku \o w)
    BY <2>5
  <2>8. PICK kuw : kuw = ku \o w
    OBVIOUS
  <2>9. kuw \in Seq(R)
    BY <2>5, <2>8
  <2>10. (p \o a) \o kuw = p \o (a \o kuw)
    BY <2>2, <2>9
  <2> QED
    BY <2>1, <2>3, <2>4, <2>6, <2>7, <2>8, <2>10
<1> QED
  BY <1>2, <1>7, <1>8, <1>9, <1>10, <1>11, <1>12, <1>13, <1>14

\* A node as the reader makes it.
Fresh(node) == [node EXCEPT !.attrs = << >>, !.typed = << >>]

ReadFurther(nodes, more, m) ==
  /\ NodesRead(nodes, more) /\ Len(more) = m + 1
  /\ AttrsLeft(nodes, more) = [attrs |-> nodes[m + 1].attrs, typed |-> nodes[m + 1].typed]

\* A node more, without its attributes, is still a beginning of the tree.
LEMMA NodesReadFurther ==
  ASSUME NEW nodes \in Seq(HierNode), NEW got, NodesRead(nodes, got), NEW m \in Nat, m = Len(got),
         m + 1 \in 1..Len(nodes),
         m # 0 => got[m] = nodes[m],
         NEW more, more = Append(got, Fresh(nodes[m + 1]))
  PROVE  ReadFurther(nodes, more, m)
<1>1. got \in Seq(HierNode) /\ \A n \in 1..m - 1 : got[n] = nodes[n]
  BY DEF NodesRead
<1>2. PICK node \in HierNode : node = nodes[m + 1]
  OBVIOUS
<1>3. PICK f : f = Fresh(node)
  OBVIOUS
<1>4. node = [kind |-> node.kind, name |-> node.name, scope |-> node.scope, attrs |-> node.attrs,
              typed |-> node.typed, id |-> node.id]
  BY DEF HierNode
<1>5. f = [kind |-> node.kind, name |-> node.name, scope |-> node.scope, attrs |-> << >>,
           typed |-> << >>, id |-> node.id]
  BY <1>3, <1>4 DEF Fresh
<1>6. f \in HierNode
  <2>1. /\ node.kind \in HierKinds /\ node.name \in HierNames /\ node.scope \in Nat /\ node.id \in Nat
        /\ << >> \in Seq(HierAttrs)
    BY DEF HierNode
  <2> QED
    BY <1>5, <2>1 DEF HierNode
<1>7. /\ more \in Seq(HierNode) /\ Len(more) = m + 1 /\ more[m + 1] = f
      /\ \A n \in 1..m : more[n] = got[n]
  BY <1>1, <1>2, <1>3, <1>6
<1>8. \A n \in 1..m : more[n] = nodes[n]
  <2> TAKE n \in 1..m
  <2>1. n = m \/ n \in 1..m - 1
    OBVIOUS
  <2> QED
    BY <1>1, <1>7, <2>1
<1>9. more # << >> /\ (m + 1) - 1 = m /\ m + 1 <= Len(nodes)
  BY <1>7
<1>10. node.attrs \in Seq(HierAttrs) /\ node.typed \in Seq(HierAttrs)
  BY DEF HierNode
<1>11. /\ Left(node.attrs, << >>) = node.attrs /\ node.attrs = << >> \o Left(node.attrs, << >>)
       /\ Left(node.typed, << >>) = node.typed /\ node.typed = << >> \o Left(node.typed, << >>)
  BY <1>10, LeftOfNone
<1>12. f.attrs = << >> /\ f.typed = << >>
  BY <1>5
<1>13. f = [node EXCEPT !.attrs = f.attrs, !.typed = f.typed]
  BY <1>3, <1>12 DEF Fresh
<1>14. NodesRead(nodes, more)
  BY <1>2, <1>7, <1>8, <1>9, <1>11, <1>12, <1>13 DEF NodesRead
<1>15. AttrsLeft(nodes, more) = [attrs |-> node.attrs, typed |-> node.typed]
  BY <1>2, <1>7, <1>11, <1>12 DEF AttrsLeft
<1> QED
  BY <1>2, <1>7, <1>14, <1>15 DEF ReadFurther

\* When no attribute is left, the last node is all there.
LEMMA AllAttrsRead ==
  ASSUME NEW nodes \in Seq(HierNode), NEW got, NodesRead(nodes, got), NEW m \in Nat, m = Len(got),
         AttrsLeft(nodes, got) = [attrs |-> << >>, typed |-> << >>]
  PROVE  (m # 0 => got[m] = nodes[m]) /\ \A n \in 1..m : got[n] = nodes[n]
<1>1. ASSUME m # 0 PROVE got[m] = nodes[m]
  <2>1. got \in Seq(HierNode) /\ m <= Len(nodes)
    BY DEF NodesRead
  <2>2. got # << >>
    BY <1>1, <2>1
  <2>3. PICK node : node = nodes[m]
    OBVIOUS
  <2>4. PICK g : g = got[m]
    OBVIOUS
  <2>5. node \in HierNode /\ g \in HierNode
    BY <1>1, <2>1, <2>3, <2>4
  <2>6. /\ g = [node EXCEPT !.attrs = g.attrs, !.typed = g.typed]
        /\ node.attrs = g.attrs \o Left(node.attrs, g.attrs)
        /\ node.typed = g.typed \o Left(node.typed, g.typed)
    BY <2>2, <2>3, <2>4 DEF NodesRead
  <2>7. Left(node.attrs, g.attrs) = << >> /\ Left(node.typed, g.typed) = << >>
    BY <1>1, <2>3, <2>4 DEF AttrsLeft
  <2>8. g.attrs \in Seq(HierAttrs) /\ g.typed \in Seq(HierAttrs)
    BY <2>5 DEF HierNode
  <2>9. g.attrs \o << >> = g.attrs /\ g.typed \o << >> = g.typed
    BY <2>8
  <2>10. node.attrs = g.attrs /\ node.typed = g.typed
    BY <2>6, <2>7, <2>9
  <2>11. g = [node EXCEPT !.attrs = node.attrs, !.typed = node.typed]
    BY <2>6, <2>10
  <2>12. node = [kind |-> node.kind, name |-> node.name, scope |-> node.scope, attrs |-> node.attrs,
                 typed |-> node.typed, id |-> node.id]
    BY <2>5 DEF HierNode
  <2>13. [node EXCEPT !.attrs = node.attrs, !.typed = node.typed] = node
    BY <2>12
  <2> QED
    BY <2>3, <2>4, <2>11, <2>13
<1>2. ASSUME NEW n \in 1..m PROVE got[n] = nodes[n]
  <2>1. n \in 1..m - 1 => got[n] = nodes[n]
    BY DEF NodesRead
  <2>2. n \in 1..m - 1 \/ n = m
    OBVIOUS
  <2> QED
    BY <1>1, <2>1, <2>2
<1> QED
  BY <1>1, <1>2

\* Where the reader is, without the attributes of the last node.
ReadingNodes(nodes, got, stack) ==
  /\ NodesRead(nodes, got)
  /\ stack \in Seq(1..Len(got)) /\ ScopesOpen(nodes, stack)
  /\ \A n \in Len(got) + 1..Len(nodes) :
       nodes[n].scope \in {0} \cup {stack[i] : i \in 1..Len(stack)} \cup Len(got) + 1..Len(nodes)

NoAttrs == [attrs |-> << >>, typed |-> << >>]

\* No attributes, no tags.
LEMMA AttrTagsOfNone == AttrTags(NoAttrs) = << >>
<1>1. [k \in 1..Len(<< >>) |-> [tag |-> "ATTR", attr |-> << >>[k]]] = << >>
  OBVIOUS
<1>2. [k \in 1..Len(<< >>) |-> [tag |-> "ATTR2", attr |-> << >>[k]]] = << >>
  OBVIOUS
<1>3. << >> \o << >> = << >>
  OBVIOUS
<1>4. NoAttrs.attrs = << >> /\ NoAttrs.typed = << >>
  BY DEF NoAttrs
<1>5. AttrTags(NoAttrs) = [k \in 1..Len(<< >>) |-> [tag |-> "ATTR", attr |-> << >>[k]]] \o
                          [k \in 1..Len(<< >>) |-> [tag |-> "ATTR2", attr |-> << >>[k]]]
  BY <1>4 DEF AttrTags
<1> QED
  BY <1>1, <1>2, <1>3, <1>5

ScopeEntered(nodes, m, stack, t) ==
  /\ t \in Seq(1..m + 1) /\ ScopesOpen(nodes, t)
  /\ Len(t) = Len(stack) + 1 /\ t[Len(stack) + 1] = m + 1
  /\ \A i \in 1..Len(stack) : t[i] = stack[i]

\* A scope just declared may be entered.
LEMMA StackPushed ==
  ASSUME NEW nodes, Len(nodes) \in Nat, NEW m \in Nat, m + 1 \in 1..Len(nodes),
         NEW stack \in Seq(1..m), ScopesOpen(nodes, stack), nodes[m + 1].kind = "SCOPE",
         NEW t, t = Append(stack, m + 1)
  PROVE  ScopeEntered(nodes, m, stack, t)
<1>1. PICK d \in Nat : d = Len(stack)
  OBVIOUS
<1>2. \A i \in 1..d : stack[i] \in 1..m
  BY <1>1
<1>3. /\ t \in Seq(1..m + 1) /\ Len(t) = d + 1 /\ t[d + 1] = m + 1
      /\ \A i \in 1..d : t[i] = stack[i]
  <2>1. stack \in Seq(1..m + 1)
    BY <1>1, <1>2
  <2> QED
    BY <1>1, <2>1
<1>4. \A i \in 1..d + 1 : i \in 1..d \/ i = d + 1
  OBVIOUS
<1>5. t \in Seq(1..Len(nodes))
  <2>1. \A i \in 1..d + 1 : t[i] \in 1..Len(nodes)
    BY <1>3
  <2>2. t = [i \in 1..d + 1 |-> t[i]]
    BY <1>3
  <2> QED
    BY <2>1, <2>2
<1>6. \A i \in 1..d + 1 : nodes[t[i]].kind = "SCOPE"
  BY <1>1, <1>3, <1>4 DEF ScopesOpen
<1>7. \A i, j \in 1..d + 1 : i < j => t[i] < t[j]
  <2> TAKE i, j \in 1..d + 1
  <2> HAVE i < j
  <2>1. i \in 1..d
    OBVIOUS
  <2>2. CASE j \in 1..d
    BY <1>1, <1>3, <2>1, <2>2 DEF ScopesOpen
  <2>3. CASE j = d + 1
    <3>1. t[i] \in 1..m
      BY <1>2, <1>3, <2>1
    <3> QED
      BY <1>3, <2>3, <3>1
  <2> QED
    BY <1>4, <2>2, <2>3
<1>8. ScopesOpen(nodes, t)
  BY <1>3, <1>5, <1>6, <1>7 DEF ScopesOpen
<1> QED
  BY <1>1, <1>3, <1>8 DEF ScopeEntered

\* The reader takes a node.
LEMMA ReadNodeStep ==
  ASSUME NEW nodes \in Seq(HierNode), Preorder(nodes), NEW got, NEW stack, NEW tags,
         Reading(nodes, got, stack, tags), AttrsLeft(nodes, got) = NoAttrs,
         Kids(nodes, Top(stack), Len(got)) # {},
         NEW n, n = Len(got) + 1
  PROVE  /\ n \in 1..Len(nodes) /\ nodes[n].scope = Top(stack)
         /\ tags # << >> /\ Head(tags) = NodeTag(nodes[n])
         /\ Reading(nodes, Append(got, Fresh(nodes[n])),
                    IF nodes[n].kind = "SCOPE" THEN Append(stack, n) ELSE stack, Tail(tags))
<1>1. NodesRead(nodes, got) /\ ScopesOpen(nodes, stack)
  BY DEF Reading
<1>2. PICK m \in Nat : m = Len(got)
  BY <1>1, ReadScopes
<1>3. /\ m <= Len(nodes) /\ stack \in Seq(1..m) /\ n = m + 1
      /\ \A k \in m + 1..Len(nodes) :
           nodes[k].scope \in {0} \cup {stack[i] : i \in 1..Len(stack)} \cup m + 1..Len(nodes)
  BY <1>1, <1>2, ReadScopes DEF Reading
<1>4. Len(nodes) \in Nat
  OBVIOUS
<1>5. /\ n \in 1..Len(nodes) /\ nodes[n].scope = Top(stack)
      /\ n \in Kids(nodes, Top(stack), m) /\ \A j \in Kids(nodes, Top(stack), m) : n <= j
  <2>1. Kids(nodes, Top(stack), m) # {}
    BY <1>2
  <2>2. m <= Len(nodes) /\ stack \in Seq(1..m)
    BY <1>3
  <2>3. \A k \in m + 1..Len(nodes) :
          nodes[k].scope \in {0} \cup {stack[i] : i \in 1..Len(stack)} \cup m + 1..Len(nodes)
    BY <1>3
  <2>4. ScopesOpen(nodes, stack)
    BY <1>1
  <2>5. NextAt(nodes, m, Top(stack))
    BY <1>2, <2>1, <2>2, <2>3, <2>4, NextKid
  <2> QED
    BY <1>3, <2>5 DEF NextAt
<1>6. PICK more : more = Append(got, Fresh(nodes[n]))
  OBVIOUS
<1>7. m # 0 => got[m] = nodes[m]
  BY <1>1, <1>2, AllAttrsRead DEF NoAttrs
<1>8. /\ NodesRead(nodes, more) /\ Len(more) = n
      /\ AttrsLeft(nodes, more) = [attrs |-> nodes[n].attrs, typed |-> nodes[n].typed]
  <2>1. m + 1 \in 1..Len(nodes) /\ more = Append(got, Fresh(nodes[m + 1]))
    BY <1>3, <1>5, <1>6
  <2>2. NodesRead(nodes, got)
    BY <1>1
  <2>3. ReadFurther(nodes, more, m)
    BY <1>2, <1>7, <2>1, <2>2, NodesReadFurther
  <2> QED
    BY <1>3, <2>3 DEF ReadFurther
<1>9. stack \in Seq(Nat)
  BY <1>3
<1>10. PICK from : IsFrom(from, nodes, m, stack)
  BY <1>9, FromExists
<1>11. PICK d \in Nat : d = Len(stack)
  BY <1>3
<1>12. tags = from[d]
  <2>1. tags = AttrTags(NoAttrs) \o TagsLeft(nodes, m, stack)
    BY <1>2 DEF Reading
  <2>2. TagsLeft(nodes, m, stack) = from[d]
    BY <1>9, <1>10, <1>11, TagsLeftIs
  <2>3. from[d] \in Seq(HierTag)
    <3>1. d \in 0..d
      OBVIOUS
    <3> QED
      BY <1>10, <1>11, <3>1 DEF IsFrom
  <2>4. << >> \o from[d] = from[d]
    BY <2>3, CatNone
  <2> QED
    BY <2>1, <2>2, <2>4, AttrTagsOfNone
<1>13. PICK g : IsFrom(g, nodes, n, stack) /\ from[d] = NodeTags(nodes)[n] \o g[d]
  <2>1. /\ m + 1 \in 1..Len(nodes) /\ m + 1 \in Kids(nodes, Top(stack), m)
        /\ \A j \in Kids(nodes, Top(stack), m) : m + 1 <= j
    BY <1>3, <1>5
  <2>2. stack \in Seq(1..m)
    BY <1>3
  <2>3. ScopesOpen(nodes, stack)
    BY <1>1
  <2>4. IsFrom(from, nodes, m, stack)
    BY <1>10
  <2>5. FromFurther(from, nodes, m, stack)
    BY <1>2, <2>1, <2>2, <2>3, <2>4, FromNext
  <2>6. n = m + 1
    BY <1>3
  <2> QED
    BY <1>11, <2>5, <2>6 DEF FromFurther
<1>14. PICK rest \in Seq(HierTag) : rest = g[d]
  <2>1. d \in 0..d
    OBVIOUS
  <2> QED
    BY <1>11, <1>13, <2>1 DEF IsFrom
<1>15. PICK a \in Seq(HierTag), k \in Seq(HierTag), u \in Seq(HierTag) :
         /\ a = AttrTags(nodes[n]) /\ k = KidTags(nodes, n, 0) /\ u = UpTags(nodes[n])
         /\ NodeTag(nodes[n]) \in HierTag
         /\ NodeTags(nodes)[n] \o rest = <<NodeTag(nodes[n])>> \o (a \o (k \o u \o rest))
  BY <1>5, NodeTagsFirst
<1>16. k \o u \o rest \in Seq(HierTag)
  BY CatThree
<1>17. PICK kur \in Seq(HierTag) : kur = k \o u \o rest
  BY <1>16
<1>18. a \o kur \in Seq(HierTag)
  OBVIOUS
<1>19. tags = <<NodeTag(nodes[n])>> \o (a \o kur)
  BY <1>12, <1>13, <1>14, <1>15, <1>17
<1>20. tags # << >> /\ Head(tags) = NodeTag(nodes[n]) /\ Tail(tags) = a \o kur
  <2>1. PICK x \in HierTag : x = NodeTag(nodes[n])
    BY <1>15
  <2>2. PICK r \in Seq(HierTag) : r = a \o kur
    BY <1>18
  <2>3. tags = <<x>> \o r
    BY <1>19, <2>1, <2>2
  <2>4. tags # << >> /\ Head(tags) = x /\ Tail(tags) = r
    BY <2>3, HeadOfCat
  <2> QED
    BY <2>1, <2>2, <2>4
<1>21. AttrTags(AttrsLeft(nodes, more)) = a
  <2>1. PICK left : left = AttrsLeft(nodes, more)
    OBVIOUS
  <2>2. left.attrs = nodes[n].attrs /\ left.typed = nodes[n].typed
    BY <1>8, <2>1
  <2>3. AttrTags(left) = AttrTags(nodes[n])
    BY <2>2 DEF AttrTags
  <2> QED
    BY <1>15, <2>1, <2>3
<1>22. n \in Nat /\ stack \in Seq(1..n)
  <2>1. \A i \in 1..d : stack[i] \in 1..n
    BY <1>3, <1>11
  <2>2. stack = [i \in 1..d |-> stack[i]]
    BY <1>3, <1>11
  <2> QED
    BY <1>3, <2>1, <2>2
<1>23. \A j \in n + 1..Len(nodes) : j \in m + 1..Len(nodes) /\ j \in 1..Len(nodes)
  BY <1>3
<1>24. \A j \in n + 1..Len(nodes) :
         \/ nodes[j].scope \in {0} \cup {stack[i] : i \in 1..Len(stack)} \cup n + 1..Len(nodes)
         \/ nodes[j].scope = n
  <2> TAKE j \in n + 1..Len(nodes)
  <2>1. nodes[j].scope \in {0} \cup {stack[i] : i \in 1..Len(stack)} \cup m + 1..Len(nodes)
    BY <1>3, <1>23
  <2>2. nodes[j].scope \in m + 1..Len(nodes) => nodes[j].scope = n \/ nodes[j].scope \in n + 1..Len(nodes)
    BY <1>3
  <2> QED
    BY <2>1, <2>2
<1>25. CASE nodes[n].kind = "SCOPE"
  <2>1. PICK t : t = Append(stack, n)
    OBVIOUS
  <2>2. /\ t \in Seq(1..n) /\ ScopesOpen(nodes, t) /\ Len(t) = d + 1 /\ t[d + 1] = n
        /\ \A i \in 1..d : t[i] = stack[i]
    <3>1. m + 1 \in 1..Len(nodes) /\ nodes[m + 1].kind = "SCOPE" /\ t = Append(stack, m + 1)
      BY <1>3, <1>5, <1>25, <2>1
    <3>2. stack \in Seq(1..m) /\ ScopesOpen(nodes, stack)
      BY <1>1, <1>3
    <3>3. ScopeEntered(nodes, m, stack, t)
      BY <1>2, <1>4, <3>1, <3>2, StackPushed
    <3> QED
      BY <1>3, <1>11, <3>3 DEF ScopeEntered
  <2>3. PICK f : Pushed(f, g, nodes, n, n, d)
    BY DEF Pushed
  <2>4. IsFrom(f, nodes, n, t)
    BY <1>11, <1>13, <1>22, <2>2, <2>3, FromPushed
  <2>5. t \in Seq(Nat)
    BY <1>22, <2>2
  <2>6. TagsLeft(nodes, n, t) = f[d + 1]
    BY <1>22, <2>2, <2>4, <2>5, TagsLeftIs
  <2>7. f[d + 1] = KidTags(nodes, n, n) \o <<[tag |-> "UPSCOPE"]>> \o g[d]
    <3>1. d + 1 \in 0..d + 1
      OBVIOUS
    <3> QED
      BY <2>3, <3>1 DEF Pushed
  <2>8. KidTags(nodes, n, n) = k
    <3>1. Kids(nodes, n, n) = Kids(nodes, n, 0)
      <4>1. Kids(nodes, n, 0) \subseteq n + 1..Len(nodes)
        BY <1>4, <1>5, KidsLater
      <4>2. \A j \in n + 1..Len(nodes) : j \in 0 + 1..Len(nodes)
        BY <1>22
      <4> QED
        BY <4>1, <4>2 DEF Kids
    <3> QED
      BY <1>15, <3>1 DEF KidTags
  <2>9. u = <<[tag |-> "UPSCOPE"]>>
    BY <1>15, <1>25 DEF UpTags
  <2>10. Tail(tags) = AttrTags(AttrsLeft(nodes, more)) \o TagsLeft(nodes, n, t)
    BY <1>14, <1>17, <1>20, <1>21, <2>6, <2>7, <2>8, <2>9
  <2>11. Top(t) = n
    <3>1. t # << >> /\ Len(t) = d + 1
      BY <2>2
    <3> QED
      BY <2>2, <3>1 DEF Top
  <2>12. \A j \in n + 1..Len(nodes) :
           nodes[j].scope \in {0} \cup {t[i] : i \in 1..Len(t)} \cup n + 1..Len(nodes)
    <3>1. {stack[i] : i \in 1..Len(stack)} \subseteq {t[i] : i \in 1..Len(t)}
      BY <1>11, <2>2
    <3>2. n \in {t[i] : i \in 1..Len(t)}
      <4>1. d + 1 \in 1..Len(t)
        BY <2>2
      <4> QED
        BY <2>2, <4>1
    <3> QED
      BY <1>24, <3>1, <3>2
  <2>13. Reading(nodes, more, t, Tail(tags))
    BY <1>8, <1>25, <2>2, <2>10, <2>11, <2>12 DEF Reading
  <2> QED
    BY <1>5, <1>6, <1>20, <1>25, <2>1, <2>13
<1>26. CASE nodes[n].kind # "SCOPE"
  <2>1. Kids(nodes, n, 0) = {}
    <3>1. \A j \in 1..Len(nodes) : nodes[j].scope # 0 => nodes[nodes[j].scope].kind = "SCOPE"
      BY DEF Preorder
    <3>2. n # 0
      BY <1>5
    <3> QED
      BY <1>26, <3>1, <3>2 DEF Kids
  <2>2. k = << >> /\ u = << >>
    BY <1>15, <1>26, <2>1, KidTagsType DEF UpTags
  <2>3. kur = rest
    <3>1. << >> \o << >> = << >>
      OBVIOUS
    <3>2. << >> \o rest = rest
      BY CatNone
    <3> QED
      BY <1>17, <2>2, <3>1, <3>2
  <2>4. TagsLeft(nodes, n, stack) = rest
    BY <1>9, <1>11, <1>13, <1>14, <1>22, TagsLeftIs
  <2>5. Tail(tags) = AttrTags(AttrsLeft(nodes, more)) \o TagsLeft(nodes, n, stack)
    BY <1>20, <1>21, <2>3, <2>4
  <2>6. \A j \in n + 1..Len(nodes) :
          nodes[j].scope \in {0} \cup {stack[i] : i \in 1..Len(stack)} \cup n + 1..Len(nodes)
    <3>1. \A j \in n + 1..Len(nodes) : nodes[j].scope # n
      <4>1. \A j \in 1..Len(nodes) : nodes[j].scope # 0 => nodes[nodes[j].scope].kind = "SCOPE"
        BY DEF Preorder
      <4>2. n # 0
        BY <1>5
      <4> QED
        BY <1>23, <1>26, <4>1, <4>2
    <3> QED
      BY <1>24, <3>1
  <2>7. Reading(nodes, more, stack, Tail(tags))
    <3>1. Top(stack) = IF nodes[n].kind = "SCOPE" THEN n ELSE nodes[n].scope
      BY <1>5, <1>26
    <3> QED
      BY <1>1, <1>8, <1>22, <2>5, <2>6, <3>1 DEF Reading
  <2> QED
    BY <1>5, <1>6, <1>20, <1>26, <2>7
<1> QED
  BY <1>25, <1>26

\* An attribute read, of either kind.
AttrTaken(nodes, more, m, left) ==
  /\ NodesRead(nodes, more) /\ Len(more) = m /\ AttrsLeft(nodes, more) = left

LastAsRead(nodes, got, m) ==
  /\ got \in Seq(HierNode) /\ got # << >> /\ m \in 1..Len(nodes)
  /\ nodes[m] \in HierNode /\ got[m] \in HierNode
  /\ got[m] = [nodes[m] EXCEPT !.attrs = got[m].attrs, !.typed = got[m].typed]
  /\ nodes[m].attrs = got[m].attrs \o Left(nodes[m].attrs, got[m].attrs)
  /\ nodes[m].typed = got[m].typed \o Left(nodes[m].typed, got[m].typed)

\* The last node read is the tree's, but for the attributes that are left.
LEMMA LastRead ==
  ASSUME NEW nodes \in Seq(HierNode), NEW got, NodesRead(nodes, got), NEW m \in Nat, m = Len(got), m # 0
  PROVE  LastAsRead(nodes, got, m)
<1>1. got \in Seq(HierNode) /\ m <= Len(nodes)
  BY DEF NodesRead
<1>2. Len(nodes) \in Nat
  OBVIOUS
<1>3. got # << >> /\ m \in 1..Len(nodes) /\ m \in 1..Len(got)
  BY <1>1, <1>2
<1>4. nodes[m] \in HierNode /\ got[m] \in HierNode
  BY <1>1, <1>3
<1> QED
  BY <1>1, <1>3, <1>4 DEF NodesRead, LastAsRead

\* One of the two lists of the last node further on.
LEMMA LastReadFurther ==
  ASSUME NEW nodes \in Seq(HierNode), NEW got, NodesRead(nodes, got), NEW m \in Nat, m = Len(got), m # 0,
         NEW attrs \in Seq(HierAttrs), NEW typed \in Seq(HierAttrs),
         nodes[m].attrs = attrs \o Left(nodes[m].attrs, attrs),
         nodes[m].typed = typed \o Left(nodes[m].typed, typed),
         NEW last, last = [got[m] EXCEPT !.attrs = attrs, !.typed = typed],
         NEW more, more = [got EXCEPT ![m] = last]
  PROVE  AttrTaken(nodes, more, m,
           [attrs |-> Left(nodes[m].attrs, attrs), typed |-> Left(nodes[m].typed, typed)])
<1>1. /\ got \in Seq(HierNode) /\ got # << >> /\ m \in 1..Len(nodes)
      /\ nodes[m] \in HierNode /\ got[m] \in HierNode
      /\ got[m] = [nodes[m] EXCEPT !.attrs = got[m].attrs, !.typed = got[m].typed]
  <2>1. LastAsRead(nodes, got, m)
    BY LastRead
  <2> QED
    BY <2>1 DEF LastAsRead
<1>2. PICK node \in HierNode : node = nodes[m]
  BY <1>1
<1>3. PICK g \in HierNode : g = got[m]
  BY <1>1
<1>4. node = [kind |-> node.kind, name |-> node.name, scope |-> node.scope, attrs |-> node.attrs,
              typed |-> node.typed, id |-> node.id]
  BY DEF HierNode
<1>5. g = [kind |-> node.kind, name |-> node.name, scope |-> node.scope, attrs |-> g.attrs,
           typed |-> g.typed, id |-> node.id]
  <2>1. g = [node EXCEPT !.attrs = g.attrs, !.typed = g.typed]
    BY <1>1, <1>2, <1>3
  <2> QED
    BY <1>4, <2>1
<1>6. last = [kind |-> node.kind, name |-> node.name, scope |-> node.scope, attrs |-> attrs,
              typed |-> typed, id |-> node.id]
  <2>1. last = [g EXCEPT !.attrs = attrs, !.typed = typed]
    BY <1>3
  <2>2. PICK kind, name, scope, id, ga, gt :
          g = [kind |-> kind, name |-> name, scope |-> scope, attrs |-> ga, typed |-> gt, id |-> id]
          /\ kind = node.kind /\ name = node.name /\ scope = node.scope /\ id = node.id
    BY <1>5
  <2>3. last = [kind |-> kind, name |-> name, scope |-> scope, attrs |-> attrs, typed |-> typed, id |-> id]
    BY <2>1, <2>2
  <2> QED
    BY <2>2, <2>3
<1>7. last = [node EXCEPT !.attrs = attrs, !.typed = typed] /\ last.attrs = attrs /\ last.typed = typed
  <2>1. PICK kind, name, scope, id, na, nt :
          node = [kind |-> kind, name |-> name, scope |-> scope, attrs |-> na, typed |-> nt, id |-> id]
          /\ kind = node.kind /\ name = node.name /\ scope = node.scope /\ id = node.id
    BY <1>4
  <2>2. node = [kind |-> kind, name |-> name, scope |-> scope, attrs |-> na, typed |-> nt, id |-> id]
    BY <2>1
  <2>3. PICK x : x = [node EXCEPT !.attrs = attrs, !.typed = typed]
    OBVIOUS
  <2>4. x = [kind |-> kind, name |-> name, scope |-> scope, attrs |-> attrs, typed |-> typed, id |-> id]
    BY <2>2, <2>3
  <2>5. last = [kind |-> kind, name |-> name, scope |-> scope, attrs |-> attrs, typed |-> typed, id |-> id]
    BY <1>6, <2>1
  <2> QED
    BY <2>3, <2>4, <2>5
<1>8. last \in HierNode
  <2>1. node.kind \in HierKinds /\ node.name \in HierNames /\ node.scope \in Nat /\ node.id \in Nat
    BY DEF HierNode
  <2>2. PICK kind \in HierKinds, name \in HierNames, scope \in Nat, id \in Nat :
          kind = node.kind /\ name = node.name /\ scope = node.scope /\ id = node.id
    BY <2>1
  <2>3. last = [kind |-> kind, name |-> name, scope |-> scope, attrs |-> attrs, typed |-> typed, id |-> id]
    BY <1>6, <2>2
  <2> QED
    <3>1. attrs \in Seq(HierAttrs) /\ typed \in Seq(HierAttrs)
      OBVIOUS
    <3>2. [kind |-> kind, name |-> name, scope |-> scope, attrs |-> attrs, typed |-> typed, id |-> id]
            \in HierNode
      BY <2>2, <3>1 DEF HierNode
    <3> QED
      BY <2>3, <3>2
<1>9. m \in 1..Len(got)
  BY <1>1
<1>10. /\ more \in Seq(HierNode) /\ Len(more) = m /\ more[m] = last
       /\ \A n \in 1..m - 1 : more[n] = got[n]
  <2>1. \A n \in 1..m : n \in DOMAIN got
    BY <1>1
  <2>2. more \in Seq(HierNode) /\ Len(more) = m
    BY <1>1, <1>8, <1>9
  <2>3. DOMAIN got = 1..m
    BY <1>1
  <2>4. more[m] = last
    BY <1>9, <2>3
  <2>5. \A n \in 1..m - 1 : n \in 1..m /\ n # m
    OBVIOUS
  <2>6. \A n \in 1..m : n # m => more[n] = got[n]
    BY <2>3
  <2> QED
    BY <2>2, <2>4, <2>5, <2>6
<1>11. \A n \in 1..m - 1 : got[n] = nodes[n]
  BY DEF NodesRead
<1>12. m <= Len(nodes) /\ more # << >>
  BY <1>1, <1>10
<1>13. /\ node.attrs = attrs \o Left(node.attrs, attrs)
       /\ node.typed = typed \o Left(node.typed, typed)
  BY <1>2
<1>14. NodesRead(nodes, more)
  <2>1. \A n \in 1..Len(more) - 1 : more[n] = nodes[n]
    BY <1>10, <1>11
  <2>2. /\ more[m] = [nodes[m] EXCEPT !.attrs = more[m].attrs, !.typed = more[m].typed]
        /\ nodes[m].attrs = more[m].attrs \o Left(nodes[m].attrs, more[m].attrs)
        /\ nodes[m].typed = more[m].typed \o Left(nodes[m].typed, more[m].typed)
    BY <1>2, <1>7, <1>10, <1>13
  <2> QED
    BY <1>10, <1>12, <2>1, <2>2 DEF NodesRead
<1>15. AttrsLeft(nodes, more) = [attrs |-> Left(nodes[m].attrs, attrs), typed |-> Left(nodes[m].typed, typed)]
  BY <1>7, <1>10 DEF AttrsLeft
<1> QED
  BY <1>10, <1>14, <1>15 DEF AttrTaken

\* A first entry stays first when more is put after it.
LEMMA CatFirst ==
  ASSUME NEW R, NEW x \in R, NEW r \in Seq(R), NEW rest \in Seq(R)
  PROVE  (<<x>> \o r) \o rest = <<x>> \o (r \o rest) /\ r \o rest \in Seq(R)
<1>0. <<x>> \in Seq(R)
  OBVIOUS
<1>1. PICK one \in Seq(R) : one = <<x>>
  BY <1>0
<1>2. (one \o r) \o rest = one \o (r \o rest)
  OBVIOUS
<1>3. r \o rest \in Seq(R)
  OBVIOUS
<1> QED
  BY <1>1, <1>2, <1>3

\* The reader goes on to what follows the first tag.
LEMMA ReadingOn ==
  ASSUME NEW nodes \in Seq(HierNode), Preorder(nodes), NEW got, NEW stack, NEW tags,
         Reading(nodes, got, stack, tags), AttrsLeft(nodes, got) # NoAttrs,
         NEW more, NodesRead(nodes, more), Len(more) = Len(got),
         NEW x \in HierTag, NEW r \in Seq(HierTag), AttrTags(AttrsLeft(nodes, got)) = <<x>> \o r,
         AttrTags(AttrsLeft(nodes, more)) = r
  PROVE  tags # << >> /\ Head(tags) = x /\ Reading(nodes, more, stack, Tail(tags))
<1>1. NodesRead(nodes, got)
  BY DEF Reading
<1>2. PICK m \in Nat : m = Len(got)
  BY <1>1, ReadScopes
<1>3. stack \in Seq(1..m) /\ ScopesOpen(nodes, stack)
  BY <1>2 DEF Reading
<1>4. stack \in Seq(Nat)
  BY <1>3
<1>5. PICK from : IsFrom(from, nodes, m, stack)
  BY <1>2, <1>4, FromExists
<1>6. PICK rest \in Seq(HierTag) : rest = TagsLeft(nodes, m, stack)
  <2>1. PICK d \in Nat : d = Len(stack)
    BY <1>4
  <2>2. TagsLeft(nodes, m, stack) = from[d]
    BY <1>2, <1>4, <1>5, <2>1, TagsLeftIs
  <2>3. d \in 0..d
    OBVIOUS
  <2>4. from[d] \in Seq(HierTag)
    BY <1>5, <2>1, <2>3 DEF IsFrom
  <2> QED
    BY <2>2, <2>4
<1>7. tags = (<<x>> \o r) \o rest
  BY <1>2, <1>6 DEF Reading
<1>8. (<<x>> \o r) \o rest = <<x>> \o (r \o rest) /\ r \o rest \in Seq(HierTag)
  BY CatFirst
<1>9. PICK s \in Seq(HierTag) : s = r \o rest
  BY <1>8
<1>10. tags = <<x>> \o s
  BY <1>7, <1>8, <1>9
<1>11. tags # << >> /\ Head(tags) = x /\ Tail(tags) = s
  BY <1>10, HeadOfCat
<1>12. Tail(tags) = AttrTags(AttrsLeft(nodes, more)) \o TagsLeft(nodes, m, stack)
  BY <1>6, <1>9, <1>11
<1>13. Top(stack) = IF nodes[m].kind = "SCOPE" THEN m ELSE nodes[m].scope
  BY <1>2 DEF Reading, NoAttrs
<1>14. \A n \in m + 1..Len(nodes) :
         nodes[n].scope \in {0} \cup {stack[i] : i \in 1..Len(stack)} \cup m + 1..Len(nodes)
  BY <1>2 DEF Reading
<1>15. Len(more) = m
  BY <1>2
<1>16. Reading(nodes, more, stack, Tail(tags))
  BY <1>3, <1>12, <1>13, <1>14, <1>15 DEF Reading
<1> QED
  BY <1>11, <1>16

\* The reader takes an attribute of the one kind or the other.
AttrRead(nodes, got, stack, tags, m, a) ==
  /\ tags # << >>
  /\ \/ /\ Head(tags) = [tag |-> "ATTR", attr |-> a]
        /\ Reading(nodes, [got EXCEPT ![m].attrs = Append(@, a)], stack, Tail(tags))
     \/ /\ Head(tags) = [tag |-> "ATTR2", attr |-> a]
        /\ Reading(nodes, [got EXCEPT ![m].typed = Append(@, a)], stack, Tail(tags))

\* An attribute makes a tag.
LEMMA AttrIsTag ==
  ASSUME NEW a \in HierAttrs
  PROVE  [tag |-> "ATTR", attr |-> a] \in HierTag /\ [tag |-> "ATTR2", attr |-> a] \in HierTag
BY DEF HierTag

\* With attributes left the next tag is one of them, and goes to the last node.
LEMMA ReadAttrStep ==
  ASSUME NEW nodes \in Seq(HierNode), Preorder(nodes), NEW got, NEW stack, NEW tags,
         Reading(nodes, got, stack, tags), AttrsLeft(nodes, got) # NoAttrs
  PROVE  \E a \in HierAttrs : AttrRead(nodes, got, stack, tags, Len(got), a)
<1>1. NodesRead(nodes, got)
  BY DEF Reading
<1>2. PICK m \in Nat : m = Len(got)
  BY <1>1, ReadScopes
<1>3. m # 0
  <2>1. m = 0 => AttrsLeft(nodes, got) = NoAttrs
    BY <1>2 DEF AttrsLeft, NoAttrs
  <2> QED
    BY <2>1
<1>4. LastAsRead(nodes, got, m)
  BY <1>1, <1>2, <1>3, LastRead
<1>5. PICK g \in HierNode : g = got[m]
  BY <1>4 DEF LastAsRead
<1>6. PICK node \in HierNode : node = nodes[m]
  BY <1>4 DEF LastAsRead
<1>7. PICK ga \in Seq(HierAttrs), gt \in Seq(HierAttrs) : ga = g.attrs /\ gt = g.typed
  BY DEF HierNode
<1>8. PICK na \in Seq(HierAttrs), nt \in Seq(HierAttrs) : na = node.attrs /\ nt = node.typed
  BY DEF HierNode
<1>9. na = ga \o Left(na, ga) /\ nt = gt \o Left(nt, gt)
  BY <1>4, <1>5, <1>6, <1>7, <1>8 DEF LastAsRead
<1>10. Left(na, ga) \in Seq(HierAttrs) /\ Left(nt, gt) \in Seq(HierAttrs)
  BY <1>9, LeftIs
<1>11. PICK la \in Seq(HierAttrs), lt \in Seq(HierAttrs) : la = Left(na, ga) /\ lt = Left(nt, gt)
  BY <1>10
<1>12. AttrsLeft(nodes, got) = [attrs |-> la, typed |-> lt]
  BY <1>2, <1>3, <1>5, <1>6, <1>7, <1>8, <1>11 DEF AttrsLeft
<1>13. CASE la # << >>
  <2>1. PICK a \in HierAttrs, rest \in Seq(HierAttrs) : la = <<a>> \o rest
    BY <1>13, FirstAndRest
  <2>2. PICK ha : ha = Append(ga, a)
    OBVIOUS
  <2>3. ha \in Seq(HierAttrs) /\ NextLeft(na, ha, rest)
    <3>1. na = ga \o Left(na, ga)
      BY <1>9
    <3>2. Left(na, ga) = <<a>> \o rest
      BY <1>11, <2>1
    <3>3. ga \in Seq(HierAttrs) /\ na \in Seq(HierAttrs) /\ a \in HierAttrs /\ rest \in Seq(HierAttrs)
      BY <1>7, <1>8, <2>1
    <3> QED
      BY <2>2, <3>1, <3>2, <3>3, LeftNext
  <2>4. PICK last : last = [got[m] EXCEPT !.attrs = ha, !.typed = gt]
    OBVIOUS
  <2>5. PICK more : more = [got EXCEPT ![m] = last]
    OBVIOUS
  <2>6. AttrTaken(nodes, more, m, [attrs |-> Left(nodes[m].attrs, ha), typed |-> Left(nodes[m].typed, gt)])
    <3>1. /\ nodes[m].attrs = ha \o Left(nodes[m].attrs, ha)
          /\ nodes[m].typed = gt \o Left(nodes[m].typed, gt)
      BY <1>6, <1>8, <1>9, <2>3 DEF NextLeft
    <3>2. ha \in Seq(HierAttrs) /\ gt \in Seq(HierAttrs)
      BY <1>7, <2>3
    <3> QED
      BY <1>1, <1>2, <1>3, <2>4, <2>5, <3>1, <3>2, LastReadFurther
  <2>7. NodesRead(nodes, more) /\ Len(more) = Len(got)
    BY <1>2, <2>6 DEF AttrTaken
  <2>8. AttrsLeft(nodes, more) = [attrs |-> rest, typed |-> lt]
    BY <1>6, <1>8, <1>11, <2>3, <2>6 DEF AttrTaken, NextLeft
  <2>9. PICK x \in HierTag : x = [tag |-> "ATTR", attr |-> a]
    BY AttrIsTag
  <2>10. PICK r \in Seq(HierTag) : r = AttrTags([attrs |-> rest, typed |-> lt])
    <3>1. PICK l : l = [attrs |-> rest, typed |-> lt]
      OBVIOUS
    <3>2. l.attrs \in Seq(HierAttrs) /\ l.typed \in Seq(HierAttrs)
      BY <3>1
    <3>3. AttrTags(l) \in Seq(HierTag)
      BY <3>2, AttrTagsType
    <3> QED
      BY <3>1, <3>3
  <2>11. AttrTags(AttrsLeft(nodes, got)) = <<x>> \o r
    <3>1. PICK l : l = AttrsLeft(nodes, got)
      OBVIOUS
    <3>2. l = [attrs |-> <<a>> \o rest, typed |-> l.typed] /\ l.typed = lt
      <4>1. l = [attrs |-> la, typed |-> lt]
        BY <1>12, <3>1
      <4>2. l.typed = lt
        BY <4>1
      <4> QED
        BY <2>1, <4>1, <4>2
    <3>3. l.typed \in Seq(HierAttrs)
      BY <3>2
    <3>4. AttrTags(l) = <<[tag |-> "ATTR", attr |-> a]>> \o AttrTags([attrs |-> rest, typed |-> l.typed])
      BY <3>2, <3>3, AttrTagsFirst
    <3> QED
      BY <2>9, <2>10, <3>1, <3>2, <3>4
  <2>12. AttrTags(AttrsLeft(nodes, more)) = r
    BY <2>8, <2>10
  <2>13. tags # << >> /\ Head(tags) = x /\ Reading(nodes, more, stack, Tail(tags))
    BY <2>7, <2>11, <2>12, ReadingOn
  <2>14. more = [got EXCEPT ![m].attrs = Append(@, a)]
    <3>1. g = [g EXCEPT !.typed = gt]
      BY <1>7 DEF HierNode
    <3>2. [g EXCEPT !.attrs = ha, !.typed = gt] = [g EXCEPT !.attrs = Append(g.attrs, a)]
      BY <1>7, <2>2 DEF HierNode
    <3> QED
      BY <1>5, <2>4, <2>5, <3>2
  <2> QED
    BY <1>2, <2>9, <2>13, <2>14 DEF AttrRead
<1>14. CASE la = << >>
  <2>0. lt # << >>
    BY <1>12, <1>14 DEF NoAttrs
  <2>1. PICK a \in HierAttrs, rest \in Seq(HierAttrs) : lt = <<a>> \o rest
    BY <2>0, FirstAndRest
  <2>2. PICK ht : ht = Append(gt, a)
    OBVIOUS
  <2>3. ht \in Seq(HierAttrs) /\ NextLeft(nt, ht, rest)
    <3>1. nt = gt \o Left(nt, gt)
      BY <1>9
    <3>2. Left(nt, gt) = <<a>> \o rest
      BY <1>11, <2>1
    <3>3. gt \in Seq(HierAttrs) /\ nt \in Seq(HierAttrs) /\ a \in HierAttrs /\ rest \in Seq(HierAttrs)
      BY <1>7, <1>8, <2>1
    <3> QED
      BY <2>2, <3>1, <3>2, <3>3, LeftNext
  <2>4. PICK last : last = [got[m] EXCEPT !.attrs = ga, !.typed = ht]
    OBVIOUS
  <2>5. PICK more : more = [got EXCEPT ![m] = last]
    OBVIOUS
  <2>6. AttrTaken(nodes, more, m, [attrs |-> Left(nodes[m].attrs, ga), typed |-> Left(nodes[m].typed, ht)])
    <3>1. /\ nodes[m].attrs = ga \o Left(nodes[m].attrs, ga)
          /\ nodes[m].typed = ht \o Left(nodes[m].typed, ht)
      BY <1>6, <1>8, <1>9, <2>3 DEF NextLeft
    <3>2. ga \in Seq(HierAttrs) /\ ht \in Seq(HierAttrs)
      BY <1>7, <2>3
    <3> QED
      BY <1>1, <1>2, <1>3, <2>4, <2>5, <3>1, <3>2, LastReadFurther
  <2>7. NodesRead(nodes, more) /\ Len(more) = Len(got)
    BY <1>2, <2>6 DEF AttrTaken
  <2>8. AttrsLeft(nodes, more) = [attrs |-> << >>, typed |-> rest]
    BY <1>6, <1>8, <1>11, <1>14, <2>3, <2>6 DEF AttrTaken, NextLeft
  <2>9. PICK x \in HierTag : x = [tag |-> "ATTR2", attr |-> a]
    BY AttrIsTag
  <2>10. PICK r \in Seq(HierTag) : r = AttrTags([attrs |-> << >>, typed |-> rest])
    <3>1. PICK l : l = [attrs |-> << >>, typed |-> rest]
      OBVIOUS
    <3>2. l.attrs \in Seq(HierAttrs) /\ l.typed \in Seq(HierAttrs)
      BY <3>1
    <3>3. AttrTags(l) \in Seq(HierTag)
      BY <3>2, AttrTagsType
    <3> QED
      BY <3>1, <3>3
  <2>11. AttrTags(AttrsLeft(nodes, got)) = <<x>> \o r
    <3>1. PICK l : l = AttrsLeft(nodes, got)
      OBVIOUS
    <3>2. l = [attrs |-> << >>, typed |-> <<a>> \o rest]
      BY <1>12, <1>14, <2>1, <3>1
    <3>3. AttrTags(l) = <<[tag |-> "ATTR2", attr |-> a]>> \o AttrTags([attrs |-> << >>, typed |-> rest])
      BY <3>2, AttrTagsFirst
    <3> QED
      BY <2>9, <2>10, <3>1, <3>3
  <2>12. AttrTags(AttrsLeft(nodes, more)) = r
    BY <2>8, <2>10
  <2>13. tags # << >> /\ Head(tags) = x /\ Reading(nodes, more, stack, Tail(tags))
    BY <2>7, <2>11, <2>12, ReadingOn
  <2>14. more = [got EXCEPT ![m].typed = Append(@, a)]
    <3>1. [g EXCEPT !.attrs = ga, !.typed = ht] = [g EXCEPT !.typed = Append(g.typed, a)]
      BY <1>7, <2>2 DEF HierNode
    <3> QED
      BY <1>5, <2>4, <2>5, <3>1
  <2> QED
    BY <1>2, <2>9, <2>13, <2>14 DEF AttrRead
<1> QED
  BY <1>13, <1>14

\* The reader leaves a scope.
LEMMA ReadUpStep ==
  ASSUME NEW nodes \in Seq(HierNode), Preorder(nodes), NEW got, NEW stack, NEW tags,
         Reading(nodes, got, stack, tags), AttrsLeft(nodes, got) = NoAttrs,
         Kids(nodes, Top(stack), Len(got)) = {}, stack # << >>
  PROVE  /\ tags # << >> /\ Head(tags) = [tag |-> "UPSCOPE"]
         /\ Reading(nodes, got, Front(stack), Tail(tags))
<1>1. NodesRead(nodes, got) /\ ScopesOpen(nodes, stack)
  BY DEF Reading
<1>2. PICK m \in Nat : m = Len(got)
  BY <1>1, ReadScopes
<1>3. /\ m <= Len(nodes) /\ stack \in Seq(1..m)
      /\ \A k \in m + 1..Len(nodes) :
           nodes[k].scope \in {0} \cup {stack[i] : i \in 1..Len(stack)} \cup m + 1..Len(nodes)
  BY <1>1, <1>2, ReadScopes DEF Reading
<1>4. Len(nodes) \in Nat
  OBVIOUS
<1>5. PICK d \in Nat : d = Len(stack)
  BY <1>3
<1>6. d # 0 /\ d \in 1..d /\ d - 1 \in 0..d
  <2>1. d # 0
    BY <1>3, <1>5
  <2> QED
    BY <1>5, <2>1
<1>7. Top(stack) = stack[d]
  BY <1>2, <1>3, <1>5, TopIs
<1>8. stack \in Seq(Nat)
  BY <1>3
<1>9. PICK from : IsFrom(from, nodes, m, stack)
  BY <1>2, <1>8, FromExists
<1>10. tags = from[d]
  <2>1. tags = AttrTags(NoAttrs) \o TagsLeft(nodes, m, stack)
    BY <1>2 DEF Reading
  <2>2. TagsLeft(nodes, m, stack) = from[d]
    BY <1>2, <1>5, <1>8, <1>9, TagsLeftIs
  <2>3. from[d] \in Seq(HierTag)
    <3>1. d \in 0..d
      BY <1>5
    <3> QED
      BY <1>5, <1>9, <3>1 DEF IsFrom
  <2>4. << >> \o from[d] = from[d]
    BY <2>3, CatNone
  <2> QED
    BY <2>1, <2>2, <2>4, AttrTagsOfNone
<1>11. PICK rest \in Seq(HierTag) : rest = from[d - 1]
  BY <1>5, <1>6, <1>9 DEF IsFrom
<1>12. PICK x \in HierTag : x = [tag |-> "UPSCOPE"]
  BY DEF HierTag
<1>13. tags = <<x>> \o rest
  <2>1. from[d] = KidTags(nodes, stack[d], m) \o <<[tag |-> "UPSCOPE"]>> \o from[d - 1]
    BY <1>5, <1>6, <1>9 DEF IsFrom
  <2>2. KidTags(nodes, stack[d], m) = << >>
    <3>1. Kids(nodes, stack[d], m) = {}
      BY <1>2, <1>7
    <3> QED
      BY <1>2, <3>1, KidTagsType
  <2>3. << >> \o <<x>> = <<x>>
    OBVIOUS
  <2> QED
    BY <1>10, <1>11, <1>12, <2>1, <2>2, <2>3
<1>14. tags # << >> /\ Head(tags) = x /\ Tail(tags) = rest
  BY <1>11, <1>12, <1>13, HeadOfCat
<1>15. PICK t : t = Front(stack)
  OBVIOUS
<1>16. /\ ScopesOpen(nodes, t) /\ Len(t) = d - 1
       /\ \A i \in 1..d - 1 : t[i] = stack[i]
  BY <1>1, <1>4, <1>5, <1>15, ScopesFront
<1>17. t \in Seq(1..m)
  BY <1>3, <1>6, <1>15 DEF Front
<1>18. PICK e \in Nat : e = d - 1 /\ d = e + 1
  BY <1>6, <1>5
<1>19. PICK g : g = [i \in 0..e |-> from[i]]
  OBVIOUS
<1>20. IsFrom(g, nodes, m, t)
  <2>1. /\ from \in [0..d -> Seq(HierTag)] /\ from[0] = KidTags(nodes, 0, m)
        /\ \A i \in 1..d : from[i] = KidTags(nodes, stack[i], m) \o <<[tag |-> "UPSCOPE"]>> \o from[i - 1]
    BY <1>5, <1>9 DEF IsFrom
  <2>2. \A i \in 0..e : i \in 0..d /\ g[i] = from[i]
    BY <1>18, <1>19
  <2>3. g \in [0..e -> Seq(HierTag)]
    BY <1>19, <2>1, <2>2
  <2>4. 0 \in 0..e
    BY <1>18
  <2>5. \A i \in 1..e : i \in 0..e /\ i - 1 \in 0..e /\ i \in 1..d /\ t[i] = stack[i]
    BY <1>16, <1>18
  <2>6. \A i \in 1..e : g[i] = KidTags(nodes, t[i], m) \o <<[tag |-> "UPSCOPE"]>> \o g[i - 1]
    BY <2>1, <2>2, <2>5
  <2> QED
    BY <1>16, <1>18, <2>1, <2>2, <2>3, <2>4, <2>6 DEF IsFrom
<1>21. TagsLeft(nodes, m, t) = rest
  <2>1. t \in Seq(Nat)
    BY <1>17
  <2>2. TagsLeft(nodes, m, t) = g[Len(t)]
    BY <1>2, <1>20, <2>1, TagsLeftIs
  <2>3. e \in 0..e
    BY <1>18
  <2> QED
    BY <1>11, <1>16, <1>18, <1>19, <2>2, <2>3
<1>22. Tail(tags) = AttrTags(AttrsLeft(nodes, got)) \o TagsLeft(nodes, m, t)
  <2>1. << >> \o rest = rest
    BY <1>11, CatNone
  <2> QED
    BY <1>14, <1>21, <2>1, AttrTagsOfNone
<1>23. \A k \in m + 1..Len(nodes) :
         nodes[k].scope \in {0} \cup {t[i] : i \in 1..Len(t)} \cup m + 1..Len(nodes)
  <2> TAKE k \in m + 1..Len(nodes)
  <2>1. nodes[k].scope # stack[d]
    BY <1>2, <1>7 DEF Kids
  <2>2. \A i \in 1..Len(stack) : i = d \/ i \in 1..d - 1
    BY <1>5
  <2>3. \A i \in 1..Len(stack) : stack[i] = nodes[k].scope => \E j \in 1..Len(t) : t[j] = stack[i]
    BY <1>16, <2>1, <2>2
  <2> QED
    BY <1>3, <2>3
<1>24. Reading(nodes, got, t, Tail(tags))
  BY <1>1, <1>2, <1>16, <1>17, <1>22, <1>23 DEF Reading, NoAttrs
<1> QED
  BY <1>12, <1>14, <1>15, <1>24

\* Nothing is left to read when the reader is at the end of the tags, and only then.
LEMMA ReadEndStep ==
  ASSUME NEW nodes \in Seq(HierNode), Preorder(nodes), NEW got, NEW stack, NEW tags,
         Reading(nodes, got, stack, tags), AttrsLeft(nodes, got) = NoAttrs,
         Kids(nodes, Top(stack), Len(got)) = {}, stack = << >>
  PROVE  tags = << >> /\ got = nodes
<1>1. NodesRead(nodes, got) /\ ScopesOpen(nodes, stack)
  BY DEF Reading
<1>2. PICK m \in Nat : m = Len(got)
  BY <1>1, ReadScopes
<1>3. /\ m <= Len(nodes) /\ stack \in Seq(1..m)
      /\ \A k \in m + 1..Len(nodes) :
           nodes[k].scope \in {0} \cup {stack[i] : i \in 1..Len(stack)} \cup m + 1..Len(nodes)
  BY <1>1, <1>2, ReadScopes DEF Reading
<1>4. Kids(nodes, Top(stack), m) = {}
  BY <1>2
<1>5. m = Len(nodes)
  <2>1. m <= Len(nodes) /\ stack \in Seq(1..m)
    BY <1>3
  <2>2. \A k \in m + 1..Len(nodes) :
          nodes[k].scope \in {0} \cup {stack[i] : i \in 1..Len(stack)} \cup m + 1..Len(nodes)
    BY <1>3
  <2>3. ScopesOpen(nodes, stack)
    BY <1>1
  <2>4. Kids(nodes, Top(stack), m) = {} /\ stack = << >> => m = Len(nodes)
    BY <1>2, <2>1, <2>2, <2>3, NextKid, Zenon
  <2> QED
    BY <1>4, <2>4
<1>6. got = nodes
  <2>1. \A n \in 1..m : got[n] = nodes[n]
    <3>1. AttrsLeft(nodes, got) = [attrs |-> << >>, typed |-> << >>]
      BY DEF NoAttrs
    <3>2. NodesRead(nodes, got)
      BY <1>1
    <3> QED
      BY <1>2, <3>1, <3>2, AllAttrsRead
  <2>2. got \in Seq(HierNode)
    BY <1>1 DEF NodesRead
  <2>3. got = [n \in 1..Len(got) |-> got[n]]
    BY <2>2
  <2>4. nodes = [n \in 1..Len(nodes) |-> nodes[n]]
    OBVIOUS
  <2>5. got = [n \in 1..m |-> got[n]] /\ nodes = [n \in 1..m |-> nodes[n]]
    BY <1>2, <1>5, <2>3, <2>4
  <2> QED
    BY <2>1, <2>5
<1>7. tags = << >>
  <2>1. tags = AttrTags(NoAttrs) \o TagsLeft(nodes, m, stack)
    BY <1>2 DEF Reading
  <2>2. stack \in Seq(Nat)
    OBVIOUS
  <2>3. PICK from : IsFrom(from, nodes, m, stack)
    BY <1>2, <2>2, FromExists
  <2>4. TagsLeft(nodes, m, stack) = from[0]
    <3>1. Len(stack) = 0
      OBVIOUS
    <3>2. TagsLeft(nodes, m, stack) = from[Len(stack)]
      BY <1>2, <2>2, <2>3, TagsLeftIs
    <3> QED
      BY <3>1, <3>2
  <2>5. from[0] = KidTags(nodes, 0, m)
    BY <2>3 DEF IsFrom
  <2>6. KidTags(nodes, 0, m) = << >>
    <3>1. Kids(nodes, 0, m) = {}
      BY <1>4 DEF Top
    <3> QED
      BY <1>2, <3>1, KidTagsType
  <2>7. << >> \o << >> = << >>
    OBVIOUS
  <2> QED
    BY <2>1, <2>4, <2>5, <2>6, <2>7, AttrTagsOfNone
<1> QED
  BY <1>6, <1>7

\* At the start all the tags are left.
LEMMA ReadStart ==
  ASSUME NEW nodes \in Seq(HierNode), Preorder(nodes),
         NEW tags, tags = KidTags(nodes, 0, 0)
  PROVE  Reading(nodes, << >>, << >>, tags)
<1>1. NodesRead(nodes, << >>)
  <2>1. << >> \in Seq(HierNode) /\ Len(<< >>) = 0 /\ Len(nodes) \in Nat
    OBVIOUS
  <2> QED
    BY <2>1 DEF NodesRead
<1>2. << >> \in Seq(1..0) /\ ScopesOpen(nodes, << >>) /\ << >> \in Seq(Nat)
  <2>1. << >> \in Seq(1..Len(nodes)) /\ Len(<< >>) = 0
    OBVIOUS
  <2> QED
    BY <2>1 DEF ScopesOpen
<1>3. \A n \in 0 + 1..Len(nodes) :
        nodes[n].scope \in {0} \cup {<< >>[i] : i \in 1..Len(<< >>)} \cup 0 + 1..Len(nodes)
  <2> TAKE n \in 0 + 1..Len(nodes)
  <2>1. n \in 1..Len(nodes)
    OBVIOUS
  <2>2. nodes[n].scope < n
    BY <2>1 DEF Preorder
  <2>3. nodes[n].scope \in Nat
    <3>1. nodes[n] \in HierNode
      BY <2>1
    <3> QED
      BY <3>1 DEF HierNode
  <2>4. PICK s \in Nat : s = nodes[n].scope
    BY <2>3
  <2>5. s = 0 \/ s \in 0 + 1..Len(nodes)
    BY <2>1, <2>2, <2>4
  <2> QED
    BY <2>4, <2>5
<1>4. AttrsLeft(nodes, << >>) = NoAttrs
  BY DEF AttrsLeft, NoAttrs
<1>5. tags = AttrTags(NoAttrs) \o TagsLeft(nodes, 0, << >>)
  <2>1. PICK from : IsFrom(from, nodes, 0, << >>)
    BY <1>2, FromExists
  <2>2. TagsLeft(nodes, 0, << >>) = from[0]
    <3>1. Len(<< >>) = 0
      OBVIOUS
    <3>2. TagsLeft(nodes, 0, << >>) = from[Len(<< >>)]
      BY <1>2, <2>1, TagsLeftIs
    <3> QED
      BY <3>1, <3>2
  <2>3. from[0] = KidTags(nodes, 0, 0)
    BY <2>1 DEF IsFrom
  <2>4. KidTags(nodes, 0, 0) \in Seq(HierTag)
    BY KidTagsType
  <2>5. << >> \o KidTags(nodes, 0, 0) = KidTags(nodes, 0, 0)
    BY <2>4, CatNone
  <2> QED
    BY <2>2, <2>3, <2>5, AttrTagsOfNone
<1>6. Len(<< >>) = 0
  OBVIOUS
<1> QED
  BY <1>1, <1>2, <1>3, <1>4, <1>5, <1>6 DEF Reading, NoAttrs

-----------------------------------------------------------------------------
(* The actions *)

WellBuilt(nodes, stack) ==
  /\ nodes \in Seq(HierNode) /\ Preorder(nodes)
  /\ ScopesOpen(nodes, stack) /\ BuiltInside(nodes, stack)

\* What is to be shown of a step of the builder.
LEMMA BuildingKept ==
  ASSUME hierPhase' = "building", WellBuilt(hierNodes', hierStack'), hierLast' \in 0..Len(hierNodes'),
         hierRead' = [nodes |-> << >>, stack |-> << >>]
  PROVE  HierInv'
BY DEF WellBuilt, HierInv, TreeReadsBack

\* What is known while the tree is built.
LEMMA BuildingIs ==
  ASSUME HierInv, hierPhase = "building"
  PROVE  /\ WellBuilt(hierNodes, hierStack) /\ hierLast \in 0..Len(hierNodes)
         /\ hierRead = [nodes |-> << >>, stack |-> << >>]
BY DEF HierInv, WellBuilt

\* A node declared in the innermost scope, and the scope it opens if it is one.
LEMMA NodeDeclared ==
  ASSUME NEW nodes, NEW stack, WellBuilt(nodes, stack), NEW node \in HierNode,
         node.scope = Top(stack), NEW more, more = Append(nodes, node)
  PROVE  /\ WellBuilt(more, stack)
         /\ node.kind = "SCOPE" => WellBuilt(more, Append(stack, Len(more)))
<1>1. nodes \in Seq(HierNode) /\ Preorder(nodes) /\ ScopesOpen(nodes, stack) /\ BuiltInside(nodes, stack)
  BY DEF WellBuilt
<1> QED
  BY <1>1, NodeAdded DEF WellBuilt

\* begin_scope, add_var and add_stream keep the invariant.
LEMMA DeclareKeeps ==
  ASSUME HierInv, NEW kind \in HierKinds, NEW name \in HierNames, Declare(kind, name),
         \/ kind # "SCOPE" /\ hierStack' = hierStack
         \/ kind = "SCOPE" /\ hierStack' = Append(hierStack, Len(hierNodes'))
  PROVE  HierInv'
<1>1. hierPhase = "building" /\ hierPhase' = "building" /\ hierRead' = hierRead
  BY DEF Declare
<1>2. /\ WellBuilt(hierNodes, hierStack)
      /\ hierRead = [nodes |-> << >>, stack |-> << >>]
  BY <1>1, BuildingIs
<1>3. PICK nodes : nodes = hierNodes
  OBVIOUS
<1>4. PICK stack : stack = hierStack
  OBVIOUS
<1>5. PICK more : more = hierNodes'
  OBVIOUS
<1>6. nodes \in Seq(HierNode) /\ WellBuilt(nodes, stack) /\ ScopesOpen(nodes, stack)
  BY <1>2, <1>3, <1>4 DEF WellBuilt
<1>7. Top(stack) \in Nat
  <2>1. Len(nodes) \in Nat /\ stack \in Seq(1..Len(nodes))
    BY <1>6 DEF ScopesOpen
  <2>2. Top(stack) \in 0..Len(nodes)
    BY <2>1, TopIs
  <2> QED
    BY <2>1, <2>2
<1>8. Cardinality({n \in 1..Len(nodes) : nodes[n].kind = kind}) \in Nat
  <2>1. Len(nodes) \in Nat
    BY <1>6
  <2>2. IsFiniteSet(1..Len(nodes))
    BY <2>1, FS_Interval
  <2>3. PICK W : W = {n \in 1..Len(nodes) : nodes[n].kind = kind}
    OBVIOUS
  <2>4. W \subseteq 1..Len(nodes)
    BY <2>3
  <2>5. IsFiniteSet(W)
    BY <2>2, <2>4, FS_Subset
  <2> QED
    BY <2>3, <2>5, FS_CardinalityType
<1>9. PICK id \in Nat : id = IF kind = "SCOPE" THEN 0
                             ELSE 1 + Cardinality({n \in 1..Len(nodes) : nodes[n].kind = kind})
  <2>1. PICK c \in Nat : c = Cardinality({n \in 1..Len(nodes) : nodes[n].kind = kind})
    BY <1>8
  <2>2. PICK d \in Nat : d = 1 + c
    <3>1. 1 + c \in Nat
      OBVIOUS
    <3> QED
      BY <3>1
  <2>3. CASE kind = "SCOPE"
    BY <2>3
  <2>4. CASE kind # "SCOPE"
    BY <2>1, <2>2, <2>4
  <2> QED
    BY <2>3, <2>4
<1>10. PICK node : node = [kind |-> kind, name |-> name, scope |-> Top(stack), attrs |-> << >>,
                           typed |-> << >>, id |-> id]
  OBVIOUS
<1>11. node \in HierNode /\ node.scope = Top(stack) /\ node.kind = kind
  <2>1. << >> \in Seq(HierAttrs)
    OBVIOUS
  <2>2. [kind |-> kind, name |-> name, scope |-> Top(stack), attrs |-> << >>,
         typed |-> << >>, id |-> id] \in HierNode
    BY <1>7, <1>9, <2>1 DEF HierNode
  <2> QED
    BY <1>10, <2>2
<1>12. more = Append(nodes, node)
  BY <1>3, <1>4, <1>5, <1>9, <1>10 DEF Declare
<1>13. WellBuilt(more, stack) /\ (kind = "SCOPE" => WellBuilt(more, Append(stack, Len(more))))
  BY <1>6, <1>11, <1>12, NodeDeclared
<1>14. WellBuilt(hierNodes', hierStack')
  BY <1>4, <1>5, <1>13
<1>15. hierLast' \in 0..Len(hierNodes')
  <2>1. more \in Seq(HierNode)
    BY <1>13 DEF WellBuilt
  <2>2. Len(more) \in 0..Len(more)
    BY <2>1
  <2>3. hierLast' = Len(more)
    BY <1>5 DEF Declare
  <2> QED
    BY <1>5, <2>2, <2>3
<1> QED
  BY <1>1, <1>2, <1>14, <1>15, BuildingKept

\* So does end_scope.
LEMMA EndScopeKeeps ==
  ASSUME HierInv, EndScope
  PROVE  HierInv'
<1>1. hierPhase = "building" /\ hierPhase' = "building" /\ hierRead' = hierRead
  BY DEF EndScope
<1>2. /\ WellBuilt(hierNodes, hierStack)
      /\ hierRead = [nodes |-> << >>, stack |-> << >>]
  BY <1>1, BuildingIs
<1>3. PICK nodes : nodes = hierNodes
  OBVIOUS
<1>4. PICK stack : stack = hierStack
  OBVIOUS
<1>5. /\ nodes \in Seq(HierNode) /\ Len(nodes) \in Nat /\ Preorder(nodes)
      /\ ScopesOpen(nodes, stack) /\ BuiltInside(nodes, stack) /\ stack # << >>
  BY <1>2, <1>3, <1>4 DEF WellBuilt, EndScope
<1>6. PICK t : t = Front(stack)
  OBVIOUS
<1>7. ScopesOpen(nodes, t) /\ BuiltInside(nodes, t)
  BY <1>5, <1>6, ScopesFront
<1>8. WellBuilt(hierNodes', hierStack')
  BY <1>3, <1>4, <1>5, <1>6, <1>7 DEF EndScope, WellBuilt
<1>9. Top(t) \in 0..Len(nodes)
  <2>1. t \in Seq(1..Len(nodes))
    BY <1>7 DEF ScopesOpen
  <2> QED
    BY <1>5, <2>1, TopIs
<1>10. hierLast' \in 0..Len(hierNodes')
  BY <1>3, <1>4, <1>6, <1>9 DEF EndScope
<1> QED
  BY <1>1, <1>2, <1>8, <1>10, BuildingKept

\* So does an attribute, which leaves the shape of the tree alone.
LEMMA AttachKeeps ==
  ASSUME HierInv, NEW attr \in HierAttrs, Attach(attr)
  PROVE  HierInv'
<1>1. /\ hierPhase = "building" /\ hierPhase' = "building" /\ hierRead' = hierRead
      /\ hierLast' = hierLast /\ hierStack' = hierStack
  BY DEF Attach
<1>2. /\ WellBuilt(hierNodes, hierStack) /\ hierLast \in 0..Len(hierNodes)
      /\ hierRead = [nodes |-> << >>, stack |-> << >>]
  BY <1>1, BuildingIs
<1>3. PICK nodes : nodes = hierNodes
  OBVIOUS
<1>4. PICK stack : stack = hierStack
  OBVIOUS
<1>5. PICK last : last = hierLast
  OBVIOUS
<1>6. /\ nodes \in Seq(HierNode) /\ Len(nodes) \in Nat /\ Preorder(nodes)
      /\ ScopesOpen(nodes, stack) /\ BuiltInside(nodes, stack)
  BY <1>2, <1>3, <1>4 DEF WellBuilt
<1>7. last \in 1..Len(nodes)
  <2>1. last # 0 /\ last \in 0..Len(nodes)
    BY <1>2, <1>3, <1>5 DEF Attach
  <2> QED
    BY <1>6, <2>1
<1>8. PICK node \in HierNode : node = nodes[last]
  BY <1>6, <1>7
<1>9. PICK new \in HierNode : /\ new.scope = node.scope /\ new.kind = node.kind
                              /\ hierNodes' = [nodes EXCEPT ![last] = new]
  <2>1. /\ node.kind \in HierKinds /\ node.name \in HierNames /\ node.scope \in Nat /\ node.id \in Nat
        /\ node.attrs \in Seq(HierAttrs) /\ node.typed \in Seq(HierAttrs)
        /\ node = [kind |-> node.kind, name |-> node.name, scope |-> node.scope, attrs |-> node.attrs,
                   typed |-> node.typed, id |-> node.id]
    BY DEF HierNode
  <2>2. CASE hierNodes' = [hierNodes EXCEPT ![hierLast].attrs = Append(@, attr)]
    <3>1. PICK attrs : attrs = Append(node.attrs, attr)
      OBVIOUS
    <3>2. attrs \in Seq(HierAttrs)
      BY <2>1, <3>1
    <3>3. PICK new : new = [node EXCEPT !.attrs = attrs]
      OBVIOUS
    <3>4. new \in HierNode /\ new.scope = node.scope /\ new.kind = node.kind
      BY <1>8, <3>2, <3>3 DEF HierNode
    <3>5. hierNodes' = [nodes EXCEPT ![last] = new]
      BY <1>3, <1>5, <1>8, <2>2, <3>1, <3>3
    <3> QED
      BY <3>4, <3>5
  <2>3. CASE hierNodes' = [hierNodes EXCEPT ![hierLast].typed = Append(@, attr)]
    <3>1. PICK typed : typed = Append(node.typed, attr)
      OBVIOUS
    <3>2. typed \in Seq(HierAttrs)
      BY <2>1, <3>1
    <3>3. PICK new : new = [node EXCEPT !.typed = typed]
      OBVIOUS
    <3>4. new \in HierNode /\ new.scope = node.scope /\ new.kind = node.kind
      BY <1>8, <3>2, <3>3 DEF HierNode
    <3>5. hierNodes' = [nodes EXCEPT ![last] = new]
      BY <1>3, <1>5, <1>8, <2>3, <3>1, <3>3
    <3> QED
      BY <3>4, <3>5
  <2> QED
    BY <2>2, <2>3 DEF Attach
<1>10. PICK more : more = hierNodes'
  OBVIOUS
<1>11. /\ more \in Seq(HierNode) /\ Len(more) = Len(nodes)
       /\ \A n \in 1..Len(nodes) : more[n] = IF n = last THEN new ELSE nodes[n]
  <2>1. more = [nodes EXCEPT ![last] = new]
    BY <1>9, <1>10
  <2>2. more \in Seq(HierNode) /\ Len(more) = Len(nodes)
    BY <1>6, <1>7, <1>9, <2>1
  <2>3. DOMAIN nodes = 1..Len(nodes)
    BY <1>6
  <2> QED
    BY <2>1, <2>2, <2>3
<1>12. \A n \in 1..Len(nodes) : nodes[n].scope \in Nat /\ more[n].scope = nodes[n].scope
                                /\ more[n].kind = nodes[n].kind
  <2> TAKE n \in 1..Len(nodes)
  <2>1. nodes[n].scope \in Nat
    <3>1. nodes[n] \in HierNode
      BY <1>6
    <3> QED
      BY <3>1 DEF HierNode
  <2> QED
    BY <1>8, <1>9, <1>11, <2>1
<1>13. Preorder(more) /\ ScopesOpen(more, stack) /\ BuiltInside(more, stack)
  BY <1>6, <1>11, <1>12, SameShape
<1>14. WellBuilt(hierNodes', hierStack')
  BY <1>1, <1>4, <1>10, <1>11, <1>13 DEF WellBuilt
<1>15. hierLast' \in 0..Len(hierNodes')
  BY <1>1, <1>2, <1>3, <1>10, <1>11
<1> QED
  BY <1>1, <1>2, <1>14, <1>15, BuildingKept

\* When the tags are written all of them are left to read.
LEMMA WriteKeeps ==
  ASSUME HierInv, WriteHierarchy
  PROVE  HierInv'
<1>1. /\ hierPhase = "building" /\ hierPhase' = "written" /\ hierRead' = hierRead
      /\ hierNodes' = hierNodes /\ hierTags' = Tags
  BY DEF WriteHierarchy
<1>2. /\ WellBuilt(hierNodes, hierStack)
      /\ hierRead = [nodes |-> << >>, stack |-> << >>]
  BY <1>1, BuildingIs
<1>3. PICK nodes : nodes = hierNodes
  OBVIOUS
<1>4. nodes \in Seq(HierNode) /\ Preorder(nodes)
  BY <1>2, <1>3 DEF WellBuilt
<1>5. PICK tags : tags = hierTags'
  OBVIOUS
<1>6. tags = KidTags(nodes, 0, 0)
  BY <1>1, <1>3, <1>5 DEF Tags, KidTags
<1>7. Reading(nodes, << >>, << >>, tags)
  BY <1>4, <1>6, ReadStart
<1>8. hierRead' = [nodes |-> << >>, stack |-> << >>]
  BY <1>1, <1>2
<1>9. hierRead'.nodes = << >> /\ hierRead'.stack = << >>
  BY <1>8
<1>10. hierNodes' = nodes
  BY <1>1, <1>3
<1>11. /\ hierRead' = [nodes |-> hierRead'.nodes, stack |-> hierRead'.stack]
       /\ Reading(hierNodes', hierRead'.nodes, hierRead'.stack, hierTags')
  BY <1>5, <1>7, <1>8, <1>9, <1>10
<1> QED
  BY <1>1, <1>4, <1>10, <1>11 DEF HierInv, TreeReadsBack

\* What is to be shown of a step of the reader.
LEMMA ReadingKept ==
  ASSUME HierInv, hierPhase' = "written", hierNodes' = hierNodes, NEW got, NEW stack,
         hierRead' = [nodes |-> got, stack |-> stack],
         Reading(hierNodes, got, stack, hierTags')
  PROVE  HierInv'
<1>1. hierRead'.nodes = got /\ hierRead'.stack = stack
  OBVIOUS
<1>2. hierRead' = [nodes |-> hierRead'.nodes, stack |-> hierRead'.stack]
  BY <1>1
<1>3. Reading(hierNodes', hierRead'.nodes, hierRead'.stack, hierTags')
  BY <1>1
<1>4. hierNodes' \in Seq(HierNode) /\ Preorder(hierNodes')
  BY DEF HierInv
<1> QED
  BY <1>2, <1>3, <1>4 DEF HierInv, TreeReadsBack

\* What is known while the tags are read.
LEMMA ReadingIs ==
  ASSUME HierInv, hierPhase = "written"
  PROVE  /\ hierNodes \in Seq(HierNode) /\ Preorder(hierNodes)
         /\ hierRead = [nodes |-> hierRead.nodes, stack |-> hierRead.stack]
         /\ Reading(hierNodes, hierRead.nodes, hierRead.stack, hierTags)
BY DEF HierInv

\* A node, an attribute, the way up or the end: what is next depends on what is left.
LEMMA ReadTagKeeps ==
  ASSUME HierInv, ReadTag
  PROVE  HierInv'
<1>1. hierPhase = "written" /\ hierTags # << >> /\ hierTags' = Tail(hierTags) /\ hierNodes' = hierNodes
  BY DEF ReadTag
<1>2. /\ hierNodes \in Seq(HierNode) /\ Preorder(hierNodes)
      /\ hierRead = [nodes |-> hierRead.nodes, stack |-> hierRead.stack]
      /\ Reading(hierNodes, hierRead.nodes, hierRead.stack, hierTags)
  BY <1>1, ReadingIs
<1>3. PICK nodes : nodes = hierNodes
  OBVIOUS
<1>4. PICK got : got = hierRead.nodes
  OBVIOUS
<1>5. PICK stack : stack = hierRead.stack
  OBVIOUS
<1>6. PICK tags : tags = hierTags
  OBVIOUS
<1>7. /\ nodes \in Seq(HierNode) /\ Preorder(nodes) /\ Reading(nodes, got, stack, tags)
      /\ hierRead = [nodes |-> got, stack |-> stack]
  BY <1>2, <1>3, <1>4, <1>5, <1>6
<1>8. PICK t : t = Head(hierTags)
  OBVIOUS
<1>9. \/ t.tag \in {"SCOPE", "VAR", "STREAM"} /\ ReadNode(t)
      \/ t.tag \in {"ATTR", "ATTR2"} /\ ReadAttr(t)
      \/ t.tag = "UPSCOPE" /\ ReadUp
  BY <1>8 DEF ReadTag
<1>10. CASE AttrsLeft(nodes, got) # NoAttrs
  <2>1. PICK a \in HierAttrs : AttrRead(nodes, got, stack, tags, Len(got), a)
    BY <1>7, <1>10, ReadAttrStep
  <2>2. LastNode = Len(got) /\ Len(got) \in 1..Len(nodes)
    <3>1. AttrsLeft(hierNodes, hierRead.nodes) # [attrs |-> << >>, typed |-> << >>]
      BY <1>3, <1>4, <1>10 DEF NoAttrs
    <3>2. LastNode = Len(hierRead.nodes) /\ Len(hierRead.nodes) \in 1..Len(hierNodes)
      BY <1>2, <3>1, LastNodeIs
    <3> QED
      BY <1>3, <1>4, <3>2
  <2>3. LastNode # 0
    BY <2>2
  <2>4. t = Head(tags)
    BY <1>6, <1>8
  <2>5. CASE /\ Head(tags) = [tag |-> "ATTR", attr |-> a]
             /\ Reading(nodes, [got EXCEPT ![Len(got)].attrs = Append(@, a)], stack, Tail(tags))
    <3>1. t.tag = "ATTR" /\ t.attr = a
      BY <2>4, <2>5
    <3>2. ReadAttr(t)
      BY <1>9, <3>1
    <3>3. /\ hierPhase' = hierPhase
          /\ hierRead' = [hierRead EXCEPT !.nodes[LastNode].attrs = Append(@, t.attr)]
      BY <2>3, <3>1, <3>2 DEF ReadAttr
    <3>4. PICK more : more = [got EXCEPT ![Len(got)].attrs = Append(@, a)]
      OBVIOUS
    <3>5. hierRead' = [nodes |-> more, stack |-> stack]
      BY <1>7, <2>2, <3>1, <3>3, <3>4
    <3>6. Reading(hierNodes, more, stack, hierTags')
      BY <1>1, <1>3, <1>6, <2>5, <3>4
    <3> QED
      BY <1>1, <3>3, <3>5, <3>6, ReadingKept
  <2>6. CASE /\ Head(tags) = [tag |-> "ATTR2", attr |-> a]
             /\ Reading(nodes, [got EXCEPT ![Len(got)].typed = Append(@, a)], stack, Tail(tags))
    <3>1. t.tag = "ATTR2" /\ t.attr = a
      BY <2>4, <2>6
    <3>2. ReadAttr(t)
      BY <1>9, <3>1
    <3>3. /\ hierPhase' = hierPhase
          /\ hierRead' = [hierRead EXCEPT !.nodes[LastNode].typed = Append(@, t.attr)]
      BY <2>3, <3>1, <3>2 DEF ReadAttr
    <3>4. PICK more : more = [got EXCEPT ![Len(got)].typed = Append(@, a)]
      OBVIOUS
    <3>5. hierRead' = [nodes |-> more, stack |-> stack]
      BY <1>7, <2>2, <3>1, <3>3, <3>4
    <3>6. Reading(hierNodes, more, stack, hierTags')
      BY <1>1, <1>3, <1>6, <2>6, <3>4
    <3> QED
      BY <1>1, <3>3, <3>5, <3>6, ReadingKept
  <2> QED
    BY <2>1, <2>5, <2>6 DEF AttrRead
<1>11. CASE AttrsLeft(nodes, got) = NoAttrs /\ Kids(nodes, Top(stack), Len(got)) # {}
  <2>1. PICK n : n = Len(got) + 1
    OBVIOUS
  <2>2. /\ n \in 1..Len(nodes) /\ nodes[n].scope = Top(stack)
        /\ tags # << >> /\ Head(tags) = NodeTag(nodes[n])
        /\ Reading(nodes, Append(got, Fresh(nodes[n])),
                   IF nodes[n].kind = "SCOPE" THEN Append(stack, n) ELSE stack, Tail(tags))
    BY <1>7, <1>11, <2>1, ReadNodeStep
  <2>3. PICK node \in HierNode : node = nodes[n]
    BY <1>7, <2>2
  <2>4. t = [tag |-> node.kind, name |-> node.name, id |-> node.id]
    BY <1>6, <1>8, <2>2, <2>3 DEF NodeTag
  <2>5. t.tag = node.kind /\ t.name = node.name /\ t.id = node.id
    BY <2>4
  <2>6. node.kind \in {"SCOPE", "VAR", "STREAM"}
    BY DEF HierNode, HierKinds
  <2>7. ReadNode(t)
    BY <1>9, <2>5, <2>6
  <2>8. PICK f : f = Fresh(node)
    OBVIOUS
  <2>9. f = [kind |-> node.kind, name |-> node.name, id |-> node.id, scope |-> Top(stack),
             attrs |-> << >>, typed |-> << >>]
    <3>1. node = [kind |-> node.kind, name |-> node.name, scope |-> node.scope, attrs |-> node.attrs,
                  typed |-> node.typed, id |-> node.id]
      BY DEF HierNode
    <3>2. f = [kind |-> node.kind, name |-> node.name, scope |-> node.scope, attrs |-> << >>,
               typed |-> << >>, id |-> node.id]
      BY <2>8, <3>1 DEF Fresh
    <3> QED
      BY <2>2, <2>3, <3>2
  <2>10. PICK s : s = IF node.kind = "SCOPE" THEN Append(stack, n) ELSE stack
    OBVIOUS
  <2>11. hierRead' = [nodes |-> Append(got, f), stack |-> s] /\ hierPhase' = hierPhase
    BY <1>4, <1>5, <2>1, <2>5, <2>7, <2>9, <2>10 DEF ReadNode
  <2>12. Reading(hierNodes, Append(got, f), s, hierTags')
    BY <1>1, <1>3, <1>6, <2>2, <2>3, <2>8, <2>10
  <2> QED
    BY <1>1, <2>11, <2>12, ReadingKept
<1>12. CASE AttrsLeft(nodes, got) = NoAttrs /\ Kids(nodes, Top(stack), Len(got)) = {}
  <2>1. stack # << >>
    <3>1. SUFFICES ASSUME stack = << >> PROVE FALSE
      OBVIOUS
    <3>2. tags = << >>
      BY <1>7, <1>12, <3>1, ReadEndStep
    <3> QED
      BY <1>1, <1>6, <3>2
  <2>2. /\ tags # << >> /\ Head(tags) = [tag |-> "UPSCOPE"]
        /\ Reading(nodes, got, Front(stack), Tail(tags))
    BY <1>7, <1>12, <2>1, ReadUpStep
  <2>3. t.tag = "UPSCOPE"
    BY <1>6, <1>8, <2>2
  <2>4. ReadUp
    BY <1>9, <2>3
  <2>5. hierRead' = [hierRead EXCEPT !.stack = Front(@)] /\ hierPhase' = hierPhase
    BY <1>5, <2>1, <2>4 DEF ReadUp
  <2>6. PICK s : s = Front(stack)
    OBVIOUS
  <2>7. hierRead' = [nodes |-> got, stack |-> s]
    BY <1>7, <2>5, <2>6
  <2>8. Reading(hierNodes, got, s, hierTags')
    BY <1>1, <1>3, <1>6, <2>2, <2>6
  <2> QED
    BY <1>1, <2>5, <2>7, <2>8, ReadingKept
<1> QED
  BY <1>10, <1>11, <1>12

\* At the end of the tags nothing is left, so what was read is the tree.
LEMMA ReadEndKeeps ==
  ASSUME HierInv, ReadHierarchyEnd
  PROVE  HierInv'
<1>1. /\ hierPhase = "written" /\ hierTags = << >> /\ hierPhase' = "read" /\ hierNodes' = hierNodes
      /\ hierRead' = hierRead
  BY DEF ReadHierarchyEnd
<1>2. /\ hierNodes \in Seq(HierNode) /\ Preorder(hierNodes)
      /\ hierRead = [nodes |-> hierRead.nodes, stack |-> hierRead.stack]
      /\ Reading(hierNodes, hierRead.nodes, hierRead.stack, hierTags)
  BY <1>1, ReadingIs
<1>3. PICK nodes : nodes = hierNodes
  OBVIOUS
<1>4. PICK got : got = hierRead.nodes
  OBVIOUS
<1>5. PICK stack : stack = hierRead.stack
  OBVIOUS
<1>6. PICK tags : tags = hierTags
  OBVIOUS
<1>7. /\ nodes \in Seq(HierNode) /\ Preorder(nodes) /\ Reading(nodes, got, stack, tags)
      /\ hierRead = [nodes |-> got, stack |-> stack] /\ tags = << >>
  BY <1>1, <1>2, <1>3, <1>4, <1>5, <1>6
<1>8. AttrsLeft(nodes, got) = NoAttrs
  <2>1. SUFFICES ASSUME AttrsLeft(nodes, got) # NoAttrs PROVE FALSE
    OBVIOUS
  <2>2. PICK a \in HierAttrs : AttrRead(nodes, got, stack, tags, Len(got), a)
    BY <1>7, <2>1, ReadAttrStep
  <2> QED
    BY <1>7, <2>2 DEF AttrRead
<1>9. Kids(nodes, Top(stack), Len(got)) = {}
  <2>1. SUFFICES ASSUME Kids(nodes, Top(stack), Len(got)) # {} PROVE FALSE
    OBVIOUS
  <2>2. PICK n : n = Len(got) + 1
    OBVIOUS
  <2>3. tags # << >>
    BY <1>7, <1>8, <2>1, <2>2, ReadNodeStep
  <2> QED
    BY <1>7, <2>3
<1>10. stack = << >>
  <2>1. SUFFICES ASSUME stack # << >> PROVE FALSE
    OBVIOUS
  <2>2. tags # << >>
    BY <1>7, <1>8, <1>9, <2>1, ReadUpStep
  <2> QED
    BY <1>7, <2>2
<1>11. got = nodes
  BY <1>7, <1>8, <1>9, <1>10, ReadEndStep
<1>12. hierRead' = [nodes |-> hierNodes', stack |-> << >>]
  BY <1>1, <1>3, <1>7, <1>10, <1>11
<1> QED
  BY <1>1, <1>2, <1>12 DEF HierInv, TreeReadsBack

\* The invariant holds at the start.
LEMMA HierStarts ==
  ASSUME HierInit
  PROVE  HierInv
<1>1. /\ hierNodes = << >> /\ hierStack = << >> /\ hierLast = 0 /\ hierPhase = "building"
      /\ hierRead = [nodes |-> << >>, stack |-> << >>]
  BY DEF HierInit
<1>2. << >> \in Seq(HierNode) /\ Len(<< >>) = 0
  OBVIOUS
<1>3. Preorder(<< >>)
  BY <1>2 DEF Preorder
<1>4. ScopesOpen(<< >>, << >>) /\ BuiltInside(<< >>, << >>)
  <2>1. << >> \in Seq(1..Len(<< >>))
    OBVIOUS
  <2> QED
    BY <1>2, <2>1 DEF ScopesOpen, BuiltInside
<1>5. hierLast \in 0..Len(hierNodes)
  BY <1>1, <1>2
<1> QED
  BY <1>1, <1>2, <1>3, <1>4, <1>5 DEF HierInv, TreeReadsBack

\* HierInv holds in every state: building, a node never comes before its scope and
\* what is declared between them is inside it; reading, the tags that are left are
\* those of the attributes, the nodes and the open scopes that are still to come.
THEOREM HierInvariant == HierSpec => []HierInv
<1>1. HierInit => HierInv
  BY HierStarts
<1>2. HierInv /\ [HierNext]_hierVars => HierInv'
  <2> SUFFICES ASSUME HierInv, [HierNext]_hierVars
               PROVE  HierInv'
    OBVIOUS
  <2>1. ASSUME NEW name \in HierNames, BeginScope(name)
        PROVE  HierInv'
    <3>1. "SCOPE" \in HierKinds
      BY DEF HierKinds
    <3>2. Declare("SCOPE", name) /\ hierStack' = Append(hierStack, Len(hierNodes'))
      BY <2>1 DEF BeginScope
    <3> QED
      BY <3>1, <3>2, DeclareKeeps
  <2>2. ASSUME NEW name \in HierNames, AddVar(name)
        PROVE  HierInv'
    <3>1. "VAR" \in HierKinds /\ "VAR" # "SCOPE"
      BY DEF HierKinds
    <3>2. Declare("VAR", name) /\ hierStack' = hierStack
      BY <2>2 DEF AddVar
    <3> QED
      BY <3>1, <3>2, DeclareKeeps
  <2>3. ASSUME NEW name \in HierNames, AddStream(name)
        PROVE  HierInv'
    <3>1. "STREAM" \in HierKinds /\ "STREAM" # "SCOPE"
      BY DEF HierKinds
    <3>2. Declare("STREAM", name) /\ hierStack' = hierStack
      BY <2>3 DEF AddStream
    <3> QED
      BY <3>1, <3>2, DeclareKeeps
  <2>4. ASSUME NEW attr \in HierAttrs, Attach(attr)
        PROVE  HierInv'
    BY <2>4, AttachKeeps
  <2>5. CASE EndScope
    BY <2>5, EndScopeKeeps
  <2>6. CASE WriteHierarchy
    BY <2>6, WriteKeeps
  <2>7. CASE ReadTag
    BY <2>7, ReadTagKeeps
  <2>8. CASE ReadHierarchyEnd
    BY <2>8, ReadEndKeeps
  <2>9. CASE UNCHANGED hierVars
    <3>1. /\ hierNodes' = hierNodes /\ hierStack' = hierStack /\ hierLast' = hierLast
          /\ hierTags' = hierTags /\ hierRead' = hierRead /\ hierPhase' = hierPhase
      BY <2>9 DEF hierVars
    <3> QED
      BY <3>1 DEF HierInv, TreeReadsBack
  <2> QED
    BY <2>1, <2>2, <2>3, <2>4, <2>5, <2>6, <2>7, <2>8, <2>9 DEF HierNext
<1> QED
  BY <1>1, <1>2, PTL DEF HierSpec

\* The tree reads back with every node in its scope and every attribute on its node
\* (_hierarchy.py: _encode_node, _decode_tag_sequence).
THEOREM TreeReadBack == HierSpec => []TreeReadsBack
<1>1. HierInv => TreeReadsBack
  BY DEF HierInv
<1> QED
  BY <1>1, HierInvariant, PTL

-----------------------------------------------------------------------------
(* The type registry: its cells *)

\* Within a word the signed code loses nothing.
LEMMA UnzigzagZigzag == \A n \in Int : Signed(n) => Unzigzag(Zigzag(n)) = n
<1> SUFFICES ASSUME NEW n \in Int, Signed(n) PROVE Unzigzag(Zigzag(n)) = n
  OBVIOUS
<1> USE CodecsAssumption DEF Signed
<1>1. CASE n >= 0
  <2>1. n \div Half = 0
    BY <1>1
  <2>2. (2 * n) % (2 * Half) = 2 * n
    BY <1>1
  <2>3. Zigzag(n) = 2 * n
    BY <1>1, <2>1, <2>2 DEF Zigzag
  <2> QED
    BY <2>3 DEF Unzigzag
<1>2. CASE n < 0
  <2>1. n \div Half = -1
    BY <1>2
  <2>2. (-1 - 2 * n) % (2 * Half) = -1 - 2 * n
    BY <1>2
  <2>3. Zigzag(n) = -1 - 2 * n
    BY <1>2, <2>1, <2>2 DEF Zigzag
  <2> QED
    BY <2>3 DEF Unzigzag
<1> QED
  BY <1>1, <1>2

\* Of cells ahead, the first part, and behind it the second.
LEMMA AheadSplit ==
  ASSUME NEW cells, NEW c, NEW p, IsSequence(p), NEW q, IsSequence(q), CellsAhead(cells, c, p \o q)
  PROVE  CellsAhead(cells, c, p) /\ CellsAhead(cells, c + Len(p), q)
<1>0. PICK s : s = p \o q
  OBVIOUS
<1>1. /\ Len(s) = Len(p) + Len(q)
      /\ \A i \in 1..Len(p) : s[i] = p[i]
      /\ \A i \in 1..Len(q) : s[Len(p) + i] = q[i]
  BY <1>0, SequencesJoined
<1>2. Len(p) \in Nat /\ Len(q) \in Nat
  BY DEF IsSequence
<1>3. /\ c \in Nat /\ Len(cells) \in Nat /\ c + Len(s) <= Len(cells)
      /\ \A i \in 1..Len(s) : cells[c + i] = s[i]
  BY <1>0 DEF CellsAhead
<1>4. CellsAhead(cells, c, p)
  <2>1. \A i \in 1..Len(p) : i \in 1..Len(s)
    BY <1>1, <1>2
  <2> QED
    BY <1>1, <1>2, <1>3, <2>1 DEF CellsAhead
<1>5. CellsAhead(cells, c + Len(p), q)
  <2>1. ASSUME NEW i \in 1..Len(q) PROVE cells[c + Len(p) + i] = q[i]
    <3>1. Len(p) + i \in 1..Len(s) /\ c + (Len(p) + i) = c + Len(p) + i
      BY <1>1, <1>2, <1>3
    <3> QED
      BY <1>1, <1>3, <3>1
  <2>2. c + Len(p) \in Nat /\ c + Len(p) + Len(q) <= Len(cells)
    BY <1>1, <1>2, <1>3
  <2> QED
    BY <1>3, <2>1, <2>2 DEF CellsAhead
<1> QED
  BY <1>4, <1>5

\* No lists make no list.
LEMMA FlattenNone == FlattenSeq(<< >>) = << >>
BY DEF FlattenSeq

\* Short sequences are sequences.
LEMMA ShortSequences ==
  /\ IsSequence(<< >>) /\ Len(<< >>) = 0
  /\ \A x : IsSequence(<<x>>) /\ Len(<<x>>) = 1 /\ <<x>>[1] = x
  /\ \A x, y : IsSequence(<<x, y>>) /\ Len(<<x, y>>) = 2
BY DEF IsSequence

\* What a function makes of the places up to n.
LEMMA MadeSequence ==
  ASSUME NEW n \in Nat, NEW s, s = [k \in 1..n |-> s[k]]
  PROVE  IsSequence(s) /\ Len(s) = n
BY DEF IsSequence

\* The first of some lists, and the others put together.
LEMMA FlattenFirst ==
  ASSUME NEW L, IsSequence(L), Len(L) # 0, \A k \in 1..Len(L) : IsSequence(L[k])
  PROVE  /\ IsSequence(FlattenSeq(L))
         /\ FlattenSeq(L) = L[1] \o FlattenSeq(SubSeq(L, 2, Len(L)))
<1>1. PICK n : n = Len(L)
  OBVIOUS
<1>2. n \in Nat /\ n # 0 /\ L = [k \in 1..n |-> L[k]]
  BY <1>1 DEF IsSequence
<1> DEFINE R == UNION {{L[k][i] : i \in 1..Len(L[k])} : k \in 1..n}
<1>3. ASSUME NEW k \in 1..n PROVE L[k] \in Seq(R)
  <2>1. Len(L[k]) \in Nat /\ L[k] = [i \in 1..Len(L[k]) |-> L[k][i]]
    BY <1>1 DEF IsSequence
  <2>2. \A i \in 1..Len(L[k]) : L[k][i] \in R
    OBVIOUS
  <2> HIDE DEF R
  <2>3. [i \in 1..Len(L[k]) |-> L[k][i]] \in Seq(R)
    BY <2>1, <2>2
  <2> QED
    BY <2>1, <2>3
<1> HIDE DEF R
<1>4. L \in [1..n -> Seq(R)]
  <2>1. [k \in 1..n |-> L[k]] \in [1..n -> Seq(R)]
    BY <1>3
  <2> QED
    BY <1>2, <2>1
<1>5. PICK M : M = SubSeq(L, 2, n)
  OBVIOUS
<1>6. /\ IsSequence(M) /\ Len(M) = n - 1
      /\ \A i \in 1..n - 1 : M[i] = L[i + 1]
  <2>1. 1 \in 0..n /\ 1 + 1 = 2
    BY <1>2
  <2>2. /\ IsSequence(SubSeq(L, 1 + 1, n)) /\ Len(SubSeq(L, 1 + 1, n)) = n - 1
        /\ \A i \in 1..n - 1 : SubSeq(L, 1 + 1, n)[i] = L[1 + i]
    BY <1>1, <2>1, RestIs
  <2>3. \A i \in 1..n - 1 : 1 + i = i + 1
    OBVIOUS
  <2> QED
    BY <1>5, <2>1, <2>2, <2>3
<1>7. M \in [1..n - 1 -> Seq(R)]
  <2>1. \A i \in 1..n - 1 : M[i] \in Seq(R)
    <3>1. \A i \in 1..n - 1 : i + 1 \in 1..n
      BY <1>2
    <3> QED
      BY <1>3, <1>6, <3>1
  <2>2. M = [i \in 1..n - 1 |-> M[i]]
    BY <1>6 DEF IsSequence
  <2>3. [i \in 1..n - 1 |-> M[i]] \in [1..n - 1 -> Seq(R)]
    BY <2>1
  <2> QED
    BY <2>2, <2>3
<1>8. FlattenSeq(L) \in Seq(R) /\ FlattenSeq(L) = L[1] \o FlattenSeq(M)
  BY <1>2, <1>4, <1>6, <1>7, FlattenHead
<1>9. \A t \in Seq(R) : IsSequence(t)
  BY DEF IsSequence
<1> QED
  BY <1>1, <1>5, <1>8, <1>9

\* Lists put together are a list.
LEMMA FlattenIs ==
  ASSUME NEW L, IsSequence(L), \A k \in 1..Len(L) : IsSequence(L[k])
  PROVE  IsSequence(FlattenSeq(L))
<1>1. CASE Len(L) = 0
  <2>1. L = << >>
    BY <1>1 DEF IsSequence
  <2> QED
    BY <2>1, FlattenNone, ShortSequences
<1>2. CASE Len(L) # 0
  BY <1>2, FlattenFirst
<1> QED
  BY <1>1, <1>2

\* What is left of the lists put together, and then one list less.
LEMMA FlattenRest ==
  ASSUME NEW L, IsSequence(L), \A k \in 1..Len(L) : IsSequence(L[k]),
         NEW j \in 0..Len(L) - 1
  PROVE  LET n == Len(L)
             more == FlattenSeq(SubSeq(L, j + 2, n))
         IN  IsSequence(more) /\ FlattenSeq(SubSeq(L, j + 1, n)) = L[j + 1] \o more
<1>1. PICK n : n = Len(L)
  OBVIOUS
<1>2. n \in Nat /\ j \in 0..n /\ j + 1 \in 0..n /\ (j + 1) + 1 = j + 2 /\ j \in 0..n - 1
  BY <1>1 DEF IsSequence
<1>3. PICK r : r = SubSeq(L, j + 1, n)
  OBVIOUS
<1>4. PICK m : m = SubSeq(L, j + 2, n)
  OBVIOUS
<1>5. IsSequence(r) /\ Len(r) = n - j /\ \A i \in 1..n - j : r[i] = L[j + i]
  BY <1>1, <1>2, <1>3, RestIs
<1>6. IsSequence(m) /\ Len(m) = n - (j + 1) /\ \A i \in 1..n - (j + 1) : m[i] = L[j + 1 + i]
  <2>1. /\ IsSequence(SubSeq(L, (j + 1) + 1, n)) /\ Len(SubSeq(L, (j + 1) + 1, n)) = n - (j + 1)
        /\ \A i \in 1..n - (j + 1) : SubSeq(L, (j + 1) + 1, n)[i] = L[j + 1 + i]
    BY <1>1, <1>2, RestIs
  <2> QED
    BY <1>2, <1>4, <2>1
<1>7. m = SubSeq(r, 2, Len(r))
  <2>1. PICK t : t = SubSeq(r, 2, Len(r))
    OBVIOUS
  <2>2. 1 \in 0..Len(r) /\ 1 + 1 = 2
    BY <1>2, <1>5
  <2>3. /\ IsSequence(SubSeq(r, 1 + 1, Len(r))) /\ Len(SubSeq(r, 1 + 1, Len(r))) = Len(r) - 1
        /\ \A i \in 1..Len(r) - 1 : SubSeq(r, 1 + 1, Len(r))[i] = r[1 + i]
    BY <1>5, <2>2, RestIs
  <2>4. IsSequence(t) /\ Len(t) = n - (j + 1) /\ \A i \in 1..n - (j + 1) : t[i] = r[1 + i]
    <3>1. Len(r) - 1 = n - (j + 1)
      BY <1>2, <1>5
    <3> QED
      BY <2>1, <2>2, <2>3, <3>1
  <2>5. ASSUME NEW i \in 1..n - (j + 1) PROVE t[i] = m[i]
    <3>1. 1 + i \in 1..n - j /\ j + (1 + i) = j + 1 + i
      BY <1>2
    <3> QED
      BY <1>5, <1>6, <2>4, <3>1
  <2>6. t = [i \in 1..n - (j + 1) |-> t[i]] /\ m = [i \in 1..n - (j + 1) |-> m[i]]
    BY <1>6, <2>4 DEF IsSequence
  <2> QED
    BY <2>1, <2>5, <2>6
<1>8. \A i \in 1..n - j : IsSequence(r[i])
  <2>1. \A i \in 1..n - j : j + i \in 1..n
    BY <1>2
  <2> QED
    BY <1>1, <1>5, <2>1
<1>9. \A i \in 1..Len(m) : IsSequence(m[i])
  <2>1. \A i \in 1..n - (j + 1) : j + 1 + i \in 1..n
    BY <1>2
  <2> QED
    BY <1>1, <1>6, <2>1
<1>10. IsSequence(FlattenSeq(m))
  BY <1>6, <1>9, FlattenIs
<1>11. Len(r) # 0 /\ r[1] = L[j + 1]
  BY <1>2, <1>5
<1>12. FlattenSeq(r) = L[j + 1] \o FlattenSeq(m)
  BY <1>5, <1>7, <1>8, <1>11, FlattenFirst
<1> QED
  BY <1>1, <1>3, <1>4, <1>10, <1>12

-----------------------------------------------------------------------------
(* Lists and attributes are read as they were written *)

\* A counted list ahead, of cells that stand for its members.
CountedList(p, list, fmt) ==
  /\ Len(p) = 1 + Len(list) /\ p[1] = U(Len(list))
  /\ \A k \in 1..Len(list) :
       /\ p[1 + k].fmt = fmt
       /\ list[k] = IF fmt = "s" THEN Unzigzag(p[1 + k].val) ELSE p[1 + k].val

LEMMA ReadsList ==
  ASSUME NEW cells, NEW c, NEW list, NEW fmt, NEW p, IsSequence(list), CountedList(p, list, fmt),
         CellsAhead(cells, c, p)
  PROVE  Parsed(c + Len(p), list, TRUE) = ParseList(cells, c, fmt)
<1>0. /\ Len(p) = 1 + Len(list) /\ p[1] = U(Len(list))
      /\ \A k \in 1..Len(list) :
           /\ p[1 + k].fmt = fmt
           /\ list[k] = IF fmt = "s" THEN Unzigzag(p[1 + k].val) ELSE p[1 + k].val
  BY DEF CountedList
<1>1. PICK n : n = Len(list)
  OBVIOUS
<1>2. n \in Nat /\ list = [k \in 1..n |-> list[k]]
  BY <1>1 DEF IsSequence
<1>3. /\ c \in Nat /\ Len(cells) \in Nat /\ c + (1 + n) <= Len(cells)
      /\ \A i \in 1..1 + n : cells[c + i] = p[i]
  BY <1>0, <1>1 DEF CellsAhead
<1>4. cells[c + 1].val = n /\ cells[c + 1].fmt = "u"
  <2>1. 1 \in 1..1 + n
    BY <1>2
  <2>2. cells[c + 1] = U(n)
    BY <1>0, <1>1, <1>3, <2>1
  <2> QED
    BY <2>2 DEF U
<1>5. ASSUME NEW k \in 1..n
      PROVE  /\ cells[c + 1 + k].fmt = fmt
             /\ list[k] = IF fmt = "s" THEN Unzigzag(cells[c + 1 + k].val) ELSE cells[c + 1 + k].val
  <2>1. 1 + k \in 1..1 + n /\ c + (1 + k) = c + 1 + k
    BY <1>2, <1>3
  <2>2. cells[c + 1 + k] = p[1 + k]
    BY <1>3, <2>1
  <2> QED
    BY <1>0, <1>1, <2>2
<1>6. Holds(cells, c, <<"u">>)
  BY <1>2, <1>3, <1>4 DEF Holds
<1>7. PICK fmts : fmts = [k \in 1..n |-> fmt]
  OBVIOUS
<1>8. Holds(cells, c + 1, fmts)
  <2>1. Len(fmts) = n /\ c + 1 + n <= Len(cells)
    BY <1>2, <1>3, <1>7
  <2> QED
    BY <1>5, <1>7, <2>1 DEF Holds
<1>9. list = [k \in 1..n |-> IF fmt = "s" THEN Unzigzag(cells[c + 1 + k].val) ELSE cells[c + 1 + k].val]
  BY <1>2, <1>5
<1>10. c + 1 + n = c + Len(p)
  BY <1>0, <1>1, <1>2, <1>3
<1> QED
  BY <1>4, <1>6, <1>7, <1>8, <1>9, <1>10 DEF ParseList

\* A value reads back in the format of its type.
LEMMA ReadsValue ==
  ASSUME NEW base \in {"BOOL", "I64", "U64", "REAL", "STR"}, NEW val \in Int,
         base = "I64" => Signed(val)
  PROVE  LET cell == ValueCell(base, val)
         IN  /\ cell.fmt = ValueFormat(base)
             /\ val = IF base = "I64" THEN Unzigzag(cell.val) ELSE cell.val
<1>1. CASE base = "I64"
  <2>1. ValueCell(base, val) = S(val) /\ ValueFormat(base) = "s"
    BY <1>1 DEF ValueCell, ValueFormat
  <2>2. Unzigzag(Zigzag(val)) = val
    BY <1>1, UnzigzagZigzag
  <2> QED
    BY <1>1, <2>1, <2>2 DEF S
<1>2. CASE base = "BOOL" \/ base = "REAL"
  <2>1. ValueCell(base, val) = F(base, val) /\ ValueFormat(base) = base
    BY <1>2 DEF ValueCell, ValueFormat
  <2> QED
    BY <1>2, <2>1 DEF F
<1>3. CASE base = "U64" \/ base = "STR"
  <2>1. ValueCell(base, val) = U(val) /\ ValueFormat(base) = "u"
    BY <1>3 DEF ValueCell, ValueFormat
  <2> QED
    BY <1>3, <2>1 DEF U
<1> QED
  BY <1>1, <1>2, <1>3

\* The cells before an attribute's values.
HeadLen(a) == IF a.array THEN 3 ELSE 2

\* The cells of an attribute.
LEMMA AttrCellsAre ==
  ASSUME NEW a \in Attribute
  PROVE  LET p == TypedAttrCells(a)
             n == Len(a.vals)
         IN  /\ IsSequence(p) /\ n \in Nat /\ Len(p) = HeadLen(a) + n
             /\ p[1] = U(a.key) /\ p[2] = F("TYPE", <<a.base, a.array>>)
             /\ a.array => p[3] = U(n)
             /\ ~a.array => n = 1
             /\ \A k \in 1..n : p[HeadLen(a) + k] = ValueCell(a.base, a.vals[k])
<1>1. a.vals \in Seq(Int) /\ a.array \in BOOLEAN /\ (~a.array => Len(a.vals) = 1)
  BY DEF Attribute
<1>2. PICK n : n = Len(a.vals)
  OBVIOUS
<1>3. n \in Nat
  BY <1>1, <1>2
<1>4. PICK h : h = <<U(a.key), F("TYPE", <<a.base, a.array>>)>>
  OBVIOUS
<1>5. PICK m : m = IF a.array THEN <<U(n)>> ELSE << >>
  OBVIOUS
<1>6. PICK v : v = [k \in 1..n |-> ValueCell(a.base, a.vals[k])]
  OBVIOUS
<1>7. IsSequence(h) /\ Len(h) = 2 /\ h[1] = U(a.key) /\ h[2] = F("TYPE", <<a.base, a.array>>)
  BY <1>4 DEF IsSequence
<1>8. IsSequence(m) /\ Len(m) = IF a.array THEN 1 ELSE 0
  BY <1>1, <1>5, ShortSequences
<1>9. IsSequence(v) /\ Len(v) = n
  BY <1>3, <1>6 DEF IsSequence
<1>10. PICK q : q = h \o m
  OBVIOUS
<1>11. PICK p : p = q \o v
  OBVIOUS
<1>12. TypedAttrCells(a) = p
  BY <1>2, <1>4, <1>5, <1>6, <1>10, <1>11 DEF TypedAttrCells
<1>13. /\ IsSequence(q) /\ Len(q) = Len(h) + Len(m)
       /\ \A i \in 1..Len(h) : q[i] = h[i]
       /\ \A i \in 1..Len(m) : q[Len(h) + i] = m[i]
  <2>1. IsSequence(h) /\ IsSequence(m)
    BY <1>7, <1>8
  <2>2. /\ IsSequence(h \o m) /\ Len(h \o m) = Len(h) + Len(m)
        /\ \A i \in 1..Len(h) : (h \o m)[i] = h[i]
        /\ \A i \in 1..Len(m) : (h \o m)[Len(h) + i] = m[i]
    BY <2>1, SequencesJoined
  <2> QED
    BY <1>10, <2>2
<1>14. /\ IsSequence(p) /\ Len(p) = Len(q) + Len(v)
       /\ \A i \in 1..Len(q) : p[i] = q[i]
       /\ \A i \in 1..Len(v) : p[Len(q) + i] = v[i]
  <2>1. IsSequence(q) /\ IsSequence(v)
    BY <1>9, <1>13
  <2>2. /\ IsSequence(q \o v) /\ Len(q \o v) = Len(q) + Len(v)
        /\ \A i \in 1..Len(q) : (q \o v)[i] = q[i]
        /\ \A i \in 1..Len(v) : (q \o v)[Len(q) + i] = v[i]
    BY <2>1, SequencesJoined
  <2> QED
    BY <1>11, <2>2
<1>15. Len(q) = HeadLen(a)
  BY <1>1, <1>7, <1>8, <1>13 DEF HeadLen
<1>16. p[1] = U(a.key) /\ p[2] = F("TYPE", <<a.base, a.array>>)
  <2>1. q[1] = h[1] /\ q[2] = h[2]
    BY <1>7, <1>13
  <2>2. 1 \in 1..Len(q) /\ 2 \in 1..Len(q)
    BY <1>15 DEF HeadLen
  <2> QED
    BY <1>7, <1>14, <2>1, <2>2
<1>17. ASSUME a.array PROVE p[3] = U(n)
  <2>1. Len(m) = 1 /\ m[1] = U(n)
    BY <1>5, <1>8, <1>17
  <2>2. q[3] = m[1]
    BY <1>7, <1>13, <2>1
  <2>3. 3 \in 1..Len(q)
    BY <1>15, <1>17 DEF HeadLen
  <2> QED
    BY <1>14, <2>1, <2>2, <2>3
<1>18. \A k \in 1..n : p[HeadLen(a) + k] = ValueCell(a.base, a.vals[k])
  BY <1>6, <1>9, <1>14, <1>15
<1>19. Len(p) = HeadLen(a) + n
  BY <1>9, <1>14, <1>15
<1> QED
  BY <1>1, <1>2, <1>3, <1>12, <1>14, <1>16, <1>17, <1>18, <1>19

\* An attribute ahead is read.
LEMMA ReadsAttr ==
  ASSUME NEW a \in Attribute, AttrFits(a), NEW cells, NEW st, st.ok,
         CellsAhead(cells, st.at, TypedAttrCells(a))
  PROVE  ParseAttr(cells, st) = Parsed(st.at + Len(TypedAttrCells(a)), Append(st.got, a), TRUE)
<1>1. PICK p, n, c, m : p = TypedAttrCells(a) /\ n = Len(a.vals) /\ c = st.at /\ m = HeadLen(a)
  OBVIOUS
<1>2. /\ n \in Nat /\ Len(p) = m + n
      /\ p[1] = U(a.key) /\ p[2] = F("TYPE", <<a.base, a.array>>)
      /\ a.array => p[3] = U(n)
      /\ ~a.array => n = 1
      /\ \A k \in 1..n : p[m + k] = ValueCell(a.base, a.vals[k])
  BY <1>1, AttrCellsAre
<1>3. m \in Nat /\ m >= 2 /\ (a.array => m = 3) /\ (~a.array => m = 2)
  BY <1>1 DEF HeadLen
<1>4. /\ c \in Nat /\ Len(cells) \in Nat /\ c + (m + n) <= Len(cells)
      /\ \A i \in 1..m + n : cells[c + i] = p[i]
  BY <1>1, <1>2 DEF CellsAhead
<1>5. /\ a.base \in {"BOOL", "I64", "U64", "REAL", "STR"} /\ a.array \in BOOLEAN
      /\ a.vals \in Seq(Int)
      /\ a = [key |-> a.key, base |-> a.base, array |-> a.array, vals |-> a.vals]
  BY DEF Attribute
<1>6. cells[c + 1].fmt = "u" /\ cells[c + 1].val = a.key
  <2>1. 1 \in 1..m + n
    BY <1>2, <1>3
  <2> QED
    BY <1>2, <1>4, <2>1 DEF U
<1>7. cells[c + 2].fmt = "TYPE" /\ cells[c + 2].val = <<a.base, a.array>>
  <2>1. 2 \in 1..m + n
    BY <1>2, <1>3
  <2> QED
    BY <1>2, <1>4, <2>1 DEF F
<1>8. ASSUME a.array PROVE cells[c + 2 + 1].fmt = "u" /\ cells[c + 2 + 1].val = n
  <2>1. 3 \in 1..m + n /\ c + 3 = c + 2 + 1
    BY <1>2, <1>3, <1>4, <1>8
  <2>2. cells[c + 2 + 1] = U(n)
    BY <1>2, <1>4, <1>8, <2>1
  <2> QED
    BY <2>2 DEF U
<1>9. ASSUME NEW k \in 1..n
      PROVE  /\ cells[c + m + k].fmt = ValueFormat(a.base)
             /\ a.vals[k] = IF a.base = "I64" THEN Unzigzag(cells[c + m + k].val)
                            ELSE cells[c + m + k].val
  <2>1. m + k \in 1..m + n /\ c + (m + k) = c + m + k
    BY <1>2, <1>3, <1>4
  <2>2. cells[c + m + k] = ValueCell(a.base, a.vals[k])
    BY <1>2, <1>4, <2>1
  <2>3. a.vals[k] \in Int /\ (a.base = "I64" => Signed(a.vals[k]))
    BY <1>1, <1>5 DEF AttrFits
  <2> QED
    BY <1>5, <2>2, <2>3, ReadsValue
<1> DEFINE head == c + 2
           type == cells[head].val
           count == IF type[2] THEN cells[head + 1].val ELSE 1
           vals == IF type[2] THEN head + 1 ELSE head
           Val(k) == IF type[1] = "I64" THEN Unzigzag(cells[vals + k].val) ELSE cells[vals + k].val
<1>10. type[1] = a.base /\ type[2] = a.array
  BY <1>7
<1>11. count = n /\ vals = c + m
  BY <1>2, <1>3, <1>4, <1>5, <1>8, <1>10
<1>12. Holds(cells, c, <<"u", "TYPE">>)
  <2>1. c + 2 <= Len(cells)
    BY <1>2, <1>3, <1>4
  <2> QED
    BY <1>6, <1>7, <2>1 DEF Holds
<1>13. type[2] => Holds(cells, head, <<"u">>)
  <2>1. a.array => c + 2 + 1 <= Len(cells)
    BY <1>2, <1>3, <1>4
  <2> QED
    BY <1>8, <1>10, <2>1 DEF Holds
<1>14. PICK fmts : fmts = [k \in 1..count |-> ValueFormat(type[1])]
  OBVIOUS
<1>15. Holds(cells, vals, fmts)
  <2>1. Len(fmts) = n /\ \A k \in 1..n : fmts[k] = ValueFormat(a.base)
    BY <1>2, <1>10, <1>11, <1>14
  <2>2. c + m + n <= Len(cells)
    BY <1>2, <1>3, <1>4
  <2> QED
    BY <1>9, <1>11, <2>1, <2>2 DEF Holds
<1>16. a.vals = [k \in 1..count |-> Val(k)]
  <2>1. a.vals = [k \in 1..n |-> a.vals[k]]
    BY <1>1, <1>5
  <2>2. \A k \in 1..n : Val(k) = a.vals[k]
    BY <1>9, <1>10, <1>11
  <2> HIDE DEF count, Val
  <2> QED
    BY <1>11, <2>1, <2>2
<1>17. vals + count = c + Len(p)
  <2>1. c + m + n = c + (m + n)
    BY <1>2, <1>3, <1>4
  <2> HIDE DEF vals, count
  <2> QED
    BY <1>2, <1>11, <2>1
<1>18. ParseAttr(cells, st)
         = Parsed(vals + count,
                  Append(st.got, [key |-> cells[c + 1].val, base |-> type[1], array |-> type[2],
                                  vals |-> [k \in 1..count |-> Val(k)]]), TRUE)
  BY <1>1, <1>12, <1>13, <1>14, <1>15 DEF ParseAttr
<1> HIDE DEF type, count, vals, Val
<1>19. [key |-> cells[c + 1].val, base |-> type[1], array |-> type[2],
        vals |-> [k \in 1..count |-> Val(k)]] = a
  BY <1>5, <1>6, <1>10, <1>16
<1> QED
  BY <1>1, <1>17, <1>18, <1>19

\* A beginning of a sequence and the member after it.
LEMMA BeginningFurther ==
  ASSUME NEW R, NEW s \in Seq(R), NEW j \in 0..Len(s) - 1
  PROVE  SubSeq(s, 1, j + 1) = Append(SubSeq(s, 1, j), s[j + 1])
<1>1. PICK b : b = SubSeq(s, 1, j)
  OBVIOUS
<1>2. PICK m : m = SubSeq(s, 1, j + 1)
  OBVIOUS
<1>3. Len(s) \in Nat /\ j + 1 \in 1..Len(s) /\ j \in Nat
  OBVIOUS
<1>4. b \in Seq(R) /\ Len(b) = j /\ \A i \in 1..j : b[i] = s[i]
  BY <1>1, <1>3
<1>5. m \in Seq(R) /\ Len(m) = j + 1 /\ \A i \in 1..j + 1 : m[i] = s[i]
  BY <1>2, <1>3
<1>6. s[j + 1] \in R
  BY <1>3
<1>7. m = Append(b, s[j + 1])
  BY <1>3, <1>4, <1>5, <1>6
<1> QED
  BY <1>1, <1>2, <1>7

\* The cells of a list of attributes.
LEMMA AttrListIs ==
  ASSUME NEW attrs \in Seq(Attribute)
  PROVE  LET L == [k \in 1..Len(attrs) |-> TypedAttrCells(attrs[k])]
         IN  /\ IsSequence(L) /\ Len(L) = Len(attrs) /\ \A k \in 1..Len(L) : IsSequence(L[k])
             /\ IsSequence(FlattenSeq(L)) /\ AttrListCells(attrs) = <<U(Len(attrs))>> \o FlattenSeq(L)
             /\ IsSequence(AttrListCells(attrs))
             /\ Len(AttrListCells(attrs)) = 1 + Len(FlattenSeq(L))
<1>1. PICK n, L : n = Len(attrs) /\ L = [k \in 1..n |-> TypedAttrCells(attrs[k])]
  OBVIOUS
<1>2. n \in Nat
  BY <1>1
<1>3. IsSequence(L) /\ Len(L) = n
  BY <1>1, <1>2 DEF IsSequence
<1>4. \A k \in 1..n : IsSequence(L[k])
  <2> TAKE k \in 1..n
  <2>1. attrs[k] \in Attribute
    BY <1>1
  <2>2. L[k] = TypedAttrCells(attrs[k])
    BY <1>1
  <2> QED
    BY <2>1, <2>2, AttrCellsAre
<1>5. IsSequence(FlattenSeq(L))
  BY <1>3, <1>4, FlattenIs
<1>6. PICK h, q : h = <<U(n)>> /\ q = FlattenSeq(L)
  OBVIOUS
<1>7. IsSequence(h) /\ Len(h) = 1
  BY <1>6, ShortSequences
<1>8. AttrListCells(attrs) = h \o q
  BY <1>1, <1>6 DEF AttrListCells
<1>9. IsSequence(h \o q) /\ Len(h \o q) = Len(h) + Len(q)
  BY <1>5, <1>6, <1>7, SequencesJoined
<1> QED
  BY <1>1, <1>3, <1>4, <1>5, <1>6, <1>7, <1>8, <1>9

\* A list of attributes ahead is read, attribute after attribute.
LEMMA ReadsAttrsSoFar ==
  ASSUME NEW attrs \in Seq(Attribute), \A k \in 1..Len(attrs) : AttrFits(attrs[k]),
         NEW cells, NEW c, CellsAhead(cells, c, AttrListCells(attrs)),
         NEW acc, acc[0] = Parsed(c + 1, << >>, TRUE),
         \A j \in 1..Len(attrs) : acc[j] = ParseAttr(cells, acc[j - 1])
  PROVE  acc[Len(attrs)] = Parsed(c + Len(AttrListCells(attrs)), attrs, TRUE)
<1>1. PICK n, L : n = Len(attrs) /\ L = [k \in 1..Len(attrs) |-> TypedAttrCells(attrs[k])]
  OBVIOUS
<1>2. PICK q : q = FlattenSeq(L)
  OBVIOUS
<1>3. /\ n \in Nat /\ IsSequence(L) /\ Len(L) = n /\ \A k \in 1..n : IsSequence(L[k])
      /\ IsSequence(q) /\ AttrListCells(attrs) = <<U(n)>> \o q
      /\ Len(AttrListCells(attrs)) = 1 + Len(q)
  <2>1. \A k \in 1..Len(L) : IsSequence(L[k])
    BY <1>1, AttrListIs
  <2>2. IsSequence(L) /\ Len(L) = Len(attrs) /\ Len(attrs) \in Nat
    <3>1. Len(attrs) \in Nat
      OBVIOUS
    <3>2. IsSequence(L)
      BY <1>1, AttrListIs
    <3>3. Len(L) = Len(attrs)
      BY <1>1, <3>1
    <3> QED
      BY <3>1, <3>2, <3>3
  <2>3. /\ IsSequence(q) /\ AttrListCells(attrs) = <<U(n)>> \o q
        /\ Len(AttrListCells(attrs)) = 1 + Len(q)
    BY <1>1, <1>2, AttrListIs
  <2> QED
    BY <1>1, <2>1, <2>2, <2>3
<1>4. Len(q) \in Nat
  BY <1>3 DEF IsSequence
<1>5. c \in Nat /\ CellsAhead(cells, c + 1, q)
  <2>1. c \in Nat
    BY DEF CellsAhead
  <2>2. CellsAhead(cells, c, <<U(n)>> \o q)
    BY <1>3
  <2>3. IsSequence(<<U(n)>>) /\ Len(<<U(n)>>) = 1
    BY ShortSequences
  <2>4. CellsAhead(cells, c + Len(<<U(n)>>), q)
    BY <1>3, <2>2, <2>3, AheadSplit
  <2> QED
    BY <2>1, <2>3, <2>4
<1> DEFINE Rest(j) == FlattenSeq(SubSeq(L, j + 1, n))
           Good(j) == \E at : /\ acc[j] = Parsed(at, SubSeq(attrs, 1, j), TRUE)
                              /\ CellsAhead(cells, at, Rest(j))
                              /\ at + Len(Rest(j)) = c + 1 + Len(q)
           T == {j \in 0..n : ~Good(j)}
<1>6. Good(0)
  <2>1. SubSeq(attrs, 1, 0) = << >>
    OBVIOUS
  <2>2. SubSeq(L, 0 + 1, n) = L
    <3>1. PICK r : r = SubSeq(L, 0 + 1, n)
      OBVIOUS
    <3>2. 0 \in 0..n
      BY <1>3
    <3>3. IsSequence(r) /\ Len(r) = n - 0 /\ \A i \in 1..n - 0 : r[i] = L[0 + i]
      BY <1>3, <3>1, <3>2, RestIs
    <3>4. Len(r) = n /\ \A i \in 1..n : r[i] = L[i]
      BY <1>3, <3>3
    <3>5. r = [i \in 1..n |-> r[i]] /\ L = [i \in 1..n |-> L[i]]
      BY <1>3, <3>3, <3>4 DEF IsSequence
    <3> QED
      BY <3>1, <3>4, <3>5
  <2>3. Rest(0) = q
    BY <1>2, <2>2
  <2> HIDE DEF Rest
  <2> QED
    BY <1>5, <2>1, <2>3
<1>7. ASSUME NEW j \in 0..n - 1, Good(j) PROVE Good(j + 1)
  <2>1. PICK at : /\ acc[j] = Parsed(at, SubSeq(attrs, 1, j), TRUE)
                  /\ CellsAhead(cells, at, Rest(j))
                  /\ at + Len(Rest(j)) = c + 1 + Len(q)
    BY <1>7
  <2>2. PICK a : a = attrs[j + 1]
    OBVIOUS
  <2>3. j + 1 \in 1..n /\ (j + 1) - 1 = j /\ (j + 1) + 1 = j + 2 /\ j \in 0..Len(L) - 1
    BY <1>3
  <2>4. a \in Attribute /\ AttrFits(a) /\ L[j + 1] = TypedAttrCells(a)
    BY <1>1, <2>2, <2>3
  <2>5. PICK p, more : p = TypedAttrCells(a) /\ more = FlattenSeq(SubSeq(L, j + 2, n))
    OBVIOUS
  <2>6. IsSequence(p) /\ Len(p) \in Nat
    <3>1. IsSequence(p)
      BY <2>4, <2>5, AttrCellsAre
    <3> QED
      BY <3>1 DEF IsSequence
  <2>7. IsSequence(more) /\ Rest(j) = p \o more
    <3>1. IsSequence(more) /\ FlattenSeq(SubSeq(L, j + 1, n)) = L[j + 1] \o more
      BY <1>3, <2>3, <2>5, FlattenRest
    <3> QED
      BY <2>4, <2>5, <3>1
  <2>8. CellsAhead(cells, at, p) /\ CellsAhead(cells, at + Len(p), more)
    <3> HIDE DEF Rest
    <3>1. CellsAhead(cells, at, p \o more)
      BY <2>1, <2>7
    <3> QED
      BY <2>6, <2>7, <3>1, AheadSplit
  <2>9. Len(p \o more) = Len(p) + Len(more) /\ Len(more) \in Nat
    <3>1. Len(p \o more) = Len(p) + Len(more)
      BY <2>6, <2>7, SequencesJoined
    <3> QED
      BY <2>7, <3>1 DEF IsSequence
  <2>10. PICK st : st = acc[j]
    OBVIOUS
  <2>11. st.ok /\ st.at = at /\ st.got = SubSeq(attrs, 1, j)
    BY <2>1, <2>10 DEF Parsed
  <2>12. ParseAttr(cells, st) = Parsed(at + Len(p), Append(st.got, a), TRUE)
    <3>1. CellsAhead(cells, st.at, TypedAttrCells(a))
      BY <2>5, <2>8, <2>11
    <3>2. ParseAttr(cells, st) = Parsed(st.at + Len(TypedAttrCells(a)), Append(st.got, a), TRUE)
      BY <2>4, <2>11, <3>1, ReadsAttr
    <3> QED
      BY <2>5, <2>11, <3>2
  <2>13. SubSeq(attrs, 1, j + 1) = Append(st.got, a)
    <3>1. j \in 0..Len(attrs) - 1
      BY <1>1
    <3> QED
      BY <2>2, <2>11, <3>1, BeginningFurther
  <2>14. acc[j + 1] = Parsed(at + Len(p), SubSeq(attrs, 1, j + 1), TRUE)
    <3>1. acc[j + 1] = ParseAttr(cells, acc[(j + 1) - 1])
      BY <1>1, <2>3
    <3> QED
      BY <2>3, <2>10, <2>12, <2>13, <3>1
  <2>15. Rest(j + 1) = more
    BY <2>3, <2>5
  <2>16. at \in Nat
    BY <2>8 DEF CellsAhead
  <2> HIDE DEF Rest
  <2>17. (at + Len(p)) + Len(more) = c + 1 + Len(q)
    BY <2>1, <2>6, <2>7, <2>9, <2>16
  <2> QED
    BY <2>8, <2>14, <2>15, <2>17
<1>8. Good(n)
  <2> HIDE DEF Good
  <2>1. ASSUME T # {} PROVE FALSE
    <3>1. PICK j \in T : \A i \in T : j <= i
      <4>1. T \in SUBSET Nat
        OBVIOUS
      <4> HIDE DEF T
      <4> QED
        BY <2>1, <4>1, LeastNumber
    <3>2. j \in 0..n /\ ~Good(j)
      OBVIOUS
    <3>3. j # 0
      BY <1>6, <3>2
    <3>4. j - 1 \in 0..n - 1 /\ j - 1 \in 0..n /\ ~(j <= j - 1) /\ (j - 1) + 1 = j
      BY <1>3, <3>2, <3>3
    <3>5. Good(j - 1)
      BY <3>1, <3>4
    <3>6. Good((j - 1) + 1)
      BY <1>7, <3>4, <3>5
    <3> QED
      BY <3>2, <3>4, <3>6
  <2>2. n \in 0..n
    BY <1>3
  <2> QED
    BY <2>1, <2>2
<1>9. PICK at : /\ acc[n] = Parsed(at, SubSeq(attrs, 1, n), TRUE)
                /\ CellsAhead(cells, at, Rest(n))
                /\ at + Len(Rest(n)) = c + 1 + Len(q)
  BY <1>8
<1>10. Rest(n) = << >>
  <2>1. PICK r : r = SubSeq(L, n + 1, n)
    OBVIOUS
  <2>2. n \in 0..n /\ n - n = 0
    BY <1>3
  <2>3. IsSequence(r) /\ Len(r) = 0
    BY <1>3, <2>1, <2>2, RestIs
  <2>4. r = << >>
    BY <2>3 DEF IsSequence
  <2> QED
    BY <2>1, <2>4, FlattenNone
<1>11. SubSeq(attrs, 1, n) = attrs
  BY <1>1
<1>12. at = c + (1 + Len(q))
  <2>1. at \in Nat
    BY <1>9 DEF CellsAhead
  <2> HIDE DEF Rest
  <2>2. at + 0 = c + 1 + Len(q)
    BY <1>9, <1>10
  <2> QED
    BY <1>4, <1>5, <2>1, <2>2
<1> HIDE DEF Rest
<1> QED
  BY <1>1, <1>3, <1>9, <1>11, <1>12

\* The number of attributes comes first.
LEMMA AttrCount ==
  ASSUME NEW attrs \in Seq(Attribute), NEW cells, NEW c, CellsAhead(cells, c, AttrListCells(attrs))
  PROVE  Holds(cells, c, <<"u">>) /\ cells[c + 1].val = Len(attrs)
<1>1. PICK n, q : n = Len(attrs) /\ q = FlattenSeq([k \in 1..Len(attrs) |-> TypedAttrCells(attrs[k])])
  OBVIOUS
<1>2. IsSequence(q) /\ AttrListCells(attrs) = <<U(n)>> \o q
  BY <1>1, AttrListIs
<1>3. IsSequence(<<U(n)>>) /\ Len(<<U(n)>>) = 1 /\ <<U(n)>>[1] = U(n)
  BY ShortSequences
<1>4. CellsAhead(cells, c, <<U(n)>>)
  BY <1>2, <1>3, AheadSplit
<1>5. c \in Nat /\ c + 1 <= Len(cells) /\ cells[c + 1] = U(n)
  BY <1>3, <1>4 DEF CellsAhead
<1>6. cells[c + 1].fmt = "u" /\ cells[c + 1].val = n
  BY <1>5 DEF U
<1> QED
  BY <1>1, <1>5, <1>6 DEF Holds

\* Attributes are read from the block of metadata, and from the registry's, for
\* a stream, from its sixth cell on.
MetaStep(st, k) == ParseAttr(regCells.meta, st)
StreamStep(st, k) == ParseAttr(regCells.registry, st)
MetaFold == INSTANCE TrlFolds WITH Step <- MetaStep, Base <- Parsed(0 + 1, << >>, TRUE)
StreamFold == INSTANCE TrlFolds WITH Step <- StreamStep, Base <- Parsed(regCur + 1 + 6 + 1, << >>, TRUE)

\* The attributes of the metadata block are read.
LEMMA ReadsMetaAttrs ==
  ASSUME NEW attrs \in Seq(Attribute), \A k \in 1..Len(attrs) : AttrFits(attrs[k]),
         CellsAhead(regCells.meta, 0, AttrListCells(attrs))
  PROVE  ParseAttrs(regCells.meta, 0) = Parsed(0 + Len(AttrListCells(attrs)), attrs, TRUE)
<1>1. PICK n, cells : n = Len(attrs) /\ cells = regCells.meta
  OBVIOUS
<1>2. n \in Nat /\ Holds(cells, 0, <<"u">>) /\ cells[0 + 1].val = n
  BY <1>1, AttrCount
<1>3. PICK seq : seq = [k \in 1..n |-> k]
  OBVIOUS
<1>4. n = Len(seq) /\ DOMAIN seq = 1..n
  BY <1>2, <1>3
<1>5. PICK acc : /\ acc = [j \in 0..n |-> acc[j]]
                 /\ acc[0] = Parsed(0 + 1, << >>, TRUE) /\ acc[n] = MetaFold!Fold(seq)
                 /\ \A j \in 1..n : acc[j] = MetaStep(acc[j - 1], seq[j])
  BY <1>2, <1>4, MetaFold!FoldSteps
<1>6. \A j \in 1..n : acc[j] = ParseAttr(cells, acc[j - 1])
  BY <1>1, <1>5 DEF MetaStep
<1>7. acc[n] = Parsed(0 + Len(AttrListCells(attrs)), attrs, TRUE)
  BY <1>1, <1>5, <1>6, ReadsAttrsSoFar
<1>8. ParseAttrs(cells, 0) = MetaFold!Fold(seq)
  <2>1. ParseAttrs(regCells.meta, 0)
          = FoldLeft(LAMBDA st, k : ParseAttr(regCells.meta, st), Parsed(0 + 1, << >>, TRUE), seq)
    BY <1>1, <1>2, <1>3 DEF ParseAttrs
  <2>2. FoldLeft(LAMBDA st, k : ParseAttr(regCells.meta, st), Parsed(0 + 1, << >>, TRUE), seq)
          = MetaFold!Fold(seq)
    BY DEF MetaFold!Fold, MetaStep, FoldLeft, MapThenFoldSet, Max,
           MetaFold!FoldLeft, MetaFold!MapThenFoldSet, MetaFold!Max
  <2> QED
    BY <1>1, <2>1, <2>2
<1> QED
  BY <1>1, <1>5, <1>7, <1>8

\* The attributes of a stream are read.
LEMMA ReadsStreamAttrs ==
  ASSUME NEW attrs \in Seq(Attribute), \A k \in 1..Len(attrs) : AttrFits(attrs[k]),
         CellsAhead(regCells.registry, regCur + 1 + 6, AttrListCells(attrs))
  PROVE  ParseAttrs(regCells.registry, regCur + 1 + 6)
           = Parsed(regCur + 1 + 6 + Len(AttrListCells(attrs)), attrs, TRUE)
<1>1. PICK n, cells, c : n = Len(attrs) /\ cells = regCells.registry /\ c = regCur + 1 + 6
  OBVIOUS
<1>2. n \in Nat /\ Holds(cells, c, <<"u">>) /\ cells[c + 1].val = n
  BY <1>1, AttrCount
<1>3. PICK seq : seq = [k \in 1..n |-> k]
  OBVIOUS
<1>4. n = Len(seq) /\ DOMAIN seq = 1..n
  BY <1>2, <1>3
<1>5. PICK acc : /\ acc = [j \in 0..n |-> acc[j]]
                 /\ acc[0] = Parsed(regCur + 1 + 6 + 1, << >>, TRUE) /\ acc[n] = StreamFold!Fold(seq)
                 /\ \A j \in 1..n : acc[j] = StreamStep(acc[j - 1], seq[j])
  BY <1>2, <1>4, StreamFold!FoldSteps
<1>6. \A j \in 1..n : acc[j] = ParseAttr(cells, acc[j - 1])
  BY <1>1, <1>5 DEF StreamStep
<1>7. acc[n] = Parsed(c + Len(AttrListCells(attrs)), attrs, TRUE)
  <2>1. acc[0] = Parsed(c + 1, << >>, TRUE)
    BY <1>1, <1>5
  <2>2. \A j \in 1..Len(attrs) : acc[j] = ParseAttr(cells, acc[j - 1])
    BY <1>1, <1>6
  <2>3. CellsAhead(cells, c, AttrListCells(attrs))
    BY <1>1
  <2> QED
    BY <1>1, <2>1, <2>2, <2>3, ReadsAttrsSoFar
<1>8. ParseAttrs(cells, c) = StreamFold!Fold(seq)
  <2>1. ParseAttrs(regCells.registry, regCur + 1 + 6)
          = FoldLeft(LAMBDA st, k : ParseAttr(regCells.registry, st), Parsed(regCur + 1 + 6 + 1, << >>, TRUE), seq)
    BY <1>1, <1>2, <1>3 DEF ParseAttrs
  <2>2. FoldLeft(LAMBDA st, k : ParseAttr(regCells.registry, st), Parsed(regCur + 1 + 6 + 1, << >>, TRUE), seq)
          = StreamFold!Fold(seq)
    BY DEF StreamFold!Fold, StreamStep, FoldLeft, MapThenFoldSet, Max,
           StreamFold!FoldLeft, StreamFold!MapThenFoldSet, StreamFold!Max
  <2> QED
    BY <1>1, <2>1, <2>2
<1> QED
  BY <1>1, <1>5, <1>7, <1>8

-----------------------------------------------------------------------------
(* The entries *)

\* Cells ahead, one part and the one behind it.
LEMMA AheadJoin ==
  ASSUME NEW cells, NEW c, NEW p, IsSequence(p), NEW q, IsSequence(q),
         CellsAhead(cells, c, p), CellsAhead(cells, c + Len(p), q)
  PROVE  CellsAhead(cells, c, p \o q)
<1>0. PICK s : s = p \o q
  OBVIOUS
<1>1. /\ Len(s) = Len(p) + Len(q)
      /\ \A i \in 1..Len(p) : s[i] = p[i]
      /\ \A i \in 1..Len(q) : s[Len(p) + i] = q[i]
  BY <1>0, SequencesJoined
<1>2. Len(p) \in Nat /\ Len(q) \in Nat
  BY DEF IsSequence
<1>3. /\ c \in Nat /\ Len(cells) \in Nat /\ c + Len(p) + Len(q) <= Len(cells)
      /\ \A i \in 1..Len(p) : cells[c + i] = p[i]
      /\ \A i \in 1..Len(q) : cells[c + Len(p) + i] = q[i]
  BY DEF CellsAhead
<1>4. ASSUME NEW i \in 1..Len(s) PROVE cells[c + i] = s[i]
  <2>1. CASE i <= Len(p)
    <3>1. i \in 1..Len(p)
      BY <1>1, <1>2, <2>1
    <3> QED
      BY <1>1, <1>3, <3>1
  <2>2. CASE i > Len(p)
    <3>1. /\ i - Len(p) \in 1..Len(q) /\ Len(p) + (i - Len(p)) = i
          /\ c + Len(p) + (i - Len(p)) = c + i
      BY <1>1, <1>2, <1>3, <2>2
    <3>2. s[Len(p) + (i - Len(p))] = q[i - Len(p)]
      BY <1>1, <3>1
    <3>3. cells[c + Len(p) + (i - Len(p))] = q[i - Len(p)]
      BY <1>3, <3>1
    <3> QED
      BY <3>1, <3>2, <3>3
  <2> QED
    BY <1>1, <1>2, <2>1, <2>2
<1>5. c + Len(s) <= Len(cells)
  BY <1>1, <1>2, <1>3
<1> QED
  BY <1>0, <1>3, <1>4, <1>5 DEF CellsAhead

\* The first cells of an entry.
LEMMA Triple ==
  ASSUME NEW x, NEW y, NEW z
  PROVE  LET t == <<x, y, z>>
         IN  IsSequence(t) /\ Len(t) = 3 /\ t[1] = x /\ t[2] = y /\ t[3] = z
BY DEF IsSequence

\* The cells of a stream without codec, metadata and inputs.
LEMMA PlainStreamCells ==
  ASSUME NEW s \in Stream, NEW id, ~NeedsV2(s)
  PROVE  LET p == StreamCells(id, s)
         IN  /\ IsSequence(p) /\ Len(p) = 3
             /\ p[1] = F("TAG", "STREAM") /\ p[2] = U(id) /\ p[3] = U(s.kind)
<1>1. StreamCells(id, s) = <<F("TAG", "STREAM"), U(id), U(s.kind)>>
  BY DEF StreamCells
<1> QED
  BY <1>1, Triple

\* The cells of another one: tag and length, what is known of a stream, the
\* attributes, the inputs, and what a newer writer added.
Known(id, s) == <<U(id), U(s.kind), U(s.codec.id), U(s.codec.version), F("PARAMS", s.codec.params)>>
InputCells(s) == [k \in 1..Len(s.inputs) |-> U(s.inputs[k])]
Newer == IF regNewer THEN <<F("NEW", 0)>> ELSE << >>

LEMMA FullStreamCells ==
  ASSUME NEW s \in Stream, NEW id, NeedsV2(s)
  PROVE  LET n == Len(s.inputs)
             attrs == AttrListCells(s.metadata)
             inputs == InputCells(s)
             upto == (Known(id, s) \o attrs) \o <<U(n)>>
             body == (upto \o inputs) \o Newer
             p == StreamCells(id, s)
         IN  /\ n \in Nat
             /\ IsSequence(Known(id, s)) /\ Len(Known(id, s)) = 5
             /\ IsSequence(attrs) /\ IsSequence(Known(id, s) \o attrs)
             /\ Len(Known(id, s) \o attrs) = 5 + Len(attrs)
             /\ IsSequence(upto) /\ Len(upto) = 5 + Len(attrs) + 1
             /\ IsSequence(inputs) /\ Len(inputs) = n
             /\ IsSequence(upto \o inputs) /\ IsSequence(Newer)
             /\ IsSequence(body)
             /\ p = <<F("TAG", "STREAM2"), U(Len(body))>> \o body
             /\ IsSequence(p) /\ Len(p) = 2 + Len(body)
<1>1. PICK n, attrs, inputs, known, new :
        /\ n = Len(s.inputs) /\ attrs = AttrListCells(s.metadata) /\ inputs = InputCells(s)
        /\ known = Known(id, s) /\ new = Newer
  OBVIOUS
<1>2. s.metadata \in Seq(Attribute) /\ s.inputs \in Seq(Nat)
  BY DEF Stream
<1>3. n \in Nat
  BY <1>1, <1>2
<1>4. IsSequence(attrs) /\ Len(attrs) \in Nat
  <2>1. IsSequence(attrs)
    BY <1>1, <1>2, AttrListIs
  <2> QED
    BY <2>1 DEF IsSequence
<1>5. IsSequence(inputs) /\ Len(inputs) = n
  BY <1>1, <1>3 DEF InputCells, IsSequence
<1>6. IsSequence(known) /\ Len(known) = 5
  BY <1>1 DEF Known, IsSequence
<1>7. IsSequence(new)
  BY <1>1, ShortSequences DEF Newer
<1>8. IsSequence(<<U(n)>>) /\ Len(<<U(n)>>) = 1
  BY ShortSequences
<1>9. IsSequence(known \o attrs) /\ Len(known \o attrs) = 5 + Len(attrs)
  <2>1. IsSequence(known) /\ IsSequence(attrs)
    BY <1>4, <1>6
  <2>2. IsSequence(known \o attrs) /\ Len(known \o attrs) = Len(known) + Len(attrs)
    BY <2>1, SequencesJoined
  <2> QED
    BY <1>6, <2>2
<1>10. PICK k1 : k1 = known \o attrs
  OBVIOUS
<1>11. IsSequence(k1 \o <<U(n)>>) /\ Len(k1 \o <<U(n)>>) = 5 + Len(attrs) + 1
  <2>1. IsSequence(k1) /\ Len(k1) = 5 + Len(attrs)
    BY <1>9, <1>10
  <2> QED
    BY <1>8, <2>1, SequencesJoined
<1>12. PICK upto : upto = k1 \o <<U(n)>>
  OBVIOUS
<1>13. IsSequence(upto \o inputs)
  <2>1. IsSequence(upto)
    BY <1>11, <1>12
  <2> QED
    BY <1>5, <2>1, SequencesJoined
<1>14. PICK k2 : k2 = upto \o inputs
  OBVIOUS
<1>15. IsSequence(k2 \o new)
  <2>1. IsSequence(k2)
    BY <1>13, <1>14
  <2> QED
    BY <1>7, <2>1, SequencesJoined
<1>16. PICK body, h : body = k2 \o new /\ h = <<F("TAG", "STREAM2"), U(Len(body))>>
  OBVIOUS
<1>17. IsSequence(h) /\ Len(h) = 2
  BY <1>16, ShortSequences
<1>18. IsSequence(h \o body) /\ Len(h \o body) = 2 + Len(body)
  <2>1. IsSequence(body)
    BY <1>15, <1>16
  <2> QED
    <3>1. IsSequence(h)
      BY <1>17
    <3>2. IsSequence(h \o body) /\ Len(h \o body) = Len(h) + Len(body)
      BY <2>1, <3>1, SequencesJoined
    <3> QED
      BY <1>17, <3>2
<1>19. StreamCells(id, s) = h \o body
  <2>1. StreamCells(id, s)
          = <<F("TAG", "STREAM2"), U(Len((((Known(id, s) \o AttrListCells(s.metadata))
                                            \o <<U(Len(s.inputs))>>) \o InputCells(s)) \o Newer))>>
            \o ((((Known(id, s) \o AttrListCells(s.metadata))
                   \o <<U(Len(s.inputs))>>) \o InputCells(s)) \o Newer)
    BY DEF StreamCells, Known, InputCells, Newer
  <2> QED
    BY <2>1, <1>1, <1>10, <1>12, <1>14, <1>16
<1> QED
  BY <1>1, <1>3, <1>4, <1>5, <1>6, <1>7, <1>9, <1>10, <1>11, <1>12, <1>13, <1>14, <1>15,
     <1>16, <1>18, <1>19

\* Every stream has a sequence of cells.
LEMMA StreamCellsAre ==
  ASSUME NEW s \in Stream, NEW id
  PROVE  IsSequence(StreamCells(id, s))
<1>1. CASE NeedsV2(s)
  BY <1>1, FullStreamCells
<1>2. CASE ~NeedsV2(s)
  BY <1>2, PlainStreamCells
<1> QED
  BY <1>1, <1>2

\* A stream's inputs ahead are read.
LEMMA ReadsInputs ==
  ASSUME NEW s \in Stream, NEW cells, NEW c,
         CellsAhead(cells, c, <<U(Len(s.inputs))>>), CellsAhead(cells, c + 1, InputCells(s))
  PROVE  /\ ParseList(cells, c, "u").ok /\ ParseList(cells, c, "u").got = s.inputs
<1>1. PICK n, l, h, q : /\ n = Len(s.inputs) /\ l = s.inputs /\ h = <<U(n)>> /\ q = InputCells(s)
  OBVIOUS
<1>2. s.inputs \in Seq(Nat)
  BY DEF Stream
<1>3. n \in Nat /\ IsSequence(l) /\ Len(l) = n
  BY <1>1, <1>2 DEF IsSequence
<1>4. q = [k \in 1..n |-> U(l[k])]
  BY <1>1 DEF InputCells
<1>5. IsSequence(q) /\ Len(q) = n
  BY <1>3, <1>4 DEF IsSequence
<1>6. IsSequence(h) /\ Len(h) = 1 /\ h[1] = U(n)
  BY <1>1, ShortSequences
<1>7. PICK p : p = h \o q
  OBVIOUS
<1>8. CellsAhead(cells, c, p)
  <2>1. CellsAhead(cells, c, h) /\ CellsAhead(cells, c + Len(h), q)
    BY <1>1, <1>6
  <2>2. IsSequence(h) /\ IsSequence(q)
    BY <1>5, <1>6
  <2> QED
    BY <1>7, <2>1, <2>2, AheadJoin
<1>9. /\ Len(p) = 1 + n /\ p[1] = U(n)
      /\ \A k \in 1..n : p[1 + k] = U(l[k])
  <2>1. IsSequence(h) /\ IsSequence(q)
    BY <1>5, <1>6
  <2>2. /\ Len(h \o q) = Len(h) + Len(q)
        /\ \A i \in 1..Len(h) : (h \o q)[i] = h[i]
        /\ \A i \in 1..Len(q) : (h \o q)[Len(h) + i] = q[i]
    BY <2>1, SequencesJoined
  <2>3. Len(p) = 1 + n
    BY <1>5, <1>6, <1>7, <2>2
  <2>4. p[1] = U(n)
    BY <1>6, <1>7, <2>2
  <2>5. \A k \in 1..n : p[1 + k] = q[k]
    BY <1>5, <1>6, <1>7, <2>2
  <2>6. \A k \in 1..n : q[k] = U(l[k])
    BY <1>4
  <2> QED
    BY <2>3, <2>4, <2>5, <2>6
<1>10. \A k \in 1..Len(l) : /\ p[1 + k].fmt = "u"
                            /\ l[k] = IF "u" = "s" THEN Unzigzag(p[1 + k].val) ELSE p[1 + k].val
  <2> TAKE k \in 1..Len(l)
  <2>1. p[1 + k] = [fmt |-> "u", val |-> l[k]]
    BY <1>3, <1>9 DEF U
  <2> QED
    BY <2>1
<1>11. ParseList(cells, c, "u") = Parsed(c + Len(p), l, TRUE)
  <2>1. p[1] = U(Len(l)) /\ Len(p) = 1 + Len(l)
    BY <1>3, <1>9
  <2> QED
    <3>1. PICK fmt : fmt = "u"
      OBVIOUS
    <3>2. \A k \in 1..Len(l) :
            /\ p[1 + k].fmt = fmt
            /\ l[k] = IF fmt = "s" THEN Unzigzag(p[1 + k].val) ELSE p[1 + k].val
      BY <1>10, <3>1
    <3>3. CountedList(p, l, fmt)
      BY <2>1, <3>2 DEF CountedList
    <3>4. ParseList(cells, c, fmt) = Parsed(c + Len(p), l, TRUE)
      BY <1>3, <1>8, <3>3, ReadsList
    <3> QED
      BY <3>1, <3>4
<1> QED
  BY <1>1, <1>11 DEF Parsed

\* The attributes of a stream fit.
StreamFits(s) == \A k \in 1..Len(s.metadata) : AttrFits(s.metadata[k])

\* A stream's entry ahead is read, and the reader stands behind it.
LEMMA ReadsStream ==
  ASSUME NEW s \in Stream, StreamFits(s), NEW id, NeedsV2(s), regCur \in Nat,
         CellsAhead(regCells.registry, regCur, StreamCells(id, s))
  PROVE  LET cells == regCells.registry
             c == regCur + 1
         IN  /\ cells[c].fmt = "TAG" /\ cells[c].val = "STREAM2" /\ cells[c + 2].val = id
             /\ ParseStream(cells, c) = Parsed(regCur + Len(StreamCells(id, s)), s, TRUE)
<1>1. PICK n, attrs, inputs, known, new, cells, c :
        /\ n = Len(s.inputs) /\ attrs = AttrListCells(s.metadata) /\ inputs = InputCells(s)
        /\ known = Known(id, s) /\ new = Newer /\ cells = regCells.registry /\ c = regCur + 1
  OBVIOUS
<1>2. PICK k1, h1 : k1 = known \o attrs /\ h1 = <<U(n)>>
  OBVIOUS
<1>3. PICK upto : upto = k1 \o h1
  OBVIOUS
<1>4. PICK k2 : k2 = upto \o inputs
  OBVIOUS
<1>5. PICK body, p : body = k2 \o new /\ p = StreamCells(id, s)
  OBVIOUS
<1>6. PICK h : h = <<F("TAG", "STREAM2"), U(Len(body))>>
  OBVIOUS
<1>7. /\ IsSequence(known) /\ Len(known) = 5 /\ IsSequence(attrs)
      /\ IsSequence(k1) /\ Len(k1) = 5 + Len(attrs)
      /\ IsSequence(upto) /\ Len(upto) = 5 + Len(attrs) + 1
      /\ IsSequence(inputs) /\ IsSequence(k2) /\ IsSequence(new) /\ IsSequence(body)
      /\ p = h \o body /\ Len(p) = 2 + Len(body)
  BY <1>1, <1>2, <1>3, <1>4, <1>5, <1>6, FullStreamCells
<1>8. Len(attrs) \in Nat /\ Len(body) \in Nat
  BY <1>7 DEF IsSequence
<1>9. IsSequence(h) /\ Len(h) = 2 /\ h[1] = F("TAG", "STREAM2") /\ h[2] = U(Len(body))
  BY <1>6, ShortSequences
<1>10. IsSequence(h1) /\ Len(h1) = 1 /\ h1[1] = U(n)
  BY <1>2, ShortSequences
<1>11. CellsAhead(cells, regCur, h) /\ CellsAhead(cells, regCur + Len(h), body)
  <2>1. CellsAhead(cells, regCur, h \o body)
    BY <1>1, <1>5, <1>7
  <2>2. IsSequence(h) /\ IsSequence(body)
    BY <1>7, <1>9
  <2> QED
    BY <2>1, <2>2, AheadSplit
<1>12. CellsAhead(cells, regCur + 2, k2)
  <2>1. CellsAhead(cells, regCur + 2, k2 \o new)
    BY <1>5, <1>9, <1>11
  <2>2. IsSequence(k2) /\ IsSequence(new)
    BY <1>7
  <2> QED
    BY <2>1, <2>2, AheadSplit
<1>13. CellsAhead(cells, regCur + 2, upto) /\ CellsAhead(cells, regCur + 2 + Len(upto), inputs)
  <2>1. CellsAhead(cells, regCur + 2, upto \o inputs)
    BY <1>4, <1>12
  <2>2. IsSequence(upto) /\ IsSequence(inputs)
    BY <1>7
  <2> QED
    BY <2>1, <2>2, AheadSplit
<1>14. CellsAhead(cells, regCur + 2, k1) /\ CellsAhead(cells, regCur + 2 + Len(k1), h1)
  <2>1. CellsAhead(cells, regCur + 2, k1 \o h1)
    BY <1>3, <1>13
  <2>2. IsSequence(k1) /\ IsSequence(h1)
    BY <1>7, <1>10
  <2> QED
    BY <2>1, <2>2, AheadSplit
<1>15. CellsAhead(cells, regCur + 2, known) /\ CellsAhead(cells, regCur + 2 + Len(known), attrs)
  <2>1. CellsAhead(cells, regCur + 2, known \o attrs)
    BY <1>2, <1>14
  <2>2. IsSequence(known) /\ IsSequence(attrs)
    BY <1>7
  <2> QED
    BY <2>1, <2>2, AheadSplit
<1>16. cells[c] = F("TAG", "STREAM2") /\ cells[c + 1] = U(Len(body)) /\ regCur + 2 <= Len(cells)
  <2>1. \A i \in 1..2 : cells[regCur + i] = h[i]
    BY <1>9, <1>11 DEF CellsAhead
  <2>2. cells[regCur + 1] = h[1] /\ cells[regCur + 2] = h[2] /\ regCur + 2 = c + 1
    BY <1>1, <2>1
  <2>3. regCur + Len(h) <= Len(cells)
    BY <1>11 DEF CellsAhead
  <2> QED
    BY <1>1, <1>9, <2>2, <2>3
<1>17. /\ cells[c + 1 + 1] = U(id) /\ cells[c + 1 + 2] = U(s.kind) /\ cells[c + 1 + 3] = U(s.codec.id)
       /\ cells[c + 1 + 4] = U(s.codec.version) /\ cells[c + 1 + 5] = F("PARAMS", s.codec.params)
       /\ regCur + 7 <= Len(cells)
  <2>1. \A i \in 1..5 : cells[regCur + 2 + i] = known[i]
    BY <1>7, <1>15 DEF CellsAhead
  <2>2. c + 1 = regCur + 2
    BY <1>1
  <2>3. /\ known[1] = U(id) /\ known[2] = U(s.kind) /\ known[3] = U(s.codec.id)
        /\ known[4] = U(s.codec.version) /\ known[5] = F("PARAMS", s.codec.params)
    BY <1>1 DEF Known
  <2>4. regCur + 2 + 5 <= Len(cells)
    BY <1>7, <1>15 DEF CellsAhead
  <2>5. 1 \in 1..5 /\ 2 \in 1..5 /\ 3 \in 1..5 /\ 4 \in 1..5 /\ 5 \in 1..5
    OBVIOUS
  <2>6. regCur + 7 <= Len(cells)
    BY <2>4
  <2> QED
    BY <2>1, <2>2, <2>3, <2>5, <2>6
<1>18. ParseAttrs(cells, c + 6) = Parsed(c + 6 + Len(attrs), s.metadata, TRUE)
  <2>1. regCur + 2 + Len(known) = regCur + 1 + 6
    BY <1>7
  <2>2. CellsAhead(regCells.registry, regCur + 1 + 6, AttrListCells(s.metadata))
    BY <1>1, <1>15, <2>1
  <2>3. s.metadata \in Seq(Attribute)
    BY DEF Stream
  <2> QED
    BY <1>1, <2>2, <2>3, ReadsStreamAttrs DEF StreamFits
<1>19. PICK at : at = c + 6 + Len(attrs)
  OBVIOUS
<1>20. ParseList(cells, at, "u").ok /\ ParseList(cells, at, "u").got = s.inputs
  <2>1. regCur + 2 + Len(k1) = at /\ regCur + 2 + Len(upto) = at + 1
    BY <1>1, <1>7, <1>8, <1>19
  <2>2. CellsAhead(cells, at, <<U(Len(s.inputs))>>) /\ CellsAhead(cells, at + 1, InputCells(s))
    BY <1>1, <1>2, <1>13, <1>14, <2>1
  <2> QED
    BY <2>2, ReadsInputs
<1>21. Holds(cells, c, <<"u", "u", "u", "u", "u", "PARAMS">>)
  <2>1. PICK fmts : fmts = <<"u", "u", "u", "u", "u", "PARAMS">>
    OBVIOUS
  <2>2. /\ cells[c + 1].fmt = "u" /\ cells[c + 1 + 1].fmt = "u" /\ cells[c + 1 + 2].fmt = "u"
        /\ cells[c + 1 + 3].fmt = "u" /\ cells[c + 1 + 4].fmt = "u" /\ cells[c + 1 + 5].fmt = "PARAMS"
    BY <1>16, <1>17 DEF U, F
  <2>3. /\ c + 1 + 1 = c + 2 /\ c + 1 + 2 = c + 3 /\ c + 1 + 3 = c + 4 /\ c + 1 + 4 = c + 5
        /\ c + 1 + 5 = c + 6 /\ c + 6 <= Len(cells)
    <3>1. c + 6 = regCur + 7
      BY <1>1
    <3> QED
      BY <1>1, <1>17, <3>1
  <2>4. /\ Len(fmts) = 6 /\ fmts[1] = "u" /\ fmts[2] = "u" /\ fmts[3] = "u" /\ fmts[4] = "u"
        /\ fmts[5] = "u" /\ fmts[6] = "PARAMS"
    BY <2>1
  <2>5. \A k \in 1..6 : k = 1 \/ k = 2 \/ k = 3 \/ k = 4 \/ k = 5 \/ k = 6
    OBVIOUS
  <2>6. \A k \in 1..6 : cells[c + k].fmt = fmts[k]
    BY <2>2, <2>3, <2>4, <2>5
  <2> QED
    BY <2>1, <2>3, <2>4, <2>6 DEF Holds
<1>22. /\ cells[c + 1].val = Len(body) /\ cells[c + 1 + 2].val = s.kind
       /\ cells[c + 1 + 3].val = s.codec.id /\ cells[c + 1 + 4].val = s.codec.version
       /\ cells[c + 1 + 5].val = s.codec.params
  BY <1>16, <1>17 DEF U, F
<1>23. s = [kind |-> s.kind, codec |-> [id |-> s.codec.id, version |-> s.codec.version,
                                        params |-> s.codec.params],
            metadata |-> s.metadata, inputs |-> s.inputs]
  <2>1. s.codec \in StreamCodecs \cup {NoCodec}
    BY DEF Stream
  <2>2. s.codec = [id |-> s.codec.id, version |-> s.codec.version, params |-> s.codec.params]
    <3>1. CASE s.codec \in StreamCodecs
      BY <3>1, RegistryAssumption
    <3>2. CASE s.codec = NoCodec
      BY <3>2 DEF NoCodec
    <3> QED
      BY <2>1, <3>1, <3>2
  <2>3. s = [kind |-> s.kind, codec |-> s.codec, metadata |-> s.metadata, inputs |-> s.inputs]
    BY DEF Stream
  <2> QED
    BY <2>2, <2>3
<1>24. ParseStream(cells, c) = Parsed(c + 1 + Len(body), s, TRUE)
  <2>1. PICK pa, pl : pa = ParseAttrs(cells, c + 6) /\ pl = ParseList(cells, at, "u")
    OBVIOUS
  <2>2. pa.ok /\ pa.at = at /\ pa.got = s.metadata
    BY <1>18, <1>19, <2>1 DEF Parsed
  <2>3. pl.ok /\ pl.got = s.inputs
    BY <1>20, <2>1
  <2>4. ParseStream(cells, c)
          = Parsed(c + 1 + cells[c + 1].val,
                   [kind |-> cells[c + 1 + 2].val,
                    codec |-> [id |-> cells[c + 1 + 3].val, version |-> cells[c + 1 + 4].val,
                               params |-> cells[c + 1 + 5].val],
                    metadata |-> pa.got, inputs |-> pl.got], TRUE)
    BY <1>21, <2>1, <2>2, <2>3 DEF ParseStream
  <2> QED
    BY <1>22, <1>23, <2>2, <2>3, <2>4
<1>25. c + 1 + Len(body) = regCur + Len(p)
  BY <1>1, <1>7, <1>8
<1>26. cells[c].fmt = "TAG" /\ cells[c].val = "STREAM2" /\ cells[c + 2].val = id
  <2>1. c + 1 + 1 = c + 2
    BY <1>1
  <2> QED
    BY <1>16, <1>17, <2>1 DEF U, F
<1> QED
  BY <1>1, <1>5, <1>24, <1>25, <1>26

\* The cells of a schema and of an enumeration.
LEMMA SchemaCellsAre ==
  ASSUME NEW e \in Seq(FieldTypes), NEW id
  PROVE  LET p == SchemaCells(id, e)
             n == Len(e)
         IN  /\ n \in Nat /\ IsSequence(p) /\ Len(p) = 3 + n
             /\ p[1] = F("TAG", "SCHEMA") /\ p[2] = U(id) /\ p[3] = U(n)
             /\ \A k \in 1..n : p[3 + k] = F("BYTE", e[k])
<1>1. PICK n, h, q : /\ n = Len(e) /\ h = <<F("TAG", "SCHEMA"), U(id), U(n)>>
                     /\ q = [k \in 1..Len(e) |-> F("BYTE", e[k])]
  OBVIOUS
<1>2. n \in Nat
  BY <1>1
<1>3. IsSequence(q) /\ Len(q) = n
  BY <1>1, <1>2 DEF IsSequence
<1>4. IsSequence(h) /\ Len(h) = 3 /\ h[1] = F("TAG", "SCHEMA") /\ h[2] = U(id) /\ h[3] = U(n)
  BY <1>1, Triple
<1>5. PICK p : p = h \o q
  OBVIOUS
<1>6. SchemaCells(id, e) = p
  BY <1>1, <1>5 DEF SchemaCells
<1>7. /\ IsSequence(p) /\ Len(p) = Len(h) + Len(q)
      /\ \A i \in 1..Len(h) : p[i] = h[i]
      /\ \A i \in 1..Len(q) : p[Len(h) + i] = q[i]
  <2>1. /\ IsSequence(h \o q) /\ Len(h \o q) = Len(h) + Len(q)
        /\ \A i \in 1..Len(h) : (h \o q)[i] = h[i]
        /\ \A i \in 1..Len(q) : (h \o q)[Len(h) + i] = q[i]
    <3>1. IsSequence(h) /\ IsSequence(q)
      BY <1>3, <1>4
    <3> QED
      BY <3>1, SequencesJoined
  <2> QED
    BY <1>5, <2>1
<1>8. p[1] = h[1] /\ p[2] = h[2] /\ p[3] = h[3]
  BY <1>4, <1>7
<1>9. \A k \in 1..n : p[3 + k] = F("BYTE", e[k])
  BY <1>1, <1>3, <1>4, <1>7
<1> QED
  BY <1>1, <1>2, <1>3, <1>4, <1>6, <1>7, <1>8, <1>9

LEMMA EnumCellsAre ==
  ASSUME NEW e \in Seq(Int), NEW id
  PROVE  LET p == EnumCells(id, e)
             n == Len(e)
         IN  /\ n \in Nat /\ IsSequence(p) /\ Len(p) = 3 + n
             /\ p[1] = F("TAG", "ENUM") /\ p[2] = U(id) /\ p[3] = U(n)
             /\ \A k \in 1..n : p[3 + k] = S(e[k])
<1>1. PICK n, h, q : /\ n = Len(e) /\ h = <<F("TAG", "ENUM"), U(id), U(n)>>
                     /\ q = [k \in 1..Len(e) |-> S(e[k])]
  OBVIOUS
<1>2. n \in Nat
  BY <1>1
<1>3. IsSequence(q) /\ Len(q) = n
  BY <1>1, <1>2 DEF IsSequence
<1>4. IsSequence(h) /\ Len(h) = 3 /\ h[1] = F("TAG", "ENUM") /\ h[2] = U(id) /\ h[3] = U(n)
  BY <1>1, Triple
<1>5. PICK p : p = h \o q
  OBVIOUS
<1>6. EnumCells(id, e) = p
  BY <1>1, <1>5 DEF EnumCells
<1>7. /\ IsSequence(p) /\ Len(p) = Len(h) + Len(q)
      /\ \A i \in 1..Len(h) : p[i] = h[i]
      /\ \A i \in 1..Len(q) : p[Len(h) + i] = q[i]
  <2>1. /\ IsSequence(h \o q) /\ Len(h \o q) = Len(h) + Len(q)
        /\ \A i \in 1..Len(h) : (h \o q)[i] = h[i]
        /\ \A i \in 1..Len(q) : (h \o q)[Len(h) + i] = q[i]
    <3>1. IsSequence(h) /\ IsSequence(q)
      BY <1>3, <1>4
    <3> QED
      BY <3>1, SequencesJoined
  <2> QED
    BY <1>5, <2>1
<1>8. p[1] = h[1] /\ p[2] = h[2] /\ p[3] = h[3]
  BY <1>4, <1>7
<1>9. \A k \in 1..n : p[3 + k] = S(e[k])
  BY <1>1, <1>3, <1>4, <1>7
<1> QED
  BY <1>1, <1>2, <1>3, <1>4, <1>6, <1>7, <1>8, <1>9

\* How the entries follow one another.
EntriesInOrder ==
  /\ SigsFrom \in Nat /\ SchemasFrom \in Nat /\ EnumsFrom \in Nat /\ StreamsFrom \in Nat
  /\ Len(reg.sigs) \in Nat /\ Len(reg.schemas) \in Nat /\ Len(reg.enums) \in Nat
  /\ Len(reg.streams) \in Nat
  /\ IsSequence(Entries) /\ Len(Entries) = StreamsFrom + Len(reg.streams)
  /\ SigsFrom = IF regNewer THEN 1 ELSE 0
  /\ SchemasFrom = SigsFrom + Len(reg.sigs) /\ EnumsFrom = SchemasFrom + Len(reg.schemas)
  /\ StreamsFrom = EnumsFrom + Len(reg.enums)
  /\ \A k \in 1..SigsFrom : Entries[k] = ForeignCells
  /\ \A k \in 1..Len(reg.sigs) : Entries[SigsFrom + k] = SignalCells(k, reg.sigs[k])
  /\ \A k \in 1..Len(reg.schemas) : Entries[SchemasFrom + k] = SchemaCells(k, reg.schemas[k])
  /\ \A k \in 1..Len(reg.enums) : Entries[EnumsFrom + k] = EnumCells(k, reg.enums[k])
  /\ \A k \in 1..Len(reg.streams) : Entries[StreamsFrom + k] = StreamCells(k, reg.streams[k])

LEMMA EntriesAre ==
  ASSUME RegTypeOK
  PROVE  EntriesInOrder
<1>1. PICK s, c, e, t : /\ s = Len(reg.sigs) /\ c = Len(reg.schemas)
                        /\ e = Len(reg.enums) /\ t = Len(reg.streams)
  OBVIOUS
<1>2. s \in Nat /\ c \in Nat /\ e \in Nat /\ t \in Nat
  BY <1>1 DEF RegTypeOK
<1>3. PICK a, b, d, f, g :
        /\ a = IF regNewer THEN <<ForeignCells>> ELSE << >>
        /\ b = [k \in 1..Len(reg.sigs) |-> SignalCells(k, reg.sigs[k])]
        /\ d = [k \in 1..Len(reg.schemas) |-> SchemaCells(k, reg.schemas[k])]
        /\ f = [k \in 1..Len(reg.enums) |-> EnumCells(k, reg.enums[k])]
        /\ g = [k \in 1..Len(reg.streams) |-> StreamCells(k, reg.streams[k])]
  OBVIOUS
<1>4. IsSequence(a) /\ Len(a) = SigsFrom /\ \A k \in 1..SigsFrom : a[k] = ForeignCells
  BY <1>3 DEF SigsFrom, IsSequence
<1>5. IsSequence(b) /\ Len(b) = s
  BY <1>1, <1>2, <1>3 DEF IsSequence
<1>6. IsSequence(d) /\ Len(d) = c
  BY <1>1, <1>2, <1>3 DEF IsSequence
<1>7. IsSequence(f) /\ Len(f) = e
  BY <1>1, <1>2, <1>3 DEF IsSequence
<1>8. IsSequence(g) /\ Len(g) = t
  BY <1>1, <1>2, <1>3 DEF IsSequence
<1>9. PICK ab : ab = a \o b
  OBVIOUS
<1>10. PICK ad : ad = ab \o d
  OBVIOUS
<1>11. PICK af : af = ad \o f
  OBVIOUS
<1>12. PICK ag : ag = af \o g
  OBVIOUS
<1>13. Entries = ag
  BY <1>3, <1>9, <1>10, <1>11, <1>12 DEF Entries
<1>14. /\ IsSequence(ab) /\ Len(ab) = Len(a) + Len(b)
       /\ \A i \in 1..Len(a) : ab[i] = a[i]
       /\ \A i \in 1..Len(b) : ab[Len(a) + i] = b[i]
  <2>1. IsSequence(a) /\ IsSequence(b)
    BY <1>4, <1>5
  <2> QED
    BY <1>9, <2>1, SequencesJoined
<1>15. /\ IsSequence(ad) /\ Len(ad) = Len(ab) + Len(d)
       /\ \A i \in 1..Len(ab) : ad[i] = ab[i]
       /\ \A i \in 1..Len(d) : ad[Len(ab) + i] = d[i]
  <2>1. IsSequence(ab) /\ IsSequence(d)
    BY <1>6, <1>14
  <2> QED
    BY <1>10, <2>1, SequencesJoined
<1>16. /\ IsSequence(af) /\ Len(af) = Len(ad) + Len(f)
       /\ \A i \in 1..Len(ad) : af[i] = ad[i]
       /\ \A i \in 1..Len(f) : af[Len(ad) + i] = f[i]
  <2>1. IsSequence(ad) /\ IsSequence(f)
    BY <1>7, <1>15
  <2> QED
    BY <1>11, <2>1, SequencesJoined
<1>17. /\ IsSequence(ag) /\ Len(ag) = Len(af) + Len(g)
       /\ \A i \in 1..Len(af) : ag[i] = af[i]
       /\ \A i \in 1..Len(g) : ag[Len(af) + i] = g[i]
  <2>1. IsSequence(af) /\ IsSequence(g)
    BY <1>8, <1>16
  <2> QED
    BY <1>12, <2>1, SequencesJoined
<1>18. SigsFrom \in Nat
  BY DEF SigsFrom
<1>19. Len(ab) = SchemasFrom /\ Len(ad) = EnumsFrom /\ Len(af) = StreamsFrom
  BY <1>1, <1>4, <1>5, <1>6, <1>7, <1>14, <1>15, <1>16 DEF SchemasFrom, EnumsFrom, StreamsFrom
<1>20. /\ SchemasFrom = SigsFrom + s /\ EnumsFrom = SchemasFrom + c /\ StreamsFrom = EnumsFrom + e
       /\ SchemasFrom \in Nat /\ EnumsFrom \in Nat /\ StreamsFrom \in Nat
       /\ Len(ag) = StreamsFrom + t
  <2>1. /\ SchemasFrom = SigsFrom + s /\ EnumsFrom = SchemasFrom + c
        /\ StreamsFrom = EnumsFrom + e
    BY <1>1 DEF SchemasFrom, EnumsFrom, StreamsFrom
  <2>2. SchemasFrom \in Nat
    BY <1>2, <1>18, <2>1
  <2>3. EnumsFrom \in Nat
    BY <1>2, <2>1, <2>2
  <2>4. StreamsFrom \in Nat
    BY <1>2, <2>1, <2>3
  <2>5. Len(ag) = StreamsFrom + t
    BY <1>8, <1>17, <1>19
  <2> QED
    BY <2>1, <2>2, <2>3, <2>4, <2>5
<1>21. \A i \in 1..StreamsFrom : ag[i] = af[i]
  BY <1>17, <1>19
<1>22. \A i \in 1..EnumsFrom : i \in 1..StreamsFrom /\ af[i] = ad[i]
  BY <1>2, <1>16, <1>19, <1>20
<1>23. \A i \in 1..SchemasFrom : i \in 1..EnumsFrom /\ ad[i] = ab[i]
  BY <1>2, <1>15, <1>19, <1>20
<1>24. \A i \in 1..SigsFrom : i \in 1..SchemasFrom /\ ab[i] = a[i]
  BY <1>2, <1>4, <1>14, <1>18, <1>20
<1>25. \A k \in 1..SigsFrom : ag[k] = ForeignCells
  BY <1>4, <1>21, <1>22, <1>23, <1>24
<1>26. \A k \in 1..s : ag[SigsFrom + k] = b[k]
  <2> TAKE k \in 1..s
  <2>1. SigsFrom + k \in 1..SchemasFrom
    BY <1>2, <1>18, <1>20
  <2>2. ab[SigsFrom + k] = b[k]
    BY <1>4, <1>5, <1>14
  <2>3. SigsFrom + k \in 1..EnumsFrom /\ ad[SigsFrom + k] = ab[SigsFrom + k]
    BY <1>23, <2>1
  <2>4. SigsFrom + k \in 1..StreamsFrom /\ af[SigsFrom + k] = ad[SigsFrom + k]
    BY <1>22, <2>3
  <2> QED
    BY <1>21, <2>2, <2>3, <2>4
<1>27. \A k \in 1..c : ag[SchemasFrom + k] = d[k]
  <2> TAKE k \in 1..c
  <2>0. PICK x, y : x = SchemasFrom /\ y = EnumsFrom
    OBVIOUS
  <2>1. SchemasFrom + k \in 1..EnumsFrom
    <3>1. x \in Nat /\ y \in Nat /\ y = x + c
      BY <1>20, <2>0
    <3>2. x + k \in 1..y
      BY <1>2, <3>1
    <3> QED
      BY <2>0, <3>2
  <2>2. ad[SchemasFrom + k] = d[k]
    BY <1>6, <1>15, <1>19
  <2>3. SchemasFrom + k \in 1..StreamsFrom /\ af[SchemasFrom + k] = ad[SchemasFrom + k]
    BY <1>22, <2>1
  <2> QED
    BY <1>21, <2>2, <2>3
<1>28. \A k \in 1..e : ag[EnumsFrom + k] = f[k]
  <2> TAKE k \in 1..e
  <2>0. PICK x, y : x = EnumsFrom /\ y = StreamsFrom
    OBVIOUS
  <2>1. EnumsFrom + k \in 1..StreamsFrom
    <3>1. x \in Nat /\ y \in Nat /\ y = x + e
      BY <1>20, <2>0
    <3>2. x + k \in 1..y
      BY <1>2, <3>1
    <3> QED
      BY <2>0, <3>2
  <2>2. af[EnumsFrom + k] = f[k]
    BY <1>7, <1>16, <1>19
  <2> QED
    BY <1>21, <2>1, <2>2
<1>29. \A k \in 1..t : ag[StreamsFrom + k] = g[k]
  BY <1>8, <1>17, <1>19
<1>30. \A k \in 1..s : b[k] = SignalCells(k, reg.sigs[k])
  BY <1>1, <1>3
<1>31. \A k \in 1..c : d[k] = SchemaCells(k, reg.schemas[k])
  BY <1>1, <1>3
<1>32. \A k \in 1..e : f[k] = EnumCells(k, reg.enums[k])
  BY <1>1, <1>3
<1>33. \A k \in 1..t : g[k] = StreamCells(k, reg.streams[k])
  BY <1>1, <1>3
<1>34. SigsFrom = IF regNewer THEN 1 ELSE 0
  BY DEF SigsFrom
<1>35. /\ \A k \in 1..Len(reg.sigs) : Entries[SigsFrom + k] = SignalCells(k, reg.sigs[k])
       /\ \A k \in 1..Len(reg.schemas) : Entries[SchemasFrom + k] = SchemaCells(k, reg.schemas[k])
  BY <1>1, <1>13, <1>26, <1>27, <1>30, <1>31
<1>36. /\ \A k \in 1..Len(reg.enums) : Entries[EnumsFrom + k] = EnumCells(k, reg.enums[k])
       /\ \A k \in 1..Len(reg.streams) : Entries[StreamsFrom + k] = StreamCells(k, reg.streams[k])
  BY <1>1, <1>13, <1>28, <1>29, <1>32, <1>33
<1>37. \A k \in 1..SigsFrom : Entries[k] = ForeignCells
  BY <1>13, <1>25
<1>38. IsSequence(Entries) /\ Len(Entries) = StreamsFrom + Len(reg.streams)
  BY <1>1, <1>13, <1>17, <1>20
<1> QED
  BY <1>1, <1>2, <1>18, <1>20, <1>34, <1>35, <1>36, <1>37, <1>38 DEF EntriesInOrder

\* Every place of the list of entries is of one of the kinds.
LEMMA EntryKinds ==
  ASSUME EntriesInOrder, NEW m \in 1..Len(Entries)
  PROVE  \/ m \in 1..SigsFrom
         \/ \E k \in 1..Len(reg.sigs) : m = SigsFrom + k
         \/ \E k \in 1..Len(reg.schemas) : m = SchemasFrom + k
         \/ \E k \in 1..Len(reg.enums) : m = EnumsFrom + k
         \/ \E k \in 1..Len(reg.streams) : m = StreamsFrom + k
<1>1. PICK s, c, e, t, a1, a2, a3, a4 :
        /\ s = Len(reg.sigs) /\ c = Len(reg.schemas) /\ e = Len(reg.enums) /\ t = Len(reg.streams)
        /\ a1 = SigsFrom /\ a2 = SchemasFrom /\ a3 = EnumsFrom /\ a4 = StreamsFrom
  OBVIOUS
<1>2. /\ s \in Nat /\ c \in Nat /\ e \in Nat /\ t \in Nat /\ a1 \in Nat
      /\ a2 = a1 + s /\ a3 = a2 + c /\ a4 = a3 + e /\ m \in 1..(a4 + t)
  BY <1>1 DEF EntriesInOrder
<1>3. CASE m <= a1
  <2>1. m \in 1..a1
    BY <1>2, <1>3
  <2> QED
    BY <1>1, <2>1
<1>4. CASE a1 < m /\ m <= a2
  <2>1. m - a1 \in 1..s /\ m = a1 + (m - a1)
    BY <1>2, <1>4
  <2> QED
    BY <1>1, <2>1
<1>5. CASE a2 < m /\ m <= a3
  <2>1. m - a2 \in 1..c /\ m = a2 + (m - a2)
    BY <1>2, <1>5
  <2> QED
    BY <1>1, <2>1
<1>6. CASE a3 < m /\ m <= a4
  <2>1. m - a3 \in 1..e /\ m = a3 + (m - a3)
    BY <1>2, <1>6
  <2> QED
    BY <1>1, <2>1
<1>7. CASE a4 < m
  <2>1. m - a4 \in 1..t /\ m = a4 + (m - a4)
    BY <1>2, <1>7
  <2> QED
    BY <1>1, <2>1
<1> QED
  BY <1>2, <1>3, <1>4, <1>5, <1>6, <1>7

\* Every entry is a sequence of cells, and not an empty one.
LEMMA EntriesAreCells ==
  ASSUME RegTypeOK, EntriesInOrder, NEW m \in 1..Len(Entries)
  PROVE  IsSequence(Entries[m]) /\ Len(Entries[m]) > 0
<1>1. CASE m \in 1..SigsFrom
  <2>1. Entries[m] = ForeignCells
    BY <1>1 DEF EntriesInOrder
  <2> QED
    BY <2>1 DEF ForeignCells, IsSequence
<1>2. ASSUME NEW k \in 1..Len(reg.sigs), m = SigsFrom + k
      PROVE  IsSequence(Entries[m]) /\ Len(Entries[m]) > 0
  <2>1. Entries[m] = SignalCells(k, reg.sigs[k])
    BY <1>2 DEF EntriesInOrder
  <2> QED
    BY <2>1, Triple DEF SignalCells
<1>3. ASSUME NEW k \in 1..Len(reg.schemas), m = SchemasFrom + k
      PROVE  IsSequence(Entries[m]) /\ Len(Entries[m]) > 0
  <2>1. Entries[m] = SchemaCells(k, reg.schemas[k])
    BY <1>3 DEF EntriesInOrder
  <2>2. reg.schemas[k] \in Seq(FieldTypes)
    BY DEF RegTypeOK
  <2>3. /\ IsSequence(SchemaCells(k, reg.schemas[k])) /\ Len(reg.schemas[k]) \in Nat
        /\ Len(SchemaCells(k, reg.schemas[k])) = 3 + Len(reg.schemas[k])
    BY <2>2, SchemaCellsAre
  <2> QED
    BY <2>1, <2>3
<1>4. ASSUME NEW k \in 1..Len(reg.enums), m = EnumsFrom + k
      PROVE  IsSequence(Entries[m]) /\ Len(Entries[m]) > 0
  <2>1. Entries[m] = EnumCells(k, reg.enums[k])
    BY <1>4 DEF EntriesInOrder
  <2>2. reg.enums[k] \in Seq(Int)
    BY DEF RegTypeOK
  <2>3. /\ IsSequence(EnumCells(k, reg.enums[k])) /\ Len(reg.enums[k]) \in Nat
        /\ Len(EnumCells(k, reg.enums[k])) = 3 + Len(reg.enums[k])
    BY <2>2, EnumCellsAre
  <2> QED
    BY <2>1, <2>3
<1>5. ASSUME NEW k \in 1..Len(reg.streams), m = StreamsFrom + k
      PROVE  IsSequence(Entries[m]) /\ Len(Entries[m]) > 0
  <2>1. Entries[m] = StreamCells(k, reg.streams[k])
    BY <1>5 DEF EntriesInOrder
  <2>2. PICK s : s = reg.streams[k]
    OBVIOUS
  <2>3. s \in Stream
    BY <2>2 DEF RegTypeOK
  <2>4. CASE NeedsV2(s)
    <3>1. \E body : IsSequence(body) /\ Len(StreamCells(k, s)) = 2 + Len(body)
                    /\ IsSequence(StreamCells(k, s))
      BY <2>3, <2>4, FullStreamCells
    <3>2. PICK body : IsSequence(body) /\ Len(StreamCells(k, s)) = 2 + Len(body)
                    /\ IsSequence(StreamCells(k, s))
      BY <3>1
    <3>3. Len(body) \in Nat
      BY <3>2 DEF IsSequence
    <3> QED
      BY <2>1, <2>2, <3>2, <3>3
  <2>5. CASE ~NeedsV2(s)
    BY <2>1, <2>2, <2>3, <2>5, PlainStreamCells
  <2> QED
    BY <2>4, <2>5
<1> QED
  BY <1>1, <1>2, <1>3, <1>4, <1>5, EntryKinds

-----------------------------------------------------------------------------
(* What was read so far *)

\* To put an entry behind those before it is to append it.
LEMMA PutIsAppend ==
  ASSUME NEW R, NEW b \in Seq(R), NEW x \in R
  PROVE  Put(b, Len(b) + 1, x) = Append(b, x)
<1>1. Len(b) \in Nat /\ DOMAIN b = 1..Len(b)
  OBVIOUS
<1>2. PICK k : k = Len(b) + 1
  OBVIOUS
<1>3. 1..Len(b) \cup {k} = 1..k
  BY <1>1, <1>2
<1>4. Put(b, k, x) = [j \in 1..k |-> IF j = k THEN x ELSE b[j]]
  BY <1>1, <1>3 DEF Put
<1>5. Append(b, x) = [j \in 1..k |-> IF j = k THEN x ELSE b[j]]
  <2>1. PICK a : a = Append(b, x)
    OBVIOUS
  <2>2. a \in Seq(R) /\ Len(a) = k
    BY <1>2, <2>1
  <2>3. a[k] = x /\ \A j \in 1..Len(b) : a[j] = b[j]
    BY <1>2, <2>1
  <2>4. a = [j \in 1..k |-> a[j]]
    BY <2>2
  <2>5. \A j \in 1..k : a[j] = IF j = k THEN x ELSE b[j]
    BY <1>1, <1>2, <2>3
  <2> QED
    BY <2>1, <2>4, <2>5
<1> QED
  BY <1>2, <1>4, <1>5

\* A list that was read as far as before its member k is read to that member.
LEMMA BegunPut ==
  ASSUME NEW R, NEW list \in Seq(R), NEW k \in 1..Len(list)
  PROVE  Begun(list, k) = Put(Begun(list, k - 1), k, list[k])
<1>1. PICK b : b = SubSeq(list, 1, k - 1)
  OBVIOUS
<1>2. Len(list) \in Nat /\ k - 1 \in 0..Len(list) - 1 /\ (k - 1) + 1 = k /\ k >= 1 /\ k <= Len(list)
  OBVIOUS
<1>3. Begun(list, k) = SubSeq(list, 1, k)
  BY <1>2 DEF Begun
<1>4. Begun(list, k - 1) = b
  <2>1. CASE k = 1
    BY <1>1, <2>1 DEF Begun
  <2>2. CASE k # 1
    BY <1>1, <1>2, <2>2 DEF Begun
  <2> QED
    BY <2>1, <2>2
<1>5. b \in Seq(R) /\ Len(b) = k - 1
  BY <1>1, <1>2
<1>6. list[k] \in R
  OBVIOUS
<1>7. SubSeq(list, 1, (k - 1) + 1) = Append(b, list[(k - 1) + 1])
  BY <1>1, <1>2, BeginningFurther
<1>8. Put(b, k, list[k]) = Append(b, list[k])
  <2>1. Len(b) + 1 = k
    BY <1>2, <1>5
  <2> QED
    BY <1>5, <1>6, <2>1, PutIsAppend
<1> QED
  BY <1>2, <1>3, <1>4, <1>7, <1>8

\* Before its first member and after its last one nothing changes.
LEMMA BegunStays ==
  ASSUME NEW list, Len(list) \in Nat, NEW n \in Int, n < 0 \/ n >= Len(list)
  PROVE  Begun(list, n + 1) = Begun(list, n)
<1>1. PICK l : l = Len(list)
  OBVIOUS
<1>2. CASE n < 0
  <2>1. n + 1 <= 0 /\ n <= 0
    BY <1>2
  <2> QED
    BY <2>1 DEF Begun
<1>3. CASE n >= l
  <2>1. (IF n <= 0 THEN 0 ELSE IF n <= l THEN n ELSE l) = l
    BY <1>1, <1>3
  <2>2. (IF n + 1 <= 0 THEN 0 ELSE IF n + 1 <= l THEN n + 1 ELSE l) = l
    BY <1>1, <1>3
  <2> QED
    BY <1>1, <2>1, <2>2 DEF Begun
<1> QED
  BY <1>1, <1>2, <1>3

\* The streams as they are read.
KeptStreams == [s \in 1..Len(reg.streams) |-> Kept(reg.streams[s])]

LEMMA KeptAre ==
  ASSUME RegTypeOK
  PROVE  KeptStreams \in Seq(Stream) /\ Len(KeptStreams) = Len(reg.streams)
<1>1. reg.streams \in Seq(Stream)
  BY DEF RegTypeOK
<1>2. \A s \in Stream : Kept(s) \in Stream
  BY DEF Kept, Stream
<1>3. \A k \in 1..Len(reg.streams) : Kept(reg.streams[k]) \in Stream
  BY <1>1, <1>2
<1>4. Len(reg.streams) \in Nat
  BY <1>1
<1> QED
  BY <1>3, <1>4 DEF KeptStreams

\* Each entry adds itself to the list of its kind, and the others stay.
LEMMA ReadNext ==
  ASSUME RegTypeOK, EntriesInOrder, NEW m \in 1..Len(Entries)
  PROVE  LET r == ReadUpTo(m - 1)
         IN  /\ m \in 1..SigsFrom => ReadUpTo(m) = r
             /\ \A k \in 1..Len(reg.sigs) : m = SigsFrom + k =>
                  ReadUpTo(m) = [r EXCEPT !["sigs"] = Put(@, k, reg.sigs[k])]
             /\ \A k \in 1..Len(reg.schemas) : m = SchemasFrom + k =>
                  ReadUpTo(m) = [r EXCEPT !["schemas"] = Put(@, k, reg.schemas[k])]
             /\ \A k \in 1..Len(reg.enums) : m = EnumsFrom + k =>
                  ReadUpTo(m) = [r EXCEPT !["enums"] = Put(@, k, reg.enums[k])]
             /\ \A k \in 1..Len(reg.streams) : m = StreamsFrom + k =>
                  ReadUpTo(m) = [r EXCEPT !["streams"] = Put(@, k, Kept(reg.streams[k]))]
<1>1. PICK s, c, e, t, a1, a2, a3, a4 :
        /\ s = Len(reg.sigs) /\ c = Len(reg.schemas) /\ e = Len(reg.enums) /\ t = Len(reg.streams)
        /\ a1 = SigsFrom /\ a2 = SchemasFrom /\ a3 = EnumsFrom /\ a4 = StreamsFrom
  OBVIOUS
<1>2. /\ s \in Nat /\ c \in Nat /\ e \in Nat /\ t \in Nat /\ a1 \in Nat
      /\ a2 = a1 + s /\ a3 = a2 + c /\ a4 = a3 + e /\ m \in 1..(a4 + t)
  BY <1>1 DEF EntriesInOrder
<1>3. PICK ls, lc, le, lt :
        ls = reg.sigs /\ lc = reg.schemas /\ le = reg.enums /\ lt = KeptStreams
  OBVIOUS
<1>4. /\ ls \in Seq([width : {2}]) /\ lc \in Seq(Seq(FieldTypes)) /\ le \in Seq(Seq(Int))
      /\ lt \in Seq(Stream) /\ Len(ls) = s /\ Len(lc) = c /\ Len(le) = e /\ Len(lt) = t
  BY <1>1, <1>3, KeptAre DEF RegTypeOK
<1>5. PICK r : r = ReadUpTo(m - 1)
  OBVIOUS
<1>6. r = [sigs |-> Begun(ls, (m - 1) - a1), schemas |-> Begun(lc, (m - 1) - a2),
           enums |-> Begun(le, (m - 1) - a3), streams |-> Begun(lt, (m - 1) - a4)]
  BY <1>1, <1>3, <1>5 DEF ReadUpTo, KeptStreams
<1>7. ReadUpTo(m) = [sigs |-> Begun(ls, m - a1), schemas |-> Begun(lc, m - a2),
                     enums |-> Begun(le, m - a3), streams |-> Begun(lt, m - a4)]
  BY <1>1, <1>3 DEF ReadUpTo, KeptStreams
<1>8. ASSUME NEW list, NEW from, from \in Nat, Len(list) \in Nat, m <= from \/ m > from + Len(list)
      PROVE  Begun(list, m - from) = Begun(list, (m - 1) - from)
  <2>1. PICK n : n = (m - 1) - from
    OBVIOUS
  <2>2. n \in Int /\ n + 1 = m - from
    BY <1>2, <1>8, <2>1
  <2>3. n < 0 \/ n >= Len(list)
    BY <1>2, <1>8, <2>1
  <2>4. Begun(list, n + 1) = Begun(list, n)
    BY <1>8, <2>2, <2>3, BegunStays
  <2> QED
    BY <2>1, <2>2, <2>4
<1>9. a2 \in Nat /\ a3 \in Nat /\ a4 \in Nat
  BY <1>2
<1>10. m <= a1 \/ m > a1 + s => Begun(ls, m - a1) = Begun(ls, (m - 1) - a1)
  BY <1>2, <1>4, <1>8
<1>11. m <= a2 \/ m > a2 + c => Begun(lc, m - a2) = Begun(lc, (m - 1) - a2)
  BY <1>2, <1>4, <1>8, <1>9
<1>12. m <= a3 \/ m > a3 + e => Begun(le, m - a3) = Begun(le, (m - 1) - a3)
  BY <1>2, <1>4, <1>8, <1>9
<1>13. m <= a4 \/ m > a4 + t => Begun(lt, m - a4) = Begun(lt, (m - 1) - a4)
  BY <1>2, <1>4, <1>8, <1>9
<1>14. ASSUME m \in 1..a1 PROVE ReadUpTo(m) = r
  <2>1. m <= a1 /\ m <= a2 /\ m <= a3 /\ m <= a4
    BY <1>2, <1>14
  <2> QED
    BY <1>6, <1>7, <1>10, <1>11, <1>12, <1>13, <2>1
<1>15. ASSUME NEW k \in 1..s, m = a1 + k
       PROVE  ReadUpTo(m) = [r EXCEPT !["sigs"] = Put(@, k, ls[k])]
  <2>1. m <= a2 /\ m <= a3 /\ m <= a4 /\ m - a1 = k /\ (m - 1) - a1 = k - 1
    BY <1>2, <1>15
  <2>2. Begun(ls, k) = Put(Begun(ls, k - 1), k, ls[k])
    BY <1>4, BegunPut
  <2> QED
    BY <1>6, <1>7, <1>11, <1>12, <1>13, <2>1, <2>2
<1>16. ASSUME NEW k \in 1..c, m = a2 + k
       PROVE  ReadUpTo(m) = [r EXCEPT !["schemas"] = Put(@, k, lc[k])]
  <2>1. m > a1 + s /\ m <= a3 /\ m <= a4 /\ m - a2 = k /\ (m - 1) - a2 = k - 1
    BY <1>2, <1>16
  <2>2. Begun(lc, k) = Put(Begun(lc, k - 1), k, lc[k])
    BY <1>4, BegunPut
  <2> QED
    BY <1>6, <1>7, <1>10, <1>12, <1>13, <2>1, <2>2
<1>17. ASSUME NEW k \in 1..e, m = a3 + k
       PROVE  ReadUpTo(m) = [r EXCEPT !["enums"] = Put(@, k, le[k])]
  <2>1. m > a1 + s /\ m > a2 + c /\ m <= a4 /\ m - a3 = k /\ (m - 1) - a3 = k - 1
    BY <1>2, <1>17
  <2>2. Begun(le, k) = Put(Begun(le, k - 1), k, le[k])
    BY <1>4, BegunPut
  <2> QED
    BY <1>6, <1>7, <1>10, <1>11, <1>13, <2>1, <2>2
<1>18. ASSUME NEW k \in 1..t, m = a4 + k
       PROVE  ReadUpTo(m) = [r EXCEPT !["streams"] = Put(@, k, lt[k])]
  <2>1. m > a1 + s /\ m > a2 + c /\ m > a3 + e /\ m - a4 = k /\ (m - 1) - a4 = k - 1
    BY <1>2, <1>18
  <2>2. Begun(lt, k) = Put(Begun(lt, k - 1), k, lt[k])
    BY <1>4, BegunPut
  <2> QED
    BY <1>6, <1>7, <1>10, <1>11, <1>12, <2>1, <2>2
<1>19. \A k \in 1..t : lt[k] = Kept(reg.streams[k])
  BY <1>1, <1>3 DEF KeptStreams
<1> QED
  BY <1>1, <1>3, <1>5, <1>14, <1>15, <1>16, <1>17, <1>18, <1>19

-----------------------------------------------------------------------------
(* A turn of the reader *)

\* The reader has taken an entry of some length, and has put down what came of it.
Took(len, r) ==
  /\ regCur' = regCur + len
  /\ regRead' = [reg |-> r, meta |-> << >>]
  /\ regPhase' = regPhase

\* What an entry that was parsed makes of what was read.
LEMMA EnteredTook ==
  ASSUME NEW kind, NEW id, NEW st, NEW r, NEW len, NEW got, st = Parsed(regCur + len, got, TRUE),
         regRead = [reg |-> r, meta |-> << >>], Entered(kind, id, st)
  PROVE  Took(len, [r EXCEPT ![kind] = Put(@, id, got)])
<1>1. st.ok /\ st.at = regCur + len /\ st.got = got
  BY DEF Parsed
<1>2. /\ regRead' = [regRead EXCEPT !.reg[kind] = Put(@, id, got)]
      /\ regCur' = regCur + len
      /\ UNCHANGED regPhase
  BY <1>1 DEF Entered
<1>3. [regRead EXCEPT !.reg[kind] = Put(@, id, got)]
        = [reg |-> [r EXCEPT ![kind] = Put(@, id, got)], meta |-> << >>]
  OBVIOUS
<1> QED
  BY <1>2, <1>3 DEF Took

\* A signal's entry.
LEMMA TookSignal ==
  ASSUME NEW k, NEW e \in [width : {2}], regCur \in Nat, ReadEntry, NEW r,
         regRead = [reg |-> r, meta |-> << >>],
         CellsAhead(regCells.registry, regCur, SignalCells(k, e))
  PROVE  Took(Len(SignalCells(k, e)), [r EXCEPT !["sigs"] = Put(@, k, e)])
<1>1. PICK cells, c, p : cells = regCells.registry /\ c = regCur + 1 /\ p = SignalCells(k, e)
  OBVIOUS
<1>2. Len(p) = 3 /\ p[1] = F("TAG", "SIGNAL") /\ p[2] = U(k) /\ p[3] = U(e.width)
  BY <1>1, Triple DEF SignalCells
<1>3. cells[regCur + 1] = p[1] /\ cells[regCur + 2] = p[2] /\ cells[regCur + 3] = p[3]
  BY <1>1, <1>2 DEF CellsAhead
<1>4. regCur + 1 = c /\ regCur + 2 = c + 1 /\ regCur + 3 = c + 2
  BY <1>1
<1>5. /\ cells[c].fmt = "TAG" /\ cells[c].val = "SIGNAL" /\ cells[c + 1].val = k
      /\ cells[c + 2].val = e.width
  BY <1>2, <1>3, <1>4 DEF F, U
<1>6. Entered("sigs", k, Parsed(c + 2, [width |-> cells[c + 2].val], TRUE))
  BY <1>1, <1>5 DEF ReadEntry
<1>7. [width |-> cells[c + 2].val] = e
  BY <1>5
<1>8. c + 2 = regCur + Len(p)
  BY <1>1, <1>2
<1>9. Entered("sigs", k, Parsed(regCur + Len(p), e, TRUE))
  BY <1>6, <1>7, <1>8
<1> QED
  BY <1>1, <1>9, EnteredTook

\* A counted list within an entry, behind tag and id.
CountedBehind(p, list, fmt) ==
  /\ IsSequence(list)
  /\ Len(p) = 3 + Len(list)
  /\ p[3] = U(Len(list))
  /\ \A k \in 1..Len(list) :
       /\ p[3 + k].fmt = fmt
       /\ list[k] = IF fmt = "s" THEN Unzigzag(p[3 + k].val) ELSE p[3 + k].val

LEMMA ReadsBehind ==
  ASSUME NEW cells, NEW cur, NEW p, NEW list, NEW fmt, CountedBehind(p, list, fmt),
         CellsAhead(cells, cur, p)
  PROVE  Parsed(cur + Len(p), list, TRUE) = ParseList(cells, cur + 2, fmt)
<1>0. /\ IsSequence(list) /\ Len(p) = 3 + Len(list) /\ p[3] = U(Len(list))
      /\ \A k \in 1..Len(list) :
           /\ p[3 + k].fmt = fmt
           /\ list[k] = IF fmt = "s" THEN Unzigzag(p[3 + k].val) ELSE p[3 + k].val
  BY DEF CountedBehind
<1>1. PICK n, q : n = Len(list) /\ q = [i \in 1..1 + n |-> p[2 + i]]
  OBVIOUS
<1>2. n \in Nat
  BY <1>0, <1>1 DEF IsSequence
<1>3. Len(q) = 1 + n
  BY <1>1, <1>2
<1>4. 1 \in 1..1 + n /\ 2 + 1 = 3 /\ \A k \in 1..n : 1 + k \in 1..1 + n /\ 2 + (1 + k) = 3 + k
  BY <1>2
<1>5. q[1] = U(n) /\ \A k \in 1..n : q[1 + k] = p[3 + k]
  BY <1>0, <1>1, <1>4
<1>6. CountedList(q, list, fmt)
  BY <1>0, <1>1, <1>3, <1>5 DEF CountedList
<1>7. /\ cur \in Nat /\ Len(cells) \in Nat /\ cur + (3 + n) <= Len(cells)
      /\ \A i \in 1..3 + n : cells[cur + i] = p[i]
  BY <1>0, <1>1 DEF CellsAhead
<1>8. CellsAhead(cells, cur + 2, q)
  <2>1. ASSUME NEW i \in 1..1 + n PROVE cells[cur + 2 + i] = q[i]
    <3>1. 2 + i \in 1..3 + n /\ cur + (2 + i) = cur + 2 + i
      BY <1>2, <1>7
    <3> QED
      BY <1>1, <1>7, <3>1
  <2>2. cur + 2 \in Nat /\ cur + 2 + (1 + n) <= Len(cells)
    BY <1>2, <1>7
  <2> QED
    BY <1>3, <1>7, <2>1, <2>2 DEF CellsAhead
<1>9. Parsed(cur + 2 + Len(q), list, TRUE) = ParseList(cells, cur + 2, fmt)
  <2>1. PICK c : c = cur + 2
    OBVIOUS
  <2>2. CellsAhead(cells, c, q)
    BY <1>8, <2>1
  <2>3. IsSequence(list)
    BY <1>0
  <2>4. Parsed(c + Len(q), list, TRUE) = ParseList(cells, c, fmt)
    BY <1>6, <2>2, <2>3, ReadsList
  <2> QED
    BY <2>1, <2>4
<1>10. cur + 2 + Len(q) = cur + Len(p)
  BY <1>0, <1>1, <1>2, <1>3, <1>7
<1> QED
  BY <1>9, <1>10

\* A schema's entry.
LEMMA TookSchema ==
  ASSUME NEW k, NEW e \in Seq(FieldTypes), regCur \in Nat, ReadEntry, NEW r,
         regRead = [reg |-> r, meta |-> << >>],
         CellsAhead(regCells.registry, regCur, SchemaCells(k, e))
  PROVE  Took(Len(SchemaCells(k, e)), [r EXCEPT !["schemas"] = Put(@, k, e)])
<1>1. PICK cells, c, p, n :
        cells = regCells.registry /\ c = regCur + 1 /\ p = SchemaCells(k, e) /\ n = Len(e)
  OBVIOUS
<1>2. /\ n \in Nat /\ Len(p) = 3 + n /\ p[1] = F("TAG", "SCHEMA") /\ p[2] = U(k) /\ p[3] = U(n)
      /\ \A j \in 1..n : p[3 + j] = F("BYTE", e[j])
  BY <1>1, SchemaCellsAre
<1>3. cells[regCur + 1] = p[1] /\ cells[regCur + 2] = p[2]
  <2>1. 1 \in 1..Len(p) /\ 2 \in 1..Len(p)
    BY <1>2
  <2> QED
    BY <1>1, <2>1 DEF CellsAhead
<1>4. regCur + 1 = c /\ regCur + 2 = c + 1
  BY <1>1
<1>5. cells[c].fmt = "TAG" /\ cells[c].val = "SCHEMA" /\ cells[c + 1].val = k
  BY <1>2, <1>3, <1>4 DEF F, U
<1>6. Entered("schemas", k, ParseList(cells, c + 1, "BYTE"))
  BY <1>1, <1>5 DEF ReadEntry
<1>7. Parsed(regCur + Len(p), e, TRUE) = ParseList(cells, regCur + 2, "BYTE")
  <2>1. PICK fmt : fmt = "BYTE"
    OBVIOUS
  <2>2. ASSUME NEW j \in 1..Len(e)
        PROVE  /\ p[3 + j].fmt = fmt
               /\ e[j] = IF fmt = "s" THEN Unzigzag(p[3 + j].val) ELSE p[3 + j].val
    <3>1. p[3 + j] = [fmt |-> "BYTE", val |-> e[j]]
      BY <1>1, <1>2 DEF F
    <3> QED
      BY <2>1, <3>1
  <2>3. IsSequence(e)
    BY DEF IsSequence
  <2>4. Len(p) = 3 + Len(e) /\ p[3] = U(Len(e)) /\ CellsAhead(cells, regCur, p)
    BY <1>1, <1>2
  <2>5. CountedBehind(p, e, fmt)
    BY <2>2, <2>3, <2>4 DEF CountedBehind
  <2>6. Parsed(regCur + Len(p), e, TRUE) = ParseList(cells, regCur + 2, fmt)
    BY <2>4, <2>5, ReadsBehind
  <2> QED
    BY <2>1, <2>6
<1>8. Entered("schemas", k, Parsed(regCur + Len(p), e, TRUE))
  BY <1>4, <1>6, <1>7
<1> QED
  BY <1>1, <1>8, EnteredTook

\* An enumeration's entry.
LEMMA TookEnum ==
  ASSUME NEW k, NEW e \in Seq(Int), \A j \in 1..Len(e) : Signed(e[j]), regCur \in Nat, ReadEntry,
         NEW r, regRead = [reg |-> r, meta |-> << >>],
         CellsAhead(regCells.registry, regCur, EnumCells(k, e))
  PROVE  Took(Len(EnumCells(k, e)), [r EXCEPT !["enums"] = Put(@, k, e)])
<1>1. PICK cells, c, p, n :
        cells = regCells.registry /\ c = regCur + 1 /\ p = EnumCells(k, e) /\ n = Len(e)
  OBVIOUS
<1>2. /\ n \in Nat /\ Len(p) = 3 + n /\ p[1] = F("TAG", "ENUM") /\ p[2] = U(k) /\ p[3] = U(n)
      /\ \A j \in 1..n : p[3 + j] = S(e[j])
  BY <1>1, EnumCellsAre
<1>3. cells[regCur + 1] = p[1] /\ cells[regCur + 2] = p[2]
  <2>1. 1 \in 1..Len(p) /\ 2 \in 1..Len(p)
    BY <1>2
  <2> QED
    BY <1>1, <2>1 DEF CellsAhead
<1>4. regCur + 1 = c /\ regCur + 2 = c + 1
  BY <1>1
<1>5. cells[c].fmt = "TAG" /\ cells[c].val = "ENUM" /\ cells[c + 1].val = k
  BY <1>2, <1>3, <1>4 DEF F, U
<1>6. Entered("enums", k, ParseList(cells, c + 1, "s"))
  BY <1>1, <1>5 DEF ReadEntry
<1>7. Parsed(regCur + Len(p), e, TRUE) = ParseList(cells, regCur + 2, "s")
  <2>1. PICK fmt : fmt = "s"
    OBVIOUS
  <2>2. ASSUME NEW j \in 1..Len(e)
        PROVE  /\ p[3 + j].fmt = fmt
               /\ e[j] = IF fmt = "s" THEN Unzigzag(p[3 + j].val) ELSE p[3 + j].val
    <3>1. p[3 + j] = [fmt |-> "s", val |-> Zigzag(e[j])]
      BY <1>1, <1>2 DEF S
    <3>2. e[j] \in Int /\ Signed(e[j])
      OBVIOUS
    <3>3. Unzigzag(Zigzag(e[j])) = e[j]
      BY <3>2, UnzigzagZigzag
    <3> QED
      BY <2>1, <3>1, <3>3
  <2>3. IsSequence(e)
    BY DEF IsSequence
  <2>4. Len(p) = 3 + Len(e) /\ p[3] = U(Len(e)) /\ CellsAhead(cells, regCur, p)
    BY <1>1, <1>2
  <2>5. CountedBehind(p, e, fmt)
    BY <2>2, <2>3, <2>4 DEF CountedBehind
  <2>6. Parsed(regCur + Len(p), e, TRUE) = ParseList(cells, regCur + 2, fmt)
    BY <2>4, <2>5, ReadsBehind
  <2> QED
    BY <2>1, <2>6
<1>8. Entered("enums", k, Parsed(regCur + Len(p), e, TRUE))
  BY <1>4, <1>6, <1>7
<1> QED
  BY <1>1, <1>8, EnteredTook

\* A stream's entry, in either form.
LEMMA TookStream ==
  ASSUME NEW k, NEW s \in Stream, StreamFits(s), regCur \in Nat, ReadEntry,
         NEW r, regRead = [reg |-> r, meta |-> << >>],
         CellsAhead(regCells.registry, regCur, StreamCells(k, s))
  PROVE  Took(Len(StreamCells(k, s)), [r EXCEPT !["streams"] = Put(@, k, Kept(s))])
<1>1. PICK cells, c, p : cells = regCells.registry /\ c = regCur + 1 /\ p = StreamCells(k, s)
  OBVIOUS
<1>2. CASE NeedsV2(s)
  <2>1. /\ cells[c].fmt = "TAG" /\ cells[c].val = "STREAM2" /\ cells[c + 2].val = k
        /\ ParseStream(cells, c) = Parsed(regCur + Len(p), s, TRUE)
    BY <1>1, <1>2, ReadsStream
  <2>2. Entered("streams", k, ParseStream(cells, c))
    BY <1>1, <2>1 DEF ReadEntry
  <2>3. Entered("streams", k, Parsed(regCur + Len(p), s, TRUE))
    BY <2>1, <2>2
  <2>4. Kept(s) = s
    BY <1>2 DEF Kept
  <2> QED
    BY <1>1, <2>3, <2>4, EnteredTook
<1>3. CASE ~NeedsV2(s)
  <2>1. Len(p) = 3 /\ p[1] = F("TAG", "STREAM") /\ p[2] = U(k) /\ p[3] = U(s.kind)
    BY <1>1, <1>3, PlainStreamCells
  <2>2. cells[regCur + 1] = p[1] /\ cells[regCur + 2] = p[2] /\ cells[regCur + 3] = p[3]
    BY <1>1, <2>1 DEF CellsAhead
  <2>3. regCur + 1 = c /\ regCur + 2 = c + 1 /\ regCur + 3 = c + 2
    BY <1>1
  <2>4. /\ cells[c].fmt = "TAG" /\ cells[c].val = "STREAM" /\ cells[c + 1].val = k
        /\ cells[c + 2].val = s.kind
    BY <2>1, <2>2, <2>3 DEF F, U
  <2>5. Entered("streams", k, Parsed(c + 2, [kind |-> cells[c + 2].val, codec |-> NoCodec,
                                             metadata |-> << >>, inputs |-> << >>], TRUE))
    BY <1>1, <2>4 DEF ReadEntry
  <2>6. [kind |-> cells[c + 2].val, codec |-> NoCodec, metadata |-> << >>, inputs |-> << >>] = Kept(s)
    <3>1. s.metadata = << >> /\ s.inputs = << >>
      BY <1>3 DEF NeedsV2
    <3>2. s = [kind |-> s.kind, codec |-> s.codec, metadata |-> s.metadata, inputs |-> s.inputs]
      BY DEF Stream
    <3>3. Kept(s) = [s EXCEPT !.codec = NoCodec]
      BY <1>3 DEF Kept
    <3> QED
      BY <2>4, <3>1, <3>2, <3>3
  <2>7. c + 2 = regCur + Len(p)
    BY <1>1, <2>1
  <2>8. Entered("streams", k, Parsed(regCur + Len(p), Kept(s), TRUE))
    BY <2>5, <2>6, <2>7
  <2> QED
    BY <1>1, <2>8, EnteredTook
<1> QED
  BY <1>2, <1>3

\* An entry of a newer writer is passed over.
LEMMA TookForeign ==
  ASSUME regCur \in Nat, ReadEntry, NEW r, regRead = [reg |-> r, meta |-> << >>],
         CellsAhead(regCells.registry, regCur, ForeignCells)
  PROVE  Took(Len(ForeignCells), r)
<1>1. PICK cells, c, p : cells = regCells.registry /\ c = regCur + 1 /\ p = ForeignCells
  OBVIOUS
<1>2. Len(p) = 4 /\ p[1] = F("TAG", "UNKNOWN") /\ p[2] = U(2)
  BY <1>1 DEF ForeignCells
<1>3. cells[regCur + 1] = p[1] /\ cells[regCur + 2] = p[2]
  BY <1>1, <1>2 DEF CellsAhead
<1>4. regCur + 1 = c /\ regCur + 2 = c + 1
  BY <1>1
<1>5. cells[c].fmt = "TAG" /\ cells[c].val = "UNKNOWN" /\ cells[c + 1].val = 2
  BY <1>2, <1>3, <1>4 DEF F, U
<1>6. regCur' = c + 1 + 2 /\ UNCHANGED <<regRead, regPhase>>
  BY <1>1, <1>5 DEF ReadEntry
<1>7. c + 1 + 2 = regCur + Len(p)
  BY <1>1, <1>2
<1> QED
  BY <1>1, <1>6, <1>7 DEF Took

\* Behind a cursor stand one list and then another: the first is ahead, and the
\* second behind it.
Behind(cells, c, e, more) ==
  /\ IsSequence(cells) /\ IsSequence(e) /\ IsSequence(more)
  /\ c \in 0..Len(cells)
  /\ SubSeq(cells, c + 1, Len(cells)) = e \o more

LEMMA RestAhead ==
  ASSUME NEW cells, NEW c, NEW e, NEW more, Behind(cells, c, e, more)
  PROVE  /\ CellsAhead(cells, c, e)
         /\ c + Len(e) \in 0..Len(cells)
         /\ SubSeq(cells, c + Len(e) + 1, Len(cells)) = more
<1>0. /\ IsSequence(cells) /\ IsSequence(e) /\ IsSequence(more)
      /\ c \in 0..Len(cells) /\ SubSeq(cells, c + 1, Len(cells)) = e \o more
  BY DEF Behind
<1>1. PICK n, a, b : n = Len(cells) /\ a = Len(e) /\ b = Len(more)
  OBVIOUS
<1>2. n \in Nat /\ a \in Nat /\ b \in Nat /\ c \in 0..n
  BY <1>0, <1>1 DEF IsSequence
<1>3. PICK s : s = e \o more
  OBVIOUS
<1>4. /\ Len(s) = a + b
      /\ \A i \in 1..a : s[i] = e[i]
      /\ \A i \in 1..b : s[a + i] = more[i]
  <2>1. IsSequence(e) /\ IsSequence(more)
    BY <1>0
  <2> QED
    BY <1>1, <1>3, <2>1, SequencesJoined
<1>5. Len(s) = n - c /\ \A i \in 1..n - c : s[i] = cells[c + i]
  BY <1>0, <1>1, <1>3, RestIs
<1>6. n - c = a + b
  BY <1>4, <1>5
<1>7. c + a \in 0..n /\ n - (c + a) = b /\ c \in Nat
  BY <1>2, <1>6
<1>8. CellsAhead(cells, c, e)
  <2>1. \A i \in 1..a : i \in 1..n - c
    BY <1>2, <1>6
  <2>2. \A i \in 1..a : cells[c + i] = e[i]
    BY <1>4, <1>5, <2>1
  <2>3. c + a <= n
    BY <1>2, <1>7
  <2> QED
    BY <1>1, <1>2, <1>7, <2>2, <2>3 DEF CellsAhead
<1>9. PICK r, d : d = c + a /\ r = SubSeq(cells, d + 1, n)
  OBVIOUS
<1>10. IsSequence(r) /\ Len(r) = b /\ \A i \in 1..b : r[i] = cells[d + i]
  <2>1. d \in 0..n /\ n - d = b
    BY <1>7, <1>9
  <2>2. IsSequence(r) /\ Len(r) = n - d /\ \A i \in 1..n - d : r[i] = cells[d + i]
    BY <1>0, <1>1, <1>9, <2>1, RestIs
  <2> QED
    BY <2>1, <2>2
<1>11. \A i \in 1..b : r[i] = more[i]
  <2>1. ASSUME NEW i \in 1..b PROVE r[i] = more[i]
    <3>1. a + i \in 1..n - c /\ c + (a + i) = d + i
      BY <1>2, <1>6, <1>9
    <3>2. s[a + i] = cells[d + i]
      BY <1>5, <3>1
    <3>3. r[i] = cells[d + i]
      BY <1>10
    <3>4. s[a + i] = more[i]
      BY <1>4
    <3> QED
      BY <3>2, <3>3, <3>4
  <2> QED
    BY <2>1
<1>12. r = [i \in 1..b |-> r[i]] /\ more = [i \in 1..b |-> more[i]]
  BY <1>0, <1>1, <1>10 DEF IsSequence
<1>13. r = more
  BY <1>11, <1>12
<1> QED
  BY <1>1, <1>7, <1>8, <1>9, <1>13

\* Nothing is left behind the last of a list.
LEMMA RestNone ==
  ASSUME NEW s, IsSequence(s)
  PROVE  SubSeq(s, Len(s) + 1, Len(s)) = << >>
<1>1. PICK n, r : n = Len(s) /\ r = SubSeq(s, n + 1, n)
  OBVIOUS
<1>2. n \in Nat /\ n \in 0..n
  BY <1>1 DEF IsSequence
<1>3. IsSequence(r) /\ Len(r) = n - n
  BY <1>1, <1>2, RestIs
<1>4. Len(r) = 0
  BY <1>2, <1>3
<1>5. r = << >>
  BY <1>3, <1>4 DEF IsSequence
<1> QED
  BY <1>1, <1>5

\* The reader between two entries is at the end of the block when it has read
\* them all; otherwise the next entry is ahead, and the others are behind it.
Stands(cells, c, n) ==
  /\ IsSequence(cells) /\ c \in 0..Len(cells) /\ n \in 0..Len(Entries)
  /\ SubSeq(cells, c + 1, Len(cells)) = FlattenSeq(SubSeq(Entries, n + 1, Len(Entries)))

LEMMA NextEntry ==
  ASSUME RegTypeOK, EntriesInOrder, NEW cells, NEW c, NEW n, Stands(cells, c, n)
  PROVE  /\ c = Len(cells) <=> n = Len(Entries)
         /\ n # Len(Entries) =>
              /\ CellsAhead(cells, c, Entries[n + 1])
              /\ c + Len(Entries[n + 1]) \in 0..Len(cells)
              /\ SubSeq(cells, c + Len(Entries[n + 1]) + 1, Len(cells))
                   = FlattenSeq(SubSeq(Entries, n + 2, Len(Entries)))
<1>0. /\ IsSequence(cells) /\ c \in 0..Len(cells) /\ n \in 0..Len(Entries)
      /\ SubSeq(cells, c + 1, Len(cells)) = FlattenSeq(SubSeq(Entries, n + 1, Len(Entries)))
  BY DEF Stands
<1>1. PICK L : L = Entries
  OBVIOUS
<1>2. IsSequence(L) /\ Len(L) \in Nat /\ n \in 0..Len(L)
  BY <1>0, <1>1 DEF EntriesInOrder, IsSequence
<1>3. \A k \in 1..Len(L) : IsSequence(L[k]) /\ Len(L[k]) > 0
  BY <1>1, EntriesAreCells
<1>4. Len(cells) \in Nat
  BY <1>0 DEF IsSequence
<1>5. CASE n = Len(L)
  <2>1. SubSeq(L, n + 1, Len(L)) = << >>
    BY <1>2, <1>5, RestNone
  <2>2. SubSeq(cells, c + 1, Len(cells)) = << >>
    BY <1>0, <1>1, <2>1, FlattenNone
  <2>3. Len(SubSeq(cells, c + 1, Len(cells))) = Len(cells) - c
    BY <1>0, RestIs
  <2>4. Len(cells) - c = 0
    BY <2>2, <2>3, ShortSequences
  <2>5. c = Len(cells)
    BY <1>0, <1>4, <2>4
  <2> QED
    BY <1>1, <1>5, <2>5
<1>6. CASE n # Len(L)
  <2>1. n \in 0..Len(L) - 1 /\ n + 1 \in 1..Len(L)
    BY <1>2, <1>6
  <2>2. PICK e, more : e = L[n + 1] /\ more = FlattenSeq(SubSeq(L, n + 2, Len(L)))
    OBVIOUS
  <2>3. IsSequence(more) /\ FlattenSeq(SubSeq(L, n + 1, Len(L))) = e \o more
    BY <1>2, <1>3, <2>1, <2>2, FlattenRest
  <2>4. IsSequence(e) /\ Len(e) > 0 /\ Len(e) \in Nat
    BY <1>3, <2>1, <2>2 DEF IsSequence
  <2>5. SubSeq(cells, c + 1, Len(cells)) = e \o more
    BY <1>0, <1>1, <2>3
  <2>8. Behind(cells, c, e, more)
    BY <1>0, <2>3, <2>4, <2>5 DEF Behind
  <2>6. /\ CellsAhead(cells, c, e) /\ c + Len(e) \in 0..Len(cells)
        /\ SubSeq(cells, c + Len(e) + 1, Len(cells)) = more
    BY <2>8, RestAhead
  <2>7. c # Len(cells)
    BY <1>0, <1>4, <2>4, <2>6
  <2> QED
    BY <1>1, <1>6, <2>2, <2>6, <2>7
<1> QED
  BY <1>1, <1>5, <1>6

\* Reading leaves the registry as it is, and the entries with it.
LEMMA EntriesStay ==
  ASSUME reg' = reg, regNewer' = regNewer
  PROVE  Entries' = Entries /\ \A n : ReadUpTo(n)' = ReadUpTo(n)
<1>1. Entries' = Entries
  BY DEF Entries, StreamCells
<1>2. \A n : ReadUpTo(n)' = ReadUpTo(n)
  BY DEF ReadUpTo, StreamsFrom, EnumsFrom, SchemasFrom, SigsFrom
<1> QED
  BY <1>1, <1>2

\* The block of the registry is a list of cells.
LEMMA BlockIs ==
  ASSUME RegTypeOK, EntriesInOrder
  PROVE  /\ IsSequence(RegistryCells) /\ Len(RegistryCells) >= 1
         /\ SubSeq(RegistryCells, 1 + 1, Len(RegistryCells)) = FlattenSeq(Entries)
<1>1. PICK h, q, s : h = <<U(Len(Entries))>> /\ q = FlattenSeq(Entries) /\ s = RegistryCells
  OBVIOUS
<1>2. IsSequence(h) /\ Len(h) = 1
  BY <1>1, ShortSequences
<1>3. IsSequence(Entries)
  BY DEF EntriesInOrder
<1>4. \A k \in 1..Len(Entries) : IsSequence(Entries[k])
  BY EntriesAreCells
<1>5. IsSequence(q) /\ Len(q) \in Nat
  BY <1>1, <1>3, <1>4, FlattenIs DEF IsSequence
<1>6. s = h \o q
  BY <1>1 DEF RegistryCells
<1>7. IsSequence(s) /\ Len(s) = 1 + Len(q) /\ \A i \in 1..Len(q) : s[1 + i] = q[i]
  <2>1. IsSequence(h) /\ IsSequence(q)
    BY <1>2, <1>5
  <2>2. /\ IsSequence(s) /\ Len(s) = Len(h) + Len(q)
        /\ \A i \in 1..Len(q) : s[Len(h) + i] = q[i]
    BY <1>6, <2>1, SequencesJoined
  <2> QED
    BY <1>2, <2>2
<1>8. PICK r : r = SubSeq(s, 1 + 1, Len(s))
  OBVIOUS
<1>9. IsSequence(r) /\ Len(r) = Len(s) - 1 /\ \A i \in 1..Len(s) - 1 : r[i] = s[1 + i]
  <2>1. 1 \in 0..Len(s)
    BY <1>5, <1>7
  <2> QED
    BY <1>7, <1>8, <2>1, RestIs
<1>10. Len(s) - 1 = Len(q) /\ Len(s) >= 1
  BY <1>5, <1>7
<1>11. r = [i \in 1..Len(q) |-> r[i]] /\ q = [i \in 1..Len(q) |-> q[i]]
  BY <1>5, <1>9, <1>10 DEF IsSequence
<1>12. \A i \in 1..Len(q) : r[i] = q[i]
  BY <1>7, <1>9, <1>10
<1>13. r = q
  BY <1>11, <1>12
<1> QED
  BY <1>1, <1>7, <1>8, <1>10, <1>13

\* An entry is taken, and what was read is what the entries up to it make.
LEMMA EntryTaken ==
  ASSUME RegTypeOK, EntriesInOrder, RegistryFits, ReadEntry, regCur \in Nat,
         NEW m \in 1..Len(Entries), regRead = [reg |-> ReadUpTo(m - 1), meta |-> << >>],
         CellsAhead(regCells.registry, regCur, Entries[m])
  PROVE  Took(Len(Entries[m]), ReadUpTo(m))
<1>1. PICK r : r = ReadUpTo(m - 1)
  OBVIOUS
<1>2. regRead = [reg |-> r, meta |-> << >>]
  BY <1>1
<1>3. CASE m \in 1..SigsFrom
  <2>1. Entries[m] = ForeignCells
    BY <1>3 DEF EntriesInOrder
  <2>2. ReadUpTo(m) = r
    BY <1>1, <1>3, ReadNext
  <2>3. CellsAhead(regCells.registry, regCur, ForeignCells)
    BY <2>1
  <2>4. Took(Len(ForeignCells), r)
    BY <1>2, <2>3, TookForeign
  <2> QED
    BY <2>1, <2>2, <2>4
<1>4. ASSUME NEW k \in 1..Len(reg.sigs), m = SigsFrom + k
      PROVE  Took(Len(Entries[m]), ReadUpTo(m))
  <2>1. PICK e : e = reg.sigs[k]
    OBVIOUS
  <2>2. e \in [width : {2}]
    <3>1. PICK R, list : R = [width : {2}] /\ list = reg.sigs
      OBVIOUS
    <3>2. list \in Seq(R)
      BY <3>1 DEF RegTypeOK
    <3>4. k \in 1..Len(list)
      BY <3>1
    <3>3. list[k] \in R
      BY <3>2, <3>4
    <3> QED
      BY <2>1, <3>1, <3>3
  <2>3. Entries[m] = SignalCells(k, e)
    BY <1>4, <2>1 DEF EntriesInOrder
  <2>4. ReadUpTo(m) = [r EXCEPT !["sigs"] = Put(@, k, e)]
    BY <1>1, <1>4, <2>1, ReadNext
  <2>5. CellsAhead(regCells.registry, regCur, SignalCells(k, e))
    BY <2>3
  <2>6. Took(Len(SignalCells(k, e)), [r EXCEPT !["sigs"] = Put(@, k, e)])
    BY <1>2, <2>2, <2>5, TookSignal
  <2> QED
    BY <2>3, <2>4, <2>6
<1>5. ASSUME NEW k \in 1..Len(reg.schemas), m = SchemasFrom + k
      PROVE  Took(Len(Entries[m]), ReadUpTo(m))
  <2>1. PICK e : e = reg.schemas[k]
    OBVIOUS
  <2>2. e \in Seq(FieldTypes)
    BY <2>1 DEF RegTypeOK
  <2>3. Entries[m] = SchemaCells(k, e)
    BY <1>5, <2>1 DEF EntriesInOrder
  <2>4. ReadUpTo(m) = [r EXCEPT !["schemas"] = Put(@, k, e)]
    BY <1>1, <1>5, <2>1, ReadNext
  <2>5. CellsAhead(regCells.registry, regCur, SchemaCells(k, e))
    BY <2>3
  <2>6. Took(Len(SchemaCells(k, e)), [r EXCEPT !["schemas"] = Put(@, k, e)])
    BY <1>2, <2>2, <2>5, TookSchema
  <2> QED
    BY <2>3, <2>4, <2>6
<1>6. ASSUME NEW k \in 1..Len(reg.enums), m = EnumsFrom + k
      PROVE  Took(Len(Entries[m]), ReadUpTo(m))
  <2>1. PICK e : e = reg.enums[k]
    OBVIOUS
  <2>2. e \in Seq(Int) /\ \A j \in 1..Len(e) : Signed(e[j])
    BY <2>1 DEF RegTypeOK, RegistryFits
  <2>3. Entries[m] = EnumCells(k, e)
    BY <1>6, <2>1 DEF EntriesInOrder
  <2>4. ReadUpTo(m) = [r EXCEPT !["enums"] = Put(@, k, e)]
    BY <1>1, <1>6, <2>1, ReadNext
  <2>5. CellsAhead(regCells.registry, regCur, EnumCells(k, e))
    BY <2>3
  <2>6. Took(Len(EnumCells(k, e)), [r EXCEPT !["enums"] = Put(@, k, e)])
    BY <1>2, <2>2, <2>5, TookEnum
  <2> QED
    BY <2>3, <2>4, <2>6
<1>7. ASSUME NEW k \in 1..Len(reg.streams), m = StreamsFrom + k
      PROVE  Took(Len(Entries[m]), ReadUpTo(m))
  <2>1. PICK s : s = reg.streams[k]
    OBVIOUS
  <2>2. s \in Stream /\ StreamFits(s)
    BY <2>1 DEF RegTypeOK, RegistryFits, StreamFits
  <2>3. Entries[m] = StreamCells(k, s)
    BY <1>7, <2>1 DEF EntriesInOrder
  <2>4. ReadUpTo(m) = [r EXCEPT !["streams"] = Put(@, k, Kept(s))]
    BY <1>1, <1>7, <2>1, ReadNext
  <2>5. CellsAhead(regCells.registry, regCur, StreamCells(k, s))
    BY <2>3
  <2>6. Took(Len(StreamCells(k, s)), [r EXCEPT !["streams"] = Put(@, k, Kept(s))])
    BY <1>2, <2>2, <2>5, TookStream
  <2> QED
    BY <2>3, <2>4, <2>6
<1> QED
  BY <1>3, <1>4, <1>5, <1>6, <1>7, EntryKinds

\* A turn of the reader takes it from one entry to the next.
LEMMA TurnInStep ==
  ASSUME RegInv, RegistryFits, ReadEntry
  PROVE  EntriesInStep' /\ regPhase' = "written"
<1>1. RegTypeOK /\ EntriesInOrder
  BY EntriesAre DEF RegInv
<1>2. /\ regPhase = "written" /\ regCur < Len(regCells.registry)
      /\ reg' = reg /\ regNewer' = regNewer /\ regCells' = regCells
  BY DEF ReadEntry
<1>3. PICK cells, c : cells = regCells.registry /\ c = regCur
  OBVIOUS
<1>4. IsSequence(cells)
  <2>1. cells = RegistryCells
    BY <1>2, <1>3 DEF RegInv
  <2> QED
    BY <1>1, <2>1, BlockIs
<1>5. PICK n \in 0..Len(Entries) :
        /\ c \in 0..Len(cells)
        /\ SubSeq(cells, c + 1, Len(cells)) = FlattenSeq(SubSeq(Entries, n + 1, Len(Entries)))
        /\ regRead = [reg |-> ReadUpTo(n), meta |-> << >>]
  BY <1>2, <1>3 DEF RegInv, EntriesInStep
<1>6. c # Len(cells) /\ c \in Nat
  <2>1. Len(cells) \in Nat
    BY <1>4 DEF IsSequence
  <2> QED
    BY <1>2, <1>3, <1>5, <2>1
<1>7. /\ n # Len(Entries)
      /\ CellsAhead(cells, c, Entries[n + 1])
      /\ c + Len(Entries[n + 1]) \in 0..Len(cells)
      /\ SubSeq(cells, c + Len(Entries[n + 1]) + 1, Len(cells))
           = FlattenSeq(SubSeq(Entries, n + 2, Len(Entries)))
  <2>1. Stands(cells, c, n)
    BY <1>4, <1>5 DEF Stands
  <2> QED
    BY <1>1, <1>6, <2>1, NextEntry
<1>8. PICK m : m = n + 1
  OBVIOUS
<1>9. m \in 1..Len(Entries) /\ m \in 0..Len(Entries) /\ m - 1 = n /\ n + 2 = m + 1
  <2>1. Len(Entries) \in Nat
    BY <1>1 DEF EntriesInOrder, IsSequence
  <2> QED
    BY <1>5, <1>7, <1>8, <2>1
<1>10. Took(Len(Entries[m]), ReadUpTo(m))
  <2>1. regRead = [reg |-> ReadUpTo(m - 1), meta |-> << >>]
    BY <1>5, <1>9
  <2>2. CellsAhead(regCells.registry, regCur, Entries[m])
    BY <1>3, <1>7, <1>8
  <2>3. regCur \in Nat
    BY <1>3, <1>6
  <2> QED
    BY <1>1, <1>9, <2>1, <2>2, <2>3, EntryTaken
<1>11. /\ regCur' = c + Len(Entries[m])
       /\ regRead' = [reg |-> ReadUpTo(m), meta |-> << >>]
       /\ regPhase' = "written"
  BY <1>2, <1>3, <1>10 DEF Took
<1>12. Entries' = Entries /\ \A k : ReadUpTo(k)' = ReadUpTo(k)
  BY <1>2, EntriesStay
<1>13. /\ regCur' \in 0..Len(regCells'.registry)
       /\ SubSeq(regCells'.registry, regCur' + 1, Len(regCells'.registry))
            = FlattenSeq(SubSeq(Entries', m + 1, Len(Entries')))
       /\ regRead' = [reg |-> ReadUpTo(m)', meta |-> << >>]
       /\ m \in 0..Len(Entries')
  BY <1>2, <1>3, <1>7, <1>8, <1>9, <1>11, <1>12
<1> QED
  BY <1>11, <1>13 DEF EntriesInStep

\* The lists that were begun are read to their ends.
LEMMA AllRead ==
  ASSUME RegTypeOK, EntriesInOrder
  PROVE  ReadUpTo(Len(Entries)) = [reg EXCEPT !.streams = [s \in 1..Len(@) |-> Kept(@[s])]]
<1>1. PICK s, c, e, t, a1, a2, a3, a4, n :
        /\ s = Len(reg.sigs) /\ c = Len(reg.schemas) /\ e = Len(reg.enums) /\ t = Len(reg.streams)
        /\ a1 = SigsFrom /\ a2 = SchemasFrom /\ a3 = EnumsFrom /\ a4 = StreamsFrom
        /\ n = Len(Entries)
  OBVIOUS
<1>2. /\ s \in Nat /\ c \in Nat /\ e \in Nat /\ t \in Nat /\ a1 \in Nat
      /\ a2 = a1 + s /\ a3 = a2 + c /\ a4 = a3 + e /\ n = a4 + t
  BY <1>1 DEF EntriesInOrder
<1>3. /\ reg.sigs \in Seq([width : {2}]) /\ reg.schemas \in Seq(Seq(FieldTypes))
      /\ reg.enums \in Seq(Seq(Int)) /\ KeptStreams \in Seq(Stream) /\ Len(KeptStreams) = t
  BY <1>1, KeptAre DEF RegTypeOK
<1>4. ASSUME NEW R, NEW list \in Seq(R), NEW k \in Int, k >= Len(list)
      PROVE  Begun(list, k) = list
  <2>1. PICK l : l = IF k <= 0 THEN 0 ELSE IF k <= Len(list) THEN k ELSE Len(list)
    OBVIOUS
  <2>2. Len(list) \in Nat
    OBVIOUS
  <2>3. l = Len(list)
    BY <1>4, <2>1, <2>2
  <2>4. Begun(list, k) = SubSeq(list, 1, Len(list))
    BY <2>1, <2>3 DEF Begun
  <2> QED
    BY <2>4
<1>5. /\ n - a1 \in Int /\ n - a2 \in Int /\ n - a3 \in Int /\ n - a4 \in Int
      /\ n - a1 >= s /\ n - a2 >= c /\ n - a3 >= e /\ n - a4 >= t
  BY <1>2
<1>6. Begun(reg.sigs, n - a1) = reg.sigs
  BY <1>1, <1>3, <1>4, <1>5
<1>7. Begun(reg.schemas, n - a2) = reg.schemas
  BY <1>1, <1>3, <1>4, <1>5
<1>8. Begun(reg.enums, n - a3) = reg.enums
  BY <1>1, <1>3, <1>4, <1>5
<1>9. Begun(KeptStreams, n - a4) = KeptStreams
  BY <1>1, <1>3, <1>4, <1>5
<1>10. ReadUpTo(n) = [sigs |-> reg.sigs, schemas |-> reg.schemas, enums |-> reg.enums,
                      streams |-> KeptStreams]
  BY <1>1, <1>6, <1>7, <1>8, <1>9 DEF ReadUpTo, KeptStreams
<1>11. reg = [sigs |-> reg.sigs, schemas |-> reg.schemas, enums |-> reg.enums,
              streams |-> reg.streams]
  BY DEF RegTypeOK
<1>12. [reg EXCEPT !.streams = [k \in 1..Len(@) |-> Kept(@[k])]]
         = [sigs |-> reg.sigs, schemas |-> reg.schemas, enums |-> reg.enums,
            streams |-> KeptStreams]
  BY <1>11 DEF KeptStreams
<1> QED
  BY <1>1, <1>10, <1>12

\* Behind the last entry the metadata are read, and with them all was read back.
LEMMA EndReadsBack ==
  ASSUME RegInv, RegistryFits, ReadMeta
  PROVE  RegistryReadsBack' /\ regPhase' = "read"
<1>1. RegTypeOK /\ EntriesInOrder
  BY EntriesAre DEF RegInv
<1>2. /\ regPhase = "written" /\ regCur = Len(regCells.registry)
      /\ reg' = reg /\ regMeta' = regMeta
  BY DEF ReadMeta
<1>3. PICK cells, c : cells = regCells.registry /\ c = regCur
  OBVIOUS
<1>4. IsSequence(cells)
  <2>1. cells = RegistryCells
    BY <1>2, <1>3 DEF RegInv
  <2> QED
    BY <1>1, <2>1, BlockIs
<1>5. PICK n \in 0..Len(Entries) :
        /\ c \in 0..Len(cells)
        /\ SubSeq(cells, c + 1, Len(cells)) = FlattenSeq(SubSeq(Entries, n + 1, Len(Entries)))
        /\ regRead = [reg |-> ReadUpTo(n), meta |-> << >>]
  BY <1>2, <1>3 DEF RegInv, EntriesInStep
<1>6. n = Len(Entries)
  <2>1. c = Len(cells)
    BY <1>2, <1>3
  <2>2. Stands(cells, c, n)
    BY <1>4, <1>5 DEF Stands
  <2> QED
    BY <1>1, <2>1, <2>2, NextEntry
<1>7. regRead = [reg |-> [reg EXCEPT !.streams = [s \in 1..Len(@) |-> Kept(@[s])]], meta |-> << >>]
  BY <1>1, <1>5, <1>6, AllRead
<1>8. regCells.meta = IF regMeta = << >> THEN << >> ELSE AttrListCells(regMeta)
  BY <1>2 DEF RegInv
<1>9. /\ regPhase' = "read"
      /\ regRead' = [regRead EXCEPT !.meta = regMeta]
  <2>1. CASE regMeta = << >>
    BY <1>8, <2>1 DEF ReadMeta
  <2>2. CASE regMeta # << >>
    <3>1. regMeta \in Seq(Attribute) /\ \A k \in 1..Len(regMeta) : AttrFits(regMeta[k])
      BY <1>1 DEF RegTypeOK, RegistryFits
    <3>2. PICK attrs, p : attrs = regMeta /\ p = AttrListCells(attrs)
      OBVIOUS
    <3>3. PICK h, q : /\ h = <<U(Len(attrs))>>
                      /\ q = FlattenSeq([k \in 1..Len(attrs) |-> TypedAttrCells(attrs[k])])
      OBVIOUS
    <3>4. IsSequence(q) /\ p = h \o q
      BY <3>1, <3>2, <3>3, AttrListIs
    <3>5. IsSequence(h) /\ Len(h) = 1
      BY <3>3, ShortSequences
    <3>6. IsSequence(p) /\ Len(p) = Len(h) + Len(q)
      <4>1. IsSequence(h) /\ IsSequence(q)
        BY <3>4, <3>5
      <4> QED
        BY <3>4, <4>1, SequencesJoined
    <3>7. Len(p) \in Nat /\ Len(p) > 0
      <4>1. Len(q) \in Nat
        BY <3>4 DEF IsSequence
      <4> QED
        BY <3>5, <3>6, <4>1
    <3>8. p # << >>
      BY <3>7, ShortSequences
    <3>9. regCells.meta = p
      BY <1>8, <2>2, <3>2
    <3>10. CellsAhead(regCells.meta, 0, p)
      BY <3>7, <3>9 DEF CellsAhead
    <3>11. ParseAttrs(regCells.meta, 0) = Parsed(0 + Len(p), attrs, TRUE)
      BY <3>1, <3>2, <3>10, ReadsMetaAttrs
    <3>12. /\ ParseAttrs(regCells.meta, 0).ok /\ ParseAttrs(regCells.meta, 0).got = attrs
      BY <3>11 DEF Parsed
    <3> QED
      BY <3>2, <3>8, <3>9, <3>12 DEF ReadMeta
  <2> QED
    BY <2>1, <2>2
<1>10. regRead' = [reg |-> [reg EXCEPT !.streams = [s \in 1..Len(@) |-> Kept(@[s])]],
                   meta |-> regMeta]
  BY <1>7, <1>9
<1> QED
  BY <1>2, <1>9, <1>10 DEF RegistryReadsBack, Kept

-----------------------------------------------------------------------------
(* Declarations *)

\* A list of numbers from 1 on has a least one.
LEMMA MinOf ==
  ASSUME NEW n \in Nat, NEW T \in SUBSET (1..n), T # {}
  PROVE  Min(T) \in T
<1>1. T \in SUBSET Nat
  OBVIOUS
<1>2. \E x \in T : \A y \in T : x <= y
  BY <1>1, LeastNumber
<1> QED
  BY <1>2 DEF Min

\* The attributes under the profiles' key.
ListsIn(metadata) == {k \in 1..Len(metadata) : metadata[k].key = ProfileKey}

\* An appended attribute of another key leaves those under the profiles' key.
LEMMA ListsKept ==
  ASSUME NEW metadata \in Seq(Attribute), NEW a \in Attribute
  PROVE  LET more == Append(metadata, a)
         IN  /\ more \in Seq(Attribute)
             /\ \A k \in 1..Len(metadata) : more[k] = metadata[k]
             /\ Len(more) = Len(metadata) + 1 /\ more[Len(metadata) + 1] = a
             /\ a.key # ProfileKey => ListsIn(more) = ListsIn(metadata)
<1>1. PICK more : more = Append(metadata, a)
  OBVIOUS
<1>2. more \in Seq(Attribute) /\ Len(metadata) \in Nat /\ Len(more) = Len(metadata) + 1
  BY <1>1
<1>3. (\A k \in 1..Len(metadata) : more[k] = metadata[k]) /\ more[Len(metadata) + 1] = a
  BY <1>1
<1>4. ASSUME a.key # ProfileKey PROVE ListsIn(more) = ListsIn(metadata)
  <2>1. 1..Len(more) = 1..Len(metadata) \cup {Len(metadata) + 1}
    BY <1>2
  <2> QED
    BY <1>3, <1>4, <2>1 DEF ListsIn
<1> QED
  BY <1>1, <1>2, <1>3, <1>4

\* With one more profile, the attributes are attributes.
LEMMA WithProfileTyped ==
  ASSUME NEW metadata \in Seq(Attribute), NEW profile \in Nat, ProfileKey \in Nat
  PROVE  WithProfile(metadata, profile) \in Seq(Attribute)
<1>1. PICK lists :
        lists = {k \in 1..Len(metadata) : metadata[k].key = ProfileKey /\ metadata[k].array}
  OBVIOUS
<1>2. Len(metadata) \in Nat
  OBVIOUS
<1>3. CASE lists = {}
  <2>1. PICK a : a = [key |-> ProfileKey, base |-> "STR", array |-> TRUE, vals |-> <<profile>>]
    OBVIOUS
  <2>2. <<profile>> \in Seq(Int)
    OBVIOUS
  <2>3. a \in Attribute
    BY <2>1, <2>2 DEF Attribute
  <2>4. WithProfile(metadata, profile) = Append(metadata, a)
    BY <1>1, <1>3, <2>1 DEF WithProfile
  <2> QED
    BY <2>3, <2>4
<1>4. CASE lists # {}
  <2>1. PICK k : k = Min(lists)
    OBVIOUS
  <2>2. k \in lists
    <3>1. lists \in SUBSET (1..Len(metadata))
      BY <1>1
    <3> QED
      BY <1>2, <1>4, <2>1, <3>1, MinOf
  <2>3. k \in 1..Len(metadata) /\ metadata[k].array
    BY <1>1, <2>2
  <2>4. PICK old, new : old = metadata[k] /\ new = [old EXCEPT !.vals = Append(@, profile)]
    OBVIOUS
  <2>5. new \in Attribute
    <3>1. old \in Attribute
      BY <2>3, <2>4
    <3>2. Append(old.vals, profile) \in Seq(Int)
      BY <3>1 DEF Attribute
    <3> QED
      BY <2>3, <2>4, <3>1, <3>2 DEF Attribute
  <2>6. WithProfile(metadata, profile) = [metadata EXCEPT ![k].vals = Append(@, profile)]
    BY <1>1, <1>4, <2>1 DEF WithProfile
  <2>7. [metadata EXCEPT ![k].vals = Append(@, profile)] = [metadata EXCEPT ![k] = new]
    BY <2>4
  <2>8. [metadata EXCEPT ![k] = new] \in Seq(Attribute)
    <3>1. PICK R : R = Attribute
      OBVIOUS
    <3>2. metadata \in Seq(R) /\ new \in R /\ k \in 1..Len(metadata)
      BY <2>3, <2>5, <3>1
    <3>3. [metadata EXCEPT ![k] = new] \in Seq(R)
      BY <3>2
    <3> QED
      BY <3>1, <3>3
  <2> QED
    BY <2>6, <2>7, <2>8
<1> QED
  BY <1>3, <1>4

\* The profiles of a stream are in the one attribute of their key.
Together(metadata, given) ==
  ~given.otherwise =>
    IF given.profiles = << >> THEN ListsIn(metadata) = {}
    ELSE \E k \in 1..Len(metadata) :
           /\ ListsIn(metadata) = {k} /\ metadata[k].array /\ metadata[k].vals = given.profiles

LEMMA TogetherIs ==
  ProfilesTogether <=> \A s \in 1..Len(reg.streams) : Together(reg.streams[s].metadata, regGiven[s])
BY DEF ProfilesTogether, Together, ListsIn

\* One more profile is put to the others.
LEMMA WithProfileTogether ==
  ASSUME NEW metadata \in Seq(Attribute), NEW given \in [profiles : Seq(Nat), otherwise : BOOLEAN],
         NEW profile \in Nat, ProfileKey \in Nat, Together(metadata, given)
  PROVE  Together(WithProfile(metadata, profile), [given EXCEPT !.profiles = Append(@, profile)])
<1>1. PICK ps, more, now :
        /\ ps = given.profiles /\ more = WithProfile(metadata, profile)
        /\ now = [given EXCEPT !.profiles = Append(@, profile)]
  OBVIOUS
<1>2. PICK all : all = Append(ps, profile)
  OBVIOUS
<1>3. ps \in Seq(Nat) /\ now.profiles = all /\ now.otherwise = given.otherwise
  BY <1>1, <1>2
<1>4. all # << >>
  BY <1>2, <1>3
<1> SUFFICES ASSUME ~given.otherwise PROVE Together(more, now)
  BY <1>1, <1>3 DEF Together
<1> SUFFICES \E k \in 1..Len(more) :
               ListsIn(more) = {k} /\ more[k].array /\ more[k].vals = all
  BY <1>3, <1>4 DEF Together
<1>5. CASE ps = << >>
  <2>1. ListsIn(metadata) = {}
    BY <1>1, <1>5 DEF Together
  <2>2. PICK a, n : /\ a = [key |-> ProfileKey, base |-> "STR", array |-> TRUE, vals |-> <<profile>>]
                    /\ n = Len(metadata)
    OBVIOUS
  <2>3. {k \in 1..Len(metadata) : metadata[k].key = ProfileKey /\ metadata[k].array} = {}
    BY <2>1 DEF ListsIn
  <2>4. more = Append(metadata, a)
    BY <1>1, <2>2, <2>3 DEF WithProfile
  <2>5. <<profile>> \in Seq(Int)
    OBVIOUS
  <2>6. a \in Attribute
    BY <2>2, <2>5 DEF Attribute
  <2>7. n \in Nat /\ Len(more) = n + 1 /\ more[n + 1] = a /\ \A k \in 1..n : more[k] = metadata[k]
    BY <2>2, <2>4, <2>6, ListsKept
  <2>8. 1..Len(more) = 1..n \cup {n + 1}
    BY <2>7
  <2>9. ListsIn(more) = {n + 1}
    BY <2>1, <2>2, <2>7, <2>8 DEF ListsIn
  <2>10. all = <<profile>>
    BY <1>2, <1>5
  <2> QED
    BY <2>2, <2>7, <2>8, <2>9, <2>10
<1>6. CASE ps # << >>
  <2>1. PICK k \in 1..Len(metadata) :
          ListsIn(metadata) = {k} /\ metadata[k].array /\ metadata[k].vals = ps
    BY <1>1, <1>6 DEF Together
  <2>2. {j \in 1..Len(metadata) : metadata[j].key = ProfileKey /\ metadata[j].array} = {k}
    BY <2>1 DEF ListsIn
  <2>3. Min({k}) = k
    <3>1. {k} \in SUBSET (1..Len(metadata)) /\ {k} # {} /\ Len(metadata) \in Nat
      OBVIOUS
    <3>2. Min({k}) \in {k}
      BY <3>1, MinOf
    <3> QED
      BY <3>2
  <2>4. more = [metadata EXCEPT ![k].vals = Append(@, profile)]
    BY <1>1, <2>2, <2>3 DEF WithProfile
  <2>5. more = [metadata EXCEPT ![k] = [metadata[k] EXCEPT !.vals = all]]
    BY <1>2, <2>1, <2>4
  <2>6. metadata[k] \in Attribute /\ metadata \in [1..Len(metadata) -> Attribute]
    OBVIOUS
  <2>7. /\ DOMAIN more = 1..Len(metadata)
        /\ more[k] = [metadata[k] EXCEPT !.vals = all]
        /\ \A j \in 1..Len(metadata) : j # k => more[j] = metadata[j]
    BY <2>5, <2>6
  <2>8. more[k].vals = all /\ more[k].array /\ more[k].key = metadata[k].key
    BY <2>1, <2>6, <2>7 DEF Attribute
  <2>9. Len(more) = Len(metadata)
    BY <2>7, WithProfileTyped, <1>1
  <2>10. ListsIn(more) = ListsIn(metadata)
    BY <2>7, <2>8, <2>9 DEF ListsIn
  <2> QED
    BY <2>1, <2>8, <2>9, <2>10
<1> QED
  BY <1>5, <1>6

Given == [profiles : Seq(Nat), otherwise : BOOLEAN]

\* A call of the client before the registry is written.
LEMMA OpenInv ==
  ASSUME RegInv, Open, regPhase' = regPhase, regRead' = regRead, RegTypeOK', ProfilesTogether'
  PROVE  RegInv'
<1>1. regPhase' = "open" /\ regRead' = [reg |-> NoEntries, meta |-> << >>]
  BY DEF RegInv, Open
<1> QED
  BY <1>1 DEF RegInv, EntriesInStep, RegistryReadsBack, NoEntries

\* What is given to metadata is an attribute.
LEMMA AttrTyped ==
  ASSUME NEW key \in MetaKeys, NEW value \in MetaValues, NEW base \in Bases(value)
  PROVE  Attr(key, value, base) \in Attribute
<1>1. /\ value.list \in BOOLEAN /\ value.kind \in {"BOOL", "INT", "REAL", "STR"}
      /\ value.vals \in Seq(Int)
      /\ ~value.list => Len(value.vals) = 1
  BY RegistryAssumption
<1>2. Inferred(value) \in {"BOOL", "I64", "U64", "REAL", "STR"}
  BY <1>1 DEF Inferred
<1>3. base \in {"BOOL", "I64", "U64", "REAL", "STR"}
  BY <1>2 DEF Bases
<1>4. key \in Nat
  BY RegistryAssumption
<1> QED
  BY <1>1, <1>3, <1>4 DEF Attr, Attribute

\* An entry of a kind other than streams.
LEMMA DeclaredInv ==
  ASSUME RegInv, NEW kind, NEW entry, Declared(kind, entry), UNCHANGED regGiven,
         \/ kind = "sigs" /\ entry \in [width : {2}]
         \/ kind = "schemas" /\ entry \in Seq(FieldTypes)
         \/ kind = "enums" /\ entry \in Seq(Int)
  PROVE  RegInv'
<1>1. RegTypeOK /\ ProfilesTogether
  BY DEF RegInv
<1>2. /\ Open /\ reg' = [reg EXCEPT ![kind] = Append(@, entry)] /\ regGiven' = regGiven
      /\ regMeta' = regMeta /\ regNewer' = regNewer /\ regRead' = regRead /\ regPhase' = regPhase
  BY DEF Declared
<1>3. PICK A, B, C, D :
        A = [width : {2}] /\ B = Seq(FieldTypes) /\ C = Seq(Int) /\ D = Stream
  OBVIOUS
<1>4. reg \in [sigs : Seq(A), schemas : Seq(B), enums : Seq(C), streams : Seq(D)]
  BY <1>1, <1>3 DEF RegTypeOK
<1>5. /\ reg' \in [sigs : Seq(A), schemas : Seq(B), enums : Seq(C), streams : Seq(D)]
      /\ reg'.streams = reg.streams
  <2>1. CASE kind = "sigs"
    <3>1. Append(reg.sigs, entry) \in Seq(A)
      BY <1>3, <1>4, <2>1
    <3> QED
      BY <1>2, <1>4, <2>1, <3>1
  <2>2. CASE kind = "schemas"
    <3>1. Append(reg.schemas, entry) \in Seq(B)
      BY <1>3, <1>4, <2>2
    <3> QED
      BY <1>2, <1>4, <2>2, <3>1
  <2>3. CASE kind = "enums"
    <3>1. Append(reg.enums, entry) \in Seq(C)
      BY <1>3, <1>4, <2>3
    <3> QED
      BY <1>2, <1>4, <2>3, <3>1
  <2> QED
    BY <2>1, <2>2, <2>3
<1>6. RegTypeOK'
  BY <1>1, <1>2, <1>3, <1>5 DEF RegTypeOK
<1>7. ProfilesTogether'
  BY <1>1, <1>2, <1>5 DEF ProfilesTogether
<1> QED
  BY <1>2, <1>6, <1>7, OpenInv

\* A stream's entry is set anew.
LEMMA RestreamInv ==
  ASSUME RegInv, NEW s \in 1..Len(reg.streams), NEW entry \in Stream, Restream(s, entry),
         NEW given \in Given, regGiven' = [regGiven EXCEPT ![s] = given],
         Together(reg.streams[s].metadata, regGiven[s]) => Together(entry.metadata, given)
  PROVE  RegInv'
<1>1. RegTypeOK /\ ProfilesTogether
  BY DEF RegInv
<1>2. /\ Open /\ reg' = [reg EXCEPT !.streams[s] = entry]
      /\ regMeta' = regMeta /\ regNewer' = regNewer /\ regRead' = regRead /\ regPhase' = regPhase
  BY DEF Restream
<1>3. PICK list, G, gs, more, new :
        /\ list = reg.streams /\ G = Given /\ gs = regGiven
        /\ more = [list EXCEPT ![s] = entry] /\ new = [gs EXCEPT ![s] = given]
  OBVIOUS
<1>4. list \in Seq(Stream) /\ gs \in Seq(G) /\ Len(gs) = Len(list) /\ s \in 1..Len(list)
  BY <1>1, <1>3 DEF RegTypeOK, Given
<1>5. more \in Seq(Stream) /\ Len(more) = Len(list)
  BY <1>3, <1>4
<1>6. new \in Seq(G) /\ Len(new) = Len(list)
  BY <1>3, <1>4
<1>7. /\ more[s] = entry /\ new[s] = given
      /\ \A k \in 1..Len(list) : k # s => more[k] = list[k] /\ new[k] = gs[k]
  BY <1>3, <1>4
<1>8. reg' = [reg EXCEPT !.streams = more]
  BY <1>2, <1>3
<1>9. /\ reg' \in [sigs : Seq([width : {2}]), schemas : Seq(Seq(FieldTypes)), enums : Seq(Seq(Int)),
                   streams : Seq(Stream)]
      /\ reg'.streams = more
  <2>1. PICK A, B, C : A = Seq([width : {2}]) /\ B = Seq(Seq(FieldTypes)) /\ C = Seq(Seq(Int))
    OBVIOUS
  <2>2. reg \in [sigs : A, schemas : B, enums : C, streams : Seq(Stream)]
    BY <1>1, <2>1 DEF RegTypeOK
  <2>3. /\ reg' \in [sigs : A, schemas : B, enums : C, streams : Seq(Stream)]
        /\ reg'.streams = more
    BY <1>5, <1>8, <2>2
  <2> QED
    BY <2>1, <2>3
<1>10. regGiven' = new
  BY <1>3
<1>11. RegTypeOK'
  BY <1>1, <1>2, <1>3, <1>5, <1>6, <1>9, <1>10 DEF RegTypeOK, Given
<1>12. ProfilesTogether'
  <2>1. \A k \in 1..Len(list) : Together(list[k].metadata, gs[k])
    BY <1>1, <1>3, TogetherIs
  <2>2. ASSUME NEW k \in 1..Len(more) PROVE Together(more[k].metadata, new[k])
    <3>1. k \in 1..Len(list)
      BY <1>5
    <3>2. CASE k = s
      BY <1>3, <1>7, <2>1, <3>1, <3>2
    <3>3. CASE k # s
      BY <1>7, <2>1, <3>1, <3>3
    <3> QED
      BY <3>2, <3>3
  <2>3. \A k \in 1..Len(reg'.streams) : Together(reg'.streams[k].metadata, regGiven'[k])
    BY <1>9, <1>10, <2>2
  <2> QED
    BY <2>3 DEF ProfilesTogether, Together, ListsIn
<1> QED
  BY <1>2, <1>11, <1>12, OpenInv

\* A stream is declared.
LEMMA AddStreamInv ==
  ASSUME RegInv, NEW codec \in StreamCodecs, AddStreamDecl(codec)
  PROVE  RegInv'
<1>1. RegTypeOK /\ ProfilesTogether
  BY DEF RegInv
<1>2. PICK list, G, gs, entry, given, more, new :
        /\ list = reg.streams /\ G = Given /\ gs = regGiven
        /\ entry = [kind |-> 1, codec |-> codec, metadata |-> << >>, inputs |-> << >>]
        /\ given = [profiles |-> << >>, otherwise |-> FALSE]
        /\ more = Append(list, entry) /\ new = Append(gs, given)
  OBVIOUS
<1>3. /\ Open /\ reg' = [reg EXCEPT !.streams = more] /\ regGiven' = new
      /\ regMeta' = regMeta /\ regNewer' = regNewer /\ regRead' = regRead /\ regPhase' = regPhase
  BY <1>2 DEF AddStreamDecl, Declared
<1>4. list \in Seq(Stream) /\ gs \in Seq(G) /\ Len(gs) = Len(list)
  BY <1>1, <1>2 DEF RegTypeOK, Given
<1>5. entry \in Stream /\ given \in G
  BY <1>2 DEF Stream, Given
<1>6. more \in Seq(Stream) /\ Len(more) = Len(list) + 1
  BY <1>2, <1>4, <1>5
<1>7. new \in Seq(G) /\ Len(new) = Len(list) + 1
  BY <1>2, <1>4, <1>5
<1>8. /\ more[Len(list) + 1] = entry /\ new[Len(list) + 1] = given
      /\ \A k \in 1..Len(list) : more[k] = list[k] /\ new[k] = gs[k]
  BY <1>2, <1>4, <1>5
<1>9. /\ reg' \in [sigs : Seq([width : {2}]), schemas : Seq(Seq(FieldTypes)), enums : Seq(Seq(Int)),
                   streams : Seq(Stream)]
      /\ reg'.streams = more
  <2>1. PICK A, B, C : A = Seq([width : {2}]) /\ B = Seq(Seq(FieldTypes)) /\ C = Seq(Seq(Int))
    OBVIOUS
  <2>2. reg \in [sigs : A, schemas : B, enums : C, streams : Seq(Stream)]
    BY <1>1, <2>1 DEF RegTypeOK
  <2>3. /\ reg' \in [sigs : A, schemas : B, enums : C, streams : Seq(Stream)]
        /\ reg'.streams = more
    BY <1>3, <1>6, <2>2
  <2> QED
    BY <2>1, <2>3
<1>10. RegTypeOK'
  BY <1>1, <1>2, <1>3, <1>6, <1>7, <1>9 DEF RegTypeOK, Given
<1>11. ProfilesTogether'
  <2>1. \A k \in 1..Len(list) : Together(list[k].metadata, gs[k])
    BY <1>1, <1>2, TogetherIs
  <2>2. Together(entry.metadata, given)
    BY <1>2 DEF Together, ListsIn
  <2>3. ASSUME NEW k \in 1..Len(more) PROVE Together(more[k].metadata, new[k])
    <3>1. k \in 1..Len(list) \/ k = Len(list) + 1
      BY <1>4, <1>6
    <3> QED
      BY <1>8, <2>1, <2>2, <3>1
  <2>4. \A k \in 1..Len(reg'.streams) : Together(reg'.streams[k].metadata, regGiven'[k])
    BY <1>3, <1>9, <2>3
  <2> QED
    BY <2>4 DEF ProfilesTogether, Together, ListsIn
<1> QED
  BY <1>3, <1>10, <1>11, OpenInv

\* A stream's codec, its inputs, a profile and metadata are set.
LEMMA SetStreamInv ==
  ASSUME RegInv, NEW s \in 1..Len(reg.streams),
         \/ \E codec \in StreamCodecs : SetCodec(s, codec)
         \/ SetInputs(s, <<1, 2>>)
         \/ \E profile \in Profiles : AddProfile(s, profile)
         \/ \E key \in MetaKeys, value \in MetaValues : \E base \in Bases(value) :
              AddStreamMetadata(s, key, value, base)
  PROVE  RegInv'
<1>1. PICK x, gs, given : x = reg.streams[s] /\ gs = regGiven /\ given = gs[s]
  OBVIOUS
<1>2. x \in Stream /\ gs \in Seq(Given) /\ given \in Given /\ gs = [gs EXCEPT ![s] = given]
  <2>1. reg.streams \in Seq(Stream) /\ regGiven \in Seq(Given) /\ Len(regGiven) = Len(reg.streams)
    BY DEF RegInv, RegTypeOK, Given
  <2> QED
    BY <1>1, <2>1
<1>3. ASSUME NEW codec \in StreamCodecs, SetCodec(s, codec) PROVE RegInv'
  <2>1. PICK entry : entry = [x EXCEPT !.codec = codec]
    OBVIOUS
  <2>2. entry \in Stream /\ entry.metadata = x.metadata
    BY <1>2, <2>1 DEF Stream
  <2>3. Restream(s, entry) /\ regGiven' = [regGiven EXCEPT ![s] = given]
    BY <1>1, <1>2, <1>3, <2>1 DEF SetCodec
  <2>4. Together(reg.streams[s].metadata, regGiven[s]) => Together(entry.metadata, given)
    BY <1>1, <2>2
  <2> QED
    BY <1>2, <2>2, <2>3, <2>4, RestreamInv
<1>4. ASSUME SetInputs(s, <<1, 2>>) PROVE RegInv'
  <2>1. PICK entry : entry = [x EXCEPT !.inputs = <<1, 2>>]
    OBVIOUS
  <2>2. entry \in Stream /\ entry.metadata = x.metadata
    <3>1. <<1, 2>> \in Seq(Nat)
      OBVIOUS
    <3> QED
      BY <1>2, <2>1, <3>1 DEF Stream
  <2>3. Restream(s, entry) /\ regGiven' = [regGiven EXCEPT ![s] = given]
    BY <1>1, <1>2, <1>4, <2>1 DEF SetInputs
  <2>4. Together(reg.streams[s].metadata, regGiven[s]) => Together(entry.metadata, given)
    BY <1>1, <2>2
  <2> QED
    BY <1>2, <2>2, <2>3, <2>4, RestreamInv
<1>5. ASSUME NEW profile \in Profiles, AddProfile(s, profile) PROVE RegInv'
  <2>1. PICK entry, now :
          /\ entry = [x EXCEPT !.metadata = WithProfile(@, profile)]
          /\ now = [given EXCEPT !.profiles = Append(@, profile)]
    OBVIOUS
  <2>2. profile \in Nat /\ ProfileKey \in Nat
    BY RegistryAssumption
  <2>3. x.metadata \in Seq(Attribute)
    BY <1>2 DEF Stream
  <2>4. WithProfile(x.metadata, profile) \in Seq(Attribute)
    BY <2>2, <2>3, WithProfileTyped
  <2>5. entry \in Stream /\ entry.metadata = WithProfile(x.metadata, profile)
    BY <1>2, <2>1, <2>4 DEF Stream
  <2>6. now \in Given
    <3>1. Append(given.profiles, profile) \in Seq(Nat)
      BY <1>2, <2>2 DEF Given
    <3> QED
      BY <1>2, <2>1, <3>1 DEF Given
  <2>7. Restream(s, entry)
    BY <1>1, <1>5, <2>1 DEF AddProfile
  <2>8. regGiven' = [regGiven EXCEPT ![s] = now]
    BY <1>1, <1>5, <2>1 DEF AddProfile
  <2>9. Together(x.metadata, given) => Together(entry.metadata, now)
    <3>1. given \in [profiles : Seq(Nat), otherwise : BOOLEAN]
      BY <1>2 DEF Given
    <3> QED
      BY <2>1, <2>2, <2>3, <2>5, <3>1, WithProfileTogether
  <2> QED
    BY <1>1, <2>5, <2>6, <2>7, <2>8, <2>9, RestreamInv
<1>6. ASSUME NEW key \in MetaKeys, NEW value \in MetaValues, NEW base \in Bases(value),
             AddStreamMetadata(s, key, value, base)
      PROVE  RegInv'
  <2>1. PICK a, entry, now :
          /\ a = Attr(key, value, base)
          /\ entry = [x EXCEPT !.metadata = Append(@, a)]
          /\ now = [given EXCEPT !.otherwise = @ \/ key = ProfileKey]
    OBVIOUS
  <2>2. a \in Attribute /\ a.key = key
    BY <2>1, AttrTyped DEF Attr
  <2>3. x.metadata \in Seq(Attribute)
    BY <1>2 DEF Stream
  <2>4. /\ Append(x.metadata, a) \in Seq(Attribute)
        /\ \A k \in 1..Len(x.metadata) : Append(x.metadata, a)[k] = x.metadata[k]
        /\ Len(Append(x.metadata, a)) = Len(x.metadata) + 1
        /\ a.key # ProfileKey => ListsIn(Append(x.metadata, a)) = ListsIn(x.metadata)
    BY <2>2, <2>3, ListsKept
  <2>5. entry \in Stream /\ entry.metadata = Append(x.metadata, a)
    BY <1>2, <2>1, <2>4 DEF Stream
  <2>6. /\ now \in Given /\ now.profiles = given.profiles
        /\ ~now.otherwise => ~given.otherwise /\ key # ProfileKey
    BY <1>2, <2>1 DEF Given
  <2>7. Restream(s, entry)
    BY <1>1, <1>6, <2>1 DEF AddStreamMetadata
  <2>8. regGiven' = [regGiven EXCEPT ![s] = now]
    BY <1>1, <1>6, <2>1 DEF AddStreamMetadata
  <2>9. ASSUME Together(x.metadata, given) PROVE Together(entry.metadata, now)
    <3>1. PICK old, more : old = x.metadata /\ more = Append(x.metadata, a)
      OBVIOUS
    <3>2. Len(old) \in Nat /\ Len(more) = Len(old) + 1 /\ \A k \in 1..Len(old) : more[k] = old[k]
      BY <2>3, <2>4, <3>1
    <3>3. \A k \in 1..Len(old) : k \in 1..Len(more)
      BY <3>2
    <3>4. CASE now.otherwise
      BY <3>4 DEF Together
    <3>5. CASE ~now.otherwise
      <4>1. ListsIn(more) = ListsIn(old) /\ ~given.otherwise
        BY <2>2, <2>4, <2>6, <3>1, <3>5
      <4>2. Together(old, given)
        BY <2>9, <3>1
      <4>3. Together(more, now)
        <5>1. CASE given.profiles = << >>
          BY <2>6, <4>1, <4>2, <5>1 DEF Together
        <5>2. CASE given.profiles # << >>
          <6>1. PICK k \in 1..Len(old) :
                  ListsIn(old) = {k} /\ old[k].array /\ old[k].vals = given.profiles
            BY <4>1, <4>2, <5>2 DEF Together
          <6>2. /\ k \in 1..Len(more) /\ ListsIn(more) = {k} /\ more[k].array
                /\ more[k].vals = now.profiles
            BY <2>6, <3>2, <3>3, <4>1, <6>1
          <6> QED
            BY <2>6, <5>2, <6>2 DEF Together
        <5> QED
          BY <5>1, <5>2
      <4> QED
        BY <2>5, <3>1, <4>3
    <3> QED
      BY <3>4, <3>5
  <2> QED
    BY <1>1, <2>5, <2>6, <2>7, <2>8, <2>9, RestreamInv
<1> QED
  BY <1>3, <1>4, <1>5, <1>6

\* Metadata of the trace.
LEMMA AddMetadataInv ==
  ASSUME RegInv, NEW key \in MetaKeys, NEW value \in MetaValues, NEW base \in Bases(value),
         AddMetadata(key, value, base)
  PROVE  RegInv'
<1>1. RegTypeOK /\ ProfilesTogether
  BY DEF RegInv
<1>2. PICK a, attrs : a = Attr(key, value, base) /\ attrs = regMeta
  OBVIOUS
<1>3. /\ Open /\ regMeta' = Append(attrs, a) /\ reg' = reg /\ regGiven' = regGiven
      /\ regNewer' = regNewer /\ regRead' = regRead /\ regPhase' = regPhase
  BY <1>2 DEF AddMetadata
<1>4. Append(attrs, a) \in Seq(Attribute)
  <2>1. a \in Attribute
    BY <1>2, AttrTyped
  <2>2. attrs \in Seq(Attribute)
    BY <1>1, <1>2 DEF RegTypeOK
  <2> QED
    BY <2>1, <2>2
<1>5. RegTypeOK'
  BY <1>1, <1>3, <1>4 DEF RegTypeOK
<1>6. ProfilesTogether'
  BY <1>1, <1>3 DEF ProfilesTogether
<1> QED
  BY <1>3, <1>5, <1>6, OpenInv

\* The registry and the metadata are written, or the writing raises.
LEMMA WriteRegistryInv ==
  ASSUME RegInv, WriteRegistry
  PROVE  RegInv'
<1>1. RegTypeOK /\ ProfilesTogether /\ EntriesInOrder
  BY EntriesAre DEF RegInv
<1>2. /\ regPhase = "open" /\ reg' = reg /\ regMeta' = regMeta /\ regGiven' = regGiven
      /\ regNewer' = regNewer /\ regRead' = regRead
  BY DEF WriteRegistry
<1>3. regRead = [reg |-> NoEntries, meta |-> << >>]
  BY <1>2 DEF RegInv
<1>4. \/ regPhase' = "raised"
      \/ /\ regPhase' = "written" /\ regCur' = 1
         /\ regCells' = [registry |-> RegistryCells,
                         meta |-> IF regMeta = << >> THEN << >> ELSE AttrListCells(regMeta)]
  BY DEF WriteRegistry
<1>5. RegTypeOK'
  BY <1>1, <1>2, <1>4 DEF RegTypeOK
<1>6. ProfilesTogether'
  BY <1>1, <1>2 DEF ProfilesTogether
<1>7. CASE regPhase' = "raised"
  BY <1>2, <1>3, <1>5, <1>6, <1>7 DEF RegInv, EntriesInStep, RegistryReadsBack, NoEntries
<1>8. CASE /\ regPhase' = "written" /\ regCur' = 1
           /\ regCells' = [registry |-> RegistryCells,
                           meta |-> IF regMeta = << >> THEN << >> ELSE AttrListCells(regMeta)]
  <2>1. Entries' = Entries /\ \A n : ReadUpTo(n)' = ReadUpTo(n)
    BY <1>2, EntriesStay
  <2>2. PICK cells, L : cells = RegistryCells /\ L = Entries
    OBVIOUS
  <2>3. /\ IsSequence(cells) /\ Len(cells) >= 1
        /\ SubSeq(cells, 1 + 1, Len(cells)) = FlattenSeq(L)
    BY <1>1, <2>2, BlockIs
  <2>4. 1 \in 0..Len(cells) /\ 0 \in 0..Len(L)
    <3>1. Len(cells) \in Nat /\ Len(L) \in Nat
      BY <1>1, <2>2, <2>3 DEF EntriesInOrder, IsSequence
    <3> QED
      BY <2>3, <3>1
  <2>5. SubSeq(L, 0 + 1, Len(L)) = L
    <3>1. PICK r : r = SubSeq(L, 0 + 1, Len(L))
      OBVIOUS
    <3>2. IsSequence(L) /\ Len(L) \in Nat
      BY <1>1, <2>2 DEF EntriesInOrder, IsSequence
    <3>3. IsSequence(r) /\ Len(r) = Len(L) - 0 /\ \A i \in 1..Len(L) - 0 : r[i] = L[0 + i]
      BY <2>4, <3>1, <3>2, RestIs
    <3>4. Len(r) = Len(L) /\ \A i \in 1..Len(L) : r[i] = L[i]
      BY <3>2, <3>3
    <3>5. r = [i \in 1..Len(L) |-> r[i]] /\ L = [i \in 1..Len(L) |-> L[i]]
      BY <3>2, <3>3, <3>4 DEF IsSequence
    <3> QED
      BY <3>1, <3>4, <3>5
  <2>6. ReadUpTo(0) = NoEntries
    <3>1. ASSUME NEW R, NEW list \in Seq(R), NEW n \in Nat PROVE Begun(list, 0 - n) = << >>
      <4>1. 0 - n <= 0
        OBVIOUS
      <4>2. Begun(list, 0 - n) = SubSeq(list, 1, 0)
        BY <4>1 DEF Begun
      <4> QED
        BY <4>2
    <3>2. /\ reg.sigs \in Seq([width : {2}]) /\ reg.schemas \in Seq(Seq(FieldTypes))
          /\ reg.enums \in Seq(Seq(Int)) /\ KeptStreams \in Seq(Stream)
      BY <1>1, KeptAre DEF RegTypeOK
    <3>3. SigsFrom \in Nat /\ SchemasFrom \in Nat /\ EnumsFrom \in Nat /\ StreamsFrom \in Nat
      BY <1>1 DEF EntriesInOrder
    <3>4. /\ Begun(reg.sigs, 0 - SigsFrom) = << >> /\ Begun(reg.schemas, 0 - SchemasFrom) = << >>
          /\ Begun(reg.enums, 0 - EnumsFrom) = << >> /\ Begun(KeptStreams, 0 - StreamsFrom) = << >>
      BY <3>1, <3>2, <3>3
    <3> QED
      BY <3>4 DEF ReadUpTo, NoEntries, KeptStreams
  <2>7. EntriesInStep'
    <3>1. /\ 0 \in 0..Len(Entries') /\ regCur' \in 0..Len(regCells'.registry)
          /\ SubSeq(regCells'.registry, regCur' + 1, Len(regCells'.registry))
               = FlattenSeq(SubSeq(Entries', 0 + 1, Len(Entries')))
          /\ regRead' = [reg |-> ReadUpTo(0)', meta |-> << >>]
      BY <1>2, <1>3, <1>8, <2>1, <2>2, <2>3, <2>4, <2>5, <2>6
    <3> QED
      BY <3>1 DEF EntriesInStep
  <2>8. RegistryReadsBack'
    BY <1>8 DEF RegistryReadsBack
  <2>9. RegistryCells' = RegistryCells
    BY <2>1 DEF RegistryCells
  <2> QED
    BY <1>2, <1>5, <1>6, <1>8, <2>7, <2>8, <2>9 DEF RegInv
<1> QED
  BY <1>4, <1>7, <1>8

\* One turn of the reader.
LEMMA ReadEntryInv ==
  ASSUME RegInv, ReadEntry
  PROVE  RegInv'
<1>1. RegTypeOK /\ ProfilesTogether
  BY DEF RegInv
<1>2. /\ regPhase = "written" /\ reg' = reg /\ regMeta' = regMeta /\ regGiven' = regGiven
      /\ regNewer' = regNewer /\ regCells' = regCells
  BY DEF ReadEntry
<1>3. regPhase' \in {"written", "astray"}
  BY <1>2 DEF ReadEntry, Entered
<1>4. RegTypeOK' /\ ProfilesTogether'
  BY <1>1, <1>2, <1>3 DEF RegTypeOK, ProfilesTogether
<1>5. RegistryCells' = RegistryCells
  BY <1>2, EntriesStay DEF RegistryCells
<1>6. regCells' = [registry |-> RegistryCells',
                   meta |-> IF regMeta' = << >> THEN << >> ELSE AttrListCells(regMeta')]
  BY <1>2, <1>5 DEF RegInv
<1>7. ASSUME RegistryFits' PROVE EntriesInStep' /\ RegistryReadsBack'
  <2>1. RegistryFits
    BY <1>2, <1>7 DEF RegistryFits
  <2>2. EntriesInStep' /\ regPhase' = "written"
    BY <2>1, TurnInStep
  <2> QED
    BY <2>2 DEF RegistryReadsBack
<1> QED
  BY <1>3, <1>4, <1>6, <1>7 DEF RegInv

\* The end of the reading.
LEMMA ReadMetaInv ==
  ASSUME RegInv, ReadMeta
  PROVE  RegInv'
<1>1. RegTypeOK /\ ProfilesTogether
  BY DEF RegInv
<1>2. /\ regPhase = "written" /\ reg' = reg /\ regMeta' = regMeta /\ regGiven' = regGiven
      /\ regNewer' = regNewer
  BY DEF ReadMeta
<1>3. regPhase' \in {"read", "astray"}
  BY DEF ReadMeta
<1>4. RegTypeOK' /\ ProfilesTogether'
  BY <1>1, <1>2, <1>3 DEF RegTypeOK, ProfilesTogether
<1>5. ASSUME RegistryFits' PROVE EntriesInStep' /\ RegistryReadsBack'
  <2>1. RegistryFits
    BY <1>2, <1>5 DEF RegistryFits
  <2>2. RegistryReadsBack' /\ regPhase' = "read"
    BY <2>1, EndReadsBack
  <2> QED
    BY <2>2 DEF EntriesInStep
<1> QED
  BY <1>3, <1>4, <1>5 DEF RegInv

\* The registry at the start.
LEMMA RegStarts == RegInit => RegInv
<1> SUFFICES ASSUME RegInit PROVE RegInv
  OBVIOUS
<1>1. RegTypeOK
  BY DEF RegInit, RegTypeOK, NoEntries
<1>2. ProfilesTogether
  BY DEF RegInit, ProfilesTogether, NoEntries
<1> QED
  BY <1>1, <1>2 DEF RegInit, RegInv, EntriesInStep, RegistryReadsBack

\* A step that changes nothing.
LEMMA RegStutters == RegInv /\ UNCHANGED regVars => RegInv'
<1> SUFFICES ASSUME RegInv, UNCHANGED regVars PROVE RegInv'
  OBVIOUS
<1>1. /\ reg' = reg /\ regMeta' = regMeta /\ regGiven' = regGiven /\ regNewer' = regNewer
      /\ regCells' = regCells /\ regCur' = regCur /\ regRead' = regRead /\ regPhase' = regPhase
  BY DEF regVars
<1>2. RegTypeOK' /\ ProfilesTogether'
  BY <1>1 DEF RegInv, RegTypeOK, ProfilesTogether
<1>3. Entries' = Entries /\ \A n : ReadUpTo(n)' = ReadUpTo(n)
  BY <1>1, EntriesStay
<1>4. RegistryCells' = RegistryCells
  BY <1>3 DEF RegistryCells
<1>5. RegistryFits' <=> RegistryFits
  BY <1>1 DEF RegistryFits
<1>6. EntriesInStep => EntriesInStep'
  BY <1>1, <1>3 DEF EntriesInStep
<1>7. RegistryReadsBack => RegistryReadsBack'
  BY <1>1, <1>5 DEF RegistryReadsBack, Kept
<1> QED
  BY <1>1, <1>2, <1>4, <1>5, <1>6, <1>7 DEF RegInv

\* Throughout, of a registry that fits, the reader stands between two entries
\* of the block and has read those before; what a client gave is typed, and the
\* profiles of a stream are together.
THEOREM RegInvariant == RegSpec => []RegInv
<1>1. RegInit => RegInv
  BY RegStarts
<1>2. RegInv /\ [RegNext]_regVars => RegInv'
  <2> SUFFICES ASSUME RegInv, [RegNext]_regVars PROVE RegInv'
    OBVIOUS
  <2>1. CASE AddSignal
    BY <2>1, DeclaredInv DEF AddSignal
  <2>2. CASE AddSchema(<<"U8", "U64">>)
    <3>1. <<"U8", "U64">> \in Seq(FieldTypes)
      BY DEF FieldTypes
    <3> QED
      BY <2>2, <3>1, DeclaredInv DEF AddSchema
  <2>3. ASSUME NEW values \in EnumValues, AddEnum(values) PROVE RegInv'
    <3>1. values \in Seq(Int)
      BY RegistryAssumption
    <3> QED
      BY <2>3, <3>1, DeclaredInv DEF AddEnum
  <2>4. ASSUME NEW codec \in StreamCodecs, AddStreamDecl(codec) PROVE RegInv'
    BY <2>4, AddStreamInv
  <2>5. ASSUME NEW s \in 1..Len(reg.streams),
               \/ \E codec \in StreamCodecs : SetCodec(s, codec)
               \/ SetInputs(s, <<1, 2>>)
               \/ \E profile \in Profiles : AddProfile(s, profile)
               \/ \E key \in MetaKeys, value \in MetaValues : \E base \in Bases(value) :
                    AddStreamMetadata(s, key, value, base)
        PROVE  RegInv'
    BY <2>5, SetStreamInv
  <2>6. ASSUME NEW key \in MetaKeys, NEW value \in MetaValues, NEW base \in Bases(value),
               AddMetadata(key, value, base)
        PROVE  RegInv'
    BY <2>6, AddMetadataInv
  <2>7. CASE WriteRegistry
    BY <2>7, WriteRegistryInv
  <2>8. CASE ReadEntry
    BY <2>8, ReadEntryInv
  <2>9. CASE ReadMeta
    BY <2>9, ReadMetaInv
  <2>10. CASE UNCHANGED regVars
    BY <2>10, RegStutters
  <2> QED
    BY <2>1, <2>2, <2>3, <2>4, <2>5, <2>6, <2>7, <2>8, <2>9, <2>10 DEF RegNext
<1> QED
  BY <1>1, <1>2, PTL DEF RegSpec

\* Every entry and every attribute reads back as it was written, for any number
\* of entries of each kind (TypeRegistry.decode_block, MetaBlock.read_block).
THEOREM RegistryReadBack == RegSpec => []RegistryReadsBack
<1>1. RegInv => RegistryReadsBack
  BY DEF RegInv, RegistryReadsBack
<1> QED
  BY <1>1, RegInvariant, PTL

\* A reader lists the profiles that were added to a stream, in their order
\* (TrlReader.profiles).
THEOREM ProfilesThroughout == RegSpec => []ProfilesListed
<1>1. RegInv => ProfilesListed
  <2> SUFFICES ASSUME RegInv, regPhase = "read", RegistryFits,
                      NEW s \in 1..Len(reg.streams), ~regGiven[s].otherwise
               PROVE  ProfilesOf(s) = regGiven[s].profiles
    BY DEF ProfilesListed
  <2>1. PICK x, given, md : x = reg.streams[s] /\ given = regGiven[s] /\ md = x.metadata
    OBVIOUS
  <2>2. regRead.reg.streams[s] = Kept(x)
    BY <2>1 DEF RegInv, RegistryReadsBack, RegTypeOK
  <2>3. Kept(x).metadata = md
    <3>1. x \in Stream
      BY <2>1 DEF RegInv, RegTypeOK
    <3> QED
      BY <2>1, <3>1 DEF Kept, Stream
  <2>4. Together(md, given)
    BY <2>1, TogetherIs DEF RegInv
  <2>5. PICK dict : dict = ToDict(md)
    OBVIOUS
  <2>6. ProfilesOf(s) = IF ProfileKey \in DOMAIN dict THEN dict[ProfileKey].vals ELSE << >>
    BY <2>2, <2>3, <2>5 DEF ProfilesOf
  <2>7. /\ DOMAIN dict = {md[k].key : k \in 1..Len(md)}
        /\ ProfileKey \in DOMAIN dict => dict[ProfileKey] = md[Max(ListsIn(md))]
    BY <2>5 DEF ToDict, ListsIn
  <2>8. CASE given.profiles = << >>
    <3>1. ListsIn(md) = {}
      BY <2>1, <2>4, <2>8 DEF Together
    <3>2. ProfileKey \notin DOMAIN dict
      BY <2>7, <3>1 DEF ListsIn
    <3> QED
      BY <2>1, <2>6, <2>8, <3>2
  <2>9. CASE given.profiles # << >>
    <3>1. PICK k \in 1..Len(md) : ListsIn(md) = {k} /\ md[k].vals = given.profiles
      BY <2>1, <2>4, <2>9 DEF Together
    <3>2. Max({k}) = k
      <4>1. \E j \in {k} : \A i \in {k} : j >= i
        OBVIOUS
      <4>2. Max({k}) \in {k}
        BY <4>1 DEF Max
      <4> QED
        BY <4>2
    <3>3. ProfileKey \in DOMAIN dict
      BY <2>7, <3>1 DEF ListsIn
    <3> QED
      BY <2>1, <2>6, <2>7, <3>1, <3>2, <3>3
  <2> QED
    BY <2>8, <2>9
<1> QED
  BY <1>1, RegInvariant, PTL
=============================================================================
